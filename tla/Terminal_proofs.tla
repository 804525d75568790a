-------------------------- MODULE Terminal_proofs --------------------------
(***************************************************************************)
(* Theorems about Terminal, for any sections, findings, faults, keys and   *)
(* bounds.                                                                 *)
(***************************************************************************)
EXTENDS Terminal, SequenceTheorems, TLAPS

-----------------------------------------------------------------------------
(* The invariant.                                                          *)

EngineTypes ==
  [run : Runs, stopped : BOOLEAN, reason : BOOLEAN, todo : SUBSET Items,
   alive : SUBSET Sections, completed : SUBSET Sections, failed : SUBSET Sections]

\* An event on its way is of the current run, unless it is the late one of a
\* superseded forwarder or was left in the channel.
EventsInv ==
  /\ queue \in Events \cup {Nothing} /\ held \in Events \cup {Nothing}
  /\ late \in Events \cup {Nothing}
  /\ chan \in Seq(Events) /\ Len(chan) <= ChannelCap
  /\ queue # Nothing => queue.gen = engine.run
  /\ held # Nothing => held.gen = engine.run
  /\ late # Nothing => late.gen < engine.run
  /\ \A k \in 1..Len(chan) : chan[k].gen <= engine.run

Modes == {"normal", "confirm", "cleanup", "report"}
Shown(g) == {Nothing} \cup [run : {g}, labelled : BOOLEAN]

\* A sound state shows items of its own run only.
StateTypes ==
  [run : Runs, item : [Items -> {Nothing} \cup [run : Runs, labelled : BOOLEAN]],
   status : [Sections -> Statuses], cancelled : BOOLEAN, limit : BOOLEAN,
   mode : Modes]
Sound(ss) == ss \in StateTypes /\ ss.item \in [Items -> Shown(ss.run)]

AppInv == Sound(app) /\ engine \in EngineTypes /\ app.run = engine.run

\* What was asked for is answered before the loop looks again, a refusal to
\* retain before it does anything else; an execution that was confirmed has
\* left the overlay of a cleanup.
LoopTypes ==
  [at : {"look", "judge", "select", "correlate", "stop", "begin"},
   asked : {Nothing, "cancel", "rescan", "execute"}, correlated : BOOLEAN,
   cleaning : BOOLEAN, changed : BOOLEAN]
LoopInv ==
  /\ loop \in LoopTypes
  /\ loop.at \in {"look", "judge", "select"} => loop.asked = Nothing
  /\ loop.at = "begin" => loop.asked \in {"rescan", "execute"}
  /\ loop.asked = "execute" => app.mode = "cleanup"
  /\ loop.cleaning = (app.mode = "cleanup" /\ loop.asked # "execute")
  /\ app.limit => loop.at \in {"correlate", "stop"}

\* The metadata that is about to be judged is of the current run, and what
\* it says of success or of a stop still holds.
SeenInv ==
  loop.at = "judge" =>
    /\ seen.run = engine.run
    /\ seen.completed \subseteq engine.completed
    /\ seen.stopped => engine.stopped

EnrichInv == enrich \in [Runs -> (SUBSET Findings) \cup {Nothing}]

Basics == AppInv /\ EventsInv /\ LoopInv /\ SeenInv /\ EnrichInv

\* A cleanup says that it has executed, and then that it is finished, to a
\* loop that takes part in it.
ExecInv ==
  /\ batch \in {"none", "running", "executed"}
  /\ exec \in {<<>>, <<"executed">>, <<"finished">>, <<"executed", "finished">>}
  /\ batch = "running" => exec = <<>>
  /\ batch = "executed" => exec \in {<<>>, <<"executed">>}
  /\ batch # "none" \/ exec # <<>> => loop.cleaning

\* While what is shown is stale, the cleanup that made it so has yet to say
\* it, or the loop remembers it, or a rescan has been asked for.
StaleInv ==
  stale => \/ loop.asked = "rescan"
           \/ loop.cleaning /\ loop.changed
           \/ loop.cleaning /\ exec # <<>> /\ Head(exec) = "executed"

CleanupInv == ExecInv /\ StaleInv

\* State a shows an item, or it is among the first n events of channel q.
Arrived(a, q, i, n) ==
  \/ a.item[i] # Nothing
  \/ \E j \in 1..n : q[j].gen = a.run /\ q[j].item = i

\* All that section s of engine e sent has.
AllArrived(a, e, q, s, n) == \A i \in ItemsOf(s) : i \notin e.todo /\ Arrived(a, q, i, n)

Carries(ev, i) == ev # Nothing /\ ev.item = i
Succeeds(ev) == ev # Nothing /\ IsEnd(ev) /\ ev.ok

\* An end overtakes nothing, at any place between the worker and the screen.
InOrder ==
  /\ \A i \in Items : \/ i \in engine.todo \/ Arrived(app, chan, i, Len(chan))
                      \/ Carries(held, i) \/ Carries(queue, i)
  /\ Succeeds(queue) => ItemsOf(queue.sec) \cap engine.todo = {}
  /\ Succeeds(held) => AllArrived(app, engine, chan, held.sec, Len(chan))
  /\ \A k \in 1..Len(chan) :
       chan[k].gen = app.run /\ Succeeds(chan[k]) =>
         AllArrived(app, engine, chan, chan[k].sec, k - 1)
  /\ \A s \in engine.completed : AllArrived(app, engine, chan, s, Len(chan))

WholeInv ==
  /\ ~engine.stopped /\ ~app.limit => InOrder
  /\ DoneIsWhole

Inv == Basics /\ CleanupInv /\ WholeInv
-----------------------------------------------------------------------------
(* The reducer.                                                            *)

\* Nothing that was shown is lost, and nothing becomes done.
Keeps(ss, t) ==
  /\ Sound(t) /\ t.run = ss.run /\ t.mode = ss.mode
  /\ \A i \in Items : ss.item[i] # Nothing => t.item[i] # Nothing
NoSuccess(ss, t) == \A s \in Sections : t.status[s] = "Done" => ss.status[s] = "Done"

\* Items were kept or refused.
Takes(ss, kept, refused, t) ==
  /\ Keeps(ss, t) /\ NoSuccess(ss, t)
  /\ t.limit = (ss.limit \/ refused # {})
  /\ \A i \in kept : t.item[i] # Nothing

LEMMA UpsertedKeeps ==
  ASSUME NEW ss, Sound(ss), NEW kept \in SUBSET Items, NEW refused \in SUBSET Items,
         NEW isLabelled \in BOOLEAN, NEW t,
         t = Upserted(ss, ss.run, kept, refused, isLabelled)
  PROVE  Takes(ss, kept, refused, t)
<1> DEFINE failed == {s \in Sections : refused \cap ItemsOf(s) # {}}
           item == [i \in Items |-> IF i \in kept THEN Retained(ss.run, isLabelled)
                                    ELSE ss.item[i]]
           status == [s \in Sections |-> IF s \in failed THEN "Failed" ELSE ss.status[s]]
<1>1. ss \in StateTypes /\ ss.item \in [Items -> Shown(ss.run)]
  BY DEF Sound
<1>2. Retained(ss.run, isLabelled) \in [run : {ss.run}, labelled : BOOLEAN]
  BY DEF Retained
<1>3. Retained(ss.run, isLabelled) # Nothing /\ ss.run \in Runs
  BY <1>1, <1>2, NothingAssumption DEF NothingAssumption, StateTypes
<1>4. /\ item \in [Items -> Shown(ss.run)]
      /\ \A i \in Items : i \in kept \/ ss.item[i] # Nothing => item[i] # Nothing
  BY <1>1, <1>2, <1>3 DEF Shown
<1>5. /\ status \in [Sections -> Statuses]
      /\ \A s \in Sections : status[s] = "Done" => ss.status[s] = "Done"
  BY <1>1 DEF StateTypes, Statuses
<1> HIDE DEF failed
<1>6. t = [ss EXCEPT !.item = item, !.limit = ss.limit \/ refused # {},
                     !.status = status]
  BY <1>1 DEF Upserted, StateTypes, failed
<1> HIDE DEF item, status
<1>7. /\ t.item = item /\ t.status = status /\ t.limit = (ss.limit \/ refused # {})
      /\ t.run = ss.run /\ t.mode = ss.mode /\ t.cancelled = ss.cancelled
  BY <1>1, <1>6 DEF StateTypes
<1>8. item \in [Items -> {Nothing} \cup [run : Runs, labelled : BOOLEAN]]
  BY <1>3, <1>4 DEF Shown
<1>9. t \in StateTypes
  BY <1>1, <1>5, <1>6, <1>8 DEF StateTypes
<1>10. Keeps(ss, t)
  BY <1>4, <1>7, <1>9 DEF Keeps, Sound
<1>11. NoSuccess(ss, t)
  BY <1>5, <1>7 DEF NoSuccess
<1>12. \A i \in kept : t.item[i] # Nothing
  BY <1>4, <1>7
<1> QED BY <1>7, <1>10, <1>11, <1>12 DEF Takes

\* An item of the run is shown or its memory is refused; only the event that
\* says so makes a section done.
LEMMA AppliedKeeps ==
  ASSUME NEW ss, Sound(ss), NEW ev \in Events, NEW t \in Applied(ss, ev)
  PROVE  /\ Keeps(ss, t) /\ (ss.limit => t.limit)
         /\ \A s \in Sections : t.status[s] = "Done" =>
              ss.status[s] = "Done" \/ (ev.gen = ss.run /\ Succeeds(ev) /\ s = ev.sec)
         /\ ev.gen = ss.run /\ ~IsEnd(ev) => t.limit \/ t.item[ev.item] # Nothing
<1>1. ss \in StateTypes
  BY DEF Sound
<1>2. CASE ~Expected(ss, ev.gen) \/ (ss.cancelled /\ IsEnd(ev) /\ ev.ok)
  <2>1. t = ss
    BY <1>2 DEF Applied
  <2> QED BY <1>2, <2>1 DEF Keeps, Expected
<1>3. CASE Expected(ss, ev.gen) /\ IsEnd(ev) /\ (ev.ok => ~ss.cancelled)
  <2> DEFINE v == IF ev.ok THEN "Done" ELSE "Failed"
  <2>1. t = [ss EXCEPT !.status[ev.sec] = v] /\ v \in Statuses
    BY <1>3 DEF Applied, Statuses
  <2>2. ev.sec \in Sections /\ ev.ok \in BOOLEAN
    BY DEF Events
  <2>3. v = "Done" => ev.ok
    BY <2>2
  <2> HIDE DEF v
  <2>4. /\ t.run = ss.run /\ t.mode = ss.mode /\ t.item = ss.item
        /\ t.limit = ss.limit
        /\ t.status = [ss.status EXCEPT ![ev.sec] = v]
    BY <1>1, <2>1 DEF StateTypes
  <2>5. t.status \in [Sections -> Statuses]
    BY <1>1, <2>1, <2>4 DEF StateTypes
  <2>6. t \in StateTypes
    BY <1>1, <2>1, <2>5 DEF StateTypes
  <2>7. \A s \in Sections : t.status[s] = "Done" => ss.status[s] = "Done" \/ (ev.ok /\ s = ev.sec)
    BY <1>1, <2>3, <2>4 DEF StateTypes
  <2>8. ev # Nothing
    BY EventAssumption
  <2> QED BY <1>3, <2>4, <2>6, <2>7, <2>8 DEF Keeps, Sound, Expected, Succeeds
<1>4. CASE Expected(ss, ev.gen) /\ ~IsEnd(ev)
  <2>1. PICK kept \in Retainable({ev.item}) :
          t = Upserted(ss, ss.run, kept, {ev.item} \ kept, FALSE)
    BY <1>4 DEF Applied, Expected
  <2>2. ev.item \in Items
    BY <1>4 DEF Events, IsEnd
  <2> DEFINE refused == {ev.item} \ kept
             b == FALSE
  <2>0. t = Upserted(ss, ss.run, kept, refused, b)
    BY <2>1
  <2>3. kept \in SUBSET Items /\ refused \in SUBSET Items
    BY <2>2 DEF Retainable
  <2>4. ev.item \in kept \/ refused # {}
    OBVIOUS
  <2>5. b \in BOOLEAN
    OBVIOUS
  <2> HIDE DEF refused, b
  <2>6. Takes(ss, kept, refused, t)
    BY <2>0, <2>3, <2>5, UpsertedKeeps
  <2> QED BY <2>4, <2>6 DEF Takes, NoSuccess
<1> QED BY <1>2, <1>3, <1>4

LEMMA EnrichedKeeps ==
  ASSUME NEW ss, Sound(ss), NEW g, NEW rows \in SUBSET Findings,
         NEW t \in Enriched(ss, g, rows)
  PROVE  Keeps(ss, t) /\ NoSuccess(ss, t) /\ (ss.limit => t.limit)
<1>1. CASE t = ss
  BY <1>1 DEF Keeps, NoSuccess
<1>2. CASE \E kept \in Retainable(rows) :
             t = Upserted(ss, ss.run, kept, rows \ kept, TRUE)
  <2>1. PICK kept \in Retainable(rows) : t = Upserted(ss, ss.run, kept, rows \ kept, TRUE)
    BY <1>2
  <2> DEFINE refused == rows \ kept
             b == TRUE
  <2>0. t = Upserted(ss, ss.run, kept, refused, b)
    BY <2>1
  <2>2. kept \in SUBSET Items /\ refused \in SUBSET Items
    BY DEF Retainable, Items
  <2>3. b \in BOOLEAN
    OBVIOUS
  <2> HIDE DEF refused, b
  <2>4. Takes(ss, kept, refused, t)
    BY <2>0, <2>2, <2>3, UpsertedKeeps
  <2> QED BY <2>4 DEF Takes
<1>3. CASE ss.cancelled \/ ~Expected(ss, g)
  <2>1. t = ss
    BY <1>3 DEF Enriched
  <2> QED BY <1>1, <2>1
<1>4. CASE ~(ss.cancelled \/ ~Expected(ss, g))
  BY <1>2, <1>4 DEF Enriched, Expected
<1> QED BY <1>3, <1>4

LEMMA CancelledKeeps ==
  ASSUME NEW ss, Sound(ss)
  PROVE  Keeps(ss, Cancelled(ss)) /\ NoSuccess(ss, Cancelled(ss)) /\ ~Cancelled(ss).limit
<1> DEFINE t == Cancelled(ss)
<1>1. ss \in StateTypes
  BY DEF Sound
<1>2. t \in StateTypes
  BY <1>1 DEF Cancelled, StateTypes, Statuses
<1>3. /\ t.run = ss.run /\ t.mode = ss.mode /\ t.item = ss.item /\ t.limit = FALSE
      /\ \A s \in Sections : t.status[s] = "Done" => ss.status[s] = "Done"
  BY <1>1 DEF Cancelled, StateTypes
<1> QED BY <1>2, <1>3 DEF Keeps, NoSuccess, Sound

\* The metadata makes a section done only if it records its success.
LEMMA ReconciledKeeps ==
  ASSUME NEW ss, Sound(ss), NEW e
  PROVE  LET t == Reconciled(ss, e)
         IN  /\ Keeps(ss, t) /\ t.item = ss.item /\ t.limit = ss.limit
             /\ \A s \in Sections : t.status[s] = "Done" =>
                  ss.status[s] = "Done" \/ s \in e.completed
<1> DEFINE t == Reconciled(ss, e)
           cut == ss.cancelled \/ e.reason
           verdict(s) ==
             CASE Over(ss.status[s]) \/ ~Settled(e, s) -> ss.status[s]
               [] ~Over(ss.status[s]) /\ Settled(e, s) ->
                    IF s \in e.completed \ e.failed THEN "Done" ELSE "Failed"
<1>1. ss \in StateTypes
  BY DEF Sound
<1>2. CASE t = ss
  BY <1>2 DEF Keeps
<1>3. CASE t = [ss EXCEPT !.cancelled = cut, !.status = [s \in Sections |-> verdict(s)]]
  <2>1. \A s \in Sections : /\ verdict(s) \in Statuses
                            /\ verdict(s) = "Done" =>
                                 ss.status[s] = "Done" \/ s \in e.completed
    BY <1>1 DEF Over, Statuses, StateTypes
  <2>0. cut \in BOOLEAN
    OBVIOUS
  <2> HIDE DEF verdict, cut
  <2>2. t \in StateTypes
    <3> DEFINE status == [s \in Sections |-> verdict(s)]
    <3>1. status \in [Sections -> Statuses]
      BY <2>1
    <3>2. t = [ss EXCEPT !.cancelled = cut, !.status = status]
      BY <1>3
    <3> HIDE DEF status, t
    <3> QED BY <1>1, <2>0, <3>1, <3>2 DEF StateTypes
  <2>3. /\ t.run = ss.run /\ t.mode = ss.mode /\ t.item = ss.item /\ t.limit = ss.limit
        /\ \A s \in Sections : t.status[s] = verdict(s)
    BY <1>1, <1>3 DEF StateTypes
  <2>4. Keeps(ss, t)
    BY <2>2, <2>3 DEF Keeps, Sound
  <2> QED BY <2>1, <2>3, <2>4
<1> QED BY <1>2, <1>3 DEF Reconciled

LEMMA BegunIsSound ==
  ASSUME NEW g \in Runs, NEW mode \in Modes
  PROVE  LET t == Begun(g, mode)
         IN  /\ Sound(t) /\ t.run = g /\ ~t.limit
             /\ t.mode = IF mode = "confirm" THEN "normal" ELSE mode
             /\ \A s \in Sections : t.status[s] # "Done"
<1> DEFINE t == Begun(g, mode)
<1>1. t \in StateTypes
  BY DEF Begun, StateTypes, Modes, Statuses
<1>2. t.item \in [Items -> Shown(g)]
  BY DEF Begun, Shown
<1> QED BY <1>1, <1>2 DEF Begun, Sound
-----------------------------------------------------------------------------
(* Types, and what the loop knows.                                         *)

LEMMA TailOne ==
  ASSUME NEW S, NEW q \in Seq(S), q # <<>>
  PROVE  /\ Head(q) \in S /\ Head(q) = q[1] /\ Tail(q) \in Seq(S)
         /\ Len(q) \in Nat /\ Len(q) > 0 /\ Len(Tail(q)) = Len(q) - 1
         /\ \A k \in 1..Len(q) : q[k] \in S
         /\ \A k \in 1..(Len(q) - 1) : Tail(q)[k] = q[k + 1]
OBVIOUS

LEMMA AppendOne ==
  ASSUME NEW S, NEW q \in Seq(S), NEW e \in S
  PROVE  /\ Append(q, e) \in Seq(S) /\ Len(q) \in Nat
         /\ Len(Append(q, e)) = Len(q) + 1
         /\ \A k \in 1..Len(q) : Append(q, e)[k] = q[k]
         /\ Append(q, e)[Len(q) + 1] = e
OBVIOUS

\* Within a run nothing recorded of success is lost, and a stop is for good.
Goes(e, f) ==
  /\ f \in EngineTypes /\ f.run = e.run
  /\ e.completed \subseteq f.completed /\ (e.stopped => f.stopped)

LEMMA StopGoes ==
  ASSUME NEW e \in EngineTypes
  PROVE  /\ Goes(e, Halted(e)) /\ Goes(e, CalledOff(e))
         /\ Halted(e).stopped /\ CalledOff(e).stopped
<1>1. (e.reason \/ Ended(e) # Sections) \in BOOLEAN
  OBVIOUS
<1> DEFINE reason == e.reason \/ Ended(e) # Sections
<1> HIDE DEF reason
<1>2. CalledOff(e) = [e EXCEPT !.stopped = TRUE, !.reason = reason]
  BY DEF CalledOff, EngineTypes, reason
<1>3. reason \in BOOLEAN
  BY <1>1 DEF reason
<1> QED BY <1>2, <1>3 DEF Goes, Halted, EngineTypes

\* The current run sends, records and publishes events of its own.
LEMMA EngineGoes ==
  ASSUME Basics, EngineSteps
  PROVE  Goes(engine, engine') /\ EventsInv'
<1> USE DEF Basics, AppInv
<1>0. engine \in EngineTypes /\ engine.run \in Runs /\ Nothing \notin Events /\ engine.run \in Nat
  BY EventAssumption, FeedAssumption DEF EngineTypes, Runs, FeedAssumption
<1>1. ASSUME NEW s \in Sections, Work(s) PROVE Goes(engine, engine') /\ EventsInv'
  <2>1. Send(s)
    BY <1>1 DEF Work
  <2>2. Goes(engine, engine')
    BY <1>0, <2>1 DEF Send, Goes, EngineTypes
  <2>3. queue' \in Events /\ queue'.gen = engine.run
    <3>1. CASE \E i \in ItemsOf(s) \cap engine.todo : queue' = Event(engine.run, s, i, TRUE)
      BY <1>0, <3>1 DEF Event, Events, EngineTypes
    <3>2. CASE \E ok \in BOOLEAN : queue' = Event(engine.run, s, Nothing, ok)
      BY <1>0, <3>2 DEF Event, Events
    <3> QED BY <2>1, <3>1, <3>2 DEF Send
  <2>4. UNCHANGED <<held, late, chan>> /\ engine'.run = engine.run
    BY <2>1, <2>2 DEF Send, Goes
  <2> QED BY <2>2, <2>3, <2>4 DEF EventsInv
<1>2. CASE Forward
  <2>1. /\ queue \in Events /\ queue.gen = engine.run /\ queue.sec \in Sections
        /\ queue' = Nothing /\ UNCHANGED <<late, chan>>
    BY <1>2 DEF Forward, Record, EventsInv, Events
  <2>2. Goes(engine, engine') /\ held' \in Events /\ held'.gen = engine.run
    <3>1. CASE engine' = Recorded(engine, queue) /\ held' = queue
      <4>1. CASE IsEnd(queue) /\ queue.ok
        BY <1>0, <2>1, <3>1, <4>1 DEF Recorded, Goes, EngineTypes
      <4>2. CASE IsEnd(queue) /\ ~queue.ok
        BY <1>0, <2>1, <3>1, <4>2 DEF Recorded, Goes, EngineTypes
      <4>3. CASE ~IsEnd(queue)
        BY <1>0, <2>1, <3>1, <4>3 DEF Recorded, Goes
      <4> QED BY <4>1, <4>2, <4>3
    <3>2. CASE engine' = [engine EXCEPT !.reason = TRUE] /\ held' = queue
      BY <1>0, <2>1, <3>2 DEF Goes, EngineTypes
    <3>3. CASE /\ engine' = Halted(engine)
               /\ held' = Event(queue.gen, queue.sec, Nothing, FALSE)
      BY <1>0, <2>1, <3>3, StopGoes DEF Event, Events
    <3> QED BY <1>2, <3>1, <3>2, <3>3 DEF Forward, Record
  <2>3. engine'.run = engine.run
    BY <2>2 DEF Goes
  <2> QED BY <2>1, <2>2, <2>3 DEF EventsInv
<1>3. ASSUME NEW ev \in Events, ev.gen <= engine.run,
             \/ Room /\ chan' = Append(chan, ev)
             \/ UNCHANGED chan
      PROVE  /\ chan' \in Seq(Events) /\ Len(chan') <= ChannelCap
             /\ \A k \in 1..Len(chan') : chan'[k].gen <= engine.run
  <2>1. CASE Room /\ chan' = Append(chan, ev)
    <3>1. /\ chan \in Seq(Events) /\ Len(chan) < ChannelCap
          /\ \A k \in 1..Len(chan) : chan[k].gen <= engine.run
      BY <2>1 DEF EventsInv, Room
    <3>2. /\ Append(chan, ev) \in Seq(Events) /\ Len(chan) \in Nat
          /\ Len(Append(chan, ev)) = Len(chan) + 1
          /\ \A k \in 1..Len(chan) : Append(chan, ev)[k] = chan[k]
          /\ Append(chan, ev)[Len(chan) + 1] = ev
      BY <1>3, <3>1, AppendOne
    <3>3. Len(chan') <= ChannelCap
      BY <2>1, <3>1, <3>2, FeedAssumption DEF FeedAssumption
    <3>4. ASSUME NEW k \in 1..Len(chan') PROVE chan'[k].gen <= engine.run
      BY <1>3, <2>1, <3>1, <3>2
    <3> QED BY <2>1, <3>2, <3>3, <3>4
  <2>2. CASE UNCHANGED chan
    BY <2>2 DEF EventsInv
  <2> QED BY <1>3, <2>1, <2>2
<1>4. CASE Publish
  <2>1. /\ held \in Events /\ held.gen <= engine.run /\ held' = Nothing
        /\ UNCHANGED <<engine, queue, late>>
        /\ (Room /\ chan' = Append(chan, held)) \/ UNCHANGED chan
    BY <1>0, <1>4 DEF Publish, Deliver, EventsInv
  <2>2. Goes(engine, engine')
    BY <1>0, <2>1 DEF Goes
  <2>3. /\ chan' \in Seq(Events) /\ Len(chan') <= ChannelCap
        /\ \A k \in 1..Len(chan') : chan'[k].gen <= engine.run
    BY <1>3, <2>1
  <2> QED BY <2>1, <2>2, <2>3 DEF EventsInv
<1>5. CASE PublishLate
  <2>1. /\ late \in Events /\ late.gen < engine.run /\ late' = Nothing
        /\ UNCHANGED <<engine, queue, held>>
        /\ (Room /\ chan' = Append(chan, late)) \/ UNCHANGED chan
    BY <1>5 DEF PublishLate, DeliverLate, EventsInv
  <2>2. Goes(engine, engine')
    BY <1>0, <2>1 DEF Goes
  <2>3. late.gen <= engine.run
    BY <1>0, <2>1 DEF Events, Runs
  <2>4. /\ chan' \in Seq(Events) /\ Len(chan') <= ChannelCap
        /\ \A k \in 1..Len(chan') : chan'[k].gen <= engine.run
    BY <1>3, <2>1, <2>3
  <2> QED BY <2>1, <2>2, <2>4 DEF EventsInv
<1> QED BY <1>1, <1>2, <1>4, <1>5 DEF EngineSteps
LEMMA BasicsInit ==
  ASSUME Init
  PROVE  Basics
<1>1. 1 \in Runs /\ Nothing \notin {"cancel", "rescan", "execute"}
  BY FeedAssumption, TerminalAssumption, NothingAssumption
    DEF FeedAssumption, TerminalAssumption, NothingAssumption, Runs
<1>2. /\ engine = NewEngine(1) /\ app = Begun(1, "normal")
      /\ queue = Nothing /\ held = Nothing /\ late = Nothing /\ chan = <<>>
      /\ loop = [at |-> "look", asked |-> Nothing, correlated |-> FALSE,
                 cleaning |-> FALSE, changed |-> FALSE]
  BY DEF Init, FeedInit
<1>3. "normal" \in Modes
  BY DEF Modes
<1>4. Sound(app) /\ app.run = 1 /\ ~app.limit /\ app.mode = "normal"
  BY <1>1, <1>2, <1>3, BegunIsSound
<1>5. AppInv
  BY <1>1, <1>2, <1>4 DEF AppInv, EngineTypes, NewEngine
<1>6. EventsInv
  BY <1>2, FeedAssumption DEF EventsInv, FeedAssumption
<1>7. LoopInv
  BY <1>1, <1>2, <1>4 DEF LoopInv, LoopTypes
<1>8. SeenInv /\ EnrichInv
  BY <1>2 DEF SeenInv, EnrichInv, Init
<1> QED BY <1>5, <1>6, <1>7, <1>8 DEF Basics

\* Steps of the loop that leave the feed alone.
LEMMA FeedRests ==
  ASSUME Basics, UNCHANGED feed
  PROVE  EventsInv' /\ engine' \in EngineTypes /\ engine'.run = engine.run
BY DEF Basics, EventsInv, AppInv, feed, inbound

\* What a step does to the state, in one of the runs it may leave it in.
LEMMA AppGoes ==
  ASSUME Basics, EventsInv', engine' \in EngineTypes, Sound(app'),
         app'.run = engine'.run
  PROVE  AppInv' /\ EventsInv'
BY DEF AppInv

LEMMA LookBasics ==
  ASSUME Basics, Look
  PROVE  Basics'
<1>1. EventsInv' /\ engine' \in EngineTypes /\ UNCHANGED <<engine, app, enrich>>
  BY FeedRests DEF Look, feed
<1>2. LoopInv'
  BY <1>1 DEF Basics, LoopInv, LoopTypes, Look, At
<1>3. SeenInv' /\ EnrichInv' /\ AppInv'
  BY <1>1 DEF SeenInv, EnrichInv, AppInv, Look, Basics
<1> QED BY <1>1, <1>2, <1>3 DEF Basics

LEMMA JudgeBasics ==
  ASSUME Basics, Judge
  PROVE  Basics' /\ Keeps(app, app') /\ app'.item = app.item /\ app'.limit = app.limit
<1>1. EventsInv' /\ engine' \in EngineTypes /\ UNCHANGED <<engine, enrich>>
  BY FeedRests DEF Judge, feed
<1>2. Keeps(app, app') /\ app'.item = app.item /\ app'.limit = app.limit
  <2>1. CASE app' = app
    BY <2>1 DEF Keeps, Basics, AppInv
  <2>2. CASE app' = Reconciled(app, seen)
    BY <2>2, ReconciledKeeps DEF Basics, AppInv
  <2> QED BY <2>1, <2>2 DEF Judge
<1>3. LoopInv'
  BY <1>2 DEF Basics, LoopInv, LoopTypes, Judge, At, Keeps
<1>4. SeenInv'
  <2>1. loop'.at = "select"
    BY DEF Judge, At, Basics, LoopInv, LoopTypes
  <2> QED BY <2>1 DEF SeenInv
<1>6. EnrichInv'
  BY <1>1 DEF EnrichInv, Basics
<1>5. AppInv'
  BY <1>1, <1>2 DEF AppInv, Basics, Keeps
<1> QED BY <1>1, <1>2, <1>3, <1>4, <1>5, <1>6 DEF Basics

\* At select, nothing has been asked for, and no refusal waits.
LEMMA AtSelect ==
  ASSUME Basics, loop.at = "select"
  PROVE  /\ loop.asked = Nothing /\ ~app.limit
         /\ loop.cleaning = (app.mode = "cleanup")
         /\ loop \in LoopTypes /\ Sound(app)
         /\ Nothing \notin {"cancel", "rescan", "execute"}
BY NothingAssumption DEF Basics, LoopInv, AppInv, NothingAssumption

LEMMA SelectBasics ==
  ASSUME Basics, loop.at = "select",
         Sound(app'), app'.run = app.run, engine' = engine, EventsInv', EnrichInv',
         loop' \in LoopTypes, loop'.at = "correlate",
         loop'.asked = "execute" => app'.mode = "cleanup",
         loop'.cleaning = (app'.mode = "cleanup" /\ loop'.asked # "execute")
  PROVE  Basics'
<1>1. AppInv'
  BY DEF AppInv, Basics
<1>2. LoopInv'
  BY DEF LoopInv
<1>3. SeenInv'
  BY DEF SeenInv
<1> QED BY <1>1, <1>2, <1>3 DEF Basics

LEMMA ReceiveBasics ==
  ASSUME Basics, Receive
  PROVE  Basics'
<1>1. /\ loop.at = "select" /\ loop' = [loop EXCEPT !.at = "correlate"]
      /\ chan # <<>> /\ chan' = Tail(chan) /\ app' \in Applied(app, Head(chan))
      /\ UNCHANGED <<engine, queue, held, late, enrich>>
  BY DEF Receive, At
<1>2. /\ chan \in Seq(Events) /\ Len(chan) <= ChannelCap /\ ChannelCap \in Nat
      /\ \A k \in 1..Len(chan) : chan[k].gen <= engine.run
  BY FeedAssumption DEF Basics, EventsInv, FeedAssumption
<1>3. /\ Head(chan) \in Events /\ Head(chan) = chan[1] /\ Tail(chan) \in Seq(Events)
      /\ Len(chan) \in Nat /\ Len(chan) > 0 /\ Len(Tail(chan)) = Len(chan) - 1
      /\ \A k \in 1..Len(chan) : chan[k] \in Events
      /\ \A k \in 1..(Len(chan) - 1) : Tail(chan)[k] = chan[k + 1]
  BY <1>1, <1>2, TailOne
<1>4. EventsInv'
  <2>1. ASSUME NEW k \in 1..Len(chan') PROVE chan'[k].gen <= engine'.run
    <3>1. k \in 1..(Len(chan) - 1) /\ k + 1 \in 1..Len(chan)
      BY <1>1, <1>3, <2>1
    <3> QED BY <1>1, <1>2, <1>3, <3>1
  <2>2. chan' \in Seq(Events) /\ Len(chan') <= ChannelCap
    BY <1>1, <1>2, <1>3
  <2> QED BY <1>1, <2>1, <2>2 DEF EventsInv, Basics
<1>5. Keeps(app, app')
  BY <1>1, <1>3, AtSelect, AppliedKeeps
<1>6. EnrichInv'
  BY <1>1 DEF Basics, EnrichInv
<1>7. /\ loop' \in LoopTypes /\ loop'.at = "correlate" /\ loop'.asked = Nothing
      /\ loop'.cleaning = loop.cleaning
  BY <1>1, AtSelect DEF LoopTypes
<1> QED BY <1>1, <1>4, <1>5, <1>6, <1>7, AtSelect, SelectBasics DEF Keeps

LEMMA ReceiveEnrichedBasics ==
  ASSUME Basics, NEW g \in Runs, ReceiveEnriched(g)
  PROVE  /\ Basics' /\ Keeps(app, app') /\ NoSuccess(app, app')
         /\ app.limit => app'.limit
<1>1. /\ loop.at = "select" /\ loop' = [loop EXCEPT !.at = "correlate"]
      /\ enrich[g] # Nothing /\ enrich' = [enrich EXCEPT ![g] = Nothing]
      /\ UNCHANGED feed
  BY DEF ReceiveEnriched, At
<1>2. PICK rows \in SUBSET enrich[g] : app' \in Enriched(app, g, rows)
  BY DEF ReceiveEnriched
<1>3. rows \in SUBSET Findings
  BY <1>1 DEF Basics, EnrichInv
<1>4. Keeps(app, app') /\ NoSuccess(app, app') /\ (app.limit => app'.limit)
  BY <1>1, <1>2, <1>3, AtSelect, EnrichedKeeps
<1>5. EnrichInv'
  BY <1>1 DEF Basics, EnrichInv
<1>6. EventsInv' /\ engine' = engine
  BY <1>1, FeedRests DEF feed
<1>7. /\ loop' \in LoopTypes /\ loop'.at = "correlate" /\ loop'.asked = Nothing
      /\ loop'.cleaning = loop.cleaning
  BY <1>1, AtSelect DEF LoopTypes
<1>8. Basics'
  BY <1>1, <1>4, <1>5, <1>6, <1>7, AtSelect, SelectBasics DEF Keeps
<1> QED BY <1>4, <1>8

\* Only the overlay changes.
SameButMode(ss, t) ==
  /\ t.item = ss.item /\ t.status = ss.status /\ t.run = ss.run
  /\ t.limit = ss.limit

LEMMA ModeOnly ==
  ASSUME NEW ss, Sound(ss), NEW mode \in Modes, NEW t, t = [ss EXCEPT !.mode = mode]
  PROVE  Sound(t) /\ SameButMode(ss, t) /\ t.mode = mode
BY DEF Sound, SameButMode, StateTypes

LEMMA ReceiveExecBasics ==
  ASSUME Basics, ReceiveExec
  PROVE  Basics' /\ SameButMode(app, app')
<1>1. loop.at = "select" /\ UNCHANGED <<feed, enrich>>
  BY DEF ReceiveExec
<1>2. EventsInv' /\ engine' = engine /\ EnrichInv'
  BY <1>1, FeedRests DEF feed, Basics, EnrichInv
<1>3. Changed(Head(exec)) \in BOOLEAN
  BY <1>1, AtSelect DEF Changed, LoopTypes
<1>4. CASE Head(exec) = "finished"
  <2>1. app' = [app EXCEPT !.mode = "report"] /\ "report" \in Modes
    BY <1>4 DEF ReceiveExec, Modes
  <2>2. Sound(app') /\ SameButMode(app, app') /\ app'.mode = "report"
    BY <1>1, <2>1, AtSelect, ModeOnly
  <2>3. PICK a \in {Nothing, "rescan"} :
          loop' = [loop EXCEPT !.at = "correlate", !.cleaning = FALSE,
                               !.changed = FALSE, !.asked = a]
    BY <1>1, <1>4, AtSelect DEF ReceiveExec
  <2>4. /\ loop' \in LoopTypes /\ loop'.at = "correlate" /\ loop'.asked = a
        /\ loop'.cleaning = FALSE
    BY <1>1, <2>3, AtSelect DEF LoopTypes
  <2> QED BY <1>1, <1>2, <2>2, <2>4, AtSelect, SelectBasics DEF SameButMode
<1>5. CASE Head(exec) # "finished"
  <2> DEFINE c == Changed(Head(exec))
  <2>1. loop' = [loop EXCEPT !.at = "correlate", !.changed = c] /\ app' = app
    BY <1>5 DEF ReceiveExec
  <2> HIDE DEF c
  <2>2. c \in BOOLEAN
    BY <1>3 DEF c
  <2>3. /\ loop' \in LoopTypes /\ loop'.at = "correlate" /\ loop'.asked = Nothing
        /\ loop'.cleaning = loop.cleaning
    BY <1>1, <2>1, <2>2, AtSelect DEF LoopTypes
  <2>4. Sound(app') /\ SameButMode(app, app')
    BY <1>1, <2>1, AtSelect DEF SameButMode
  <2> QED BY <1>1, <1>2, <2>1, <2>3, <2>4, AtSelect, SelectBasics DEF SameButMode
<1> QED BY <1>4, <1>5

LEMMA KeyBasics ==
  ASSUME Basics, Key
  PROVE  /\ Basics' /\ SameButMode(app, app') /\ ~loop.cleaning /\ ~loop'.cleaning
         /\ loop.at = "select"
<1>1. loop.at = "select" /\ UNCHANGED <<feed, enrich>>
  BY DEF Key
<1>2. EventsInv' /\ engine' = engine /\ EnrichInv'
  BY <1>1, FeedRests DEF feed, Basics, EnrichInv
<1>3. ASSUME NEW a \in {Nothing, "cancel", "rescan", "execute"}, Asks(a)
      PROVE  /\ loop' \in LoopTypes /\ loop'.at = "correlate" /\ loop'.asked = a
             /\ loop'.cleaning = loop.cleaning
  BY <1>1, <1>3, AtSelect DEF LoopTypes, Asks
<1>4. CASE app.mode = "normal" /\ (Asks("cancel") \/ Asks("rescan")) /\ app' = app
  <2>1. PICK a \in {"cancel", "rescan"} : Asks(a)
    BY <1>4
  <2>2. /\ loop' \in LoopTypes /\ loop'.at = "correlate" /\ loop'.asked = a
        /\ loop'.cleaning = loop.cleaning /\ loop.cleaning = FALSE
    BY <1>1, <1>3, <1>4, <2>1, AtSelect
  <2>3. Sound(app') /\ SameButMode(app, app')
    BY <1>1, <1>4, AtSelect DEF SameButMode
  <2> QED BY <1>1, <1>2, <1>4, <2>2, <2>3, AtSelect, SelectBasics DEF SameButMode
<1>5. CASE /\ app.mode \in {"normal", "confirm", "report"} /\ Asks(Nothing)
           /\ \E m \in {"normal", "confirm"} : app' = [app EXCEPT !.mode = m]
  <2>1. PICK m \in {"normal", "confirm"} : app' = [app EXCEPT !.mode = m]
    BY <1>5
  <2>2. m \in Modes
    BY DEF Modes
  <2>3. Sound(app') /\ SameButMode(app, app') /\ app'.mode = m
    BY <1>1, <2>1, <2>2, AtSelect, ModeOnly
  <2>4. /\ loop' \in LoopTypes /\ loop'.at = "correlate" /\ loop'.asked = Nothing
        /\ loop'.cleaning = loop.cleaning /\ loop.cleaning = FALSE
    BY <1>1, <1>3, <1>5, AtSelect
  <2> QED BY <1>1, <1>2, <2>3, <2>4, AtSelect, SelectBasics DEF SameButMode
<1>6. CASE /\ app.mode = "confirm" /\ Asks("execute")
           /\ app' = [app EXCEPT !.mode = "cleanup"]
  <2>1. "cleanup" \in Modes
    BY DEF Modes
  <2>2. Sound(app') /\ SameButMode(app, app') /\ app'.mode = "cleanup"
    BY <1>1, <1>6, <2>1, AtSelect, ModeOnly
  <2>3. /\ loop' \in LoopTypes /\ loop'.at = "correlate" /\ loop'.asked = "execute"
        /\ loop'.cleaning = loop.cleaning /\ loop.cleaning = FALSE
    BY <1>1, <1>3, <1>6, AtSelect
  <2> QED BY <1>1, <1>2, <2>2, <2>3, AtSelect, SelectBasics DEF SameButMode
<1> QED BY <1>4, <1>5, <1>6 DEF Key

LEMMA TickBasics ==
  ASSUME Basics, Tick
  PROVE  Basics'
<1>1. /\ loop.at = "select" /\ loop' = [loop EXCEPT !.at = "correlate"]
      /\ UNCHANGED <<feed, app, enrich>>
  BY DEF Tick, At
<1>2. EventsInv' /\ engine' = engine /\ EnrichInv'
  BY <1>1, FeedRests DEF feed, Basics, EnrichInv
<1>3. /\ loop' \in LoopTypes /\ loop'.at = "correlate" /\ loop'.asked = Nothing
      /\ loop'.cleaning = loop.cleaning
  BY <1>1, AtSelect DEF LoopTypes
<1> QED BY <1>1, <1>2, <1>3, AtSelect, SelectBasics
\* A step that serves what was asked for, in the same run.
LEMMA ServeBasics ==
  ASSUME Basics, Sound(app'), app'.run = app.run, Goes(engine, engine'),
         UNCHANGED inbound, EnrichInv', LoopInv', loop'.at # "judge"
  PROVE  Basics'
<1>1. AppInv'
  BY DEF AppInv, Basics, Goes
<1>2. EventsInv'
  BY DEF EventsInv, Basics, inbound, Goes
<1>3. SeenInv'
  BY DEF SeenInv
<1> QED BY <1>1, <1>2, <1>3 DEF Basics

LEMMA EngineRests ==
  ASSUME Basics, UNCHANGED engine
  PROVE  Goes(engine, engine')
BY DEF Basics, AppInv, Goes

LEMMA CorrelateBasics ==
  ASSUME Basics, Correlate
  PROVE  /\ Basics' /\ Keeps(app, app') /\ NoSuccess(app, app')
         /\ app.limit => app'.limit
<1>1. /\ loop.at = "correlate" /\ UNCHANGED <<engine, inbound>>
      /\ loop \in LoopTypes /\ Sound(app) /\ app.run \in Runs
  BY DEF Correlate, feed, Basics, AppInv, LoopInv, Sound, StateTypes
<1>2. Goes(engine, engine')
  BY <1>1, EngineRests
<1>3. CASE loop' = [loop EXCEPT !.at = "stop"] /\ UNCHANGED <<app, enrich>>
  <2>1. LoopInv'
    BY <1>1, <1>3 DEF Basics, LoopInv, LoopTypes
  <2>2. EnrichInv'
    BY <1>3 DEF Basics, EnrichInv
  <2>3. Keeps(app, app') /\ NoSuccess(app, app') /\ app'.limit = app.limit
    BY <1>1, <1>3 DEF Keeps, NoSuccess
  <2>4. loop'.at = "stop"
    BY <1>1, <1>3 DEF LoopTypes
  <2> QED BY <1>1, <1>2, <2>1, <2>2, <2>3, <2>4, ServeBasics DEF Keeps
<1>4. CASE CorrelationDue
  <2> DEFINE rows == CorrelatedRows(app)
             b == TRUE
  <2>0. b \in BOOLEAN /\ rows \in SUBSET Findings
    BY DEF CorrelatedRows
  <2>1. PICK kept \in Retainable(rows) :
          app' = Upserted(app, app.run, kept, rows \ kept, b)
    BY <1>4 DEF Correlate
  <2>2. /\ enrich' = IF Online THEN [enrich EXCEPT ![app.run] = rows] ELSE enrich
        /\ loop' = [loop EXCEPT !.at = "stop", !.correlated = TRUE]
    BY <1>4 DEF Correlate
  <2> HIDE DEF rows, b
  <2> DEFINE refused == rows \ kept
  <2>3. app' = Upserted(app, app.run, kept, refused, b)
    BY <2>1
  <2>4. kept \in SUBSET Items /\ refused \in SUBSET Items
    BY <2>0 DEF Retainable, Items
  <2> HIDE DEF refused
  <2>5. Takes(app, kept, refused, app')
    BY <1>1, <2>0, <2>3, <2>4, UpsertedKeeps
  <2>6. /\ Keeps(app, app') /\ NoSuccess(app, app')
        /\ app.limit => app'.limit
    BY <2>5 DEF Takes
  <2>7. EnrichInv'
    BY <1>1, <2>0, <2>2 DEF Basics, EnrichInv
  <2>8. LoopInv' /\ loop'.at = "stop"
    BY <1>1, <2>2, <2>6 DEF Basics, LoopInv, LoopTypes, Keeps
  <2> QED BY <1>1, <1>2, <2>6, <2>7, <2>8, ServeBasics DEF Keeps
<1> QED BY <1>3, <1>4 DEF Correlate

LEMMA StopScanBasics ==
  ASSUME Basics, StopScan
  PROVE  /\ Basics' /\ Keeps(app, app') /\ NoSuccess(app, app')
         /\ (UNCHANGED <<engine, app>> /\ ~app.limit) \/ engine'.stopped
<1>1. /\ loop.at = "stop" /\ UNCHANGED <<inbound, enrich>>
      /\ loop \in LoopTypes /\ Sound(app) /\ engine \in EngineTypes
  BY DEF StopScan, Basics, AppInv, LoopInv
<1>2. EnrichInv'
  BY <1>1 DEF Basics, EnrichInv
<1>3. /\ Keeps(app, app') /\ NoSuccess(app, app') /\ ~app'.limit
      /\ Goes(engine, engine')
      /\ (UNCHANGED <<engine, app>> /\ ~app.limit) \/ engine'.stopped
  <2>1. CASE app.limit \/ loop.asked = "cancel"
    <3>1. /\ app' = Cancelled(app)
          /\ engine' = Halted(engine) \/ engine' = CalledOff(engine)
      BY <2>1 DEF StopScan
    <3> QED BY <1>1, <3>1, StopGoes, CancelledKeeps
  <2>2. CASE ~(app.limit \/ loop.asked = "cancel")
    <3>1. UNCHANGED <<engine, app>>
      BY <2>2 DEF StopScan
    <3> QED BY <1>1, <2>2, <3>1, EngineRests DEF Keeps, NoSuccess
  <2> QED BY <2>1, <2>2
<1>4. LoopInv' /\ loop'.at # "judge"
  <2>1. CASE loop.asked \in {"rescan", "execute"}
    <3>1. loop' = [loop EXCEPT !.at = "begin"]
      BY <2>1 DEF StopScan
    <3> QED BY <1>1, <1>3, <2>1, <3>1 DEF Basics, LoopInv, LoopTypes, Keeps
  <2>2. CASE loop.asked \notin {"rescan", "execute"}
    <3>1. loop' = [loop EXCEPT !.at = "look", !.asked = Nothing]
      BY <2>2 DEF StopScan
    <3>2. Nothing # "execute"
      BY NothingAssumption DEF NothingAssumption
    <3> QED BY <1>1, <1>3, <2>2, <3>1, <3>2 DEF Basics, LoopInv, LoopTypes, Keeps
  <2> QED BY <2>1, <2>2
<1> QED BY <1>1, <1>2, <1>3, <1>4, ServeBasics DEF Keeps

\* The next run.
Restarts ==
  /\ Supersede(engine.run + 1)
  /\ app' = Begun(engine.run + 1, app.mode)
  /\ loop' = [loop EXCEPT !.at = "look", !.asked = Nothing, !.correlated = FALSE]
  /\ UNCHANGED chan

LEMMA RescanBasics ==
  ASSUME Basics, Rescan
  PROVE  /\ Basics' /\ loop'.asked = Nothing /\ ~loop.cleaning /\ ~loop'.cleaning
         /\ Restarts \/ UNCHANGED <<feed, app>>
<1>1. /\ loop.at = "begin" /\ loop.asked = "rescan" /\ ~loop.cleaning
      /\ UNCHANGED <<enrich, seen>>
      /\ loop \in LoopTypes /\ Sound(app) /\ app.mode \in Modes
      /\ app.run = engine.run /\ app.mode # "cleanup" /\ ~app.limit
  BY DEF Rescan, Basics, AppInv, LoopInv, Sound, StateTypes
<1>2. Nothing # "execute" /\ Nothing \notin Events
  BY NothingAssumption, EventAssumption DEF NothingAssumption
<1>3. EnrichInv'
  BY <1>1 DEF Basics, EnrichInv
<1>4. CASE Restarts
  <2> DEFINE g == engine.run + 1
  <2>1. /\ g \in Runs /\ engine' = NewEngine(g) /\ queue' = Nothing /\ held' = Nothing
        /\ late' = IF held # Nothing THEN held ELSE late
        /\ app' = Begun(g, app.mode) /\ chan' = chan
    BY <1>4 DEF Restarts, Supersede
  <2>2. g = engine.run + 1 /\ engine.run \in Nat
    BY FeedAssumption DEF Basics, AppInv, EngineTypes, Runs, FeedAssumption
  <2> HIDE DEF g
  <2>3. /\ Sound(app') /\ app'.run = g /\ ~app'.limit
        /\ app'.mode = IF app.mode = "confirm" THEN "normal" ELSE app.mode
    BY <1>1, <2>1, BegunIsSound
  <2>4. engine' \in EngineTypes /\ engine'.run = g
    BY <2>1 DEF EngineTypes, NewEngine
  <2>5. /\ \A ev \in Events : ev.gen \in Nat
        /\ \A k \in 1..Len(chan) : chan[k] \in Events
    <3>1. \A ev \in Events : ev.gen \in Nat
      BY FeedAssumption DEF Events, Runs, FeedAssumption
    <3>2. chan \in Seq(Events)
      BY DEF Basics, EventsInv
    <3> QED BY <3>1, <3>2
  <2>6. EventsInv'
    <3>1. late' # Nothing => late'.gen < g
      BY <1>2, <2>1, <2>2, <2>5 DEF Basics, EventsInv
    <3>2. \A k \in 1..Len(chan) : chan[k].gen <= g
      BY <2>2, <2>5 DEF Basics, EventsInv
    <3> QED BY <2>1, <2>4, <3>1, <3>2 DEF Basics, EventsInv
  <2>7. LoopInv' /\ loop'.at = "look" /\ loop'.asked = Nothing /\ ~loop'.cleaning
    BY <1>1, <1>2, <1>4, <2>3 DEF LoopInv, LoopTypes, Restarts
  <2>8. AppInv' /\ SeenInv'
    BY <2>3, <2>4, <2>7 DEF AppInv, SeenInv
  <2> QED BY <1>1, <1>3, <1>4, <2>6, <2>7, <2>8 DEF Basics
<1>5. CASE Answered /\ UNCHANGED <<feed, app>>
  <2>1. LoopInv' /\ loop'.at = "look" /\ loop'.asked = Nothing /\ ~loop'.cleaning
    BY <1>1, <1>2, <1>5 DEF LoopInv, LoopTypes, Answered, Basics
  <2>2. Goes(engine, engine')
    BY <1>5, EngineRests DEF feed
  <2> QED BY <1>1, <1>3, <1>5, <2>1, <2>2, ServeBasics DEF feed
<1> QED BY <1>4, <1>5 DEF Rescan, Restarts

LEMMA ExecuteBasics ==
  ASSUME Basics, Execute
  PROVE  /\ Basics' /\ SameButMode(app, app') /\ loop'.asked = Nothing
         /\ loop.asked = "execute" /\ ~loop.cleaning
         /\ \/ batch' = "running" /\ loop'.cleaning
            \/ UNCHANGED batch /\ ~loop'.cleaning
<1>1. /\ loop.at = "begin" /\ loop.asked = "execute" /\ UNCHANGED <<feed, enrich>>
      /\ loop \in LoopTypes /\ Sound(app) /\ app.mode = "cleanup" /\ ~app.limit
      /\ ~loop.cleaning
  BY DEF Execute, Basics, AppInv, LoopInv
<1>2. Nothing # "execute"
  BY NothingAssumption DEF NothingAssumption
<1>3. EnrichInv' /\ Goes(engine, engine') /\ UNCHANGED inbound
  BY <1>1, EngineRests DEF Basics, EnrichInv, feed
<1>4. CASE /\ batch' = "running" /\ UNCHANGED app
           /\ loop' = [loop EXCEPT !.at = "look", !.asked = Nothing,
                                   !.cleaning = TRUE, !.changed = FALSE]
  <2>1. LoopInv' /\ loop'.at = "look" /\ loop'.asked = Nothing /\ loop'.cleaning
    BY <1>1, <1>2, <1>4 DEF LoopInv, LoopTypes
  <2> QED BY <1>1, <1>3, <1>4, <2>1, ServeBasics DEF SameButMode
<1>5. CASE Answered /\ app' = [app EXCEPT !.mode = "report"] /\ UNCHANGED batch
  <2>1. "report" \in Modes
    BY DEF Modes
  <2>2. Sound(app') /\ SameButMode(app, app') /\ app'.mode = "report"
    BY <1>1, <1>5, <2>1, ModeOnly
  <2>3. LoopInv' /\ loop'.at = "look" /\ loop'.asked = Nothing /\ ~loop'.cleaning
    BY <1>1, <1>2, <1>5, <2>2 DEF LoopInv, LoopTypes, Answered, SameButMode
  <2> QED BY <1>1, <1>3, <1>5, <2>2, <2>3, ServeBasics DEF SameButMode
<1> QED BY <1>4, <1>5 DEF Execute

LEMMA EngineBasics ==
  ASSUME Basics, EngineSteps
  PROVE  Basics'
<1>1. UNCHANGED <<app, loop, seen, enrich>>
  BY DEF EngineSteps, Work, Forward, Publish, PublishLate, LoopOnly
<1>2. Goes(engine, engine') /\ EventsInv'
  BY EngineGoes
<1>3. AppInv' /\ LoopInv' /\ EnrichInv'
  BY <1>1, <1>2 DEF Basics, AppInv, LoopInv, EnrichInv, Goes
<1>4. SeenInv'
  BY <1>1, <1>2 DEF Basics, SeenInv, Goes
<1> QED BY <1>2, <1>3, <1>4 DEF Basics

LEMMA RestBasics ==
  ASSUME Basics, UNCHANGED <<feed, app, loop, seen, enrich>>
  PROVE  Basics'
BY DEF Basics, AppInv, EventsInv, LoopInv, SeenInv, EnrichInv, feed, inbound

LEMMA BasicsNext ==
  ASSUME Basics, [Next]_vars
  PROVE  Basics'
<1>1. CASE EngineSteps
  BY <1>1, EngineBasics
<1>2. CASE Look \/ Judge
  BY <1>2, LookBasics, JudgeBasics
<1>3. CASE SelectSteps
  BY <1>3, ReceiveBasics, ReceiveEnrichedBasics, ReceiveExecBasics, KeyBasics, TickBasics
    DEF SelectSteps
<1>4. CASE ServeSteps
  BY <1>4, CorrelateBasics, StopScanBasics, RescanBasics, ExecuteBasics DEF ServeSteps
<1>5. CASE TaskSteps \/ UNCHANGED vars
  BY <1>5, RestBasics DEF TaskSteps, BatchExecutes, BatchFinishes, vars
<1> QED BY <1>1, <1>2, <1>3, <1>4, <1>5 DEF Next
-----------------------------------------------------------------------------
(* A cleanup, and the rescan that it asks for.                             *)

LEMMA CleanupInit ==
  ASSUME Init
  PROVE  CleanupInv
BY DEF Init, CleanupInv, ExecInv, StaleInv

\* Steps that take no part in a cleanup and keep a rescan that is asked for.
LEMMA CleanupRests ==
  ASSUME CleanupInv, UNCHANGED <<batch, exec, stale>>,
         loop'.cleaning = loop.cleaning, loop'.changed = loop.changed,
         loop.asked = "rescan" => loop'.asked = "rescan"
  PROVE  CleanupInv'
BY DEF CleanupInv, ExecInv, StaleInv

\* Sequences of at most two elements are told apart by them.
LEMMA ShortEqual ==
  ASSUME NEW S, NEW q \in Seq(S), NEW r \in Seq(S), Len(q) = Len(r), Len(q) <= 2,
         Len(q) >= 1 => q[1] = r[1], Len(q) = 2 => q[2] = r[2]
  PROVE  q = r
<1>1. \A i \in 1..Len(q) : q[i] = r[i]
  <2> SUFFICES ASSUME NEW i \in 1..Len(q) PROVE q[i] = r[i]
    OBVIOUS
  <2>1. Len(q) \in Nat /\ (i = 1 \/ (i = 2 /\ Len(q) = 2))
    OBVIOUS
  <2> QED BY <2>1
<1> QED BY <1>1, SeqEqual

LEMMA TailsAndAppends ==
  ASSUME NEW a, NEW b
  PROVE  /\ Tail(<<a>>) = <<>> /\ Tail(<<a, b>>) = <<b>>
         /\ Append(<<>>, b) = <<b>> /\ Append(<<a>>, b) = <<a, b>>
<1> DEFINE S == {a, b}
           one == <<a>>
           last == <<b>>
           two == <<a, b>>
<1>1. /\ one \in Seq(S) /\ Len(one) = 1 /\ one[1] = a
      /\ last \in Seq(S) /\ Len(last) = 1 /\ last[1] = b
      /\ two \in Seq(S) /\ Len(two) = 2 /\ two[1] = a /\ two[2] = b
      /\ b \in S /\ one # <<>> /\ two # <<>>
  OBVIOUS
<1> HIDE DEF S, one, last, two
<1>2. Tail(<<a>>) = <<>>
  OBVIOUS
<1>3. Tail(two) = last
  <2> DEFINE q == Tail(two)
  <2>1. q \in Seq(S) /\ Len(q) = 1 /\ q[1] = b
    BY <1>1, TailOne
  <2> HIDE DEF q
  <2>2. Len(q) = Len(last) /\ Len(q) <= 2
    BY <1>1, <2>1
  <2>3. (Len(q) >= 1 => q[1] = last[1]) /\ (Len(q) = 2 => q[2] = last[2])
    BY <1>1, <2>1
  <2>4. q = last
    BY <1>1, <2>1, <2>2, <2>3, ShortEqual
  <2> QED BY <2>4 DEF q
<1>4. Append(<<>>, b) = <<b>>
  OBVIOUS
<1>5. Append(one, b) = two
  <2>1. /\ Append(one, b) \in Seq(S) /\ Len(Append(one, b)) = 2
        /\ Append(one, b)[1] = a /\ Append(one, b)[2] = b
    BY <1>1, AppendOne
  <2> QED BY <1>1, <2>1, ShortEqual
<1> QED BY <1>2, <1>3, <1>4, <1>5 DEF one, last, two

LEMMA ReceiveExecCleanup ==
  ASSUME Basics, CleanupInv, ReceiveExec
  PROVE  CleanupInv'
<1>1. /\ loop.at = "select" /\ exec # <<>> /\ exec' = Tail(exec) /\ loop \in LoopTypes
      /\ UNCHANGED <<batch, stale>> /\ loop.asked = Nothing /\ Nothing # "rescan"
  BY AtSelect DEF ReceiveExec
<1>2. CASE Head(exec) = "finished"
  <2>1. exec = <<"finished">> /\ batch = "none"
    BY <1>1, <1>2 DEF CleanupInv, ExecInv
  <2>2. ExecInv'
    BY <1>1, <2>1 DEF ExecInv
  <2>3. StaleInv'
    <3>1. stale => loop.changed
      BY <1>1, <2>1 DEF CleanupInv, StaleInv
    <3>2. loop.changed => loop'.asked = "rescan"
      BY <1>1, <1>2 DEF ReceiveExec, Changed, LoopTypes
    <3> QED BY <1>1, <3>1, <3>2 DEF StaleInv
  <2> QED BY <2>2, <2>3 DEF CleanupInv
<1>3. CASE Head(exec) # "finished"
  <2>1. exec \in {<<"executed">>, <<"executed", "finished">>} /\ batch # "running"
    BY <1>1, <1>3 DEF CleanupInv, ExecInv
  <2>2. loop'.changed = TRUE /\ loop'.cleaning = loop.cleaning /\ loop.cleaning = TRUE
    <3>1. Changed(Head(exec)) = TRUE
      BY <2>1 DEF Changed
    <3>2. loop' = [loop EXCEPT !.at = "correlate", !.changed = Changed(Head(exec))]
      BY <1>3 DEF ReceiveExec
    <3>3. loop.cleaning = TRUE
      BY <1>1 DEF CleanupInv, ExecInv, LoopTypes
    <3> QED BY <1>1, <3>1, <3>2, <3>3 DEF LoopTypes
  <2>3. exec' \in {<<>>, <<"finished">>}
    <3>1. CASE exec = <<"executed">>
      BY <1>1, <3>1, TailsAndAppends
    <3>2. CASE exec = <<"executed", "finished">>
      BY <1>1, <3>2, TailsAndAppends
    <3> QED BY <2>1, <3>1, <3>2
  <2>4. exec = <<"executed", "finished">> => batch = "none"
    BY DEF CleanupInv, ExecInv
  <2>5. batch = "executed" => exec' = <<>>
    BY <1>1, <2>1, <2>4
  <2>6. ExecInv'
    BY <1>1, <2>1, <2>2, <2>3, <2>5 DEF CleanupInv, ExecInv
  <2> QED BY <2>2, <2>6 DEF CleanupInv, StaleInv
<1> QED BY <1>2, <1>3

LEMMA TaskCleanup ==
  ASSUME CleanupInv, TaskSteps
  PROVE  CleanupInv'
<1>1. UNCHANGED loop
  BY DEF TaskSteps, BatchExecutes, BatchFinishes
<1>2. CASE BatchExecutes
  <2>1. exec = <<>> /\ exec' = <<"executed">> /\ batch' = "executed" /\ loop.cleaning
    BY <1>2 DEF BatchExecutes, CleanupInv, ExecInv
  <2> QED BY <1>1, <2>1 DEF CleanupInv, ExecInv, StaleInv
<1>3. CASE BatchFinishes
  <2>1. /\ exec \in {<<>>, <<"executed">>} /\ loop.cleaning /\ batch' = "none"
        /\ exec' = Append(exec, "finished") /\ UNCHANGED stale
    BY <1>3 DEF BatchFinishes, CleanupInv, ExecInv
  <2>2. \/ exec = <<>> /\ exec' = <<"finished">>
        \/ exec = <<"executed">> /\ exec' = <<"executed", "finished">>
    BY <2>1, TailsAndAppends
  <2> QED BY <1>1, <2>1, <2>2 DEF CleanupInv, ExecInv, StaleInv
<1> QED BY <1>2, <1>3 DEF TaskSteps

LEMMA CleanupNext ==
  ASSUME Basics, CleanupInv, [Next]_vars
  PROVE  CleanupInv'
<1>0. loop \in LoopTypes
  BY DEF Basics, LoopInv
<1>1. CASE EngineSteps \/ UNCHANGED vars
  BY <1>1, CleanupRests DEF EngineSteps, Work, Forward, Publish, PublishLate, LoopOnly, vars
<1>2. CASE Look \/ Judge
  BY <1>0, <1>2, CleanupRests DEF Look, Judge, At, LoopTypes
<1>3. CASE Receive \/ (\E g \in Runs : ReceiveEnriched(g)) \/ Tick
  BY <1>0, <1>3, CleanupRests DEF Receive, ReceiveEnriched, Tick, At, LoopTypes
<1>4. CASE ReceiveExec
  BY <1>4, ReceiveExecCleanup
<1>5. CASE Key
  <2>1. /\ loop.asked = Nothing /\ Nothing # "rescan" /\ UNCHANGED <<batch, exec, stale>>
        /\ ~loop.cleaning /\ ~loop'.cleaning
    BY <1>5, KeyBasics, AtSelect DEF Key
  <2> QED BY <2>1 DEF CleanupInv, ExecInv, StaleInv
<1>6. CASE Correlate
  <2>1. /\ loop'.cleaning = loop.cleaning /\ loop'.changed = loop.changed
        /\ loop'.asked = loop.asked
    BY <1>0, <1>6 DEF Correlate, LoopTypes
  <2> QED BY <1>6, <2>1, CleanupRests DEF Correlate
<1>7. CASE StopScan
  <2>1. /\ loop'.cleaning = loop.cleaning /\ loop'.changed = loop.changed
        /\ loop.asked = "rescan" => loop'.asked = "rescan"
    BY <1>0, <1>7 DEF StopScan, LoopTypes
  <2> QED BY <1>7, <2>1, CleanupRests DEF StopScan
<1>8. CASE Rescan
  <2>1. ~loop.cleaning /\ ~loop'.cleaning /\ stale' = FALSE /\ UNCHANGED <<batch, exec>>
    BY <1>8, RescanBasics DEF Rescan
  <2> QED BY <2>1 DEF CleanupInv, ExecInv, StaleInv
<1>9. CASE Execute
  <2>1. /\ loop.asked = "execute" /\ ~loop.cleaning /\ UNCHANGED <<exec, stale>>
        /\ \/ batch' = "running" /\ loop'.cleaning
           \/ UNCHANGED batch /\ ~loop'.cleaning
    BY <1>9, ExecuteBasics DEF Execute
  <2>2. exec = <<>> /\ batch = "none" /\ ~stale
    BY <2>1 DEF CleanupInv, ExecInv, StaleInv
  <2> QED BY <2>1, <2>2 DEF CleanupInv, ExecInv, StaleInv
<1>10. CASE TaskSteps
  BY <1>10, TaskCleanup
<1> QED BY <1>1, <1>2, <1>3, <1>4, <1>5, <1>6, <1>7, <1>8, <1>9, <1>10
     DEF Next, SelectSteps, ServeSteps
-----------------------------------------------------------------------------
(* What is shown as done is whole.                                         *)

\* The run is the same, what was shown still is, and nothing becomes done.
Milder(ss, t) ==
  /\ t.run = ss.run /\ NoSuccess(ss, t) /\ (ss.limit => t.limit)
  /\ \A i \in Items : ss.item[i] # Nothing => t.item[i] # Nothing

LEMMA ItemsAreItems ==
  ASSUME NEW s
  PROVE  ItemsOf(s) \subseteq Items /\ Nothing \notin Items
BY FeedAssumption DEF ItemsOf, Items, FeedAssumption

LEMMA WholeInit ==
  ASSUME Init
  PROVE  WholeInv
<1>1. /\ engine = NewEngine(1) /\ app = Begun(1, "normal")
      /\ queue = Nothing /\ held = Nothing /\ chan = <<>>
  BY DEF Init, FeedInit
<1>2. InOrder
  BY <1>1 DEF InOrder, NewEngine, Succeeds
<1>3. DoneIsWhole
  BY <1>1 DEF DoneIsWhole, Begun
<1> QED BY <1>2, <1>3 DEF WholeInv

LEMMA MilderIsWhole ==
  ASSUME Basics, WholeInv, UNCHANGED feed, Milder(app, app')
  PROVE  WholeInv'
<1>1. UNCHANGED <<engine, queue, held, chan>>
  BY DEF feed, inbound
<1>2. ASSUME NEW i \in Items, NEW n, Arrived(app, chan, i, n)
      PROVE  Arrived(app', chan, i, n)
  BY <1>2 DEF Arrived, Milder
<1>3. ASSUME NEW s, NEW n, AllArrived(app, engine, chan, s, n)
      PROVE  AllArrived(app', engine, chan, s, n)
  BY <1>2, <1>3, ItemsAreItems DEF AllArrived
<1>4. InOrder => InOrder'
  BY <1>1, <1>2, <1>3 DEF InOrder, Milder
<1>5. DoneIsWhole'
  BY <1>1, ItemsAreItems DEF WholeInv, DoneIsWhole, Milder, NoSuccess
<1> QED BY <1>1, <1>4, <1>5 DEF WholeInv, Milder

LEMMA JudgeIsWhole ==
  ASSUME Basics, WholeInv, Judge
  PROVE  WholeInv'
<1>1. /\ UNCHANGED <<engine, queue, held, chan>> /\ loop.at = "judge" /\ ~app.limit
      /\ Keeps(app, app') /\ app'.item = app.item /\ app'.limit = app.limit
  BY JudgeBasics DEF Judge, At, feed, inbound, Basics, LoopInv
<1>2. InOrder => InOrder'
  BY <1>1 DEF InOrder, AllArrived, Arrived, Keeps
<1>3. DoneIsWhole'
  <2> SUFFICES ASSUME ~engine.stopped, NEW s \in Sections, app'.status[s] = "Done",
                      NEW i \in ItemsOf(s)
               PROVE  i \notin engine.todo /\ app'.item[i] # Nothing
    BY <1>1 DEF DoneIsWhole
  <2>1. CASE app.status[s] = "Done"
    BY <1>1, <2>1 DEF WholeInv, DoneIsWhole
  <2>2. CASE app.status[s] # "Done"
    <3>1. chan = <<>> /\ app' = Reconciled(app, seen)
      BY <2>2 DEF Judge, Quiet
    <3>2. s \in seen.completed
      BY <2>2, <3>1, ReconciledKeeps DEF Basics, AppInv
    <3>3. s \in engine.completed
      BY <1>1, <3>2 DEF Basics, SeenInv
    <3>4. i \notin engine.todo /\ Arrived(app, chan, i, Len(chan))
      BY <1>1, <3>3 DEF WholeInv, InOrder, AllArrived
    <3> QED BY <1>1, <3>1, <3>4 DEF Arrived
  <2> QED BY <2>1, <2>2
<1> QED BY <1>1, <1>2, <1>3 DEF WholeInv

LEMMA ReceiveIsWhole ==
  ASSUME Basics, WholeInv, Receive
  PROVE  WholeInv'
<1>1. /\ loop.at = "select" /\ ~app.limit /\ Sound(app)
      /\ chan # <<>> /\ chan' = Tail(chan) /\ app' \in Applied(app, Head(chan))
      /\ UNCHANGED <<engine, queue, held>>
  BY AtSelect DEF Receive, At
<1>2. chan \in Seq(Events)
  BY DEF Basics, EventsInv
<1>3. /\ Head(chan) \in Events /\ Head(chan) = chan[1]
      /\ Len(chan) \in Nat /\ Len(chan) > 0 /\ Len(chan') = Len(chan) - 1
      /\ \A k \in 1..(Len(chan) - 1) : chan'[k] = chan[k + 1]
  BY <1>1, <1>2, TailOne
<1>4. /\ Keeps(app, app')
      /\ \A s \in Sections : app'.status[s] = "Done" =>
           \/ app.status[s] = "Done"
           \/ chan[1].gen = app.run /\ Succeeds(chan[1]) /\ s = chan[1].sec
      /\ chan[1].gen = app.run /\ ~IsEnd(chan[1]) =>
           app'.limit \/ app'.item[chan[1].item] # Nothing
  BY <1>1, <1>3, AppliedKeeps
<1>5. DoneIsWhole'
  <2> SUFFICES ASSUME ~engine.stopped, NEW s \in Sections, app'.status[s] = "Done",
                      NEW i \in ItemsOf(s)
               PROVE  i \notin engine.todo /\ app'.item[i] # Nothing
    BY <1>1 DEF DoneIsWhole
  <2>1. CASE app.status[s] = "Done"
    BY <1>1, <1>4, <2>1, ItemsAreItems DEF WholeInv, DoneIsWhole, Keeps
  <2>2. CASE chan[1].gen = app.run /\ Succeeds(chan[1]) /\ s = chan[1].sec
    <3>1. 1 \in 1..Len(chan) /\ 1 - 1 = 0
      BY <1>3
    <3>2. AllArrived(app, engine, chan, s, 0)
      BY <1>1, <2>2, <3>1 DEF WholeInv, InOrder
    <3>3. i \notin engine.todo /\ app.item[i] # Nothing
      BY <3>2 DEF AllArrived, Arrived
    <3> QED BY <1>4, <3>3, ItemsAreItems DEF Keeps
  <2> QED BY <1>4, <2>1, <2>2
<1>6. ASSUME ~engine.stopped, ~app'.limit PROVE InOrder'
  <2>1. InOrder
    BY <1>1, <1>6 DEF WholeInv
  <2>2. ASSUME NEW i \in Items, NEW n \in 0..(Len(chan) - 1),
               Arrived(app, chan, i, n + 1)
        PROVE  Arrived(app', chan', i, n)
    <3>1. CASE app.item[i] # Nothing
      BY <1>4, <3>1 DEF Arrived, Keeps
    <3>2. CASE chan[1].gen = app.run /\ chan[1].item = i
      <4>1. ~IsEnd(chan[1])
        BY <3>2, ItemsAreItems DEF IsEnd
      <4> QED BY <1>4, <1>6, <3>2, <4>1 DEF Arrived
    <3>3. ASSUME NEW j \in 2..(n + 1), chan[j].gen = app.run, chan[j].item = i
          PROVE  Arrived(app', chan', i, n)
      <4>1. j - 1 \in 1..n /\ j - 1 \in 1..(Len(chan) - 1) /\ (j - 1) + 1 = j
        BY <1>3
      <4>2. chan'[j - 1] = chan[j] /\ app'.run = app.run
        BY <1>3, <1>4, <4>1 DEF Keeps
      <4> QED BY <3>3, <4>1, <4>2 DEF Arrived
    <3> QED BY <2>2, <3>1, <3>2, <3>3 DEF Arrived
  <2>3. ASSUME NEW s, NEW n \in 0..(Len(chan) - 1),
               AllArrived(app, engine, chan, s, n + 1)
        PROVE  AllArrived(app', engine', chan', s, n)
    BY <1>1, <2>2, <2>3, ItemsAreItems DEF AllArrived
  <2>4. /\ Len(chan') \in 0..(Len(chan) - 1) /\ Len(chan') + 1 = Len(chan)
        /\ engine' = engine /\ queue' = queue /\ held' = held
    BY <1>1, <1>3
  <2>5. \A i \in Items : \/ i \in engine'.todo \/ Arrived(app', chan', i, Len(chan'))
                         \/ Carries(held', i) \/ Carries(queue', i)
    BY <2>1, <2>2, <2>4 DEF InOrder
  <2>6. Succeeds(held') => AllArrived(app', engine', chan', held'.sec, Len(chan'))
    BY <2>1, <2>3, <2>4 DEF InOrder
  <2>7. \A s \in engine'.completed : AllArrived(app', engine', chan', s, Len(chan'))
    BY <2>1, <2>3, <2>4 DEF InOrder
  <2>8. ASSUME NEW k \in 1..Len(chan'), chan'[k].gen = app'.run, Succeeds(chan'[k])
        PROVE  AllArrived(app', engine', chan', chan'[k].sec, k - 1)
    <3>1. /\ k + 1 \in 1..Len(chan) /\ k \in 1..(Len(chan) - 1)
          /\ k - 1 \in 0..(Len(chan) - 1) /\ (k + 1) - 1 = k /\ (k - 1) + 1 = k
      BY <1>3
    <3>2. chan'[k] = chan[k + 1] /\ app'.run = app.run
      BY <1>3, <1>4, <3>1 DEF Keeps
    <3>3. AllArrived(app, engine, chan, chan'[k].sec, k)
      BY <2>1, <2>8, <3>1, <3>2 DEF InOrder
    <3> QED BY <2>3, <3>1, <3>3
  <2> QED BY <2>1, <2>4, <2>5, <2>6, <2>7, <2>8 DEF InOrder
<1> QED BY <1>1, <1>5, <1>6 DEF WholeInv
\* Between the worker and the channel: what arrived stays where it is, more
\* may follow, and no item is taken back by its section.
LEMMA EngineIsWhole ==
  ASSUME Basics, WholeInv, EngineSteps
  PROVE  WholeInv'
<1>1. /\ UNCHANGED app /\ app.run = engine.run /\ engine \in EngineTypes
      /\ Nothing \notin Items /\ Nothing \notin Events
      /\ chan \in Seq(Events) /\ Len(chan) \in Nat
  BY ItemsAreItems, EventAssumption
    DEF EngineSteps, Work, Forward, Publish, PublishLate, LoopOnly, Basics, AppInv,
        EventsInv
<1>2. ASSUME engine'.todo \subseteq engine.todo, engine.stopped => engine'.stopped
      PROVE  DoneIsWhole'
  BY <1>1, <1>2 DEF WholeInv, DoneIsWhole
<1> SUFFICES /\ ~engine'.stopped /\ ~app.limit /\ ~engine.stopped /\ InOrder => InOrder'
             /\ engine'.todo \subseteq engine.todo
             /\ engine.stopped => engine'.stopped
  BY <1>1, <1>2 DEF WholeInv
<1>3. ASSUME NEW s \in Sections, Work(s)
      PROVE  /\ InOrder => InOrder'
             /\ engine'.todo \subseteq engine.todo
             /\ engine.stopped => engine'.stopped
  <2>1. queue = Nothing /\ UNCHANGED <<held, chan>>
    BY <1>3 DEF Work, Send
  <2>2. ASSUME NEW i \in ItemsOf(s) \cap engine.todo,
               engine' = [engine EXCEPT !.todo = @ \ {i}],
               queue' = Event(engine.run, s, i, TRUE)
        PROVE  /\ InOrder => InOrder'
               /\ engine'.todo \subseteq engine.todo
               /\ engine.stopped => engine'.stopped
    <3>1. /\ engine'.todo = engine.todo \ {i} /\ engine'.completed = engine.completed
          /\ engine'.stopped = engine.stopped
      BY <1>1, <2>2 DEF EngineTypes
    <3>2. queue'.item = i /\ ~Succeeds(queue') /\ i \in Items /\ queue' # Nothing
      <4>1. i \in Items /\ engine.run \in Runs
        BY <1>1, ItemsAreItems DEF EngineTypes
      <4>2. queue' \in Events
        BY <2>2, <4>1 DEF Event, Events
      <4> QED BY <1>1, <2>2, <4>1, <4>2 DEF Event, Succeeds, IsEnd
    <3> QED BY <1>1, <2>1, <3>1, <3>2 DEF InOrder, AllArrived, Carries, Succeeds
  <2>3. ASSUME NEW ok \in BOOLEAN, ok => ItemsOf(s) \cap engine.todo = {},
               engine' = [engine EXCEPT !.alive = @ \ {s}],
               queue' = Event(engine.run, s, Nothing, ok)
        PROVE  /\ InOrder => InOrder'
               /\ engine'.todo \subseteq engine.todo
               /\ engine.stopped => engine'.stopped
    <3>1. /\ engine'.todo = engine.todo /\ engine'.completed = engine.completed
          /\ engine'.stopped = engine.stopped
      BY <1>1, <2>3 DEF EngineTypes
    <3>2. Succeeds(queue') => ItemsOf(queue'.sec) \cap engine.todo = {}
      BY <2>3 DEF Event, Succeeds
    <3> QED BY <1>1, <2>1, <3>1, <3>2 DEF InOrder, AllArrived, Carries, Succeeds
  <2> QED BY <1>3, <2>2, <2>3 DEF Work, Send
<1>4. CASE Forward
  <2>1. /\ queue \in Events /\ queue # Nothing /\ held = Nothing /\ queue' = Nothing
        /\ queue.sec \in Sections /\ UNCHANGED chan
    BY <1>4 DEF Forward, Record, Basics, EventsInv, Events
  <2>2. CASE engine' = Halted(engine)
    BY <1>1, <2>2 DEF Halted, EngineTypes
  <2>3. CASE /\ held' = queue
             /\ engine' = Recorded(engine, queue) \/ engine' = [engine EXCEPT !.reason = TRUE]
             /\ ~IsEnd(queue) \/ engine' = Recorded(engine, queue)
    <3>1. /\ engine'.todo = engine.todo /\ engine'.stopped = engine.stopped
          /\ \A s \in engine'.completed :
               s \in engine.completed \/ (Succeeds(queue) /\ s = queue.sec)
      <4>1. CASE engine' = [engine EXCEPT !.reason = TRUE]
        BY <1>1, <4>1 DEF EngineTypes
      <4>2. CASE engine' = Recorded(engine, queue)
        <5>1. CASE IsEnd(queue) /\ queue.ok
          BY <1>1, <2>1, <4>2, <5>1 DEF Recorded, EngineTypes, Succeeds
        <5>2. CASE IsEnd(queue) /\ ~queue.ok
          BY <1>1, <2>1, <4>2, <5>2 DEF Recorded, EngineTypes
        <5>3. CASE ~IsEnd(queue)
          BY <1>1, <4>2, <5>3 DEF Recorded
        <5> QED BY <5>1, <5>2, <5>3
      <4> QED BY <2>3, <4>1, <4>2
    <3>2. ASSUME InOrder, Succeeds(queue)
          PROVE  AllArrived(app, engine, chan, queue.sec, Len(chan))
      <4> SUFFICES ASSUME NEW i \in ItemsOf(queue.sec)
                   PROVE  i \notin engine.todo /\ Arrived(app, chan, i, Len(chan))
        BY DEF AllArrived
      <4>1. i \in Items /\ i \notin engine.todo
        BY <3>2, ItemsAreItems DEF InOrder
      <4>2. ~Carries(held, i) /\ ~Carries(queue, i)
        BY <1>1, <2>1, <3>2, <4>1 DEF Carries, Succeeds, IsEnd
      <4> QED BY <3>2, <4>1, <4>2 DEF InOrder
    <3>3. InOrder => InOrder'
      BY <1>1, <2>1, <2>3, <3>1, <3>2 DEF InOrder, AllArrived, Carries, Succeeds
    <3> QED BY <3>1, <3>3
  <2>4. ~IsEnd(queue) \/ queue.item \notin Trees
    BY <1>1, FeedAssumption DEF IsEnd, Items, FeedAssumption
  <2> QED BY <1>4, <2>2, <2>3, <2>4 DEF Forward, Record
<1>5. ASSUME NEW ev \in Events, chan' = Append(chan, ev),
             ev.gen = app.run /\ Succeeds(ev) =>
               AllArrived(app, engine, chan, ev.sec, Len(chan)),
             UNCHANGED <<engine, queue>>,
             InOrder,
             \A i \in Items : Carries(held, i) =>
               Carries(held', i) \/ (ev.gen = app.run /\ ev.item = i),
             Succeeds(held') => Succeeds(held) /\ held' = held
      PROVE  InOrder'
  <2>1. /\ chan' \in Seq(Events) /\ Len(chan') = Len(chan) + 1
        /\ \A k \in 1..Len(chan) : chan'[k] = chan[k]
        /\ chan'[Len(chan) + 1] = ev
    BY <1>1, <1>5, AppendOne
  <2>2. ASSUME NEW i \in Items, NEW n \in 0..Len(chan), NEW m \in Nat, n <= m,
               Arrived(app, chan, i, n)
        PROVE  Arrived(app', chan', i, m)
    <3>1. CASE app.item[i] # Nothing
      BY <1>1, <3>1 DEF Arrived
    <3>2. ASSUME NEW j \in 1..n, chan[j].gen = app.run, chan[j].item = i
          PROVE  Arrived(app', chan', i, m)
      <4>1. j \in 1..m /\ chan'[j] = chan[j]
        BY <1>1, <2>1, <2>2, <3>2
      <4> QED BY <1>1, <3>2, <4>1 DEF Arrived
    <3> QED BY <2>2, <3>1, <3>2 DEF Arrived
  <2>3. ASSUME NEW s, NEW n \in 0..Len(chan), NEW m \in Nat, n <= m,
               AllArrived(app, engine, chan, s, n)
        PROVE  AllArrived(app', engine', chan', s, m)
    BY <1>1, <1>5, <2>2, <2>3, ItemsAreItems DEF AllArrived
  <2>4. Len(chan) \in 0..Len(chan) /\ Len(chan') \in Nat /\ Len(chan) <= Len(chan')
    BY <1>1, <2>1
  <2>5. \A i \in Items : \/ i \in engine'.todo \/ Arrived(app', chan', i, Len(chan'))
                         \/ Carries(held', i) \/ Carries(queue', i)
    <3> SUFFICES ASSUME NEW i \in Items, i \notin engine.todo, ~Carries(queue, i)
                 PROVE  Arrived(app', chan', i, Len(chan')) \/ Carries(held', i)
      BY <1>5
    <3>1. CASE Arrived(app, chan, i, Len(chan))
      BY <2>2, <2>4, <3>1
    <3>2. CASE ev.gen = app.run /\ ev.item = i
      <4>1. Len(chan) + 1 \in 1..Len(chan')
        BY <1>1, <2>1
      <4> QED BY <1>1, <2>1, <3>2, <4>1 DEF Arrived
    <3> QED BY <1>5, <3>1, <3>2 DEF InOrder
  <2>6. Succeeds(held') => AllArrived(app', engine', chan', held'.sec, Len(chan'))
    BY <1>5, <2>3, <2>4 DEF InOrder
  <2>7. \A s \in engine'.completed : AllArrived(app', engine', chan', s, Len(chan'))
    BY <1>5, <2>3, <2>4 DEF InOrder
  <2>8. ASSUME NEW k \in 1..Len(chan'), chan'[k].gen = app'.run, Succeeds(chan'[k])
        PROVE  AllArrived(app', engine', chan', chan'[k].sec, k - 1)
    <3>1. k - 1 \in 0..Len(chan) /\ k - 1 \in Nat
      BY <1>1, <2>1
    <3>2. CASE k \in 1..Len(chan)
      <4>1. AllArrived(app, engine, chan, chan'[k].sec, k - 1)
        BY <1>1, <1>5, <2>1, <2>8, <3>2 DEF InOrder
      <4> QED BY <2>3, <3>1, <4>1
    <3>3. CASE k = Len(chan) + 1
      <4>1. k - 1 = Len(chan) /\ chan'[k] = ev
        BY <1>1, <2>1, <3>3
      <4>2. AllArrived(app, engine, chan, ev.sec, Len(chan))
        BY <1>1, <1>5, <2>8, <4>1
      <4> QED BY <2>3, <2>4, <3>1, <4>1, <4>2
    <3> QED BY <1>1, <2>1, <3>2, <3>3
  <2>9. Succeeds(queue') => ItemsOf(queue'.sec) \cap engine'.todo = {}
    BY <1>5 DEF InOrder
  <2> QED BY <2>5, <2>6, <2>7, <2>8, <2>9 DEF InOrder
<1>6. CASE Publish
  <2>1. /\ held \in Events /\ held # Nothing /\ held.gen = app.run /\ held' = Nothing
        /\ UNCHANGED <<engine, queue>>
        /\ chan' = Append(chan, held) \/ engine.stopped
    BY <1>1, <1>6 DEF Publish, Deliver, Basics, EventsInv
  <2>2. ~Succeeds(held') /\ \A i \in Items : Carries(held, i) => held.item = i
    BY <2>1 DEF Succeeds, Carries
  <2>3. ASSUME InOrder, ~engine.stopped PROVE InOrder'
    <3>1. Succeeds(held) => AllArrived(app, engine, chan, held.sec, Len(chan))
      BY <2>3 DEF InOrder
    <3> QED BY <1>5, <2>1, <2>2, <2>3, <3>1
  <2> QED BY <2>1, <2>3
<1>7. CASE PublishLate
  <2>1. /\ late \in Events /\ late.gen # app.run /\ UNCHANGED <<engine, queue, held>>
        /\ chan' = Append(chan, late) \/ UNCHANGED chan
    <3>1. late \in Events /\ late.gen < engine.run /\ engine.run \in Nat /\ late.gen \in Nat
      BY <1>1, <1>7, FeedAssumption
        DEF PublishLate, DeliverLate, Basics, EventsInv, Events, Runs, EngineTypes,
            FeedAssumption
    <3> QED BY <1>1, <1>7, <3>1 DEF PublishLate, DeliverLate
  <2>2. CASE UNCHANGED chan
    BY <1>1, <2>1, <2>2 DEF InOrder
  <2>3. CASE chan' = Append(chan, late)
    BY <1>5, <2>1, <2>3
  <2> QED BY <2>1, <2>2, <2>3
<1> QED BY <1>3, <1>4, <1>6, <1>7 DEF EngineSteps

LEMMA RescanIsWhole ==
  ASSUME Basics, WholeInv, Rescan
  PROVE  WholeInv'
<1>1. CASE UNCHANGED <<feed, app>>
  <2>1. UNCHANGED feed /\ Milder(app, app')
    BY <1>1 DEF Milder, NoSuccess
  <2> QED BY <2>1, MilderIsWhole
<1>2. CASE Restarts
  <2> DEFINE g == engine.run + 1
  <2>1. /\ engine' = NewEngine(g) /\ queue' = Nothing /\ held' = Nothing /\ chan' = chan
        /\ app' = Begun(g, app.mode)
    BY <1>2 DEF Restarts, Supersede
  <2>2. engine'.todo = Items /\ engine'.completed = {} /\ app'.run = g
    BY <2>1 DEF NewEngine, Begun
  <2>3. \A k \in 1..Len(chan) : chan[k].gen # g
    <3>1. engine.run \in Nat /\ chan \in Seq(Events)
      BY FeedAssumption DEF Basics, AppInv, EventsInv, EngineTypes, Runs, FeedAssumption
    <3>2. ASSUME NEW k \in 1..Len(chan) PROVE chan[k].gen \in Nat
      <4>1. chan[k] \in Events
        BY <3>1
      <4> QED BY <4>1, FeedAssumption DEF Events, Runs, FeedAssumption
    <3> QED BY <3>1, <3>2 DEF Basics, EventsInv
  <2>4. InOrder'
    BY <2>1, <2>2, <2>3 DEF InOrder, Succeeds
  <2>5. DoneIsWhole'
    BY <2>1 DEF DoneIsWhole, Begun
  <2> QED BY <2>4, <2>5 DEF WholeInv
<1> QED BY <1>1, <1>2, RescanBasics

LEMMA WholeNext ==
  ASSUME Basics, WholeInv, [Next]_vars
  PROVE  WholeInv'
<1>1. CASE EngineSteps
  BY <1>1, EngineIsWhole
<1>2. ASSUME UNCHANGED feed, SameButMode(app, app') \/ app' = app
      PROVE  WholeInv'
  <2>1. Milder(app, app')
    BY <1>2 DEF Milder, SameButMode, NoSuccess
  <2> QED BY <1>2, <2>1, MilderIsWhole
<1>3. ASSUME UNCHANGED feed, Keeps(app, app'), NoSuccess(app, app'), app.limit => app'.limit
      PROVE  WholeInv'
  <2>1. Milder(app, app')
    BY <1>3 DEF Milder, Keeps
  <2> QED BY <1>3, <2>1, MilderIsWhole
<1>4. CASE Look \/ Tick \/ TaskSteps \/ UNCHANGED vars
  BY <1>2, <1>4 DEF Look, Tick, TaskSteps, BatchExecutes, BatchFinishes, vars
<1>5. CASE Judge \/ Receive
  BY <1>5, JudgeIsWhole, ReceiveIsWhole
<1>6. CASE Key \/ ReceiveExec \/ Execute
  <2>1. UNCHANGED feed /\ SameButMode(app, app')
    BY <1>6, KeyBasics, ReceiveExecBasics, ExecuteBasics DEF Key, ReceiveExec, Execute
  <2> QED BY <1>2, <2>1
<1>7. ASSUME NEW g \in Runs, ReceiveEnriched(g) PROVE WholeInv'
  <2>1. UNCHANGED feed
    BY <1>7 DEF ReceiveEnriched
  <2>2. Keeps(app, app') /\ NoSuccess(app, app') /\ (app.limit => app'.limit)
    BY <1>7, ReceiveEnrichedBasics
  <2> QED BY <1>3, <2>1, <2>2
<1>8. CASE Correlate
  <2>1. UNCHANGED feed
    BY <1>8 DEF Correlate
  <2>2. Keeps(app, app') /\ NoSuccess(app, app') /\ (app.limit => app'.limit)
    BY <1>8, CorrelateBasics
  <2> QED BY <1>3, <2>1, <2>2
<1>9. CASE StopScan
  <2>1. CASE UNCHANGED <<engine, app>>
    <3>1. UNCHANGED feed
      BY <1>9, <2>1 DEF StopScan, feed
    <3> QED BY <1>2, <2>1, <3>1
  <2>2. CASE engine'.stopped
    BY <2>2 DEF WholeInv, DoneIsWhole
  <2> QED BY <1>9, <2>1, <2>2, StopScanBasics
<1>10. CASE Rescan
  BY <1>10, RescanIsWhole
<1> QED BY <1>1, <1>4, <1>5, <1>6, <1>7, <1>8, <1>9, <1>10
     DEF Next, SelectSteps, ServeSteps

-----------------------------------------------------------------------------
(* The theorems.                                                           *)

\* The invariant holds at first, every step of the loop, of the engine and
\* of the tasks beside it keeps it, and so it always holds.
THEOREM Invariant == Spec => []Inv
<1>1. Init => Inv
  BY BasicsInit, CleanupInit, WholeInit DEF Inv
<1>2. Inv /\ [Next]_vars => Inv'
  BY BasicsNext, CleanupNext, WholeNext DEF Inv
<1> QED BY <1>1, <1>2, PTL DEF Spec

\* The state has its type; what it shows is of the run that the engine is at,
\* whatever of superseded runs arrives late, and the loop knows of a running
\* cleanup exactly while its overlay is up and not merely confirmed.
THEOREM StateTypeCorrect == Spec => []TypeOK
<1>1. Inv => TypeOK
  BY DEF Inv, Basics, AppInv, EventsInv, LoopInv, LoopTypes, Sound, StateTypes, Shown,
         Modes, TypeOK
<1> QED BY <1>1, Invariant, PTL

\* After a cleanup nobody marks or confirms on what was scanned before it:
\* the report of the cleanup asks for a rescan, and that is answered before
\* the next event.
THEOREM CleanedRescanned == Spec => []CleanedIsRescanned
<1>1. Inv => CleanedIsRescanned
  <2> SUFFICES ASSUME Inv, loop.at = "select", app.mode # "cleanup" PROVE ~stale
    BY DEF CleanedIsRescanned
  <2>1. /\ loop.asked = Nothing /\ loop.cleaning = (app.mode = "cleanup")
        /\ Nothing # "rescan"
    BY AtSelect DEF Inv
  <2> QED BY <2>1 DEF Inv, CleanupInv, StaleInv
<1> QED BY <1>1, Invariant, PTL

\* In a run that nobody stopped, a section shown as done has sent all that it
\* has and all of it is shown, whether its end came through the channel or
\* from the metadata.
THEOREM DoneShowsAll == Spec => []DoneIsWhole
<1>1. Inv => DoneIsWhole
  BY DEF Inv, WholeInv
<1> QED BY <1>1, Invariant, PTL
=============================================================================
