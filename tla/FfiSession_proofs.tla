------------------------- MODULE FfiSession_proofs -------------------------
(***************************************************************************)
(* Theorems about FfiSession, for any sections, findings, faults, clients  *)
(* and bounds.                                                             *)
(***************************************************************************)
EXTENDS FfiSession, FiniteSetTheorems, TLAPS

-----------------------------------------------------------------------------
(* The session by itself: what its methods leave alone and what they move. *)

SessionTypes ==
  [run : Nat, revision : Nat, queryRevision : Nat, row : [Findings -> Nat],
   inventory : [Caches -> Nat], cancelled : BOOLEAN, limited : SUBSET Sections,
   status : [Sections -> Statuses], correlated : BOOLEAN]

\* A session whose rows are no newer than it is, and whose limited sections
\* have failed.
Sound(ss) ==
  /\ ss \in SessionTypes
  /\ ss.revision <= ss.queryRevision
  /\ \A f \in Findings : ss.row[f] <= ss.revision
  /\ \A s \in ss.limited : ss.status[s] = "Failed"

\* What one session may become another one by, within a run: a row that
\* changes is newer than anything before, and the revision that pages
\* compare has moved.
Follows(ss, t) ==
  /\ Sound(t)
  /\ t.run = ss.run
  /\ ss.revision <= t.revision /\ ss.queryRevision <= t.queryRevision
  /\ t.queryRevision = ss.queryRevision => t.row = ss.row
  /\ \A f \in Findings : t.row[f] = ss.row[f] \/ ss.revision < t.row[f]
  /\ \A c \in Caches : ss.inventory[c] <= t.inventory[c]
  /\ ss.limited \subseteq t.limited

\* Nothing but verdicts has changed.
SameRows(ss, t) ==
  /\ t.row = ss.row /\ t.queryRevision = ss.queryRevision
  /\ t.revision = ss.revision /\ t.run = ss.run
  /\ t.inventory = ss.inventory

\* The rows that are written together are numbered from one upwards.
LEMMA KeptAreNumbered ==
  ASSUME NEW kept \in SUBSET Findings
  PROVE  /\ Cardinality(kept) \in Nat
         /\ kept # {} => Cardinality(kept) > 0
         /\ \A f \in kept : Cardinality({g \in kept : g <= f}) \in 1..Cardinality(kept)
<1>1. IsFiniteSet(kept)
  BY FeedAssumption, FS_Subset DEF FeedAssumption
<1>2. Cardinality(kept) \in Nat
  BY <1>1, FS_CardinalityType
<1>3. kept # {} => Cardinality(kept) # 0
  BY <1>1, FS_EmptySet
<1>4. ASSUME NEW f \in kept
      PROVE  Cardinality({g \in kept : g <= f}) \in 1..Cardinality(kept)
  <2> DEFINE below == {g \in kept : g <= f}
  <2>1. f \in below
    BY FeedAssumption DEF FeedAssumption
  <2>2. IsFiniteSet(below) /\ Cardinality(below) <= Cardinality(kept)
    BY <1>1, FS_Subset
  <2>3. Cardinality(below) \in Nat /\ Cardinality(below) # 0
    BY <2>1, <2>2, FS_CardinalityType, FS_EmptySet
  <2> QED BY <2>2, <2>3, <1>2
<1> QED BY <1>2, <1>3, <1>4

LEMMA UpsertedFollows ==
  ASSUME NEW ss, Sound(ss), NEW kept \in SUBSET Findings
  PROVE  /\ Follows(ss, Upserted(ss, kept))
         /\ Upserted(ss, kept).inventory = ss.inventory
<1> DEFINE t == Upserted(ss, kept)
           n == Cardinality(kept)
           place(f) == Cardinality({g \in kept : g <= f})
<1> HIDE DEF n, place
<1>1. /\ n \in Nat /\ (kept # {} => n > 0)
      /\ \A f \in kept : place(f) \in 1..n
  BY KeptAreNumbered DEF n, place
<1>2. /\ t.run = ss.run /\ t.inventory = ss.inventory /\ t.cancelled = ss.cancelled
      /\ t.limited = ss.limited /\ t.status = ss.status
      /\ t.correlated = ss.correlated
      /\ t.revision = ss.revision + n /\ t.queryRevision = ss.queryRevision + n
      /\ t.row = [f \in Findings |-> IF f \in kept THEN ss.revision + place(f)
                                     ELSE ss.row[f]]
  BY DEF Upserted, Sound, SessionTypes, n, place
<1>3. ss.revision \in Nat /\ ss.queryRevision \in Nat /\ ss.row \in [Findings -> Nat]
  BY DEF Sound, SessionTypes
<1>4. /\ t.row \in [Findings -> Nat]
      /\ \A f \in Findings : t.row[f] <= t.revision
      /\ \A f \in Findings : t.row[f] = ss.row[f] \/ ss.revision < t.row[f]
  BY <1>1, <1>2, <1>3 DEF Sound
<1>5. t \in SessionTypes
  <2>1. t.revision \in Nat /\ t.queryRevision \in Nat
    BY <1>1, <1>2, <1>3
  <2> QED BY <1>2, <1>4, <2>1 DEF Upserted, Sound, SessionTypes
<1>6. ss.queryRevision = t.queryRevision => t.row = ss.row
  <2> SUFFICES ASSUME kept = {} PROVE t.row = ss.row
    BY <1>1, <1>2, <1>3
  <2> QED BY <1>2, <1>3
<1>7. \A c \in Caches : ss.inventory[c] <= t.inventory[c]
  BY <1>2 DEF Sound, SessionTypes
<1> QED BY <1>1, <1>2, <1>3, <1>4, <1>5, <1>6, <1>7 DEF Follows, Sound

LEMMA LimitedFollows ==
  ASSUME NEW ss, Sound(ss), NEW secs \in SUBSET Sections
  PROVE  /\ Follows(ss, Limited(ss, secs)) /\ SameRows(ss, Limited(ss, secs))
         /\ secs \subseteq Limited(ss, secs).limited
<1> DEFINE t == Limited(ss, secs)
<1>1. t \in SessionTypes
  BY DEF Limited, Sound, SessionTypes, Statuses
<1>2. /\ t.run = ss.run /\ t.row = ss.row /\ t.inventory = ss.inventory
      /\ t.revision = ss.revision /\ t.queryRevision = ss.queryRevision
      /\ t.limited = ss.limited \cup secs
      /\ t.status = [s \in Sections |-> IF s \in secs THEN "Failed" ELSE ss.status[s]]
  BY DEF Limited, Sound, SessionTypes
<1>3. ss \in SessionTypes
  BY DEF Sound
<1> QED BY <1>1, <1>2, <1>3 DEF Follows, SameRows, Sound, SessionTypes

LEMMA FollowsTwice ==
  ASSUME NEW ss, NEW t, NEW u, Sound(ss), Follows(ss, t), Follows(t, u)
  PROVE  Follows(ss, u)
<1>1. /\ {ss.revision, t.revision, u.revision} \subseteq Nat
      /\ {ss.queryRevision, t.queryRevision, u.queryRevision} \subseteq Nat
      /\ {ss.row, t.row, u.row} \subseteq [Findings -> Nat]
      /\ {ss.inventory, t.inventory, u.inventory} \subseteq [Caches -> Nat]
  BY DEF Sound, SessionTypes, Follows
<1> QED BY <1>1 DEF Follows

LEMMA RetainedFollows ==
  ASSUME NEW ss, Sound(ss), NEW kept \in SUBSET Findings, NEW refused \in SUBSET Findings
  PROVE  /\ Follows(ss, Retained(ss, kept, refused))
         /\ Retained(ss, kept, refused).inventory = ss.inventory
<1>1. Follows(ss, Upserted(ss, kept)) /\ Upserted(ss, kept).inventory = ss.inventory
  BY UpsertedFollows
<1>2. {SectionOf[f] : f \in refused} \in SUBSET Sections
  BY FeedAssumption DEF FeedAssumption
<1>3. /\ Follows(Upserted(ss, kept), Retained(ss, kept, refused))
      /\ SameRows(Upserted(ss, kept), Retained(ss, kept, refused))
  BY <1>1, <1>2, LimitedFollows DEF Retained, Follows
<1> QED BY <1>1, <1>3, FollowsTwice DEF SameRows

LEMMA AppliedFollows ==
  ASSUME NEW ss, Sound(ss), NEW ev \in Events, NEW t \in Applied(ss, ev)
  PROVE  /\ Follows(ss, t)
         /\ \A c \in Caches \ {ev.item} : t.inventory[c] = ss.inventory[c]
         /\ ev.item \in Caches => t.inventory[ev.item] <= ss.inventory[ev.item] + 1
<1>0. \A c \in Caches : ss.inventory[c] \in Nat
  BY DEF Sound, SessionTypes
<1>1. CASE t = ss
  BY <1>0, <1>1 DEF Follows, Sound, SessionTypes
<1>2. CASE /\ ev.sec \notin ss.limited /\ IsEnd(ev)
           /\ t = [ss EXCEPT !.status[ev.sec] = IF ev.ok THEN "Done" ELSE "Failed"]
  <2>1. t \in SessionTypes
    BY <1>2 DEF Sound, SessionTypes, Statuses
  <2>2. /\ t.run = ss.run /\ SameRows(ss, t) /\ t.limited = ss.limited
        /\ \A s \in Sections \ {ev.sec} : t.status[s] = ss.status[s]
    BY <1>2 DEF Sound, SessionTypes, SameRows
  <2>3. ss \in SessionTypes
    BY DEF Sound
  <2> QED BY <1>0, <1>2, <2>1, <2>2, <2>3 DEF Follows, Sound, SameRows, SessionTypes
<1>3. CASE /\ ev.item \in Findings
           /\ \E kept \in Retainable({ev.item}) :
                t = Retained(ss, kept, {ev.item} \ kept)
  BY <1>0, <1>3, RetainedFollows DEF Retainable
<1>4. CASE t = [ss EXCEPT !.queryRevision = @ + 1, !.inventory[ev.item] = @ + 1]
           /\ ev.item \in Caches
  <2>1. ss \in SessionTypes
    BY DEF Sound
  <2>2. ss.queryRevision + 1 \in Nat
    BY <2>1 DEF SessionTypes
  <2>3. [ss.inventory EXCEPT ![ev.item] = @ + 1] \in [Caches -> Nat]
    BY <1>4, <2>1 DEF SessionTypes
  <2>4. t \in SessionTypes
    BY <1>4, <2>1, <2>2, <2>3 DEF SessionTypes
  <2>5. /\ t.run = ss.run /\ t.row = ss.row /\ t.revision = ss.revision
        /\ t.limited = ss.limited /\ t.status = ss.status
        /\ t.queryRevision = ss.queryRevision + 1
        /\ t.inventory = [ss.inventory EXCEPT ![ev.item] = @ + 1]
    BY <1>4, <2>1 DEF SessionTypes
  <2> QED BY <1>0, <1>4, <2>1, <2>4, <2>5 DEF Follows, Sound, SessionTypes
<1>5. CASE ev.sec \in ss.limited
  BY <1>1, <1>5 DEF Applied
<1>6. CASE ev.sec \notin ss.limited /\ ev.item = Nothing
  <2>1. Applied(ss, ev) =
          {[ss EXCEPT !.status[ev.sec] = IF ev.ok THEN "Done" ELSE "Failed"]}
    BY <1>6, FeedAssumption DEF Applied, IsEnd, FeedAssumption
  <2> QED BY <1>2, <1>6, <2>1 DEF IsEnd
<1>7. CASE ev.sec \notin ss.limited /\ ev.item \in Findings
  <2>1. ev.item # Nothing /\ ev.item \notin Caches
    BY <1>7, FeedAssumption DEF FeedAssumption
  <2>2. Applied(ss, ev) = {Retained(ss, kept, {ev.item} \ kept) :
                             kept \in Retainable({ev.item})}
    BY <1>7, <2>1 DEF Applied, IsEnd
  <2> QED BY <1>3, <1>7, <2>2
<1>8. CASE ev.sec \notin ss.limited /\ ev.item \in Caches
  <2>1. Applied(ss, ev) =
          {[ss EXCEPT !.queryRevision = @ + 1, !.inventory[ev.item] = @ + 1]}
    BY <1>8, FeedAssumption DEF Applied, IsEnd, FeedAssumption
  <2> QED BY <1>4, <1>8, <2>1
<1>9. ev.item \in Findings \cup Caches \cup {Nothing}
  BY DEF Events, Items
<1> QED BY <1>5, <1>6, <1>7, <1>8, <1>9

LEMMA CancelledFollows ==
  ASSUME NEW ss, Sound(ss)
  PROVE  Follows(ss, Cancelled(ss)) /\ SameRows(ss, Cancelled(ss))
<1> DEFINE t == Cancelled(ss)
<1>1. t \in SessionTypes
  BY DEF Cancelled, Sound, SessionTypes, Statuses
<1>2. /\ SameRows(ss, t) /\ t.limited = ss.limited
      /\ \A s \in Sections : ss.status[s] = "Failed" => t.status[s] = "Failed"
  BY DEF Cancelled, Sound, SessionTypes, SameRows
<1>3. ss \in SessionTypes
  BY DEF Sound
<1> QED BY <1>1, <1>2, <1>3 DEF Follows, SameRows, Sound, SessionTypes

LEMMA ReconciledFollows ==
  ASSUME NEW ss, Sound(ss), NEW e
  PROVE  Follows(ss, Reconciled(ss, e)) /\ SameRows(ss, Reconciled(ss, e))
<1> DEFINE t == Reconciled(ss, e)
           verdict(s) == CASE Over(ss.status[s]) -> ss.status[s]
                           [] ~Over(ss.status[s]) /\ s \in e.completed -> "Done"
                           [] ~Over(ss.status[s]) /\ s \notin e.completed -> "Failed"
<1>1. ss \in SessionTypes
  BY DEF Sound
<1>2. CASE t = ss
  BY <1>1, <1>2 DEF Follows, SameRows, Sound, SessionTypes
<1>3. CASE t = [ss EXCEPT !.cancelled = TRUE, !.status = [s \in Sections |-> verdict(s)]]
  <2>1. \A s \in Sections : /\ verdict(s) \in Statuses
                            /\ ss.status[s] = "Failed" => verdict(s) = "Failed"
    BY <1>1 DEF Over, Statuses, SessionTypes
  <2> HIDE DEF verdict
  <2>2. t \in SessionTypes
    <3> DEFINE status == [s \in Sections |-> verdict(s)]
    <3>1. status \in [Sections -> Statuses]
      BY <2>1
    <3>2. t = [ss EXCEPT !.cancelled = TRUE, !.status = status]
      BY <1>3
    <3> HIDE DEF status, t
    <3> QED BY <1>1, <3>1, <3>2 DEF SessionTypes
  <2>3. /\ SameRows(ss, t) /\ t.limited = ss.limited
        /\ \A s \in Sections : t.status[s] = verdict(s)
    BY <1>1, <1>3 DEF SessionTypes, SameRows
  <2> QED BY <1>1, <2>1, <2>2, <2>3 DEF Follows, SameRows, Sound, SessionTypes
<1> QED BY <1>2, <1>3 DEF Reconciled

LEMMA BegunIsSound ==
  ASSUME NEW g \in Nat
  PROVE  /\ Sound(NewSession) /\ NewSession.run = 0
         /\ Sound(Begun(g)) /\ Begun(g).run = g
<1>1. NewSession \in SessionTypes /\ Begun(g) \in SessionTypes
  BY DEF NewSession, Begun, SessionTypes, NoRows, NoVersions, Statuses
<1> QED BY <1>1 DEF NewSession, Begun, Sound, NoRows
-----------------------------------------------------------------------------
(* The invariant: the run, the events and the pump.                        *)

EngineTypes ==
  [run : 0..MaxRuns, stopped : BOOLEAN, reason : BOOLEAN, todo : SUBSET Items,
   alive : SUBSET Sections, completed : SUBSET Sections, failed : SUBSET Sections]

EngineInv ==
  /\ engine \in EngineTypes
  /\ engine.run = session.run
  /\ engine.run = 0 => engine.alive = {}

EventsInv ==
  /\ queue \in Events \cup {Nothing} /\ held \in Events \cup {Nothing}
  /\ late \in Events \cup {Nothing}
  /\ chan \in Seq(Events) /\ Len(chan) <= ChannelCap

\* Who is in the middle of something has the gate, and what the pump has in
\* hand is of the current run.
PumpInv ==
  /\ pump.at \in {"idle", "store", "ended"}
  /\ gate \in {"free", "pump", "page"}
  /\ gate = "pump" <=> pump.at = "store"
  /\ gate = "page" <=> client.at = "page"
  /\ pump.at = "store" =>
       /\ pump.ev \in Events /\ pump.ev.item \in Caches
       /\ pump.ev.gen = session.run

TaskTypes == [at : {"none", "fetching", "fetched"}, rows : SUBSET Findings]
EnrichInv == enrich \in [Runs -> TaskTypes]

Cursors == [run : Nat, revision : Nat, rows : [Findings -> Nat]]
ClientTypes ==
  [at : {"idle", "page", "planning"}, cursor : Cursors \cup {Nothing}, plan : 0..MaxRuns]
ClientInv == client \in ClientTypes

Basics ==
  /\ Sound(session) /\ EngineInv /\ EventsInv
  /\ PumpInv /\ EnrichInv /\ ClientInv

\* The two actions that begin a run do so with the gate in hand.
Restarted ==
  /\ Restart /\ GateFree /\ batch' = Nothing
  /\ UNCHANGED <<chan, gate, pump, dispatch, told, enrich, client>>

LEMMA HeadAndTail ==
  ASSUME NEW S, NEW q \in Seq(S), q # <<>>
  PROVE  Head(q) \in S /\ Tail(q) \in Seq(S) /\ Len(Tail(q)) = Len(q) - 1
OBVIOUS

LEMMA AppendOne ==
  ASSUME NEW S, NEW q \in Seq(S), NEW e \in S
  PROVE  Append(q, e) \in Seq(S) /\ Len(Append(q, e)) = Len(q) + 1
OBVIOUS

LEMMA SameSessionFollows ==
  ASSUME Sound(session), UNCHANGED session
  PROVE  Follows(session, session') /\ session'.inventory = session.inventory
BY DEF Follows, Sound, SessionTypes

LEMMA CorrelatedOnly ==
  ASSUME NEW ss, NEW t, Follows(ss, t), NEW u, u = [t EXCEPT !.correlated = TRUE]
  PROVE  Follows(ss, u) /\ u.inventory = t.inventory
<1>1. t \in SessionTypes
  BY DEF Follows, Sound
<1>2. u \in SessionTypes
  BY <1>1 DEF SessionTypes
<1>3. /\ SameRows(t, u) /\ u.limited = t.limited /\ u.status = t.status
  BY <1>1 DEF SessionTypes, SameRows
<1> QED BY <1>2, <1>3 DEF Follows, Sound, SameRows

KeptInventory == session'.inventory = session.inventory

\* Every step of the session is one that it may take in a run, or begins the
\* next run; only the pump changes what is announced of caches.
LEMMA SessionMoves ==
  ASSUME Basics, [Next]_vars
  PROVE  \/ Follows(session, session') /\ (PumpTake \/ KeptInventory)
         \/ Restarted
<1> USE DEF Basics, KeptInventory, SameRows
<1>1. CASE UNCHANGED session
  BY <1>1, SameSessionFollows
<1>2. CASE PumpTake
  <2>1. CASE session' \in Applied(session, Head(chan))
    <3>1. Head(chan) \in Events
      BY <1>2, HeadAndTail DEF PumpTake, EventsInv
    <3> QED BY <1>2, <2>1, <3>1, AppliedFollows
  <2> QED BY <1>1, <1>2, <2>1 DEF PumpTake
<1>3. CASE PumpStore
  <2>1. CASE session' = Limited(session, {pump.ev.item})
    <3>1. {pump.ev.item} \in SUBSET Sections
      BY <1>3, FeedAssumption DEF PumpStore, PumpInv, FeedAssumption
    <3> QED BY <2>1, <3>1, LimitedFollows
  <2> QED BY <1>1, <1>3, <2>1 DEF PumpStore
<1>4. CASE PumpAfter
  <2>1. CASE session' = [Limited(session, Correlated) EXCEPT !.correlated = TRUE]
    <3>1. /\ Follows(session, Limited(session, Correlated))
          /\ Limited(session, Correlated).inventory = session.inventory
      BY LimitedFollows, SessionAssumption DEF SessionAssumption
    <3> QED BY <2>1, <3>1, CorrelatedOnly
  <2>2. ASSUME NEW kept \in Retainable(CorrelatedRows),
               session' = [Retained(session, kept, CorrelatedRows \ kept)
                             EXCEPT !.correlated = TRUE]
        PROVE  Follows(session, session') /\ KeptInventory
    <3>1. kept \in SUBSET Findings /\ CorrelatedRows \ kept \in SUBSET Findings
      BY DEF Retainable, CorrelatedRows, Present
    <3> DEFINE t == Retained(session, kept, CorrelatedRows \ kept)
    <3>2. Follows(session, t) /\ t.inventory = session.inventory
      BY <3>1, RetainedFollows
    <3>3. session' = [t EXCEPT !.correlated = TRUE]
      BY <2>2
    <3> HIDE DEF t
    <3> QED BY <3>2, <3>3, CorrelatedOnly
  <2> QED BY <1>1, <1>4, <2>1, <2>2 DEF PumpAfter
<1>5. CASE Tick
  BY <1>5, ReconciledFollows DEF Tick
<1>6. ASSUME NEW g \in Runs, EnrichApply(g)
      PROVE  Follows(session, session') /\ KeptInventory
  <2>1. ASSUME NEW touched \in SUBSET enrich[g].rows, NEW kept \in Retainable(touched),
               session' = Retained(session, kept, touched \ kept)
        PROVE  Follows(session, session') /\ KeptInventory
    <3>1. kept \in SUBSET Findings /\ touched \ kept \in SUBSET Findings
      BY DEF Retainable, EnrichInv, TaskTypes
    <3> QED BY <2>1, <3>1, RetainedFollows
  <2>2. CASE ~StillWanted(g)
    <3>1. UNCHANGED session
      BY <1>6, <2>2, Zenon DEF EnrichApply
    <3> QED BY <3>1, SameSessionFollows
  <2>3. CASE StillWanted(g)
    <3>1. PICK touched \in SUBSET enrich[g].rows :
            \E kept \in Retainable(touched) :
              session' = Retained(session, kept, touched \ kept)
      BY <1>6, <2>3 DEF EnrichApply
    <3> QED BY <2>1, <3>1
  <2> QED BY <2>2, <2>3
<1>7. CASE Starve
  BY <1>1, <1>7, LimitedFollows DEF Starve
<1>8. CASE CancelScan
  BY <1>8, CancelledFollows DEF CancelScan
<1>9. CASE AskPage
  BY <1>9, ReconciledFollows DEF AskPage
<1>10. CASE StartRun \/ BatchEnds
  BY <1>1, <1>10 DEF StartRun, BatchEnds, Restarted, callers
<1>11. CASE EngineSteps
  BY <1>1, <1>11 DEF EngineSteps, Work, Forward, Publish, PublishLate, EngineOnly
<1>12. CASE \E g \in Runs : EnrichLook(g)
  BY <1>1, <1>12 DEF EnrichLook
<1>13. CASE Wake \/ TellBegin \/ ReadRows \/ TellRows \/ ReadState \/ TellState
  BY <1>1, <1>13 DEF Wake, TellBegin, ReadRows, TellRows, ReadState, TellState, DispatchOnly
<1>14. CASE GivePage \/ PlanBegin \/ PlanEnd \/ Execute
  BY <1>1, <1>14 DEF GivePage, PlanBegin, PlanEnd, Execute
<1>15. CASE UNCHANGED vars
  BY <1>1, <1>15 DEF vars
<1> QED
  BY <1>2, <1>3, <1>4, <1>5, <1>6, <1>7, <1>8, <1>9, <1>10, <1>11, <1>12, <1>13,
     <1>14, <1>15
  DEF Next, PumpSteps, EnrichSteps, DispatchSteps, ClientSteps

LEMMA EventsTyped ==
  ASSUME Basics, NEW s \in engine.alive, NEW item \in ItemsOf(s) \cup {Nothing},
         NEW ok \in BOOLEAN
  PROVE  Event(engine.run, s, item, ok) \in Events
<1>1. engine.run \in Runs /\ s \in Sections
  BY FeedAssumption DEF Basics, EngineInv, EngineTypes, Runs, FeedAssumption
<1>2. item \in Items \cup {Nothing}
  BY FeedAssumption DEF ItemsOf, Items
<1> QED BY <1>1, <1>2 DEF Event, Events

LEMMA EngineHolds ==
  ASSUME Basics, [Next]_vars
  PROVE  EngineInv'
<1> USE DEF Basics
<1>1. CASE Restarted
  <2>1. session.run \in Nat
    BY DEF Sound, SessionTypes
  <2>2. session'.run = session.run + 1 /\ session.run + 1 \in Runs
    BY <1>1, <2>1, BegunIsSound DEF Restarted, Restart, Supersede
  <2>3. session'.run \in 0..MaxRuns /\ session'.run # 0
    BY <2>1, <2>2, FeedAssumption DEF Runs, FeedAssumption
  <2>4. engine' = NewEngine(session'.run)
    BY <1>1, <2>2 DEF Restarted, Restart, Supersede
  <2> QED BY <2>3, <2>4 DEF EngineInv, EngineTypes, NewEngine
<1>2. CASE Follows(session, session')
  <2>1. session'.run = session.run
    BY <1>2 DEF Follows
  <2>2. CASE UNCHANGED engine
    BY <2>1, <2>2 DEF EngineInv
  <2>3. CASE engine' = Halted(engine)
    BY <2>1, <2>3 DEF EngineInv, EngineTypes, Halted
  <2>4. ASSUME NEW s \in Sections, Work(s)
        PROVE  EngineInv'
    BY <2>1, <2>4 DEF EngineInv, EngineTypes, Work, Send
  <2>5. CASE Forward
    <3>1. queue.sec \in Sections
      BY <2>5 DEF Forward, Record, EventsInv, Events
    <3>2. CASE engine' = [engine EXCEPT !.completed = @ \cup {queue.sec}]
      BY <2>1, <3>1, <3>2 DEF EngineInv, EngineTypes
    <3>3. CASE engine' = [engine EXCEPT !.failed = @ \cup {queue.sec}]
      BY <2>1, <3>1, <3>3 DEF EngineInv, EngineTypes
    <3>4. CASE engine' = [engine EXCEPT !.reason = TRUE]
      BY <2>1, <3>4 DEF EngineInv, EngineTypes
    <3> QED BY <2>2, <2>3, <2>5, <3>2, <3>3, <3>4 DEF Forward, Record, Recorded
  <2>6. CASE CancelScan
    BY <2>1, <2>6 DEF CancelScan, CalledOff, EngineInv, EngineTypes
  <2>7. CASE PumpTake \/ PumpStore \/ PumpAfter \/ Starve
    BY <2>2, <2>3, <2>7 DEF PumpTake, PumpStore, PumpAfter, Starve
  <2>8. CASE Publish \/ PublishLate \/ Tick
    BY <2>2, <2>8 DEF Publish, Deliver, PublishLate, DeliverLate, Tick
  <2>9. CASE EnrichSteps
    BY <2>2, <2>9 DEF EnrichSteps, EnrichLook, EnrichApply
  <2>10. CASE Wake \/ TellBegin \/ ReadRows \/ TellRows \/ ReadState \/ TellState
    BY <2>2, <2>10 DEF Wake, TellBegin, ReadRows, TellRows, ReadState, TellState, DispatchOnly
  <2>11. CASE AskPage \/ GivePage \/ PlanBegin \/ PlanEnd \/ Execute
    BY <2>2, <2>11 DEF AskPage, GivePage, PlanBegin, PlanEnd, Execute
  <2>12. CASE StartRun \/ BatchEnds
    BY <1>1, <2>2, <2>12 DEF StartRun, BatchEnds, Restarted, callers
  <2>13. CASE UNCHANGED vars
    BY <2>2, <2>13 DEF vars
  <2> QED
    BY <2>4, <2>5, <2>6, <2>7, <2>8, <2>9, <2>10, <2>11, <2>12, <2>13
    DEF Next, EngineSteps, PumpSteps, DispatchSteps, ClientSteps
<1> QED BY <1>1, <1>2, SessionMoves

LEMMA EventsHold ==
  ASSUME Basics, [Next]_vars
  PROVE  EventsInv'
<1> USE DEF Basics
<1>1. CASE UNCHANGED inbound
  BY <1>1 DEF inbound, EventsInv
<1>2. ASSUME NEW s \in Sections, Work(s) PROVE EventsInv'
  <2>1. UNCHANGED <<held, late, chan>>
    BY <1>2 DEF Work, Send
  <2>2. queue' \in Events
    <3>1. ASSUME NEW i \in ItemsOf(s), queue' = Event(engine.run, s, i, TRUE)
          PROVE  queue' \in Events
      BY <1>2, <3>1, EventsTyped DEF Work, Send
    <3>2. ASSUME NEW ok \in BOOLEAN, queue' = Event(engine.run, s, Nothing, ok)
          PROVE  queue' \in Events
      BY <1>2, <3>2, EventsTyped DEF Work, Send
    <3> QED BY <1>2, <3>1, <3>2 DEF Work, Send
  <2> QED BY <2>1, <2>2 DEF EventsInv
<1>3. CASE Forward
  <2>1. Event(queue.gen, queue.sec, Nothing, FALSE) \in Events
    BY <1>3 DEF Forward, Record, EventsInv, Events, Event
  <2> QED BY <1>3, <2>1 DEF Forward, Record, EventsInv
<1>4. CASE Publish \/ PublishLate
  <2>1. ASSUME NEW e \in Events, Room, chan' = Append(chan, e)
        PROVE  chan' \in Seq(Events) /\ Len(chan') <= ChannelCap
    <3>1. Len(chan) \in Nat /\ ChannelCap \in Nat
      BY FeedAssumption DEF EventsInv, FeedAssumption
    <3> QED BY <2>1, <3>1, AppendOne DEF Room, EventsInv
  <2>2. CASE Publish
    <3>1. held \in Events /\ held' = Nothing /\ UNCHANGED <<queue, late>>
      BY <2>2 DEF Publish, Deliver, EventsInv
    <3> QED BY <2>1, <2>2, <3>1 DEF Publish, Deliver, EventsInv
  <2>3. CASE PublishLate
    <3>1. late \in Events /\ late' = Nothing /\ UNCHANGED <<queue, held>>
      BY <2>3 DEF PublishLate, DeliverLate, EventsInv
    <3> QED BY <2>1, <2>3, <3>1 DEF PublishLate, DeliverLate, EventsInv
  <2> QED BY <1>4, <2>2, <2>3
<1>5. CASE PumpTake
  <2>1. Tail(chan) \in Seq(Events) /\ Len(Tail(chan)) = Len(chan) - 1
    BY <1>5, HeadAndTail DEF PumpTake, EventsInv
  <2>2. Len(chan) \in Nat /\ ChannelCap \in Nat
    BY FeedAssumption DEF EventsInv, FeedAssumption
  <2> QED BY <1>5, <2>1, <2>2 DEF PumpTake, EventsInv
<1>6. CASE Restart /\ UNCHANGED chan
  BY <1>6 DEF Restart, Supersede, EventsInv
<1>8. CASE PumpStore \/ PumpAfter \/ Tick \/ EnrichSteps
  BY <1>1, <1>8 DEF PumpStore, PumpAfter, Tick, EnrichSteps, EnrichLook, EnrichApply
<1>9. CASE DispatchSteps
  BY <1>1, <1>9 DEF DispatchSteps, Wake, TellBegin, ReadRows, TellRows, Starve,
     ReadState, TellState, DispatchOnly
<1>10. CASE CancelScan \/ AskPage \/ GivePage \/ PlanBegin \/ PlanEnd \/ Execute
  BY <1>1, <1>10 DEF CancelScan, AskPage, GivePage, PlanBegin, PlanEnd, Execute
<1>11. CASE StartRun \/ BatchEnds
  BY <1>1, <1>6, <1>11 DEF StartRun, BatchEnds
<1>12. CASE UNCHANGED vars
  BY <1>1, <1>12 DEF vars
<1> QED
  BY <1>2, <1>3, <1>4, <1>5, <1>8, <1>9, <1>10, <1>11, <1>12
  DEF Next, EngineSteps, PumpSteps, ClientSteps

LEMMA PumpHolds ==
  ASSUME Basics, [Next]_vars
  PROVE  PumpInv'
<1> USE DEF Basics
<1>1. CASE Restarted
  BY <1>1 DEF Restarted, PumpInv, GateFree
<1>2. CASE Follows(session, session')
  <2>1. session'.run = session.run
    BY <1>2 DEF Follows
  <2>2. CASE UNCHANGED <<gate, pump, client>>
    BY <2>1, <2>2 DEF PumpInv
  <2>3. CASE PumpTake
    <3> DEFINE ev == Head(chan)
    <3>1. ev \in Events
      BY <2>3, HeadAndTail DEF PumpTake, EventsInv
    <3>2. CASE ~Accepts(session, ev)
      BY <2>2, <2>3, <3>2 DEF PumpTake, callers
    <3>3. CASE Accepts(session, ev)
      <4> client.at # "page" /\ UNCHANGED client
        BY <2>3 DEF PumpTake, PumpInv, GateFree, callers
      <4>1. ev.gen = session.run
        BY <3>3 DEF Accepts
      <4>2. pump' = CASE ev.item \in Caches -> [at |-> "store", ev |-> ev]
                      [] IsEnd(ev) -> [at |-> "ended", ev |-> Nothing]
                      [] ev.item \in Findings -> Idle
        BY <2>3, <3>3 DEF PumpTake
      <4>3. gate' = IF ev.item \in Caches THEN "pump" ELSE "free"
        BY <2>3, <3>3 DEF PumpTake, Holding
      <4>4. CASE ev.item \in Caches
        <5>1. ~IsEnd(ev) /\ ev.item \notin Findings
          BY <4>4, FeedAssumption DEF IsEnd, FeedAssumption
        <5>2. pump' = [at |-> "store", ev |-> ev]
          BY <4>2, <4>4, <5>1
        <5>3. gate' = "pump"
          BY <4>3, <4>4
        <5> QED BY <2>1, <3>1, <4>1, <4>4, <5>2, <5>3 DEF PumpInv
      <4>5. CASE ev.item \notin Caches
        <5>1. IsEnd(ev) \/ ev.item \in Findings
          BY <3>1, <4>5 DEF Events, Items, IsEnd
        <5>2. ~(IsEnd(ev) /\ ev.item \in Findings)
          BY FeedAssumption DEF IsEnd, FeedAssumption
        <5>3. pump' = [at |-> "ended", ev |-> Nothing] \/ pump' = Idle
          BY <4>2, <4>5, <5>1, <5>2
        <5>4. pump'.at \in {"idle", "ended"}
          BY <5>3 DEF Idle
        <5>5. gate' = "free"
          BY <4>3, <4>5
        <5> QED BY <5>4, <5>5 DEF PumpInv
      <4> QED BY <4>4, <4>5
    <3> QED BY <3>2, <3>3
  <2>4. CASE PumpStore
    BY <2>4 DEF PumpStore, PumpInv, Idle, callers
  <2>5. CASE PumpAfter
    BY <2>5 DEF PumpAfter, PumpInv, Idle, GateFree, callers
  <2>6. CASE AskPage
    <3>1. GateFree /\ pump.at # "store" /\ client.at = "idle" /\ UNCHANGED pump
      BY <2>6 DEF AskPage, PumpInv, GateFree
    <3>2. \/ gate' = "page" /\ client'.at = "page"
          \/ UNCHANGED gate /\ client'.at = "idle"
      BY <2>6 DEF AskPage, ClientInv, ClientTypes
    <3> QED BY <3>1, <3>2 DEF PumpInv, GateFree
  <2>7. CASE GivePage
    <3>1. client.at = "page" /\ gate' = "free" /\ UNCHANGED pump /\ client'.at = "idle"
      BY <2>7 DEF GivePage, ClientInv, ClientTypes
    <3> QED BY <3>1 DEF PumpInv
  <2>8. CASE PlanBegin \/ PlanEnd
    <3>1. UNCHANGED <<gate, pump>> /\ client.at # "page" /\ client'.at # "page"
      BY <2>8 DEF PlanBegin, PlanEnd, ClientInv, ClientTypes
    <3> QED BY <2>1, <3>1 DEF PumpInv
  <2>9. CASE EngineSteps
    BY <2>2, <2>9 DEF EngineSteps, Work, Forward, Publish, PublishLate, EngineOnly, callers
  <2>10. CASE Tick \/ EnrichSteps
    BY <2>2, <2>10 DEF Tick, EnrichSteps, EnrichLook, EnrichApply, callers
  <2>11. CASE DispatchSteps
    BY <2>2, <2>11 DEF DispatchSteps, Wake, TellBegin, ReadRows, TellRows, Starve,
       ReadState, TellState, DispatchOnly, callers
  <2>12. CASE CancelScan \/ Execute
    BY <2>2, <2>12 DEF CancelScan, Execute, callers
  <2>13. CASE StartRun \/ BatchEnds
    BY <1>1, <2>2, <2>13 DEF StartRun, BatchEnds, Restarted, callers
  <2>14. CASE UNCHANGED vars
    BY <2>2, <2>14 DEF vars, callers
  <2> QED
    BY <2>3, <2>4, <2>5, <2>6, <2>7, <2>8, <2>9, <2>10, <2>11, <2>12, <2>13, <2>14
    DEF Next, PumpSteps, ClientSteps
<1> QED BY <1>1, <1>2, SessionMoves

LEMMA EnrichHolds ==
  ASSUME Basics, [Next]_vars
  PROVE  EnrichInv'
<1> USE DEF Basics
<1>1. CASE UNCHANGED enrich
  BY <1>1 DEF EnrichInv
<1>2. CASE PumpAfter
  <2>1. [at |-> "fetching", rows |-> CorrelatedRows] \in TaskTypes
    BY DEF TaskTypes, CorrelatedRows, Present
  <2>2. \/ UNCHANGED enrich
        \/ enrich' = [enrich EXCEPT ![session.run] =
                        [at |-> "fetching", rows |-> CorrelatedRows]]
    BY <1>2 DEF PumpAfter
  <2> QED BY <2>1, <2>2 DEF EnrichInv
<1>3. ASSUME NEW g \in Runs, EnrichLook(g) \/ EnrichApply(g)
      PROVE  EnrichInv'
  <2>1. NoTask \in TaskTypes /\ [enrich[g] EXCEPT !.at = "fetched"] \in TaskTypes
    BY DEF NoTask, TaskTypes, EnrichInv
  <2>2. \/ enrich' = [enrich EXCEPT ![g] = NoTask]
        \/ enrich' = [enrich EXCEPT ![g] = [enrich[g] EXCEPT !.at = "fetched"]]
    BY <1>3 DEF EnrichLook, EnrichApply
  <2> QED BY <2>1, <2>2 DEF EnrichInv
<1>4. CASE EngineSteps
  BY <1>1, <1>4 DEF EngineSteps, Work, Forward, Publish, PublishLate, EngineOnly
<1>5. CASE PumpTake \/ PumpStore \/ Tick
  BY <1>1, <1>5 DEF PumpTake, PumpStore, Tick
<1>6. CASE DispatchSteps
  BY <1>1, <1>6 DEF DispatchSteps, Wake, TellBegin, ReadRows, TellRows, Starve,
     ReadState, TellState, DispatchOnly
<1>7. CASE ClientSteps
  BY <1>1, <1>7 DEF ClientSteps, StartRun, CancelScan, AskPage, GivePage, PlanBegin,
     PlanEnd, Execute, BatchEnds
<1>8. CASE UNCHANGED vars
  BY <1>1, <1>8 DEF vars
<1> QED
  BY <1>2, <1>3, <1>4, <1>5, <1>6, <1>7, <1>8 DEF Next, PumpSteps, EnrichSteps

LEMMA ClientHolds ==
  ASSUME Basics, [Next]_vars
  PROVE  ClientInv'
<1> USE DEF Basics
<1>1. CASE UNCHANGED client
  BY <1>1 DEF ClientInv
<1>2. session.run \in 0..MaxRuns /\ 0 \in 0..MaxRuns
  BY FeedAssumption DEF EngineInv, EngineTypes, FeedAssumption
<1>3. CASE AskPage
  BY <1>3 DEF AskPage, ClientInv, ClientTypes
<1>4. CASE GivePage
  <2>1. [run |-> session.run, revision |-> session.queryRevision, rows |-> session.row]
          \in Cursors
    BY DEF Sound, SessionTypes, Cursors
  <2> QED BY <1>4, <2>1 DEF GivePage, ClientInv, ClientTypes
<1>5. CASE PlanBegin \/ PlanEnd
  BY <1>2, <1>5 DEF PlanBegin, PlanEnd, ClientInv, ClientTypes
<1>6. CASE EngineSteps
  BY <1>1, <1>6 DEF EngineSteps, Work, Forward, Publish, PublishLate, EngineOnly, callers
<1>7. CASE PumpSteps \/ EnrichSteps
  BY <1>1, <1>7 DEF PumpSteps, PumpTake, PumpStore, PumpAfter, Tick, EnrichSteps,
     EnrichLook, EnrichApply, callers
<1>8. CASE DispatchSteps
  BY <1>1, <1>8 DEF DispatchSteps, Wake, TellBegin, ReadRows, TellRows, Starve,
     ReadState, TellState, DispatchOnly, callers
<1>9. CASE StartRun \/ CancelScan \/ Execute \/ BatchEnds
  BY <1>1, <1>9 DEF StartRun, CancelScan, Execute, BatchEnds, callers
<1>10. CASE UNCHANGED vars
  BY <1>1, <1>10 DEF vars, callers
<1> QED
  BY <1>3, <1>4, <1>5, <1>6, <1>7, <1>8, <1>9, <1>10 DEF Next, ClientSteps

\* What every reachable state satisfies.
LEMMA BasicsAlways == Spec => []Basics
<1>1. Init => Basics
  <2> SUFFICES ASSUME Init PROVE Basics
    OBVIOUS
  <2>1. Sound(session) /\ session.run = 0
    BY BegunIsSound DEF Init
  <2>2. EngineInv
    <3>1. 0 \in 0..MaxRuns
      BY FeedAssumption DEF FeedAssumption
    <3>2. NewEngine(0) \in EngineTypes
      BY <3>1 DEF EngineTypes, NewEngine
    <3>3. engine \in EngineTypes /\ engine.run = 0 /\ engine.alive = {}
      BY <3>2 DEF Init, FeedInit, NoEngine, EngineTypes, NewEngine
    <3> QED BY <2>1, <3>3 DEF EngineInv
  <2>3. EventsInv
    BY FeedAssumption DEF Init, FeedInit, EventsInv, FeedAssumption
  <2>4. PumpInv /\ EnrichInv
    BY DEF Init, PumpInv, Idle, EnrichInv, NoTask, TaskTypes
  <2>5. ClientInv
    BY FeedAssumption DEF Init, ClientInv, ClientTypes, FeedAssumption
  <2> QED BY <2>1, <2>2, <2>3, <2>4, <2>5 DEF Basics
<1>2. Basics /\ [Next]_vars => Basics'
  <2> SUFFICES ASSUME Basics, [Next]_vars PROVE Basics'
    OBVIOUS
  <2>1. Sound(session')
    <3>1. session.run \in Nat
      BY DEF Basics, Sound, SessionTypes
    <3>2. CASE Restarted
      BY <3>1, <3>2, BegunIsSound DEF Restarted, Restart
    <3> QED BY <3>2, SessionMoves DEF Follows
  <2>2. Sound(session)'
    BY <2>1 DEF Sound, SessionTypes
  <2> QED
    BY <2>2, EngineHolds, EventsHold, PumpHolds, EnrichHolds, ClientHolds DEF Basics
<1> QED BY <1>1, <1>2, PTL DEF Spec

-----------------------------------------------------------------------------
(* Who acts on what: batches, caches and pages.                            *)

LEMMA BatchMoves ==
  ASSUME Basics, [Next]_vars, BatchOfTheRun
  PROVE  BatchOfTheRun'
<1>1. CASE Restarted
  BY <1>1 DEF Restarted, BatchOfTheRun
<1>2. CASE Follows(session, session')
  <2>1. session'.run = session.run
    BY <1>2 DEF Follows
  <2>2. CASE UNCHANGED batch
    BY <2>1, <2>2 DEF BatchOfTheRun
  <2>3. CASE Execute
    BY <2>1, <2>3 DEF Execute, PlanStands, BatchOfTheRun
  <2>4. CASE BatchEnds
    BY <2>4 DEF BatchEnds, BatchOfTheRun
  <2>5. CASE EngineSteps
    BY <2>2, <2>5 DEF EngineSteps, Work, Forward, Publish, PublishLate, EngineOnly, callers
  <2>6. CASE PumpSteps \/ EnrichSteps
    BY <2>2, <2>6 DEF PumpSteps, PumpTake, PumpStore, PumpAfter, Tick, EnrichSteps,
       EnrichLook, EnrichApply, callers
  <2>7. CASE DispatchSteps
    BY <2>2, <2>7 DEF DispatchSteps, Wake, TellBegin, ReadRows, TellRows, Starve,
       ReadState, TellState, DispatchOnly, callers
  <2>8. CASE StartRun \/ CancelScan \/ AskPage \/ GivePage \/ PlanBegin \/ PlanEnd
    BY <2>2, <2>8 DEF StartRun, CancelScan, AskPage, GivePage, PlanBegin, PlanEnd, callers
  <2>9. CASE UNCHANGED vars
    BY <2>2, <2>9 DEF vars, callers
  <2> QED
    BY <2>3, <2>4, <2>5, <2>6, <2>7, <2>8, <2>9 DEF Next, ClientSteps
<1> QED BY <1>1, <1>2, SessionMoves

\* The caches are of the current run, whether or not somebody may look.
CacheTypes == [run : Nat, version : Nat]
CacheInv ==
  /\ cache \in [Caches -> CacheTypes]
  /\ \A c \in Caches : cache[c].run \in {0, session.run}

LEMMA CachesMove ==
  ASSUME Basics, [Next]_vars, CacheInv
  PROVE  CacheInv'
<1>1. CASE Restarted
  <2>1. cache' = [c \in Caches |-> [run |-> 0, version |-> 0]]
    BY <1>1 DEF Restarted, Restart
  <2> QED BY <2>1 DEF CacheInv, CacheTypes
<1>2. CASE Follows(session, session')
  <2>1. session'.run = session.run
    BY <1>2 DEF Follows
  <2>2. CASE UNCHANGED cache
    BY <2>1, <2>2 DEF CacheInv
  <2>3. CASE PumpStore
    <3> DEFINE c == pump.ev.item
               n == IF cache[c].run = pump.ev.gen THEN cache[c].version + 1 ELSE 1
    <3>1. c \in Caches /\ pump.ev.gen = session.run /\ session.run \in Nat
      BY <2>3 DEF PumpStore, Basics, PumpInv, Sound, SessionTypes
    <3>2. n \in Nat
      BY <3>1 DEF CacheInv, CacheTypes
    <3>3. \/ UNCHANGED cache
          \/ cache' = [cache EXCEPT ![c] = [run |-> pump.ev.gen, version |-> n]]
      BY <2>3 DEF PumpStore
    <3> HIDE DEF c, n
    <3>4. CASE cache' = [cache EXCEPT ![c] = [run |-> pump.ev.gen, version |-> n]]
      BY <2>1, <3>1, <3>2, <3>4 DEF CacheInv, CacheTypes
    <3> QED BY <2>2, <3>3, <3>4
  <2>4. CASE EngineSteps
    BY <2>2, <2>4 DEF EngineSteps, Work, Forward, Publish, PublishLate, EngineOnly
  <2>5. CASE PumpTake \/ PumpAfter \/ Tick \/ EnrichSteps
    BY <2>2, <2>5 DEF PumpTake, PumpAfter, Tick, EnrichSteps, EnrichLook, EnrichApply
  <2>6. CASE DispatchSteps
    BY <2>2, <2>6 DEF DispatchSteps, Wake, TellBegin, ReadRows, TellRows, Starve,
       ReadState, TellState, DispatchOnly
  <2>7. CASE CancelScan \/ AskPage \/ GivePage \/ PlanBegin \/ PlanEnd \/ Execute
    BY <2>2, <2>7 DEF CancelScan, AskPage, GivePage, PlanBegin, PlanEnd, Execute
  <2>8. CASE StartRun \/ BatchEnds
    BY <1>1, <2>2, <2>8 DEF StartRun, BatchEnds, Restarted, callers
  <2>9. CASE UNCHANGED vars
    BY <2>2, <2>9 DEF vars
  <2> QED
    BY <2>3, <2>4, <2>5, <2>6, <2>7, <2>8, <2>9 DEF Next, PumpSteps, ClientSteps
<1> QED BY <1>1, <1>2, SessionMoves

\* BatchOfTheRun: a cleanup batch is executed in the run its plan was made in,
\* and the run does not change before the batch is over, whatever clients, the
\* pump and enrichment do meanwhile.
THEOREM BatchStaysInItsRun == Spec => []BatchOfTheRun
<1>1. Init => BatchOfTheRun
  BY DEF Init, BatchOfTheRun
<1> QED BY <1>1, BatchMoves, BasicsAlways, PTL DEF Spec

\* CachesAreCurrent: trees and footprints are of the current run whenever a
\* query may look at them.
THEOREM CachesStayCurrent == Spec => []CachesAreCurrent
<1>1. Init => CacheInv
  BY DEF Init, CacheInv, CacheTypes
<1>2. CacheInv => CachesAreCurrent
  BY DEF CacheInv, CachesAreCurrent
<1> QED BY <1>1, <1>2, CachesMove, BasicsAlways, PTL DEF Spec

-----------------------------------------------------------------------------
(* Pages.                                                                  *)

\* A cursor of the current run and revision has the rows of the session.
CursorInv ==
  LET cursor == client.cursor
  IN  cursor # Nothing =>
        /\ cursor.run <= session.run
        /\ cursor.run = session.run =>
             /\ cursor.revision <= session.queryRevision
             /\ cursor.revision = session.queryRevision => cursor.rows = session.row

LEMMA CursorsMove ==
  ASSUME Basics, [Next]_vars, CursorInv
  PROVE  CursorInv'
<1> DEFINE cursor == client.cursor
<1>1. session \in SessionTypes /\ client \in ClientTypes
  BY DEF Basics, Sound, ClientInv
<1>2. CASE client'.cursor \in {cursor, Nothing}
  <2>1. SUFFICES ASSUME cursor # Nothing, client'.cursor = cursor
                 PROVE  CursorInv'
    BY <1>2 DEF CursorInv
  <2>2. cursor \in Cursors
    BY <1>1, <2>1 DEF ClientTypes
  <2>3. CASE Restarted
    <3>1. session'.run = session.run + 1
      BY <1>1, <2>3, BegunIsSound DEF Restarted, Restart, SessionTypes
    <3>2. cursor.run < session'.run
      BY <1>1, <2>1, <2>2, <3>1 DEF CursorInv, SessionTypes, Cursors
    <3>3. cursor.run \in Nat /\ session'.run \in Nat
      BY <1>1, <2>2, <3>1 DEF SessionTypes, Cursors
    <3> QED BY <2>1, <3>2, <3>3 DEF CursorInv
  <2>4. CASE Follows(session, session')
    <3>1. session' \in SessionTypes
      BY <2>4 DEF Follows, Sound
    <3>2. /\ session.queryRevision \in Nat /\ session'.queryRevision \in Nat
          /\ cursor.revision \in Nat
      BY <1>1, <2>2, <3>1 DEF SessionTypes, Cursors
    <3> QED BY <2>1, <2>4, <3>2 DEF CursorInv, Follows
  <2> QED BY <2>3, <2>4, SessionMoves
<1>3. CASE GivePage
  <2>1. UNCHANGED session
    BY <1>3 DEF GivePage
  <2>2. client'.cursor = [run |-> session.run, revision |-> session.queryRevision,
                          rows |-> session.row]
    BY <1>1, <1>3 DEF GivePage, ClientTypes
  <2> QED BY <1>1, <2>1, <2>2 DEF CursorInv, SessionTypes
<1>4. CASE AskPage \/ PlanBegin \/ PlanEnd
  BY <1>1, <1>2, <1>4 DEF AskPage, PlanBegin, PlanEnd, ClientTypes
<1>5. CASE EngineSteps
  BY <1>2, <1>5 DEF EngineSteps, Work, Forward, Publish, PublishLate, EngineOnly, callers
<1>6. CASE PumpSteps \/ EnrichSteps
  BY <1>2, <1>6 DEF PumpSteps, PumpTake, PumpStore, PumpAfter, Tick, EnrichSteps,
     EnrichLook, EnrichApply, callers
<1>7. CASE DispatchSteps
  BY <1>2, <1>7 DEF DispatchSteps, Wake, TellBegin, ReadRows, TellRows, Starve,
     ReadState, TellState, DispatchOnly, callers
<1>8. CASE StartRun \/ CancelScan \/ Execute \/ BatchEnds
  BY <1>2, <1>8 DEF StartRun, CancelScan, Execute, BatchEnds, callers
<1>9. CASE UNCHANGED vars
  BY <1>2, <1>9 DEF vars, callers
<1> QED
  BY <1>3, <1>4, <1>5, <1>6, <1>7, <1>8, <1>9 DEF Next, ClientSteps

\* While a page is made, its cursor is of the run of the session.
PageInv ==
  client.at = "page" /\ client.cursor # Nothing => client.cursor.run = session.run

\* Who has the gate for a page keeps everybody who begins a run away.
LEMMA PageKeepsRun ==
  ASSUME Basics, [Next]_vars, gate = "page"
  PROVE  session'.run = session.run
<1>1. ~Restarted
  BY DEF Restarted, GateFree
<1> QED BY <1>1, SessionMoves DEF Follows

LEMMA PageHolds ==
  ASSUME Basics, [Next]_vars, PageInv
  PROVE  PageInv'
<1>1. client \in ClientTypes
  BY DEF Basics, ClientInv
<1>2. CASE UNCHANGED client
  <2>1. CASE client.at = "page"
    <3>1. session'.run = session.run
      BY <2>1, PageKeepsRun DEF Basics, PumpInv
    <3> QED BY <1>2, <3>1 DEF PageInv
  <2>2. CASE client.at # "page"
    BY <1>2, <2>2 DEF PageInv
  <2> QED BY <2>1, <2>2
<1>3. CASE AskPage
  <2>1. session'.run = session.run
    BY <1>3, ReconciledFollows DEF AskPage, Basics, SameRows
  <2>2. \/ client'.cursor = Nothing
        \/ client'.cursor = client.cursor /\ Continues(client.cursor)
    BY <1>1, <1>3 DEF AskPage, ClientTypes
  <2> QED BY <2>1, <2>2 DEF Continues, PageInv
<1>4. CASE GivePage \/ PlanBegin \/ PlanEnd
  BY <1>1, <1>4 DEF GivePage, PlanBegin, PlanEnd, PageInv, ClientTypes
<1>5. CASE EngineSteps
  BY <1>2, <1>5 DEF EngineSteps, Work, Forward, Publish, PublishLate, EngineOnly, callers
<1>6. CASE PumpSteps \/ EnrichSteps
  BY <1>2, <1>6 DEF PumpSteps, PumpTake, PumpStore, PumpAfter, Tick, EnrichSteps,
     EnrichLook, EnrichApply, callers
<1>7. CASE DispatchSteps
  BY <1>2, <1>7 DEF DispatchSteps, Wake, TellBegin, ReadRows, TellRows, Starve,
     ReadState, TellState, DispatchOnly, callers
<1>8. CASE StartRun \/ CancelScan \/ Execute \/ BatchEnds
  BY <1>2, <1>8 DEF StartRun, CancelScan, Execute, BatchEnds, callers
<1>9. CASE UNCHANGED vars
  BY <1>2, <1>9 DEF vars, callers
<1> QED
  BY <1>3, <1>4, <1>5, <1>6, <1>7, <1>8, <1>9 DEF Next, ClientSteps

PageSteps ==
  client.at = "page" /\ client.cursor # Nothing
    => /\ client'.cursor.run = client.cursor.run
       /\ client'.cursor.rows # client.cursor.rows
            => client'.cursor.revision # client.cursor.revision

LEMMA PageGiven ==
  ASSUME Basics, [Next]_vars, CursorInv, PageInv
  PROVE  [PageSteps]_client
<1>1. client \in ClientTypes
  BY DEF Basics, ClientInv
<1>2. CASE GivePage /\ client.at = "page" /\ client.cursor # Nothing
  <2>1. client'.cursor = [run |-> session.run, revision |-> session.queryRevision,
                          rows |-> session.row]
    BY <1>1, <1>2 DEF GivePage, ClientTypes
  <2>2. client.cursor.run = session.run
    BY <1>2 DEF PageInv
  <2>3. client.cursor.revision = session.queryRevision => client.cursor.rows = session.row
    BY <1>2, <2>2 DEF CursorInv
  <2> QED BY <2>1, <2>2, <2>3 DEF PageSteps
<1>3. CASE AskPage \/ PlanBegin \/ PlanEnd
  BY <1>3 DEF AskPage, PlanBegin, PlanEnd, PageSteps
<1>4. CASE EngineSteps
  BY <1>4 DEF EngineSteps, Work, Forward, Publish, PublishLate, EngineOnly, callers
<1>5. CASE PumpSteps \/ EnrichSteps
  BY <1>5 DEF PumpSteps, PumpTake, PumpStore, PumpAfter, Tick, EnrichSteps,
     EnrichLook, EnrichApply, callers
<1>6. CASE DispatchSteps
  BY <1>6 DEF DispatchSteps, Wake, TellBegin, ReadRows, TellRows, Starve,
     ReadState, TellState, DispatchOnly, callers
<1>7. CASE StartRun \/ CancelScan \/ Execute \/ BatchEnds
  BY <1>7 DEF StartRun, CancelScan, Execute, BatchEnds, callers
<1>8. CASE UNCHANGED vars
  BY <1>8 DEF vars, callers
<1>9. GivePage => client.at = "page"
  BY DEF GivePage
<1> QED
  BY <1>2, <1>3, <1>4, <1>5, <1>6, <1>7, <1>8, <1>9 DEF Next, ClientSteps, PageSteps

\* What a revision stands for: within a run the rows do not change unless the
\* revision that pages compare grows.  Every step of every action is one of
\* these; a row that changes is newer than any the session had.
THEOREM RowsMoveWithRevision == Spec => [][Follows(session, session') \/ Restarted]_vars
<1>1. Basics /\ [Next]_vars => [Follows(session, session') \/ Restarted]_vars
  BY SessionMoves
<1> QED BY <1>1, BasicsAlways, PTL DEF Spec

\* PageTellsItsRevision: whatever the pump, enrichment and other clients do
\* while a continuation is compared with the session and filled, its page is
\* of the run of its cursor, and rows that changed come with another revision.
\* (That the rows did not change is false: PageIsOfItsRevision.)
THEOREM PagesTellTheirRevision == Spec => PageTellsItsRevision
<1>1. Init => CursorInv /\ PageInv
  BY DEF Init, CursorInv, PageInv
<1>2. Basics /\ CursorInv /\ [Next]_vars => CursorInv'
  BY CursorsMove
<1>3. Basics /\ PageInv /\ [Next]_vars => PageInv'
  BY PageHolds
<1>4. Basics /\ CursorInv /\ PageInv /\ [Next]_vars => [PageSteps]_client
  BY PageGiven
<1>5. Spec => [][PageSteps]_client
  BY <1>1, <1>2, <1>3, <1>4, BasicsAlways, PTL DEF Spec
<1> QED BY <1>5 DEF PageTellsItsRevision, PageSteps

-----------------------------------------------------------------------------
(* What the listener has been told.                                        *)

DispatchTypes ==
  [at : {"idle", "begin", "rows", "tellRows", "starved", "state", "tellState"},
   run : Nat, revision : Nat, rows : [Findings -> Nat],
   status : [Sections -> Statuses], inventory : [Caches -> Nat], sampled : Nat]
ToldTypes ==
  [run : Nat, row : [Findings -> Nat], status : [Sections -> Statuses],
   inventory : [Caches -> Nat], upTo : [Sections -> Nat]]

\* The listener and the dispatch thread are never ahead of the session, nor
\* the listener of the dispatch thread.
RunsInOrder ==
  /\ told.run <= session.run /\ dispatch.run <= session.run
  /\ told.run = session.run => dispatch.run = session.run
  /\ dispatch.at = "begin" => told.run # session.run /\ dispatch.revision = 0
  /\ dispatch.run = session.run =>
       dispatch.revision <= session.revision /\ dispatch.sampled <= session.revision

\* A row that was read and not yet told is the session's, or has changed
\* since, which makes it newer than anything the thread has looked at.
ReadyToTell(f) ==
  dispatch.at = "tellRows" /\ dispatch.rows[f] # 0 =>
    /\ dispatch.rows[f] <= dispatch.revision
    /\ \/ dispatch.rows[f] = session.row[f]
       \/ dispatch.revision < session.row[f] /\ told.upTo[SectionOf[f]] < session.row[f]

\* Every row up to the thread's revision has been told or is about to be,
\* unless all sections were given up.
ToldSoFar(f) ==
  session.limited # Sections /\ session.row[f] <= dispatch.revision =>
    \/ told.row[f] = session.row[f]
    \/ dispatch.at = "tellRows" /\ dispatch.rows[f] # 0

\* An ending that is about to be told comes after the rows there were when
\* it was read.
EndingIsDue(f) ==
  LET s == SectionOf[f]
  IN  dispatch.at = "tellState" =>
        \/ told.row[f] = session.row[f]
        \/ dispatch.status[s] # "Done" \/ dispatch.status[s] = told.status[s]
        \/ ~(session.row[f] <= dispatch.sampled)

EndingWasTold(f) ==
  LET s == SectionOf[f]
  IN  told.status[s] = "Done" /\ session.row[f] <= told.upTo[s]
        => told.row[f] = session.row[f]

HeardInv ==
  /\ \A s \in Sections : told.upTo[s] <= session.revision
  /\ dispatch.at \notin {"begin", "tellState"} => told.status = dispatch.status
  /\ \A f \in Findings :
       /\ told.row[f] <= dispatch.revision
       /\ ReadyToTell(f) /\ ToldSoFar(f) /\ EndingIsDue(f) /\ EndingWasTold(f)

ListenerInv ==
  /\ dispatch \in DispatchTypes /\ told \in ToldTypes
  /\ RunsInOrder
  /\ told.run = session.run => HeardInv

\* Steps of others leave the invariant as it is.
LEMMA OthersLeaveListener ==
  ASSUME Basics, ListenerInv, Follows(session, session') \/ Restarted,
         UNCHANGED <<dispatch, told>>
  PROVE  ListenerInv'
<1>1. /\ session \in SessionTypes /\ dispatch \in DispatchTypes /\ told \in ToldTypes
  BY DEF Basics, Sound, ListenerInv
<1>2. CASE Restarted
  <2>1. session'.run = session.run + 1
    BY <1>1, <1>2, BegunIsSound DEF Restarted, Restart, SessionTypes
  <2>2. told.run < session'.run /\ dispatch.run < session'.run
    BY <1>1, <2>1 DEF ListenerInv, RunsInOrder, SessionTypes, DispatchTypes, ToldTypes
  <2>3. {told.run, dispatch.run, session'.run} \subseteq Nat
    BY <1>1, <2>1 DEF SessionTypes, DispatchTypes, ToldTypes
  <2> QED BY <1>1, <2>2, <2>3 DEF ListenerInv, RunsInOrder
<1>3. CASE Follows(session, session')
  <2>1. session' \in SessionTypes
    BY <1>3 DEF Follows, Sound
  <2>2. /\ session'.run = session.run
        /\ session.revision <= session'.revision
        /\ session.revision \in Nat /\ session'.revision \in Nat
    BY <1>1, <1>3, <2>1 DEF Follows, SessionTypes
  <2>3. RunsInOrder'
    BY <1>1, <2>2 DEF ListenerInv, RunsInOrder, DispatchTypes
  <2>4. ASSUME told.run = session.run
        PROVE  HeardInv'
    <3>1. HeardInv /\ dispatch.run = session.run
      BY <2>4 DEF ListenerInv, RunsInOrder
    <3>2. /\ dispatch.revision <= session.revision /\ dispatch.sampled <= session.revision
          /\ dispatch.revision \in Nat /\ dispatch.sampled \in Nat
      BY <1>1, <3>1 DEF ListenerInv, RunsInOrder, DispatchTypes
    <3>3. \A s \in Sections : told.upTo[s] \in Nat /\ told.upTo[s] <= session.revision
      BY <1>1, <3>1 DEF HeardInv, ToldTypes
    <3>4. ASSUME NEW f \in Findings
          PROVE  /\ ReadyToTell(f)' /\ ToldSoFar(f)'
                 /\ EndingIsDue(f)' /\ EndingWasTold(f)'
      <4>1. /\ session.row[f] \in Nat /\ session'.row[f] \in Nat
            /\ session'.row[f] = session.row[f] \/ session.revision < session'.row[f]
        BY <1>1, <1>3, <2>1 DEF Follows, SessionTypes
      <4>2. SectionOf[f] \in Sections
        BY FeedAssumption DEF FeedAssumption
      <4>3. session'.limited # Sections => session.limited # Sections
        BY <1>3, <2>1 DEF Follows, SessionTypes
      <4>4. ReadyToTell(f) /\ ToldSoFar(f) /\ EndingIsDue(f) /\ EndingWasTold(f)
        BY <3>1 DEF HeardInv
      <4>5. ReadyToTell(f)'
        BY <2>2, <3>2, <3>3, <4>1, <4>2, <4>4 DEF ReadyToTell
      <4>6. ToldSoFar(f)'
        BY <2>2, <3>2, <4>1, <4>3, <4>4 DEF ToldSoFar
      <4>7. EndingIsDue(f)'
        BY <2>2, <3>2, <4>1, <4>4 DEF EndingIsDue
      <4>8. EndingWasTold(f)'
        BY <2>2, <3>3, <4>1, <4>2, <4>4 DEF EndingWasTold
      <4> QED BY <4>5, <4>6, <4>7, <4>8
    <3>5. \A s \in Sections : told.upTo[s] <= session'.revision
      BY <2>2, <3>3
    <3> QED BY <3>1, <3>4, <3>5 DEF HeardInv
  <2> QED BY <1>1, <2>2, <2>3, <2>4 DEF ListenerInv
<1> QED BY <1>2, <1>3

LEMMA WakeKeeps ==
  ASSUME Basics, ListenerInv, Wake
  PROVE  ListenerInv'
<1>1. /\ session \in SessionTypes /\ dispatch \in DispatchTypes /\ told \in ToldTypes
      /\ UNCHANGED <<session, told>>
  BY DEF Basics, Sound, ListenerInv, Wake, DispatchOnly
<1>2. CASE session.run = dispatch.run
  <2>1. /\ dispatch.at = "idle" /\ dispatch' = [dispatch EXCEPT !.at = "rows"]
    BY <1>2 DEF Wake
  <2>2. /\ dispatch' \in DispatchTypes /\ dispatch'.at = "rows"
        /\ dispatch'.run = dispatch.run /\ dispatch'.revision = dispatch.revision
        /\ dispatch'.status = dispatch.status /\ dispatch'.sampled = dispatch.sampled
    BY <1>1, <2>1 DEF DispatchTypes
  <2> QED
    BY <1>1, <2>1, <2>2 DEF ListenerInv, RunsInOrder, HeardInv, ReadyToTell, ToldSoFar,
       EndingIsDue, EndingWasTold
<1>3. CASE session.run # dispatch.run
  <2>1. dispatch' = [Asleep EXCEPT !.at = "begin", !.run = session.run,
                       !.status = [s \in Sections |-> "Scanning"]]
    BY <1>3 DEF Wake
  <2>2. /\ dispatch' \in DispatchTypes /\ dispatch'.at = "begin"
        /\ dispatch'.run = session.run
        /\ dispatch'.revision = 0 /\ dispatch'.sampled = 0
    BY <1>1, <2>1 DEF Asleep, DispatchTypes, SessionTypes, NoRows, NoVersions, Statuses
  <2>3. told.run # session.run
    BY <1>3 DEF ListenerInv, RunsInOrder
  <2> QED BY <1>1, <2>2, <2>3 DEF ListenerInv, RunsInOrder, SessionTypes
<1> QED BY <1>2, <1>3

\* A thread whose run is over changes nothing that matters.
LEMMA UnheededKeeps ==
  ASSUME Basics, ListenerInv, ~Heeded, UNCHANGED told, session'.run = session.run,
         dispatch'.run = dispatch.run, dispatch'.at # "begin",
         dispatch' \in DispatchTypes
  PROVE  ListenerInv'
BY DEF ListenerInv, RunsInOrder, Heeded

LEMMA TellBeginKeeps ==
  ASSUME Basics, ListenerInv, TellBegin
  PROVE  ListenerInv'
<1>1. /\ session \in SessionTypes /\ dispatch \in DispatchTypes /\ told \in ToldTypes
      /\ UNCHANGED session /\ dispatch.at = "begin"
      /\ dispatch' = [dispatch EXCEPT !.at = "rows"]
  BY DEF Basics, Sound, ListenerInv, TellBegin, DispatchOnly
<1>2. /\ dispatch' \in DispatchTypes /\ dispatch'.at = "rows"
      /\ dispatch'.run = dispatch.run /\ dispatch'.revision = dispatch.revision
      /\ dispatch'.status = dispatch.status /\ dispatch'.sampled = dispatch.sampled
  BY <1>1 DEF DispatchTypes
<1>3. CASE ~Heeded
  BY <1>1, <1>2, <1>3, UnheededKeeps DEF TellBegin
<1>4. CASE Heeded
  <2>1. told' = [Silence EXCEPT !.run = dispatch.run, !.status = dispatch.status]
    BY <1>4 DEF TellBegin
  <2>2. /\ told' \in ToldTypes /\ told'.run = session.run
        /\ told'.status = dispatch.status
        /\ told'.row = NoRows /\ told'.upTo = [s \in Sections |-> 0]
    BY <1>1, <1>4, <2>1
    DEF Silence, ToldTypes, DispatchTypes, Heeded, NoRows, NoVersions, Statuses
  <2>3. dispatch.revision = 0
    BY <1>1 DEF ListenerInv, RunsInOrder
  <2>4. session.revision \in Nat /\ session.row \in [Findings -> Nat]
    BY <1>1 DEF SessionTypes
  <2>5. RunsInOrder'
    BY <1>1, <1>2, <1>4, <2>2, <2>4 DEF ListenerInv, RunsInOrder, Heeded, SessionTypes
  <2>6. HeardInv'
    <3>1. ASSUME NEW f \in Findings
          PROVE  /\ told'.row[f] = 0
                 /\ SectionOf[f] \in Sections /\ told'.upTo[SectionOf[f]] = 0
                 /\ session.row[f] \in Nat
      BY <2>2, <2>4, FeedAssumption DEF NoRows, FeedAssumption
    <3>2. ASSUME NEW f \in Findings
          PROVE  /\ told'.row[f] <= dispatch'.revision
                 /\ ReadyToTell(f)' /\ ToldSoFar(f)'
                 /\ EndingIsDue(f)' /\ EndingWasTold(f)'
      <4>1. dispatch'.revision = 0 /\ dispatch'.at = "rows"
        BY <1>2, <2>3
      <4>2. ReadyToTell(f)' /\ EndingIsDue(f)'
        BY <4>1 DEF ReadyToTell, EndingIsDue
      <4>3. session'.row[f] = session.row[f]
        BY <1>1
      <4>4. ToldSoFar(f)' /\ EndingWasTold(f)'
        BY <3>1, <4>1, <4>3 DEF ToldSoFar, EndingWasTold
      <4> QED BY <3>1, <4>1, <4>2, <4>4
    <3> QED BY <1>1, <1>2, <2>2, <2>4, <3>2 DEF HeardInv
  <2> QED BY <1>2, <2>2, <2>5, <2>6 DEF ListenerInv
<1> QED BY <1>3, <1>4

\* The rows that changed since a revision are the next ones in order: no row
\* before the last of them is left out.
LEMMA ChangesAreNext ==
  ASSUME NEW ss \in SessionTypes, NEW after \in Nat,
         NEW m \in Changes(ss, after), NEW f \in Findings,
         after < ss.row[f], ss.row[f] <= ss.row[m]
  PROVE  f \in Changes(ss, after)
<1> DEFINE newer == {g \in Findings : ss.row[g] > after}
           before(h) == {g \in newer : ss.row[g] <= ss.row[h]}
<1>1. f \in newer /\ m \in newer /\ Cardinality(before(m)) <= FlushThreshold
  BY DEF Changes
<1>2. IsFiniteSet(before(m))
  BY FeedAssumption, FS_Subset DEF FeedAssumption
<1>3. before(f) \subseteq before(m)
  BY <1>1 DEF SessionTypes
<1>4. /\ Cardinality(before(f)) <= Cardinality(before(m))
      /\ Cardinality(before(f)) \in Nat /\ Cardinality(before(m)) \in Nat
  BY <1>2, <1>3, FS_Subset, FS_CardinalityType
<1>5. Cardinality(before(f)) <= FlushThreshold
  BY <1>1, <1>4, SessionAssumption DEF SessionAssumption
<1> QED BY <1>1, <1>5 DEF Changes

LEMMA ReadRowsKeeps ==
  ASSUME Basics, ListenerInv, ReadRows
  PROVE  ListenerInv'
<1> DEFINE next == Changes(session, dispatch.revision)
<1>1. /\ session \in SessionTypes /\ dispatch \in DispatchTypes /\ told \in ToldTypes
      /\ UNCHANGED <<session, told>> /\ dispatch.at = "rows"
  BY DEF Basics, Sound, ListenerInv, ReadRows, DispatchOnly
<1>2. ASSUME NEW place \in {"idle", "starved"}, dispatch' = [dispatch EXCEPT !.at = place]
      PROVE  ListenerInv'
  <2>1. /\ dispatch' \in DispatchTypes /\ dispatch'.at = place
        /\ dispatch'.run = dispatch.run /\ dispatch'.revision = dispatch.revision
        /\ dispatch'.status = dispatch.status /\ dispatch'.sampled = dispatch.sampled
    BY <1>1, <1>2 DEF DispatchTypes
  <2> QED
    BY <1>1, <2>1 DEF ListenerInv, RunsInOrder, HeardInv, ReadyToTell, ToldSoFar,
       EndingIsDue, EndingWasTold
<1>3. ASSUME NEW n \in {dispatch.revision} \cup {session.row[f] : f \in next},
             \A f \in next : session.row[f] <= n,
             dispatch' = [dispatch EXCEPT
               !.at = IF next = {} THEN "state" ELSE "tellRows", !.revision = n,
               !.rows = [f \in Findings |-> IF f \in next THEN session.row[f] ELSE 0]],
             Heeded
      PROVE  ListenerInv'
  <2>1. /\ session.row \in [Findings -> Nat] /\ dispatch.revision \in Nat
        /\ session.revision \in Nat /\ told.row \in [Findings -> Nat]
        /\ \A f \in Findings : session.row[f] <= session.revision
        /\ dispatch.revision <= session.revision
    BY <1>1, <1>3
    DEF SessionTypes, DispatchTypes, ToldTypes, Basics, Sound, ListenerInv, RunsInOrder, Heeded
  <2>2. \A f \in next : f \in Findings /\ dispatch.revision < session.row[f]
    BY <2>1 DEF Changes
  <2>3. n \in Nat /\ n <= session.revision /\ dispatch.revision <= n
    BY <1>3, <2>1, <2>2
  <2>4. ASSUME NEW f \in Findings, dispatch.revision < session.row[f], session.row[f] <= n
        PROVE  f \in next
    <3>1. PICK m \in next : n = session.row[m]
      BY <1>3, <2>1, <2>4
    <3> QED BY <1>1, <2>1, <2>4, <3>1, ChangesAreNext
  <2> DEFINE rows == [f \in Findings |-> IF f \in next THEN session.row[f] ELSE 0]
  <2>5. rows \in [Findings -> Nat]
    BY <2>1
  <2> HIDE DEF next
  <2>6. /\ dispatch' \in DispatchTypes
        /\ dispatch'.at = IF next = {} THEN "state" ELSE "tellRows"
        /\ dispatch'.run = dispatch.run /\ dispatch'.revision = n
        /\ dispatch'.rows = rows
        /\ dispatch'.status = dispatch.status /\ dispatch'.sampled = dispatch.sampled
    BY <1>1, <1>3, <2>3, <2>5 DEF DispatchTypes
  <2>7. RunsInOrder'
    BY <1>1, <2>3, <2>6 DEF ListenerInv, RunsInOrder
  <2>8. ASSUME told.run = session.run
        PROVE  HeardInv'
    <3>1. HeardInv
      BY <2>8 DEF ListenerInv
    <3>2. ASSUME NEW f \in Findings
          PROVE  /\ told'.row[f] <= dispatch'.revision
                 /\ ReadyToTell(f)' /\ ToldSoFar(f)'
                 /\ EndingIsDue(f)' /\ EndingWasTold(f)'
      <4>1. /\ session.row[f] \in Nat /\ told.row[f] \in Nat
            /\ rows[f] = IF f \in next THEN session.row[f] ELSE 0
        BY <2>1
      <4> HIDE DEF rows
      <4>2. told.row[f] <= dispatch.revision /\ ToldSoFar(f) /\ EndingWasTold(f)
        BY <3>1 DEF HeardInv
      <4>3. told'.row[f] <= dispatch'.revision
        BY <1>1, <2>1, <2>3, <2>6, <4>1, <4>2
      <4>4. ReadyToTell(f)'
        BY <1>1, <1>3, <2>6, <4>1 DEF ReadyToTell
      <4>5. ToldSoFar(f)'
        <5>1. CASE f \in next
          BY <1>1, <2>1, <2>2, <2>6, <4>1, <5>1 DEF ToldSoFar
        <5>2. CASE f \notin next
          BY <1>1, <2>1, <2>3, <2>4, <2>6, <4>1, <4>2, <5>2 DEF ToldSoFar
        <5> QED BY <5>1, <5>2
      <4>6. EndingIsDue(f)'
        <5>1. dispatch'.at # "tellState"
          BY <2>6
        <5> QED BY <5>1 DEF EndingIsDue
      <4>7. EndingWasTold(f)'
        BY <1>1, <4>2 DEF EndingWasTold
      <4> QED BY <4>3, <4>4, <4>5, <4>6, <4>7
    <3>3. /\ \A s \in Sections : told'.upTo[s] <= session'.revision
          /\ told'.status = dispatch'.status
      BY <1>1, <2>6, <3>1 DEF HeardInv
    <3> QED BY <3>2, <3>3 DEF HeardInv
  <2> QED BY <1>1, <2>6, <2>7, <2>8 DEF ListenerInv
<1> QED BY <1>2, <1>3 DEF ReadRows

LEMMA TellRowsKeeps ==
  ASSUME Basics, ListenerInv, TellRows
  PROVE  ListenerInv'
<1>1. /\ session \in SessionTypes /\ dispatch \in DispatchTypes /\ told \in ToldTypes
      /\ UNCHANGED session /\ dispatch.at = "tellRows"
      /\ dispatch' = [dispatch EXCEPT !.at = "state", !.rows = NoRows]
  BY DEF Basics, Sound, ListenerInv, TellRows, DispatchOnly
<1>2. /\ dispatch' \in DispatchTypes /\ dispatch'.at = "state"
      /\ dispatch'.run = dispatch.run /\ dispatch'.revision = dispatch.revision
      /\ dispatch'.status = dispatch.status /\ dispatch'.sampled = dispatch.sampled
  BY <1>1 DEF DispatchTypes, NoRows
<1>3. CASE ~Heeded
  BY <1>1, <1>2, <1>3, UnheededKeeps DEF TellRows
<1>4. CASE Heeded
  <2> DEFINE row == [f \in Findings |-> IF dispatch.rows[f] = 0 THEN told.row[f]
                                        ELSE dispatch.rows[f]]
  <2>1. told' = [told EXCEPT !.row = row]
    BY <1>1, <1>4 DEF TellRows, ToldTypes
  <2>2. row \in [Findings -> Nat]
    BY <1>1 DEF DispatchTypes, ToldTypes
  <2>3. /\ told' \in ToldTypes /\ told'.run = told.run /\ told'.row = row
        /\ told'.status = told.status /\ told'.upTo = told.upTo
    BY <1>1, <2>1, <2>2 DEF ToldTypes
  <2>4. RunsInOrder'
    BY <1>1, <1>2, <2>3 DEF ListenerInv, RunsInOrder
  <2>5. ASSUME told.run = session.run
        PROVE  HeardInv'
    <3>1. HeardInv
      BY <2>5 DEF ListenerInv
    <3>2. ASSUME NEW f \in Findings
          PROVE  /\ told'.row[f] <= dispatch'.revision
                 /\ ReadyToTell(f)' /\ ToldSoFar(f)'
                 /\ EndingIsDue(f)' /\ EndingWasTold(f)'
      <4>1. /\ told'.row[f] = IF dispatch.rows[f] = 0 THEN told.row[f] ELSE dispatch.rows[f]
            /\ {told.row[f], dispatch.rows[f], session.row[f], dispatch.revision} \subseteq Nat
        BY <1>1, <2>3 DEF ToldTypes, DispatchTypes, SessionTypes
      <4>2. SectionOf[f] \in Sections /\ told.upTo[SectionOf[f]] \in Nat
        BY <1>1, FeedAssumption DEF ToldTypes, FeedAssumption
      <4>3. /\ told.row[f] <= dispatch.revision
            /\ ReadyToTell(f) /\ ToldSoFar(f) /\ EndingWasTold(f)
        BY <3>1 DEF HeardInv
      <4>4. told'.row[f] <= dispatch'.revision
        BY <1>1, <1>2, <4>1, <4>3 DEF ReadyToTell
      <4>5. ReadyToTell(f)' /\ EndingIsDue(f)'
        BY <1>2 DEF ReadyToTell, EndingIsDue
      <4>6. ToldSoFar(f)'
        BY <1>1, <1>2, <4>1, <4>3 DEF ReadyToTell, ToldSoFar
      <4>7. EndingWasTold(f)'
        BY <1>1, <2>3, <4>1, <4>2, <4>3 DEF ReadyToTell, EndingWasTold
      <4> QED BY <4>4, <4>5, <4>6, <4>7
    <3>3. /\ \A s \in Sections : told'.upTo[s] <= session'.revision
          /\ told'.status = dispatch'.status
      BY <1>1, <1>2, <2>3, <3>1 DEF HeardInv
    <3> QED BY <3>2, <3>3 DEF HeardInv
  <2> QED BY <1>1, <1>2, <2>3, <2>4, <2>5 DEF ListenerInv
<1> QED BY <1>3, <1>4

LEMMA StarveKeeps ==
  ASSUME Basics, ListenerInv, Starve
  PROVE  ListenerInv'
<1>1. /\ session \in SessionTypes /\ dispatch \in DispatchTypes /\ told \in ToldTypes
      /\ UNCHANGED told /\ dispatch.at = "starved"
  BY DEF Basics, Sound, ListenerInv, Starve
<1>2. CASE ~Heeded
  <2>1. UNCHANGED session /\ dispatch' = [dispatch EXCEPT !.at = "state"]
    BY <1>2 DEF Starve
  <2>2. dispatch' \in DispatchTypes /\ dispatch'.at = "state" /\ dispatch'.run = dispatch.run
    BY <1>1, <2>1 DEF DispatchTypes
  <2> QED BY <1>1, <1>2, <2>1, <2>2, UnheededKeeps
<1>3. CASE Heeded
  <2>1. /\ session' = Limited(session, Sections)
        /\ dispatch' = [dispatch EXCEPT !.at = "state", !.revision = session.revision]
    BY <1>3 DEF Starve
  <2>2. /\ dispatch' \in DispatchTypes /\ dispatch'.at = "state"
        /\ dispatch'.run = dispatch.run /\ dispatch'.revision = session.revision
        /\ dispatch'.status = dispatch.status /\ dispatch'.sampled = dispatch.sampled
    BY <1>1, <2>1 DEF DispatchTypes, SessionTypes
  <2>3. /\ SameRows(session, session') /\ Follows(session, session')
        /\ Sections \subseteq session'.limited
    BY <2>1, LimitedFollows DEF Basics
  <2>4. session'.limited = Sections
    BY <2>3 DEF Follows, Sound, SessionTypes
  <2>5. RunsInOrder'
    BY <1>1, <2>2, <2>3 DEF ListenerInv, RunsInOrder, SameRows, SessionTypes
  <2>6. ASSUME told.run = session.run
        PROVE  HeardInv'
    <3>1. HeardInv /\ dispatch.revision <= session.revision
      BY <1>3, <2>6 DEF ListenerInv, RunsInOrder, Heeded
    <3>2. ASSUME NEW f \in Findings
          PROVE  /\ told'.row[f] <= dispatch'.revision
                 /\ ReadyToTell(f)' /\ ToldSoFar(f)'
                 /\ EndingIsDue(f)' /\ EndingWasTold(f)'
      <4>1. told.row[f] <= dispatch.revision /\ EndingWasTold(f)
        BY <3>1 DEF HeardInv
      <4>2. {told.row[f], dispatch.revision, session.revision} \subseteq Nat
        BY <1>1 DEF ToldTypes, DispatchTypes, SessionTypes
      <4>3. told'.row[f] <= dispatch'.revision
        BY <1>1, <2>2, <3>1, <4>1, <4>2
      <4>4. ReadyToTell(f)' /\ EndingIsDue(f)'
        BY <2>2 DEF ReadyToTell, EndingIsDue
      <4>5. ToldSoFar(f)'
        BY <2>4 DEF ToldSoFar
      <4>6. EndingWasTold(f)'
        BY <1>1, <2>3, <4>1 DEF EndingWasTold, SameRows
      <4> QED BY <4>3, <4>4, <4>5, <4>6
    <3>3. /\ \A s \in Sections : told'.upTo[s] <= session'.revision
          /\ told'.status = dispatch'.status
      BY <1>1, <2>2, <2>3, <3>1 DEF HeardInv, SameRows
    <3> QED BY <3>2, <3>3 DEF HeardInv
  <2> QED BY <1>1, <2>2, <2>3, <2>5, <2>6 DEF ListenerInv, SameRows
<1> QED BY <1>2, <1>3

LEMMA ReadStateKeeps ==
  ASSUME Basics, ListenerInv, ReadState
  PROVE  ListenerInv'
<1>1. /\ session \in SessionTypes /\ dispatch \in DispatchTypes /\ told \in ToldTypes
      /\ UNCHANGED <<session, told>> /\ dispatch.at = "state"
  BY DEF Basics, Sound, ListenerInv, ReadState, DispatchOnly
<1>2. CASE ~Heeded
  <2>1. dispatch' = [dispatch EXCEPT !.at = "idle"]
    BY <1>2 DEF ReadState
  <2>2. dispatch' \in DispatchTypes /\ dispatch'.at = "idle" /\ dispatch'.run = dispatch.run
    BY <1>1, <2>1 DEF DispatchTypes
  <2> QED BY <1>1, <1>2, <2>2, UnheededKeeps
<1>3. CASE Heeded
  <2> DEFINE status == IF CaughtUp THEN session.status ELSE dispatch.status
  <2>1. dispatch' = [dispatch EXCEPT !.at = "tellState", !.sampled = session.revision,
                       !.inventory = session.inventory, !.status = status]
    BY <1>1, <1>3 DEF ReadState, DispatchTypes
  <2>2. status \in [Sections -> Statuses]
    BY <1>1 DEF SessionTypes, DispatchTypes
  <2>3. /\ dispatch' \in DispatchTypes /\ dispatch'.at = "tellState"
        /\ dispatch'.run = dispatch.run /\ dispatch'.revision = dispatch.revision
        /\ dispatch'.status = status /\ dispatch'.sampled = session.revision
    BY <1>1, <2>1, <2>2 DEF DispatchTypes, SessionTypes
  <2>4. RunsInOrder'
    BY <1>1, <2>3 DEF ListenerInv, RunsInOrder, SessionTypes
  <2>5. ASSUME told.run = session.run
        PROVE  HeardInv'
    <3>1. HeardInv
      BY <2>5 DEF ListenerInv
    <3>2. told.status = dispatch.status
      BY <1>1, <3>1 DEF HeardInv
    <3>3. ASSUME NEW f \in Findings
          PROVE  /\ told'.row[f] <= dispatch'.revision
                 /\ ReadyToTell(f)' /\ ToldSoFar(f)'
                 /\ EndingIsDue(f)' /\ EndingWasTold(f)'
      <4>1. told.row[f] <= dispatch.revision /\ ToldSoFar(f) /\ EndingWasTold(f)
        BY <3>1 DEF HeardInv
      <4>2. {session.row[f], dispatch.revision, session.revision} \subseteq Nat
        BY <1>1 DEF DispatchTypes, SessionTypes
      <4>3. ReadyToTell(f)' /\ ToldSoFar(f)' /\ EndingWasTold(f)'
        BY <1>1, <2>3, <4>1 DEF ReadyToTell, ToldSoFar, EndingWasTold
      <4>4. EndingIsDue(f)'
        <5>1. SUFFICES ASSUME status[SectionOf[f]] = "Done",
                              status[SectionOf[f]] # told.status[SectionOf[f]],
                              session.row[f] <= session.revision
                       PROVE  told.row[f] = session.row[f]
          BY <1>1, <2>3 DEF EndingIsDue
        <5>2. CaughtUp /\ session.status[SectionOf[f]] = "Done"
          BY <3>2, <5>1
        <5>3. session.limited # Sections
          BY <5>2, FeedAssumption DEF Basics, Sound, FeedAssumption
        <5>4. session.row[f] <= dispatch.revision
          BY <4>2, <5>1, <5>2 DEF CaughtUp
        <5> QED BY <1>1, <4>1, <5>3, <5>4 DEF ToldSoFar
      <4> QED BY <1>1, <2>3, <4>1, <4>3, <4>4
    <3>4. \A s \in Sections : told'.upTo[s] <= session'.revision
      BY <1>1, <3>1 DEF HeardInv
    <3> QED BY <2>3, <3>3, <3>4 DEF HeardInv
  <2> QED BY <1>1, <2>3, <2>4, <2>5 DEF ListenerInv
<1> QED BY <1>2, <1>3

LEMMA TellStateKeeps ==
  ASSUME Basics, ListenerInv, TellState
  PROVE  ListenerInv'
<1>1. /\ session \in SessionTypes /\ dispatch \in DispatchTypes /\ told \in ToldTypes
      /\ UNCHANGED session /\ dispatch.at = "tellState"
      /\ dispatch' = [dispatch EXCEPT !.at = "idle", !.sampled = 0]
  BY DEF Basics, Sound, ListenerInv, TellState, DispatchOnly
<1>2. /\ dispatch' \in DispatchTypes /\ dispatch'.at = "idle" /\ dispatch'.sampled = 0
      /\ dispatch'.run = dispatch.run /\ dispatch'.revision = dispatch.revision
      /\ dispatch'.status = dispatch.status
  BY <1>1 DEF DispatchTypes
<1>3. CASE ~Heeded
  BY <1>1, <1>2, <1>3, UnheededKeeps DEF TellState
<1>4. CASE Heeded
  <2> DEFINE upTo == [s \in Sections |-> IF dispatch.status[s] # told.status[s]
                                           THEN dispatch.sampled ELSE told.upTo[s]]
  <2>1. told' = [told EXCEPT !.status = dispatch.status, !.inventory = dispatch.inventory,
                             !.upTo = upTo]
    BY <1>1, <1>4 DEF TellState, ToldTypes
  <2>2. upTo \in [Sections -> Nat]
    BY <1>1 DEF DispatchTypes, ToldTypes
  <2>3. /\ told' \in ToldTypes /\ told'.run = told.run /\ told'.row = told.row
        /\ told'.status = dispatch.status /\ told'.upTo = upTo
    BY <1>1, <2>1, <2>2 DEF ToldTypes, DispatchTypes
  <2>4. RunsInOrder'
    BY <1>1, <1>2, <2>3 DEF ListenerInv, RunsInOrder, SessionTypes
  <2>5. ASSUME told.run = session.run
        PROVE  HeardInv'
    <3>1. HeardInv /\ dispatch.sampled <= session.revision
      BY <1>4, <2>5 DEF ListenerInv, RunsInOrder, Heeded
    <3>2. ASSUME NEW f \in Findings
          PROVE  /\ told'.row[f] <= dispatch'.revision
                 /\ ReadyToTell(f)' /\ ToldSoFar(f)'
                 /\ EndingIsDue(f)' /\ EndingWasTold(f)'
      <4>1. /\ told.row[f] <= dispatch.revision
            /\ ToldSoFar(f) /\ EndingIsDue(f) /\ EndingWasTold(f)
        BY <3>1 DEF HeardInv
      <4>2. SectionOf[f] \in Sections
        BY FeedAssumption DEF FeedAssumption
      <4>3. ReadyToTell(f)' /\ EndingIsDue(f)'
        BY <1>2 DEF ReadyToTell, EndingIsDue
      <4>4. ToldSoFar(f)'
        BY <1>1, <1>2, <2>3, <4>1 DEF ToldSoFar
      <4>5. EndingWasTold(f)'
        <5>1. upTo[SectionOf[f]] = IF dispatch.status[SectionOf[f]] # told.status[SectionOf[f]]
                                     THEN dispatch.sampled ELSE told.upTo[SectionOf[f]]
          BY <4>2
        <5> HIDE DEF upTo
        <5> QED BY <1>1, <2>3, <4>1, <5>1 DEF EndingIsDue, EndingWasTold
      <4> QED BY <1>2, <2>3, <4>1, <4>3, <4>4, <4>5
    <3>3. \A s \in Sections : told'.upTo[s] <= session'.revision
      BY <1>1, <2>3, <3>1 DEF HeardInv
    <3> QED BY <1>2, <2>3, <3>2, <3>3 DEF HeardInv
  <2> QED BY <1>1, <1>2, <2>3, <2>4, <2>5 DEF ListenerInv
<1> QED BY <1>3, <1>4

LEMMA ListenerHolds ==
  ASSUME Basics, [Next]_vars, ListenerInv
  PROVE  ListenerInv'
<1>1. CASE UNCHANGED <<dispatch, told>>
  BY <1>1, OthersLeaveListener, SessionMoves
<1>2. CASE DispatchSteps
  BY <1>2, WakeKeeps, TellBeginKeeps, ReadRowsKeeps, TellRowsKeeps, StarveKeeps,
     ReadStateKeeps, TellStateKeeps DEF DispatchSteps
<1>3. CASE EngineSteps
  BY <1>1, <1>3 DEF EngineSteps, Work, Forward, Publish, PublishLate, EngineOnly, outbound
<1>4. CASE PumpSteps \/ EnrichSteps
  BY <1>1, <1>4 DEF PumpSteps, PumpTake, PumpStore, PumpAfter, Tick, EnrichSteps,
     EnrichLook, EnrichApply, outbound
<1>5. CASE ClientSteps
  BY <1>1, <1>5 DEF ClientSteps, StartRun, CancelScan, AskPage, GivePage, PlanBegin,
     PlanEnd, Execute, BatchEnds, outbound
<1>6. CASE UNCHANGED vars
  BY <1>1, <1>6 DEF vars, outbound
<1> QED BY <1>2, <1>3, <1>4, <1>5, <1>6 DEF Next

LEMMA ListenerInitially == Init => ListenerInv
BY DEF Init, ListenerInv, RunsInOrder, HeardInv, ReadyToTell, ToldSoFar, EndingIsDue,
   EndingWasTold, Asleep, Silence, NewSession, DispatchTypes, ToldTypes, NoRows,
   NoVersions, Statuses

\* FinishedAfterRows: what the listener has been told of a finished section
\* includes every row it had, in its latest version, although rows and endings
\* are read and told under separate locks, in batches, with other threads in
\* between.
THEOREM RowsComeBeforeEndings == Spec => []FinishedAfterRows
<1>1. Init => ListenerInv
  BY ListenerInitially
<1>2. ListenerInv => FinishedAfterRows
  BY DEF ListenerInv, HeardInv, EndingWasTold, FinishedAfterRows
<1> QED BY <1>1, <1>2, ListenerHolds, BasicsAlways, PTL DEF Spec

-----------------------------------------------------------------------------
(* What was announced of caches.                                           *)

\* One version more while the pump has it in hand.
InHand(c) == IF pump.at = "store" /\ pump.ev.item = c THEN 1 ELSE 0

StoredInv ==
  \A c \in Caches :
    /\ cache[c].run = 0 => cache[c].version = 0
    /\ c \notin session.limited =>
         session.inventory[c] <= cache[c].version + InHand(c)

LEMMA StoredHolds ==
  ASSUME Basics, CacheInv, [Next]_vars, StoredInv
  PROVE  StoredInv'
<1>1. /\ session \in SessionTypes /\ cache \in [Caches -> CacheTypes]
      /\ \A c \in Caches : session.inventory[c] \in Nat /\ cache[c].version \in Nat
  BY DEF Basics, Sound, CacheInv, SessionTypes, CacheTypes
<1>2. CASE Restarted
  <2>1. /\ session' = Begun(session.run + 1)
        /\ cache' = [c \in Caches |-> [run |-> 0, version |-> 0]]
    BY <1>2 DEF Restarted, Restart
  <2>2. session'.inventory = NoVersions
    BY <2>1 DEF Begun, NewSession
  <2> QED BY <2>1, <2>2 DEF StoredInv, NoVersions, InHand
<1>3. CASE Follows(session, session') /\ (PumpTake \/ KeptInventory)
  <2>1. \A c \in Caches : c \notin session'.limited => c \notin session.limited
    BY <1>3 DEF Follows
  <2>2. CASE UNCHANGED <<cache, pump>> /\ KeptInventory
    BY <2>1, <2>2 DEF StoredInv, InHand, KeptInventory
  <2>3. CASE PumpTake
    <3> DEFINE ev == Head(chan)
    <3>1. ev \in Events /\ UNCHANGED cache /\ pump.at # "store"
      BY <2>3, HeadAndTail DEF PumpTake, Basics, EventsInv
    <3>2. CASE ~Accepts(session, ev)
      BY <2>2, <2>3, <3>2 DEF PumpTake, KeptInventory
    <3>3. CASE Accepts(session, ev)
      <4>1. /\ session' \in Applied(session, ev)
            /\ pump' = CASE ev.item \in Caches -> [at |-> "store", ev |-> ev]
                         [] IsEnd(ev) -> [at |-> "ended", ev |-> Nothing]
                         [] ev.item \in Findings -> Idle
        BY <2>3, <3>3 DEF PumpTake
      <4>2. /\ \A c \in Caches \ {ev.item} : session'.inventory[c] = session.inventory[c]
            /\ ev.item \in Caches =>
                 session'.inventory[ev.item] <= session.inventory[ev.item] + 1
        BY <3>1, <4>1, AppliedFollows DEF Basics
      <4>3. session' \in SessionTypes
        BY <1>3 DEF Follows, Sound
      <4>4. CASE ev.item \in Caches
        <5>1. ~IsEnd(ev) /\ ev.item \notin Findings
          BY <4>4, FeedAssumption DEF IsEnd, FeedAssumption
        <5>2. pump' = [at |-> "store", ev |-> ev]
          BY <4>1, <4>4, <5>1
        <5>3. \A c \in Caches : InHand(c)' = IF c = ev.item THEN 1 ELSE 0
          BY <5>2 DEF InHand
        <5>4. \A c \in Caches : InHand(c) = 0
          BY <3>1 DEF InHand
        <5>5. \A c \in Caches : session'.inventory[c] \in Nat
          BY <4>3 DEF SessionTypes
        <5>6. ASSUME NEW c \in Caches, c \notin session.limited
              PROVE  session'.inventory[c] <= cache[c].version + InHand(c)'
          BY <1>1, <4>2, <5>3, <5>4, <5>5, <5>6 DEF StoredInv
        <5> QED BY <2>1, <3>1, <5>6 DEF StoredInv
      <4>5. CASE ev.item \notin Caches
        <5>1. \A c \in Caches : session'.inventory[c] = session.inventory[c]
          BY <4>2, <4>5
        <5>2. \A c \in Caches : InHand(c) = 0 /\ InHand(c)' \in {0, 1}
          BY <3>1 DEF InHand
        <5>3. \A c \in Caches : session.inventory[c] <= cache[c].version
                                  => session.inventory[c] <= cache[c].version + InHand(c)'
          BY <1>1, <5>2
        <5>4. ASSUME NEW c \in Caches, c \notin session.limited
              PROVE  session.inventory[c] <= cache[c].version
          BY <1>1, <5>2, <5>4 DEF StoredInv
        <5> QED BY <2>1, <3>1, <5>1, <5>3, <5>4 DEF StoredInv
      <4> QED BY <4>4, <4>5
    <3> QED BY <3>2, <3>3
  <2>4. CASE PumpStore
    <3> DEFINE c == pump.ev.item
    <3>1. /\ pump.at = "store" /\ pump'.at = "idle" /\ c \in Caches
          /\ pump.ev.gen = session.run /\ session.run # 0
      BY <2>4 DEF PumpStore, Idle, Basics, PumpInv, Events, Runs
    <3>2. \A d \in Caches : /\ InHand(d)' = 0
                            /\ InHand(d) = IF d = c THEN 1 ELSE 0
      BY <3>1 DEF InHand
    <3>3. KeptInventory
      BY <1>3, <2>4 DEF PumpTake, PumpStore
    <3>4. CASE /\ cache' = [cache EXCEPT ![c] =
                    [run |-> pump.ev.gen,
                     version |-> IF @.run = pump.ev.gen THEN @.version + 1 ELSE 1]]
               /\ UNCHANGED session
      <4>1. cache[c].run \in {0, session.run}
        BY <3>1 DEF CacheInv
      <4>2. \A d \in Caches \ {c} : cache'[d] = cache[d]
        BY <3>4
      <4>3. cache'[c].run # 0 /\ cache'[c].version = cache[c].version + 1
        BY <1>1, <3>1, <3>4, <4>1 DEF StoredInv
      <4>4. ASSUME NEW d \in Caches, d \notin session.limited
            PROVE  session.inventory[d] <= cache'[d].version + InHand(d)'
        BY <1>1, <3>2, <4>2, <4>3, <4>4 DEF StoredInv
      <4>5. \A d \in Caches : cache'[d].run = 0 => cache'[d].version = 0
        BY <4>2, <4>3 DEF StoredInv
      <4> QED BY <3>4, <4>4, <4>5 DEF StoredInv
    <3>5. CASE session' = Limited(session, {c}) /\ UNCHANGED cache
      <4>1. c \in session'.limited
        BY <1>1, <3>5 DEF Limited, SessionTypes
      <4>2. ASSUME NEW d \in Caches, d # c, d \notin session.limited
            PROVE  session.inventory[d] <= cache[d].version + InHand(d)'
        BY <3>2, <4>2 DEF StoredInv
      <4> QED BY <2>1, <3>3, <3>5, <4>1, <4>2 DEF StoredInv, KeptInventory
    <3> QED BY <2>4, <3>4, <3>5 DEF PumpStore
  <2>5. CASE PumpAfter
    <3>1. pump.at # "store" /\ pump'.at # "store" /\ UNCHANGED cache
      BY <2>5 DEF PumpAfter, Idle
    <3>2. KeptInventory
      BY <1>3, <2>5 DEF PumpTake, PumpAfter
    <3> QED BY <2>1, <3>1, <3>2 DEF StoredInv, InHand, KeptInventory
  <2>6. CASE EngineSteps
    BY <1>3, <2>2, <2>3, <2>6 DEF EngineSteps, Work, Forward, Publish, PublishLate, EngineOnly
  <2>7. CASE Tick \/ EnrichSteps
    BY <1>3, <2>2, <2>3, <2>7 DEF Tick, EnrichSteps, EnrichLook, EnrichApply
  <2>8. CASE DispatchSteps
    BY <1>3, <2>2, <2>3, <2>8 DEF DispatchSteps, Wake, TellBegin, ReadRows, TellRows,
       Starve, ReadState, TellState, DispatchOnly
  <2>9. CASE CancelScan \/ AskPage \/ GivePage \/ PlanBegin \/ PlanEnd \/ Execute
    BY <1>3, <2>2, <2>3, <2>9 DEF CancelScan, AskPage, GivePage, PlanBegin, PlanEnd, Execute
  <2>10. CASE StartRun \/ BatchEnds
    BY <1>2, <1>3, <2>2, <2>3, <2>10 DEF StartRun, BatchEnds, Restarted, callers
  <2>11. CASE UNCHANGED vars
    BY <1>3, <2>2, <2>3, <2>11 DEF vars
  <2> QED
    BY <2>3, <2>4, <2>5, <2>6, <2>7, <2>8, <2>9, <2>10, <2>11
    DEF Next, PumpSteps, ClientSteps
<1> QED BY <1>2, <1>3, SessionMoves

\* The listener knows of no version that the session has not announced.
AnnouncedInv ==
  /\ dispatch.run = session.run /\ dispatch.at = "tellState" =>
       \A c \in Caches : dispatch.inventory[c] <= session.inventory[c]
  /\ told.run = session.run =>
       \A c \in Caches : told.inventory[c] <= session.inventory[c]

LEMMA AnnouncedHolds ==
  ASSUME Basics, ListenerInv, ListenerInv', [Next]_vars, AnnouncedInv
  PROVE  AnnouncedInv'
<1>1. /\ session \in SessionTypes /\ dispatch \in DispatchTypes /\ told \in ToldTypes
      /\ dispatch' \in DispatchTypes /\ told' \in ToldTypes
  BY DEF Basics, Sound, ListenerInv
<1>2. CASE Restarted
  <2>1. session'.run = session.run + 1 /\ UNCHANGED <<dispatch, told>>
    BY <1>1, <1>2, BegunIsSound DEF Restarted, Restart, SessionTypes
  <2>2. told.run # session'.run /\ dispatch.run # session'.run
    BY <1>1, <2>1 DEF ListenerInv, RunsInOrder, SessionTypes, DispatchTypes, ToldTypes
  <2> QED BY <2>1, <2>2 DEF AnnouncedInv
<1>3. CASE Follows(session, session')
  <2>1. session'.run = session.run /\ session' \in SessionTypes
    BY <1>3 DEF Follows, Sound
  <2>2. ASSUME NEW c \in Caches
        PROVE  /\ session.inventory[c] <= session'.inventory[c]
               /\ {session.inventory[c], session'.inventory[c], dispatch.inventory[c],
                   dispatch'.inventory[c], told.inventory[c], told'.inventory[c]}
                    \subseteq Nat
    BY <1>1, <1>3, <2>1 DEF Follows, SessionTypes, DispatchTypes, ToldTypes
  <2>3. CASE UNCHANGED <<dispatch, told>>
    BY <2>1, <2>2, <2>3 DEF AnnouncedInv
  <2>4. CASE Wake \/ ReadRows \/ TellRows \/ Starve
    <3>1. dispatch'.at # "tellState"
      BY <1>1, <2>4
      DEF Wake, ReadRows, TellRows, Starve, Asleep, DispatchTypes
    <3>2. told'.run = told.run /\ told'.inventory = told.inventory
      BY <1>1, <2>4 DEF Wake, ReadRows, TellRows, Starve, ToldTypes
    <3> QED BY <2>1, <2>2, <3>1, <3>2 DEF AnnouncedInv
  <2>5. CASE TellBegin
    <3>1. dispatch'.at # "tellState"
      BY <1>1, <2>5 DEF TellBegin, DispatchTypes
    <3>2. UNCHANGED told \/ told'.inventory = NoVersions
      BY <2>5 DEF TellBegin, Silence
    <3> QED BY <2>1, <2>2, <3>1, <3>2 DEF AnnouncedInv, NoVersions
  <2>6. CASE ReadState
    <3>1. UNCHANGED <<told, session>>
      BY <2>6 DEF ReadState, DispatchOnly
    <3>2. dispatch'.at # "tellState" \/ dispatch'.inventory = session.inventory
      BY <1>1, <2>6 DEF ReadState, DispatchTypes
    <3> QED BY <2>1, <2>2, <3>1, <3>2 DEF AnnouncedInv
  <2>7. CASE TellState
    <3>1. dispatch'.at # "tellState" /\ dispatch.at = "tellState" /\ UNCHANGED session
      BY <1>1, <2>7 DEF TellState, DispatchTypes, DispatchOnly
    <3>2. \/ UNCHANGED told
          \/ /\ Heeded /\ told'.inventory = dispatch.inventory
      BY <1>1, <2>7 DEF TellState, ToldTypes
    <3> QED BY <2>1, <2>2, <3>1, <3>2 DEF AnnouncedInv, Heeded
  <2>8. CASE EngineSteps
    BY <2>3, <2>8 DEF EngineSteps, Work, Forward, Publish, PublishLate, EngineOnly, outbound
  <2>9. CASE PumpSteps \/ EnrichSteps
    BY <2>3, <2>9 DEF PumpSteps, PumpTake, PumpStore, PumpAfter, Tick, EnrichSteps,
       EnrichLook, EnrichApply, outbound
  <2>10. CASE ClientSteps
    BY <2>3, <2>10 DEF ClientSteps, StartRun, CancelScan, AskPage, GivePage, PlanBegin,
       PlanEnd, Execute, BatchEnds, outbound
  <2>11. CASE UNCHANGED vars
    BY <2>3, <2>11 DEF vars, outbound
  <2> QED
    BY <2>4, <2>5, <2>6, <2>7, <2>8, <2>9, <2>10, <2>11 DEF Next, DispatchSteps
<1> QED BY <1>2, <1>3, SessionMoves

\* AnnouncedIsServed: a tree or a set of footprints that the listener was told
\* of is there when a query looks, although it is announced by one thread and
\* stored by another.
THEOREM AnnouncedIsThere == Spec => []AnnouncedIsServed
<1>1. Init => CacheInv /\ StoredInv /\ AnnouncedInv
  BY DEF Init, CacheInv, CacheTypes, StoredInv, AnnouncedInv, InHand, Idle, Silence,
     NewSession, NoVersions, Asleep
<1>2. Basics /\ ListenerInv /\ CacheInv /\ StoredInv /\ AnnouncedInv => AnnouncedIsServed
  <2> SUFFICES ASSUME Basics, ListenerInv, CacheInv, StoredInv, AnnouncedInv,
                      told.run = session.run, GateFree,
                      NEW c \in Caches, c \notin session.limited
               PROVE  told.inventory[c] <= cache[c].version
    BY DEF AnnouncedIsServed
  <2>1. pump.at # "store"
    BY DEF Basics, PumpInv, GateFree
  <2>2. InHand(c) = 0
    BY <2>1 DEF InHand
  <2>3. told.inventory[c] <= session.inventory[c]
    BY DEF AnnouncedInv
  <2>4. {told.inventory[c], session.inventory[c], cache[c].version} \subseteq Nat
    BY DEF ListenerInv, ToldTypes, Basics, Sound, SessionTypes, CacheInv, CacheTypes
  <2>5. session.inventory[c] <= cache[c].version + InHand(c)
    BY DEF StoredInv
  <2> QED BY <2>2, <2>3, <2>4, <2>5
<1>3. Spec => [](Basics /\ ListenerInv /\ CacheInv)
  BY CachesMove, ListenerHolds, ListenerInitially, BasicsAlways, <1>1, PTL DEF Spec
<1> QED BY <1>1, <1>2, <1>3, StoredHolds, AnnouncedHolds, PTL DEF Spec

-----------------------------------------------------------------------------
(* Types.                                                                  *)

BatchAndLabels == batch \in Runs \cup {Nothing} /\ labelled \subseteq Findings

LEMMA BatchAndLabelsHold ==
  ASSUME Basics, [Next]_vars, BatchAndLabels
  PROVE  BatchAndLabels'
<1>1. CASE UNCHANGED <<batch, labelled>>
  BY <1>1 DEF BatchAndLabels
<1>2. CASE Execute
  <2>1. client.plan \in Runs
    BY <1>2 DEF Execute, Basics, ClientInv, ClientTypes, Runs
  <2> QED BY <1>2, <2>1 DEF Execute, BatchAndLabels
<1>3. CASE StartRun \/ BatchEnds
  BY <1>3 DEF StartRun, BatchEnds, Restart, BatchAndLabels, callers
<1>4. CASE PumpTake
  BY <1>4 DEF PumpTake, BatchAndLabels, callers
<1>5. CASE PumpAfter
  <2>1. \A kept \in Retainable(CorrelatedRows) : kept \subseteq Findings
    BY DEF Retainable, CorrelatedRows, Present
  <2>2. UNCHANGED labelled \/ \E kept \in Retainable(CorrelatedRows) :
                                labelled' = labelled \cup kept
    BY <1>5 DEF PumpAfter
  <2>3. UNCHANGED batch
    BY <1>5 DEF PumpAfter, callers
  <2> QED BY <2>1, <2>2, <2>3 DEF BatchAndLabels
<1>6. CASE EngineSteps
  BY <1>1, <1>6 DEF EngineSteps, Work, Forward, Publish, PublishLate, EngineOnly, callers
<1>7. CASE PumpStore \/ Tick \/ EnrichSteps
  BY <1>1, <1>7 DEF PumpStore, Tick, EnrichSteps, EnrichLook, EnrichApply, callers
<1>8. CASE DispatchSteps
  BY <1>1, <1>8 DEF DispatchSteps, Wake, TellBegin, ReadRows, TellRows, Starve,
     ReadState, TellState, DispatchOnly, callers
<1>9. CASE CancelScan \/ AskPage \/ GivePage \/ PlanBegin \/ PlanEnd
  BY <1>1, <1>9 DEF CancelScan, AskPage, GivePage, PlanBegin, PlanEnd, callers
<1>10. CASE UNCHANGED vars
  BY <1>1, <1>10 DEF vars, callers
<1> QED
  BY <1>2, <1>3, <1>4, <1>5, <1>6, <1>7, <1>8, <1>9, <1>10
  DEF Next, PumpSteps, ClientSteps

\* TypeOK: types, the bounds of the channels, and who has the gate.
THEOREM TypeCorrect == Spec => []TypeOK
<1>1. Init => BatchAndLabels
  BY DEF Init, BatchAndLabels
<1>2. Basics /\ BatchAndLabels => TypeOK
  <2> SUFFICES ASSUME Basics, BatchAndLabels PROVE TypeOK
    OBVIOUS
  <2>1. /\ engine.run \in 0..MaxRuns /\ engine.todo \subseteq Items
        /\ engine.alive \cup engine.completed \cup engine.failed \subseteq Sections
        /\ session.run = engine.run
    BY DEF Basics, EngineInv, EngineTypes
  <2>2. /\ {queue, held, late} \subseteq Events \cup {Nothing}
        /\ chan \in Seq(Events) /\ Len(chan) <= ChannelCap
    BY DEF Basics, EventsInv
  <2>3. /\ session.status \in [Sections -> Statuses]
        /\ session.row \in [Findings -> 0..session.revision]
        /\ session.revision <= session.queryRevision
    BY DEF Basics, Sound, SessionTypes
  <2>4. /\ gate \in {"free", "pump", "page"} /\ pump.at \in {"idle", "store", "ended"}
        /\ (gate = "pump") = (pump.at = "store")
        /\ (gate = "page") = (client.at = "page")
    BY DEF Basics, PumpInv
  <2> QED BY <2>1, <2>2, <2>3, <2>4 DEF TypeOK, BatchAndLabels
<1> QED BY <1>1, <1>2, BatchAndLabelsHold, BasicsAlways, PTL DEF Spec

-----------------------------------------------------------------------------
(* Correlation, in runs that nobody stopped.  An end is behind all that    *)
(* its section sends at each place between the worker and the session, so  *)
(* that a section that is over has nothing to come.                        *)

Of(ev, s) == ev # Nothing /\ ev.gen = session.run /\ ev.sec = s
Ends(ev, s) == Of(ev, s) /\ IsEnd(ev)

Coming(s) == \/ Of(queue, s) \/ Of(held, s)
             \/ \E k \in 1..Len(chan) : Of(chan[k], s)
EndComes(s) == \/ Ends(queue, s) \/ Ends(held, s)
               \/ \E k \in 1..Len(chan) : Ends(chan[k], s)

IsOver(s) == Over(session.status[s])

\* Events on their way are of the current run, apart from those that it
\* superseded, and rows come from their section.
RightSection(ev) == ev.item \in Findings => ev.sec = SectionOf[ev.item]
GensInv ==
  /\ queue # Nothing => queue.gen = session.run /\ RightSection(queue)
  /\ held # Nothing => held.gen = session.run /\ RightSection(held)
  /\ late # Nothing => late.gen < session.run /\ RightSection(late)
  /\ \A k \in 1..Len(chan) : chan[k].gen <= session.run /\ RightSection(chan[k])

\* What stops a run or settles its sections early has stopped the engine,
\* and only a run is correlated.
StopInv ==
  /\ engine.reason \/ session.cancelled => engine.stopped
  /\ session.correlated => session.run # 0

\* A task enriches rows of its own run, which has been correlated.
TaskInv ==
  \A g \in Runs : enrich[g].at # "none" =>
    /\ g <= session.run
    /\ g = session.run => session.correlated /\ enrich[g].rows \subseteq CorrelatedRows

EndsLast ==
  \A s \in Sections :
    /\ Ends(queue, s) => s \notin engine.alive
    /\ Ends(held, s) => s \notin engine.alive /\ ~Of(queue, s)
    /\ \A k \in 1..Len(chan) : Ends(chan[k], s) =>
         /\ s \notin engine.alive /\ ~Of(queue, s) /\ ~Of(held, s)
         /\ \A j \in (k + 1)..Len(chan) : ~Of(chan[j], s)

EndingsCome == \A s \in Sections \ engine.alive : IsOver(s) \/ EndComes(s)

NothingFollows == \A s \in Correlated : IsOver(s) => s \notin engine.alive /\ ~Coming(s)

\* Until it has correlated, the session has not run out of memory, and the
\* pump is about to correlate as soon as it may.
DueInv ==
  ~session.correlated =>
    /\ session.limited = {}
    /\ (\E s \in Sections : IsOver(s)) /\ (\A s \in Correlated : IsOver(s)) =>
         pump.at = "ended"

LabelInv ==
  session.correlated =>
    /\ \A s \in Correlated : IsOver(s)
    /\ session.limited = {} => CorrelatedRows \subseteq labelled

Live == EndsLast /\ EndingsCome /\ NothingFollows /\ DueInv /\ LabelInv
LiveInv == session.run # 0 /\ ~engine.stopped => Live

\* What the methods do to statuses and rows.

LEMMA LimitedIs ==
  ASSUME NEW ss, Sound(ss), NEW secs \in SUBSET Sections
  PROVE  LET t == Limited(ss, secs)
         IN  /\ t.run = ss.run /\ t.cancelled = ss.cancelled
             /\ t.correlated = ss.correlated /\ t.row = ss.row
             /\ t.limited = ss.limited \cup secs
             /\ \A s \in Sections :
                  t.status[s] = IF s \in secs THEN "Failed" ELSE ss.status[s]
BY DEF Limited, Sound, SessionTypes

SectionsOf(rows) == {SectionOf[f] : f \in rows}

\* What becomes of rows that are written and rows that are refused.
KeepsRun(ss, t) ==
  t.run = ss.run /\ t.cancelled = ss.cancelled /\ t.correlated = ss.correlated
KeepsRows(ss, t, kept, refused) ==
  /\ \A s \in Sections :
       /\ s \in t.limited <=> s \in ss.limited \/ s \in SectionsOf(refused)
       /\ t.status[s] = IF s \in SectionsOf(refused) THEN "Failed" ELSE ss.status[s]
  /\ \A f \in Findings : t.row[f] # 0 <=> ss.row[f] # 0 \/ f \in kept
  /\ t.revision = ss.revision <=> kept = {}

LEMMA RetainedIs ==
  ASSUME NEW ss, Sound(ss), NEW kept \in SUBSET Findings, NEW refused \in SUBSET Findings,
         NEW t, t = Retained(ss, kept, refused)
  PROVE  KeepsRun(ss, t) /\ KeepsRows(ss, t, kept, refused)
<1> DEFINE u == Upserted(ss, kept)
           secs == SectionsOf(refused)
           n == Cardinality(kept)
           place(f) == Cardinality({g \in kept : g <= f})
<1>1. secs \in SUBSET Sections
  BY FeedAssumption DEF FeedAssumption, SectionsOf
<1>2. Sound(u)
  BY UpsertedFollows DEF Follows
<1>3. t = Limited(u, secs)
  BY DEF Retained, SectionsOf
<1>4. /\ t.run = u.run /\ t.cancelled = u.cancelled
      /\ t.correlated = u.correlated /\ t.row = u.row
      /\ t.limited = u.limited \cup secs
      /\ \A s \in Sections :
           t.status[s] = IF s \in secs THEN "Failed" ELSE u.status[s]
  <2> HIDE DEF u, secs
  <2> QED BY <1>1, <1>2, <1>3, LimitedIs
<1>5. t.revision = u.revision
  BY <1>2, <1>3 DEF Limited, Sound, SessionTypes
<1> HIDE DEF n, place
<1>6. /\ n \in Nat /\ (kept # {} => n > 0) /\ (kept = {} => n = 0)
      /\ \A f \in kept : place(f) \in 1..n
  BY KeptAreNumbered, FS_EmptySet DEF n, place
<1>7. /\ u.run = ss.run /\ u.cancelled = ss.cancelled
      /\ u.limited = ss.limited /\ u.status = ss.status
      /\ u.correlated = ss.correlated
      /\ u.revision = ss.revision + n
      /\ u.row = [f \in Findings |-> IF f \in kept THEN ss.revision + place(f)
                                     ELSE ss.row[f]]
  BY DEF Upserted, Sound, SessionTypes, n, place
<1>8. ss.revision \in Nat
  BY DEF Sound, SessionTypes
<1>9. \A f \in kept : u.row[f] # 0
  BY <1>6, <1>7, <1>8
<1>10. \A f \in Findings : u.row[f] # 0 <=> ss.row[f] # 0 \/ f \in kept
  BY <1>7, <1>9
<1> HIDE DEF u
<1> QED BY <1>1, <1>4, <1>5, <1>6, <1>7, <1>8, <1>10 DEF KeepsRun, KeepsRows

\* An accepted end settles its section, a row is retained or refused, and a
\* cache changes neither rows nor statuses.
LEMMA AppliedIs ==
  ASSUME NEW ss, Sound(ss), NEW ev \in Events, NEW t \in Applied(ss, ev)
  PROVE  \/ ev.sec \in ss.limited /\ t = ss
         \/ /\ IsEnd(ev)
            /\ t.run = ss.run /\ t.cancelled = ss.cancelled
            /\ t.correlated = ss.correlated /\ t.row = ss.row
            /\ t.limited = ss.limited /\ t.revision = ss.revision
            /\ \A s \in Sections \ {ev.sec} : t.status[s] = ss.status[s]
            /\ Over(t.status[ev.sec])
         \/ /\ ev.item \in Findings /\ ev.sec \notin ss.limited
            /\ \E kept \in SUBSET {ev.item} : t = Retained(ss, kept, {ev.item} \ kept)
         \/ /\ ev.item \in Caches
            /\ t.run = ss.run /\ t.cancelled = ss.cancelled
            /\ t.correlated = ss.correlated /\ t.row = ss.row
            /\ t.limited = ss.limited /\ t.revision = ss.revision
            /\ t.status = ss.status
<1>0. ss \in SessionTypes /\ ev.sec \in Sections
  BY DEF Sound, Events
<1>5. CASE ev.sec \in ss.limited
  BY <1>5 DEF Applied
<1>6. CASE ev.sec \notin ss.limited /\ ev.item = Nothing
  <2>1. Applied(ss, ev) =
          {[ss EXCEPT !.status[ev.sec] = IF ev.ok THEN "Done" ELSE "Failed"]}
    BY <1>6, FeedAssumption DEF Applied, IsEnd, FeedAssumption
  <2> QED BY <1>0, <1>6, <2>1 DEF IsEnd, SessionTypes, Over
<1>7. CASE ev.sec \notin ss.limited /\ ev.item \in Findings
  <2>1. ev.item # Nothing /\ ev.item \notin Caches
    BY <1>7, FeedAssumption DEF FeedAssumption
  <2>2. Applied(ss, ev) = {Retained(ss, kept, {ev.item} \ kept) :
                             kept \in Retainable({ev.item})}
    BY <1>7, <2>1 DEF Applied, IsEnd
  <2>3. Retainable({ev.item}) \subseteq SUBSET {ev.item}
    BY DEF Retainable
  <2> QED BY <1>7, <2>2, <2>3
<1>8. CASE ev.sec \notin ss.limited /\ ev.item \in Caches
  <2>1. Applied(ss, ev) =
          {[ss EXCEPT !.queryRevision = @ + 1, !.inventory[ev.item] = @ + 1]}
    BY <1>8, FeedAssumption DEF Applied, IsEnd, FeedAssumption
  <2> QED BY <1>0, <1>8, <2>1 DEF SessionTypes
<1>9. ev.item \in Findings \cup Caches \cup {Nothing}
  BY DEF Events, Items
<1> QED BY <1>5, <1>6, <1>7, <1>8, <1>9

LEMMA TailItems ==
  ASSUME NEW S, NEW q \in Seq(S), q # <<>>
  PROVE  /\ Head(q) = q[1] /\ 1 \in 1..Len(q) /\ Len(q) \in Nat
         /\ Len(Tail(q)) = Len(q) - 1
         /\ \A k \in 1..Len(Tail(q)) : Tail(q)[k] = q[k + 1] /\ k + 1 \in 1..Len(q)
         /\ \A k \in 1..Len(q) : k = 1 \/ k - 1 \in 1..Len(Tail(q))
OBVIOUS

LEMMA AppendItems ==
  ASSUME NEW S, NEW q \in Seq(S), NEW e
  PROVE  /\ Len(q) \in Nat /\ Len(Append(q, e)) = Len(q) + 1
         /\ Append(q, e)[Len(q) + 1] = e
         /\ \A k \in 1..Len(q) : Append(q, e)[k] = q[k]
OBVIOUS

\* Steps that leave the events and the run alone.
LEMMA GensKept ==
  ASSUME GensInv, UNCHANGED <<inbound, session.run>>
  PROVE  GensInv'
BY DEF GensInv, inbound, RightSection

LEMMA GensHold ==
  ASSUME Basics, [Next]_vars, GensInv
  PROVE  GensInv'
<1> USE DEF GensInv
<1>0. /\ session.run \in Nat /\ chan \in Seq(Events) /\ engine.run = session.run
      /\ {queue, held, late} \subseteq Events \cup {Nothing}
      /\ \A ev \in Events : ev.gen \in Nat
  BY FeedAssumption DEF Basics, Sound, SessionTypes, EventsInv, EngineInv, Events, Runs,
     FeedAssumption
<1>1. CASE Restarted
  <2>1. session'.run = session.run + 1 /\ queue' = Nothing /\ held' = Nothing
    BY <1>0, <1>1, BegunIsSound DEF Restarted, Restart, Supersede
  <2>2. chan' = chan /\ late' = IF held # Nothing THEN held ELSE late
    BY <1>1 DEF Restarted, Restart, Supersede
  <2>3. late' # Nothing => late'.gen \in Nat /\ late'.gen <= session.run /\ RightSection(late')
    BY <1>0, <2>2
  <2>4. \A k \in 1..Len(chan) : chan[k].gen \in Nat
    BY <1>0
  <2>5. late' # Nothing => late'.gen < session'.run /\ RightSection(late)'
    BY <1>0, <2>1, <2>3 DEF RightSection
  <2>6. \A k \in 1..Len(chan') : chan'[k].gen <= session'.run /\ RightSection(chan[k])'
    BY <1>0, <2>1, <2>2, <2>4 DEF RightSection
  <2> QED BY <2>1, <2>5, <2>6 DEF RightSection
<1>2. CASE Follows(session, session')
  <2>1. session'.run = session.run
    BY <1>2 DEF Follows
  <2>2. CASE UNCHANGED inbound
    BY <2>1, <2>2, GensKept
  <2>3. ASSUME NEW s \in Sections, Work(s) PROVE GensInv'
    <3>1. UNCHANGED <<held, late, chan>>
      BY <2>3 DEF Work, Send
    <3>2. queue'.gen = session.run /\ RightSection(queue')
      <4>1. ASSUME NEW i \in ItemsOf(s), queue' = Event(engine.run, s, i, TRUE)
            PROVE  queue'.gen = session.run /\ RightSection(queue')
        BY <1>0, <4>1, FeedAssumption DEF Event, RightSection, ItemsOf, FeedAssumption
      <4>2. ASSUME NEW ok \in BOOLEAN, queue' = Event(engine.run, s, Nothing, ok)
            PROVE  queue'.gen = session.run /\ RightSection(queue')
        BY <1>0, <4>2, FeedAssumption DEF Event, RightSection, FeedAssumption
      <4> QED BY <2>3, <4>1, <4>2 DEF Work, Send
    <3> QED BY <2>1, <3>1, <3>2 DEF RightSection
  <2>4. CASE Forward
    <3>1. queue # Nothing /\ queue' = Nothing /\ UNCHANGED <<late, chan>>
      BY <2>4 DEF Forward, Record
    <3>2. held' = queue \/ held' = Event(queue.gen, queue.sec, Nothing, FALSE)
      BY <2>4 DEF Forward, Record
    <3>3. held'.gen = session.run /\ RightSection(held')
      BY <3>1, <3>2, FeedAssumption DEF Event, RightSection, FeedAssumption
    <3> QED BY <2>1, <3>1, <3>3 DEF RightSection
  <2>5. CASE Publish \/ PublishLate
    <3>1. PICK e \in {held, late} : e # Nothing /\ chan' \in {chan, Append(chan, e)}
      BY <2>5 DEF Publish, Deliver, PublishLate, DeliverLate
    <3>2. /\ queue' = queue /\ held' \in {held, Nothing} /\ late' \in {late, Nothing}
      BY <2>5 DEF Publish, Deliver, PublishLate, DeliverLate
    <3>3. e.gen \in Nat /\ e.gen <= session.run /\ RightSection(e)
      BY <1>0, <3>1
    <3>4. \A k \in 1..Len(chan') : chan'[k].gen <= session.run /\ RightSection(chan'[k])
      <4>1. CASE chan' = Append(chan, e)
        <5> SUFFICES ASSUME NEW k \in 1..Len(chan')
                     PROVE  chan'[k].gen <= session.run /\ RightSection(chan'[k])
          OBVIOUS
        <5>1. /\ Len(chan) \in Nat /\ Len(chan') = Len(chan) + 1
              /\ chan'[Len(chan) + 1] = e
              /\ \A j \in 1..Len(chan) : chan'[j] = chan[j]
          BY <1>0, <4>1, AppendItems
        <5>2. CASE k \in 1..Len(chan)
          BY <5>1, <5>2
        <5>3. CASE k = Len(chan) + 1
          BY <3>3, <5>1, <5>3
        <5> QED BY <5>1, <5>2, <5>3
      <4> QED BY <3>1, <4>1
    <3> QED BY <2>1, <3>2, <3>4 DEF RightSection
  <2>6. CASE PumpTake
    <3>1. chan # <<>> /\ chan' = Tail(chan) /\ UNCHANGED <<queue, held, late>>
      BY <2>6 DEF PumpTake
    <3>2. \A k \in 1..Len(chan') : chan'[k] = chan[k + 1] /\ k + 1 \in 1..Len(chan)
      BY <1>0, <3>1, TailItems
    <3> QED BY <2>1, <3>1, <3>2 DEF RightSection
  <2>7. CASE PumpStore \/ PumpAfter \/ Tick \/ EnrichSteps
    BY <2>2, <2>7 DEF PumpStore, PumpAfter, Tick, EnrichSteps, EnrichLook, EnrichApply
  <2>8. CASE DispatchSteps
    BY <2>2, <2>8 DEF DispatchSteps, Wake, TellBegin, ReadRows, TellRows, Starve,
       ReadState, TellState, DispatchOnly
  <2>9. CASE CancelScan \/ AskPage \/ GivePage \/ PlanBegin \/ PlanEnd \/ Execute
    BY <2>2, <2>9 DEF CancelScan, AskPage, GivePage, PlanBegin, PlanEnd, Execute
  <2>10. CASE StartRun \/ BatchEnds
    BY <1>1, <2>2, <2>10 DEF StartRun, BatchEnds, Restarted, callers
  <2>11. CASE UNCHANGED vars
    BY <2>2, <2>11 DEF vars
  <2> QED
    BY <2>3, <2>4, <2>5, <2>6, <2>7, <2>8, <2>9, <2>10, <2>11
    DEF Next, EngineSteps, PumpSteps, ClientSteps
<1> QED BY <1>1, <1>2, SessionMoves

LEMMA NothingToReconcile ==
  ASSUME NEW ss, NEW e, ~e.reason
  PROVE  Reconciled(ss, e) = ss
BY DEF Reconciled

LEMMA ReconciledSame ==
  ASSUME NEW ss, Sound(ss), NEW e
  PROVE  Reconciled(ss, e).correlated = ss.correlated
<1>1. ss \in SessionTypes
  BY DEF Sound
<1> QED BY <1>1 DEF Reconciled, SessionTypes

LEMMA AppliedStays ==
  ASSUME NEW ss, Sound(ss), NEW ev \in Events, NEW t \in Applied(ss, ev)
  PROVE  t.cancelled = ss.cancelled /\ t.correlated = ss.correlated
<1>1. CASE \E kept \in SUBSET {ev.item} :
             ev.item \in Findings /\ t = Retained(ss, kept, {ev.item} \ kept)
  <2>1. PICK kept \in SUBSET {ev.item} :
          ev.item \in Findings /\ t = Retained(ss, kept, {ev.item} \ kept)
    BY <1>1
  <2> DEFINE refused == {ev.item} \ kept
  <2>2. /\ kept \in SUBSET Findings /\ refused \in SUBSET Findings
        /\ t = Retained(ss, kept, refused)
    BY <2>1
  <2> HIDE DEF refused
  <2> QED BY <2>2, RetainedIs DEF KeepsRun
<1> QED BY <1>1, AppliedIs

\* Rows stay correlated, and only a user or a reason settles them early.
SessionGoes ==
  /\ session.correlated => session'.correlated
  /\ session'.correlated => session.correlated \/ session.run # 0
  /\ session'.cancelled => session.cancelled \/ engine.reason \/ engine'.stopped

LEMMA SessionStays ==
  ASSUME Basics, [Next]_vars, ~Restarted
  PROVE  SessionGoes
<1> USE DEF Basics
<1>1. CASE UNCHANGED session
  BY <1>1 DEF SessionGoes
<1>2. CASE PumpTake
  <2>1. CASE session' \in Applied(session, Head(chan))
    <3>1. Head(chan) \in Events
      BY <1>2, HeadAndTail DEF PumpTake, EventsInv
    <3> QED BY <2>1, <3>1, AppliedStays DEF SessionGoes
  <2> QED BY <1>1, <1>2, <2>1 DEF PumpTake
<1>3. CASE PumpStore
  <2>1. CASE session' = Limited(session, {pump.ev.item})
    <3>1. {pump.ev.item} \in SUBSET Sections
      BY <1>3, FeedAssumption DEF PumpStore, PumpInv, FeedAssumption
    <3> QED BY <2>1, <3>1, LimitedIs DEF SessionGoes
  <2> QED BY <1>1, <1>3, <2>1 DEF PumpStore
<1>4. CASE PumpAfter /\ CorrelationDue
  <2>0. session.run # 0
    BY <1>4 DEF CorrelationDue
  <2>1. CASE session' = [Limited(session, Correlated) EXCEPT !.correlated = TRUE]
    <3> DEFINE t == Limited(session, Correlated)
    <3>1. Sound(t) /\ t.cancelled = session.cancelled
      BY LimitedIs, LimitedFollows, SessionAssumption DEF SessionAssumption, Follows
    <3>2. session' = [t EXCEPT !.correlated = TRUE]
      BY <2>1
    <3> HIDE DEF t
    <3> QED BY <2>0, <3>1, <3>2 DEF Sound, SessionTypes, SessionGoes
  <2>2. ASSUME NEW kept \in Retainable(CorrelatedRows),
               session' = [Retained(session, kept, CorrelatedRows \ kept)
                             EXCEPT !.correlated = TRUE]
        PROVE  SessionGoes
    <3>1. kept \in SUBSET Findings /\ CorrelatedRows \ kept \in SUBSET Findings
      BY DEF Retainable, CorrelatedRows, Present
    <3> DEFINE refused == CorrelatedRows \ kept
               t == Retained(session, kept, refused)
    <3> HIDE DEF refused
    <3>2. refused \in SUBSET Findings
      BY <3>1 DEF refused
    <3>3. Sound(t)
      BY <3>1, <3>2, RetainedFollows DEF Follows
    <3>4. session' = [t EXCEPT !.correlated = TRUE]
      BY <2>2 DEF refused
    <3>5. t = Retained(session, kept, refused)
      OBVIOUS
    <3> HIDE DEF t
    <3>6. t.cancelled = session.cancelled
      BY <3>1, <3>2, <3>5, RetainedIs DEF KeepsRun
    <3> QED BY <2>0, <3>3, <3>4, <3>6 DEF Sound, SessionTypes, SessionGoes
  <2> QED BY <1>1, <1>4, <2>1, <2>2 DEF PumpAfter
<1>9. CASE PumpAfter /\ ~CorrelationDue
  BY <1>1, <1>9 DEF PumpAfter
<1>5. CASE Tick \/ AskPage
  <2>1. session' = Reconciled(session, engine)
    BY <1>5 DEF Tick, AskPage
  <2> QED BY <2>1, NothingToReconcile, ReconciledSame DEF SessionGoes
<1>6. ASSUME NEW g \in Runs, EnrichApply(g)
      PROVE  SessionGoes
  <2>1. ASSUME NEW touched \in SUBSET enrich[g].rows, NEW kept \in Retainable(touched),
               session' = Retained(session, kept, touched \ kept)
        PROVE  SessionGoes
    <3> DEFINE refused == touched \ kept
    <3>1. /\ kept \in SUBSET Findings /\ refused \in SUBSET Findings
          /\ session' = Retained(session, kept, refused)
      BY <2>1 DEF Retainable, EnrichInv, TaskTypes
    <3> HIDE DEF refused
    <3> QED BY <3>1, RetainedIs DEF SessionGoes, KeepsRun
  <2>2. CASE ~StillWanted(g)
    <3>1. UNCHANGED session
      BY <1>6, <2>2, Zenon DEF EnrichApply
    <3> QED BY <3>1 DEF SessionGoes
  <2>3. CASE StillWanted(g)
    <3>1. PICK touched \in SUBSET enrich[g].rows :
            \E kept \in Retainable(touched) :
              session' = Retained(session, kept, touched \ kept)
      BY <1>6, <2>3 DEF EnrichApply
    <3> QED BY <2>1, <3>1
  <2> QED BY <2>2, <2>3
<1>7. CASE Starve
  <2>1. CASE session' = Limited(session, Sections)
    BY <2>1, LimitedIs DEF SessionGoes
  <2> QED BY <1>1, <1>7, <2>1 DEF Starve
<1>8. CASE CancelScan
  <2>1. session' = Cancelled(session) /\ engine' = CalledOff(engine)
    BY <1>8 DEF CancelScan
  <2>2. session'.correlated = session.correlated
    BY <2>1 DEF Cancelled, Sound, SessionTypes
  <2>3. engine'.stopped
    BY <2>1 DEF CalledOff, EngineInv, EngineTypes
  <2> QED BY <2>2, <2>3 DEF SessionGoes
<1>10. CASE StartRun \/ BatchEnds
  BY <1>1, <1>10 DEF StartRun, BatchEnds, Restarted, callers
<1>11. CASE EngineSteps
  BY <1>1, <1>11 DEF EngineSteps, Work, Forward, Publish, PublishLate, EngineOnly
<1>12. CASE \E g \in Runs : EnrichLook(g)
  BY <1>1, <1>12 DEF EnrichLook
<1>13. CASE Wake \/ TellBegin \/ ReadRows \/ TellRows \/ ReadState \/ TellState
  BY <1>1, <1>13 DEF Wake, TellBegin, ReadRows, TellRows, ReadState, TellState, DispatchOnly
<1>14. CASE GivePage \/ PlanBegin \/ PlanEnd \/ Execute
  BY <1>1, <1>14 DEF GivePage, PlanBegin, PlanEnd, Execute
<1>15. CASE UNCHANGED vars
  BY <1>1, <1>15 DEF vars
<1> QED
  BY <1>2, <1>3, <1>4, <1>5, <1>6, <1>7, <1>8, <1>9, <1>10, <1>11, <1>12, <1>13,
     <1>14, <1>15
  DEF Next, PumpSteps, EnrichSteps, DispatchSteps, ClientSteps

\* A stop is for the run, and without a walk that ran out of memory so is a reason.
EngineGoes ==
  /\ engine.stopped => engine'.stopped
  /\ engine'.reason => engine.reason \/ engine'.stopped

LEMMA EngineStays ==
  ASSUME "walk" \notin Faults, Basics, [Next]_vars, ~Restarted
  PROVE  EngineGoes
<1> USE DEF EngineGoes
<1>0. engine \in EngineTypes
  BY DEF Basics, EngineInv
<1>1. CASE UNCHANGED engine
  BY <1>1
<1>2. CASE engine' = Halted(engine) \/ engine' = CalledOff(engine)
  BY <1>0, <1>2 DEF Halted, CalledOff, EngineTypes
<1>3. ASSUME NEW s \in Sections, Work(s) PROVE EngineGoes
  BY <1>0, <1>3 DEF Work, Send, EngineTypes
<1>4. CASE Forward
  <2>1. CASE engine' = Recorded(engine, queue)
    BY <1>0, <2>1 DEF Recorded, EngineTypes
  <2> QED BY <1>2, <1>4, <2>1 DEF Forward, Record
<1>5. CASE PumpTake \/ PumpStore \/ PumpAfter \/ Starve \/ CancelScan
  BY <1>1, <1>2, <1>5 DEF PumpTake, PumpStore, PumpAfter, Starve, CancelScan
<1>6. CASE Publish \/ PublishLate \/ Tick \/ EnrichSteps
  BY <1>1, <1>6 DEF Publish, Deliver, PublishLate, DeliverLate, Tick, EnrichSteps,
     EnrichLook, EnrichApply
<1>7. CASE Wake \/ TellBegin \/ ReadRows \/ TellRows \/ ReadState \/ TellState
  BY <1>1, <1>7 DEF Wake, TellBegin, ReadRows, TellRows, ReadState, TellState, DispatchOnly
<1>8. CASE AskPage \/ GivePage \/ PlanBegin \/ PlanEnd \/ Execute
  BY <1>1, <1>8 DEF AskPage, GivePage, PlanBegin, PlanEnd, Execute
<1>9. CASE StartRun \/ BatchEnds
  BY <1>1, <1>9 DEF StartRun, BatchEnds, Restarted, callers
<1>10. CASE UNCHANGED vars
  BY <1>1, <1>10 DEF vars
<1> QED
  BY <1>3, <1>4, <1>5, <1>6, <1>7, <1>8, <1>9, <1>10
  DEF Next, EngineSteps, PumpSteps, DispatchSteps, ClientSteps

LEMMA StopHolds ==
  ASSUME "walk" \notin Faults, Basics, [Next]_vars, StopInv
  PROVE  StopInv'
<1>1. CASE Restarted
  <2>1. engine' = NewEngine(session.run + 1) /\ session' = Begun(session.run + 1)
    BY <1>1 DEF Restarted, Restart, Supersede
  <2>2. ~engine'.reason /\ ~session'.cancelled /\ ~session'.correlated
    BY <2>1 DEF NewEngine, Begun, NewSession
  <2> QED BY <2>2 DEF StopInv
<1>2. CASE ~Restarted
  BY <1>2, SessionStays, EngineStays, SessionMoves DEF StopInv, SessionGoes, EngineGoes, Follows
<1> QED BY <1>1, <1>2

LEMMA TasksHold ==
  ASSUME Basics, [Next]_vars, TaskInv
  PROVE  TaskInv'
<1>0. session.run \in Nat /\ session.row \in [Findings -> Nat] /\ enrich \in [Runs -> TaskTypes]
  BY DEF Basics, Sound, SessionTypes, EnrichInv
<1>1. CASE Restarted
  <2>1. session'.run = session.run + 1 /\ enrich' = enrich
    BY <1>0, <1>1, BegunIsSound DEF Restarted, Restart
  <2> SUFFICES ASSUME NEW g \in Runs, enrich[g].at # "none" PROVE g <= session.run /\ g \in Nat
    BY <1>0, <2>1 DEF TaskInv
  <2> QED BY FeedAssumption DEF TaskInv, Runs, FeedAssumption
<1>2. CASE ~Restarted
  <2>1. /\ session'.run = session.run
        /\ session' \in SessionTypes
        /\ \A f \in Findings : session'.row[f] = session.row[f] \/ session.revision < session'.row[f]
    BY <1>2, SessionMoves DEF Follows, Sound
  <2>2. session.revision \in Nat /\ session'.row \in [Findings -> Nat]
    BY <2>1 DEF Basics, Sound, SessionTypes
  <2>3. CorrelatedRows \subseteq CorrelatedRows'
    BY <1>0, <2>1, <2>2 DEF CorrelatedRows, Present
  <2>4. session.correlated => session'.correlated
    BY <1>2, SessionStays DEF SessionGoes
  <2>5. ASSUME NEW g \in Runs,
               enrich'[g].at # "none" =>
                 enrich[g].at # "none" /\ enrich'[g].rows = enrich[g].rows
        PROVE  (enrich[g].at # "none" =>
                 /\ g <= session.run
                 /\ g = session.run => session.correlated /\ enrich[g].rows \subseteq CorrelatedRows)'
    BY <2>1, <2>3, <2>4, <2>5 DEF TaskInv
  <2>6. CASE UNCHANGED enrich
    BY <2>5, <2>6 DEF TaskInv
  <2>7. CASE PumpAfter
    <3>1. CASE /\ enrich' = [enrich EXCEPT ![session.run] =
                               [at |-> "fetching", rows |-> CorrelatedRows]]
               /\ \E kept \in Retainable(CorrelatedRows) :
                    session' = [Retained(session, kept, CorrelatedRows \ kept)
                                  EXCEPT !.correlated = TRUE]
      <4>1. session'.correlated
        <5>1. PICK kept \in Retainable(CorrelatedRows) :
                session' = [Retained(session, kept, CorrelatedRows \ kept)
                              EXCEPT !.correlated = TRUE]
          BY <3>1
        <5>2. kept \in SUBSET Findings /\ CorrelatedRows \ kept \in SUBSET Findings
          BY DEF Retainable, CorrelatedRows, Present
        <5> DEFINE t == Retained(session, kept, CorrelatedRows \ kept)
        <5>3. t \in SessionTypes
          BY <5>2, RetainedFollows DEF Basics, Follows, Sound
        <5>4. session' = [t EXCEPT !.correlated = TRUE]
          BY <5>1
        <5> HIDE DEF t
        <5> QED BY <5>3, <5>4 DEF SessionTypes
      <4> SUFFICES ASSUME NEW g \in Runs
                   PROVE  (enrich[g].at # "none" =>
                            /\ g <= session.run
                            /\ g = session.run => session.correlated /\ enrich[g].rows \subseteq CorrelatedRows)'
        BY DEF TaskInv
      <4>2. CASE g = session.run
        <5>1. enrich'[g].rows = CorrelatedRows /\ g <= session.run
          BY <1>0, <3>1, <4>2
        <5> QED BY <2>1, <2>3, <4>1, <4>2, <5>1
      <4>3. CASE g # session.run
        <5>1. enrich'[g] = enrich[g]
          BY <1>0, <3>1, <4>3
        <5> QED BY <2>5, <5>1
      <4> QED BY <4>2, <4>3
    <3> QED BY <2>6, <2>7, <3>1 DEF PumpAfter
  <2>8. ASSUME NEW g \in Runs, EnrichLook(g) \/ EnrichApply(g)
        PROVE  TaskInv'
    <3>1. \/ enrich' = [enrich EXCEPT ![g] = NoTask]
          \/ enrich' = [enrich EXCEPT ![g].at = "fetched"] /\ enrich[g].at = "fetching"
      BY <2>8 DEF EnrichLook, EnrichApply
    <3>2. \A h \in Runs : enrich'[h].at # "none" =>
            enrich[h].at # "none" /\ enrich'[h].rows = enrich[h].rows
      BY <1>0, <3>1 DEF NoTask, TaskTypes
    <3> QED BY <2>5, <3>2 DEF TaskInv
  <2>9. CASE EngineSteps
    BY <2>6, <2>9 DEF EngineSteps, Work, Forward, Publish, PublishLate, EngineOnly
  <2>10. CASE PumpTake \/ PumpStore \/ Tick
    BY <2>6, <2>10 DEF PumpTake, PumpStore, Tick
  <2>11. CASE DispatchSteps
    BY <2>6, <2>11 DEF DispatchSteps, Wake, TellBegin, ReadRows, TellRows, Starve,
       ReadState, TellState, DispatchOnly
  <2>12. CASE ClientSteps
    BY <2>6, <2>12 DEF ClientSteps, StartRun, CancelScan, AskPage, GivePage, PlanBegin,
       PlanEnd, Execute, BatchEnds
  <2>13. CASE UNCHANGED vars
    BY <2>6, <2>13 DEF vars
  <2> QED
    BY <2>7, <2>8, <2>9, <2>10, <2>11, <2>12, <2>13 DEF Next, PumpSteps, EnrichSteps
<1> QED BY <1>1, <1>2

\* The places that events pass through, one step at a time.
Passing == EndsLast /\ EndingsCome /\ NothingFollows

SameRun == session'.run = session.run
StatusStays == \A s \in Sections : IsOver(s)' <=> IsOver(s)

LEMMA PassingKept ==
  ASSUME Passing, UNCHANGED <<queue, held, chan>>, SameRun,
         engine'.alive = engine.alive, StatusStays
  PROVE  Passing'
<1>1. \A s \in Sections : /\ Of(queue, s)' <=> Of(queue, s)
                          /\ Of(held, s)' <=> Of(held, s)
                          /\ Ends(queue, s)' <=> Ends(queue, s)
                          /\ Ends(held, s)' <=> Ends(held, s)
  BY DEF Of, Ends, SameRun
<1>2. \A s \in Sections, k \in 1..Len(chan) :
        /\ Of(chan[k], s)' <=> Of(chan[k], s)
        /\ Ends(chan[k], s)' <=> Ends(chan[k], s)
  BY DEF Of, Ends, SameRun
<1>3. Len(chan') = Len(chan)
  OBVIOUS
<1>4. EndsLast'
  BY <1>1, <1>2, <1>3 DEF Passing, EndsLast, Ends, Of, SameRun
<1>5. EndingsCome' /\ NothingFollows'
  BY <1>1, <1>2, <1>3, SessionAssumption
  DEF Passing, EndingsCome, NothingFollows, EndComes, Coming, StatusStays, SessionAssumption
<1> QED BY <1>4, <1>5 DEF Passing

LEMMA PassingWork ==
  ASSUME Basics, Passing, SameRun, NEW w \in Sections, Work(w), queue' \in Events
  PROVE  Passing'
<1>0. /\ engine \in EngineTypes /\ engine.run = session.run /\ w \in engine.alive
      /\ queue = Nothing /\ UNCHANGED <<held, chan, session>>
  BY DEF Work, Send, EngineOnly, Basics, EngineInv
<1>1. /\ queue'.sec = w /\ queue'.gen = engine.run
      /\ engine'.alive = IF IsEnd(queue)' THEN engine.alive \ {w} ELSE engine.alive
  <2>1. ASSUME NEW i \in ItemsOf(w), engine' = [engine EXCEPT !.todo = @ \ {i}],
               queue' = Event(engine.run, w, i, TRUE)
        PROVE  /\ queue'.sec = w /\ queue'.gen = engine.run
               /\ engine'.alive = IF IsEnd(queue)' THEN engine.alive \ {w} ELSE engine.alive
    <3>1. ~IsEnd(queue)'
      BY <2>1, FeedAssumption DEF IsEnd, Event, ItemsOf, FeedAssumption
    <3> QED BY <1>0, <2>1, <3>1 DEF EngineTypes, Event
  <2>2. ASSUME NEW ok \in BOOLEAN, engine' = [engine EXCEPT !.alive = @ \ {w}],
               queue' = Event(engine.run, w, Nothing, ok)
        PROVE  /\ queue'.sec = w /\ queue'.gen = engine.run
               /\ engine'.alive = IF IsEnd(queue)' THEN engine.alive \ {w} ELSE engine.alive
    BY <1>0, <2>2 DEF EngineTypes, Event, IsEnd
  <2> QED BY <2>1, <2>2 DEF Work, Send
<1>2. \A s \in Sections : ~Of(queue, s) /\ ~Ends(queue, s)
  BY <1>0 DEF Of, Ends
<1>3. \A s \in Sections : /\ Of(queue, s)' => s = w
                          /\ Ends(queue, s)' => s = w /\ s \notin engine'.alive
                          /\ s \notin engine'.alive => s \notin engine.alive \/ (s = w /\ IsEnd(queue)')
                          /\ s \notin engine.alive => s \notin engine'.alive /\ s # w
  BY <1>0, <1>1 DEF Of, Ends
<1>4. \A s \in Sections : /\ Of(held, s)' <=> Of(held, s)
                          /\ Ends(held, s)' <=> Ends(held, s)
                          /\ IsOver(s)' <=> IsOver(s)
  BY <1>0 DEF Of, Ends, IsOver
<1>5. \A s \in Sections, k \in 1..Len(chan) :
        /\ Of(chan[k], s)' <=> Of(chan[k], s)
        /\ Ends(chan[k], s)' <=> Ends(chan[k], s)
  BY <1>0 DEF Of, Ends
<1>6. Len(chan') = Len(chan)
  BY <1>0
<1>7. EndsLast'
  BY <1>0, <1>3, <1>4, <1>5, <1>6 DEF Passing, EndsLast, Ends, Of
<1>8. IsEnd(queue)' => Ends(queue, w)'
  <2>1. queue' # Nothing
    BY EventAssumption
  <2> QED BY <1>0, <1>1, <2>1 DEF Ends, Of, SameRun
<1>9. EndingsCome'
  BY <1>2, <1>3, <1>4, <1>5, <1>6, <1>8 DEF Passing, EndingsCome, EndComes
<1>10. NothingFollows'
  BY <1>3, <1>4, <1>5, <1>6, SessionAssumption
  DEF Passing, NothingFollows, Coming, SessionAssumption
<1> QED BY <1>7, <1>9, <1>10 DEF Passing

LEMMA PassingForward ==
  ASSUME "walk" \notin Faults, Basics, Passing, SameRun, Forward, ~engine'.stopped
  PROVE  Passing'
<1>0. engine \in EngineTypes
  BY DEF Basics, EngineInv
<1>1. /\ queue # Nothing /\ held = Nothing /\ queue' = Nothing
      /\ UNCHANGED <<chan, session>>
  BY DEF Forward, Record, EngineOnly
<1>2. held' = queue /\ engine'.alive = engine.alive
  BY <1>0 DEF Forward, Record, Halted, Recorded, EngineTypes
<1>3. \A s \in Sections : /\ ~Of(queue, s)' /\ ~Ends(queue, s)'
                          /\ ~Of(held, s) /\ ~Ends(held, s)
                          /\ Of(held, s)' <=> Of(queue, s)
                          /\ Ends(held, s)' <=> Ends(queue, s)
                          /\ IsOver(s)' <=> IsOver(s)
  BY <1>1, <1>2 DEF Of, Ends, IsOver
<1>4. \A s \in Sections, k \in 1..Len(chan) :
        /\ Of(chan[k], s)' <=> Of(chan[k], s)
        /\ Ends(chan[k], s)' <=> Ends(chan[k], s)
  BY <1>1 DEF Of, Ends
<1>5. Len(chan') = Len(chan)
  BY <1>1
<1>6. EndsLast'
  BY <1>1, <1>2, <1>3, <1>4, <1>5 DEF Passing, EndsLast, Ends, Of
<1>7. EndingsCome'
  BY <1>2, <1>3, <1>4, <1>5 DEF Passing, EndingsCome, EndComes
<1>8. NothingFollows'
  BY <1>2, <1>3, <1>4, <1>5, SessionAssumption
  DEF Passing, NothingFollows, Coming, SessionAssumption
<1> QED BY <1>6, <1>7, <1>8 DEF Passing

\* What is delivered is behind what was there.
LEMMA PassingPublish ==
  ASSUME Basics, Passing, SameRun, NEW e \in Events, chan' = Append(chan, e),
         queue' = queue, engine'.alive = engine.alive, session' = session,
         \/ e = held /\ held' = Nothing
         \/ e.gen # session.run /\ held' = held
  PROVE  Passing'
<1>1. PICK n \in Nat : /\ Len(chan) = n /\ Len(chan') = n + 1 /\ chan'[n + 1] = e
                       /\ \A k \in 1..n : chan'[k] = chan[k]
  BY AppendItems DEF Basics, EventsInv
<1>0. e # Nothing
  BY EventAssumption
<1>2. \A s \in Sections : /\ Of(queue, s)' <=> Of(queue, s)
                          /\ Ends(queue, s)' <=> Ends(queue, s)
                          /\ IsOver(s)' <=> IsOver(s)
  BY DEF Of, Ends, IsOver
<1>3. \A s \in Sections, k \in 1..n :
        /\ Of(chan[k], s)' <=> Of(chan[k], s)
        /\ Ends(chan[k], s)' <=> Ends(chan[k], s)
  BY <1>1 DEF Of, Ends
<1>4. ASSUME NEW s \in Sections
      PROVE  /\ Of(held, s) <=> Of(held, s)' \/ Of(chan[n + 1], s)'
             /\ Ends(held, s) <=> Ends(held, s)' \/ Ends(chan[n + 1], s)'
             /\ Of(held, s)' => ~Of(chan[n + 1], s)'
             /\ Of(chan[n + 1], s)' => ~Of(held, s)'
  <2>1. CASE e = held /\ held' = Nothing
    BY <1>0, <1>1, <2>1 DEF Of, Ends
  <2>2. CASE e.gen # session.run /\ held' = held
    BY <1>0, <1>1, <2>2 DEF Of, Ends
  <2> QED BY <2>1, <2>2
<1>5. ASSUME NEW s \in Sections, NEW k \in 1..(n + 1)
      PROVE  k = n + 1 \/ k \in 1..n
  BY <1>1
<1>6. EndsLast'
  <2> SUFFICES ASSUME NEW s \in Sections
               PROVE  /\ Ends(queue, s)' => s \notin engine'.alive
                      /\ Ends(held, s)' => s \notin engine'.alive /\ ~Of(queue, s)'
                      /\ \A k \in 1..(n + 1) : Ends(chan[k], s)' =>
                           /\ s \notin engine'.alive /\ ~Of(queue, s)' /\ ~Of(held, s)'
                           /\ \A j \in (k + 1)..(n + 1) : ~Of(chan[j], s)'
    BY <1>1 DEF EndsLast, Ends, Of
  <2>1. /\ Ends(queue, s)' => s \notin engine'.alive
        /\ Ends(held, s)' => s \notin engine'.alive /\ ~Of(queue, s)'
    BY <1>2, <1>4 DEF Passing, EndsLast
  <2>2. ASSUME NEW k \in 1..n, Ends(chan[k], s)'
        PROVE  /\ s \notin engine'.alive /\ ~Of(queue, s)' /\ ~Of(held, s)'
               /\ \A j \in (k + 1)..(n + 1) : ~Of(chan[j], s)'
    <3>1. /\ s \notin engine.alive /\ ~Of(queue, s) /\ ~Of(held, s)
          /\ \A j \in (k + 1)..n : ~Of(chan[j], s)
      BY <1>1, <1>3, <2>2 DEF Passing, EndsLast
    <3>2. \A j \in (k + 1)..n : j \in 1..n
      BY <1>1
    <3>3. \A j \in (k + 1)..(n + 1) : j = n + 1 \/ j \in (k + 1)..n
      BY <1>1
    <3> QED BY <1>2, <1>3, <1>4, <3>1, <3>2, <3>3
  <2>3. ASSUME Ends(chan[n + 1], s)'
        PROVE  /\ s \notin engine'.alive /\ ~Of(queue, s)' /\ ~Of(held, s)'
               /\ \A j \in (n + 1 + 1)..(n + 1) : ~Of(chan[j], s)'
    <3>1. Ends(held, s) /\ ~Of(held, s)'
      BY <1>4, <2>3 DEF Ends
    <3> QED BY <1>1, <1>2, <3>1 DEF Passing, EndsLast
  <2> QED BY <1>5, <2>1, <2>2, <2>3
<1>7. \A s \in Sections : EndComes(s) => EndComes(s)'
  <2> SUFFICES ASSUME NEW s \in Sections, EndComes(s) PROVE EndComes(s)'
    OBVIOUS
  <2>1. CASE Ends(queue, s)
    BY <1>2, <2>1 DEF EndComes
  <2>2. CASE Ends(held, s)
    BY <1>1, <1>4, <2>2 DEF EndComes, Ends, Of
  <2>3. ASSUME NEW k \in 1..n, Ends(chan[k], s)
        PROVE  EndComes(s)'
    <3>1. k \in 1..Len(chan') /\ Ends(chan[k], s)'
      BY <1>1, <1>3, <2>3
    <3> QED BY <3>1 DEF EndComes, Ends, Of
  <2> QED BY <1>1, <2>1, <2>2, <2>3 DEF EndComes
<1>8. \A s \in Sections : ~Coming(s) => ~Coming(s)'
  <2> SUFFICES ASSUME NEW s \in Sections, Coming(s)' PROVE Coming(s)
    OBVIOUS
  <2>1. CASE Of(queue, s)' \/ Of(held, s)'
    BY <1>2, <1>4, <2>1 DEF Coming
  <2>2. ASSUME NEW k \in 1..(n + 1), Of(chan[k], s)'
        PROVE  Coming(s)
    <3>1. CASE k = n + 1
      BY <1>4, <2>2, <3>1 DEF Coming
    <3>2. CASE k \in 1..n
      BY <1>1, <1>3, <2>2, <3>2 DEF Coming
    <3> QED BY <1>5, <3>1, <3>2
  <2> QED BY <1>1, <2>1, <2>2 DEF Coming, Of
<1>9. EndingsCome' /\ NothingFollows'
  BY <1>2, <1>7, <1>8, SessionAssumption
  DEF Passing, EndingsCome, NothingFollows, SessionAssumption
<1> QED BY <1>6, <1>9 DEF Passing

\* What is taken is what came first; an end is over when it is taken.
LEMMA PassingTake ==
  ASSUME Basics, Passing, SameRun, chan # <<>>, chan' = Tail(chan),
         UNCHANGED <<queue, held>>, engine'.alive = engine.alive,
         \A s \in Sections : IsOver(s) => IsOver(s)',
         \A s \in Sections : Ends(Head(chan), s) => IsOver(s)',
         \A s \in Correlated : IsOver(s)' => IsOver(s) \/ Ends(Head(chan), s)
  PROVE  Passing'
<1> DEFINE n == Len(chan)
           m == Len(chan')
<1>1. /\ n \in Nat /\ m = n - 1 /\ Head(chan) = chan[1] /\ 1 \in 1..n
      /\ \A k \in 1..m : chan'[k] = chan[k + 1] /\ k + 1 \in 1..n
      /\ \A k \in 1..n : k = 1 \/ k - 1 \in 1..m
  BY TailItems DEF Basics, EventsInv
<1> HIDE DEF n, m
<1>2. \A s \in Sections : /\ Of(queue, s)' <=> Of(queue, s)
                          /\ Ends(queue, s)' <=> Ends(queue, s)
                          /\ Of(held, s)' <=> Of(held, s)
                          /\ Ends(held, s)' <=> Ends(held, s)
  BY DEF Of, Ends, SameRun
<1>3. \A s \in Sections, k \in 1..m :
        /\ Of(chan[k], s)' <=> Of(chan[k + 1], s)
        /\ Ends(chan[k], s)' <=> Ends(chan[k + 1], s)
  BY <1>1 DEF Of, Ends, SameRun
<1>4. EndsLast'
  <2> SUFFICES ASSUME NEW s \in Sections
               PROVE  /\ Ends(queue, s)' => s \notin engine'.alive
                      /\ Ends(held, s)' => s \notin engine'.alive /\ ~Of(queue, s)'
                      /\ \A k \in 1..m : Ends(chan[k], s)' =>
                           /\ s \notin engine'.alive /\ ~Of(queue, s)' /\ ~Of(held, s)'
                           /\ \A j \in (k + 1)..m : ~Of(chan[j], s)'
    BY DEF EndsLast, Ends, Of, m
  <2>1. /\ Ends(queue, s)' => s \notin engine'.alive
        /\ Ends(held, s)' => s \notin engine'.alive /\ ~Of(queue, s)'
    BY <1>2 DEF Passing, EndsLast
  <2>2. ASSUME NEW k \in 1..m, Ends(chan[k], s)'
        PROVE  /\ s \notin engine'.alive /\ ~Of(queue, s)' /\ ~Of(held, s)'
               /\ \A j \in (k + 1)..m : ~Of(chan[j], s)'
    <3> DEFINE p == k + 1
    <3>1. p \in 1..n /\ Ends(chan[p], s)
      BY <1>1, <1>3, <2>2
    <3>2. \A j \in (k + 1)..m : j \in 1..m /\ j + 1 \in (p + 1)..n
      BY <1>1
    <3> HIDE DEF p
    <3>3. /\ s \notin engine.alive /\ ~Of(queue, s) /\ ~Of(held, s)
          /\ \A j \in (p + 1)..n : ~Of(chan[j], s)
      BY <3>1 DEF Passing, EndsLast, n
    <3> QED BY <1>2, <1>3, <3>2, <3>3
  <2> QED BY <2>1, <2>2
<1>5. \A s \in Sections : EndComes(s) => EndComes(s)' \/ Ends(Head(chan), s)
  <2> SUFFICES ASSUME NEW s \in Sections, EndComes(s), ~Ends(Head(chan), s)
               PROVE  EndComes(s)'
    OBVIOUS
  <2>1. CASE Ends(queue, s) \/ Ends(held, s)
    BY <1>2, <2>1 DEF EndComes
  <2>2. ASSUME NEW k \in 1..n, Ends(chan[k], s)
        PROVE  EndComes(s)'
    <3>1. k - 1 \in 1..m
      BY <1>1, <2>2
    <3>2. Ends(chan[k - 1], s)'
      <4>1. k - 1 + 1 = k
        BY <1>1
      <4> QED BY <1>3, <2>2, <3>1, <4>1
    <3> QED BY <3>1, <3>2 DEF EndComes, Ends, Of, m
  <2> QED BY <2>1, <2>2 DEF EndComes, n
<1>6. \A s \in Sections : Coming(s)' => Coming(s)
  <2> SUFFICES ASSUME NEW s \in Sections, Coming(s)' PROVE Coming(s)
    OBVIOUS
  <2>1. CASE Of(queue, s)' \/ Of(held, s)'
    BY <1>2, <2>1 DEF Coming
  <2>2. ASSUME NEW k \in 1..m, Of(chan[k], s)'
        PROVE  Coming(s)
    BY <1>1, <1>3, <2>2 DEF Coming, n
  <2> QED BY <2>1, <2>2 DEF Coming, Of, m
<1>7. \A s \in Sections : Ends(Head(chan), s) => s \notin engine.alive /\ ~Coming(s)'
  <2> SUFFICES ASSUME NEW s \in Sections, Ends(chan[1], s)
               PROVE  s \notin engine.alive /\ ~Coming(s)'
    BY <1>1
  <2>1. /\ s \notin engine.alive /\ ~Of(queue, s) /\ ~Of(held, s)
        /\ \A j \in (1 + 1)..n : ~Of(chan[j], s)
    BY <1>1 DEF Passing, EndsLast, n
  <2>2. \A k \in 1..m : k + 1 \in (1 + 1)..n
    BY <1>1
  <2>3. \A k \in 1..m : ~Of(chan[k], s)'
    BY <1>3, <2>1, <2>2
  <2> QED BY <1>2, <2>1, <2>3 DEF Coming, Of, m
<1>8. EndingsCome'
  BY <1>5 DEF Passing, EndingsCome
<1>9. NothingFollows'
  BY <1>6, <1>7, SessionAssumption DEF Passing, NothingFollows, SessionAssumption
<1> QED BY <1>4, <1>8, <1>9 DEF Passing

LEMMA LabelsKept ==
  ASSUME DueInv, LabelInv, UNCHANGED <<session, labelled>>,
         pump.at = "ended" => pump'.at = "ended"
  PROVE  DueInv' /\ LabelInv'
BY DEF DueInv, LabelInv, IsOver, CorrelatedRows

\* Correlation and enrichment write rows of sections that are over.
LEMMA WrittenAgain ==
  ASSUME Sound(session),
         NEW kept \in SUBSET CorrelatedRows,
         NEW refused \in SUBSET CorrelatedRows,
         \A s \in Correlated : IsOver(s), KeepsRows(session, session', kept, refused)
  PROVE  /\ StatusStays
         /\ \A s \in Correlated : IsOver(s)'
         /\ CorrelatedRows' = CorrelatedRows
         /\ session'.limited = {} => session.limited = {} /\ refused = {}
<1>1. \A s \in SectionsOf(refused) : s \in Correlated /\ s \in Sections /\ IsOver(s)
  BY SessionAssumption DEF SectionsOf, CorrelatedRows, SessionAssumption
<1>2. ASSUME NEW s \in Sections PROVE IsOver(s)' <=> IsOver(s)
  BY <1>1 DEF KeepsRows, IsOver, Over
<1>3. \A f \in Findings : f \in Present(session'.row) <=> f \in Present(session.row)
  BY DEF KeepsRows, CorrelatedRows, Present
<1>4. CorrelatedRows' = CorrelatedRows
  BY <1>3 DEF CorrelatedRows, Present
<1>5. ASSUME session'.limited = {} PROVE refused = {}
  <2> SUFFICES ASSUME NEW f \in refused PROVE FALSE
    OBVIOUS
  <2>1. SectionOf[f] \in SectionsOf(refused)
    BY DEF SectionsOf
  <2> QED BY <1>1, <1>5, <2>1 DEF KeepsRows
<1>6. session'.limited = {} => session.limited = {}
  <2>1. session.limited \subseteq Sections
    BY DEF Sound, SessionTypes
  <2> QED BY <2>1 DEF KeepsRows
<1> QED BY <1>2, <1>4, <1>5, <1>6, SessionAssumption DEF StatusStays, SessionAssumption

\* A run that is under way and that nobody stopped.
UnderWay == session.run # 0 /\ ~engine.stopped /\ ~engine.reason /\ ~session.cancelled

LEMMA LiveTake ==
  ASSUME Basics, GensInv, UnderWay, Live, SameRun, PumpTake, ~engine'.stopped
  PROVE  Live'
<1>0. /\ session \in SessionTypes /\ engine \in EngineTypes
      /\ \A s \in session.limited : IsOver(s)
  BY DEF Basics, Sound, EngineInv, IsOver, Over
<1>1. PICK ev \in Events : ev = Head(chan)
  BY HeadAndTail DEF PumpTake, Basics, EventsInv
<1>5. ev = chan[1] /\ 1 \in 1..Len(chan)
  BY <1>1, TailItems DEF PumpTake, Basics, EventsInv
<1>6. ev.sec \in Sections /\ ev # Nothing /\ RightSection(ev)
  BY <1>5, EventAssumption DEF GensInv, Events
<1>2. /\ chan # <<>> /\ chan' = Tail(chan) /\ pump.at = "idle"
      /\ UNCHANGED <<queue, held>>
  BY DEF PumpTake
<1>3. CASE ~Accepts(session, ev)
  <2>1. UNCHANGED <<engine, session, pump, labelled>>
    BY <1>1, <1>3 DEF PumpTake
  <2>2. \A s \in Sections : ~Ends(ev, s)
    BY <1>3 DEF Accepts, UnderWay, Ends, Of
  <2>3. \A s \in Sections : IsOver(s)' <=> IsOver(s)
    BY <2>1 DEF IsOver
  <2>4. Passing'
    BY <1>1, <1>2, <2>1, <2>2, <2>3, PassingTake, SessionAssumption
    DEF Live, Passing, SessionAssumption
  <2>5. DueInv' /\ LabelInv'
    BY <2>1, LabelsKept DEF Live
  <2> QED BY <2>4, <2>5 DEF Live, Passing
<1>4. CASE Accepts(session, ev)
  <2>1. /\ session' \in Applied(session, ev)
        /\ session.limited = {} => session'.limited = {} /\ engine' = engine
        /\ session.limited # {} => engine' = engine
        /\ ev.item \in Caches => pump'.at = "store"
        /\ IsEnd(ev) => pump'.at = "ended"
        /\ session'.revision = session.revision => labelled' = labelled
        /\ labelled \ {ev.item} \subseteq labelled'
    <3>1. /\ session' \in Applied(session, ev)
          /\ engine' = IF session.limited = {} /\ session'.limited # {}
                         THEN Halted(engine) ELSE engine
          /\ pump' = CASE ev.item \in Caches -> [at |-> "store", ev |-> ev]
                       [] IsEnd(ev) -> [at |-> "ended", ev |-> Nothing]
                       [] ev.item \in Findings -> Idle
          /\ labelled' = IF session'.revision # session.revision
                           THEN labelled \ {ev.item} ELSE labelled
      BY <1>1, <1>4 DEF PumpTake
    <3>2. Halted(engine).stopped
      BY <1>0 DEF Halted, EngineTypes
    <3>3. ev.item \in Caches => pump'.at = "store"
      BY <3>1, FeedAssumption DEF IsEnd, FeedAssumption
    <3>4. IsEnd(ev) => pump'.at = "ended"
      BY <3>1, FeedAssumption DEF IsEnd, FeedAssumption
    <3> QED BY <3>1, <3>2, <3>3, <3>4
  <2>2. ev.gen = session.run
    BY <1>4 DEF Accepts
  <2>3. \A s \in Sections : /\ Of(ev, s) <=> s = ev.sec
                            /\ Ends(ev, s) <=> s = ev.sec /\ IsEnd(ev)
    BY <1>6, <2>2 DEF Of, Ends
  <2>4. engine'.alive = engine.alive
    BY <2>1
  <2>5. ASSUME \A s \in Sections : IsOver(s) => IsOver(s)',
               IsEnd(ev) => IsOver(ev.sec)',
               \A s \in Correlated : IsOver(s)' => IsOver(s) \/ (s = ev.sec /\ IsEnd(ev))
        PROVE  Passing'
    <3>1. \A s \in Sections : Ends(ev, s) => IsOver(s)'
      BY <2>3, <2>5
    <3>2. \A s \in Correlated : IsOver(s)' => IsOver(s) \/ Ends(ev, s)
      BY <2>3, <2>5, SessionAssumption DEF SessionAssumption
    <3> QED BY <1>1, <1>2, <2>4, <2>5, <3>1, <3>2, PassingTake DEF Live, Passing
  <2>6. CASE ev.sec \in session.limited /\ session' = session
    <3>1. session.correlated
      BY <2>6 DEF Live, DueInv
    <3>2. \A s \in Sections : IsOver(s)' <=> IsOver(s)
      BY <2>6 DEF IsOver
    <3>3. Passing'
      BY <1>0, <1>6, <2>5, <2>6, <3>2, SessionAssumption DEF SessionAssumption
    <3>4. DueInv' /\ LabelInv'
      BY <2>1, <2>6, <3>1 DEF Live, DueInv, LabelInv, IsOver, CorrelatedRows
    <3> QED BY <3>3, <3>4 DEF Live, Passing
  <2>7. CASE /\ IsEnd(ev)
             /\ session'.correlated = session.correlated /\ session'.row = session.row
             /\ session'.limited = session.limited /\ session'.revision = session.revision
             /\ \A s \in Sections \ {ev.sec} : session'.status[s] = session.status[s]
             /\ Over(session'.status[ev.sec])
    <3>1. \A s \in Sections : IsOver(s)' <=> IsOver(s) \/ s = ev.sec
      BY <2>7 DEF IsOver
    <3>2. Passing'
      BY <2>5, <2>7, <3>1, SessionAssumption DEF SessionAssumption, IsOver
    <3>3. DueInv'
      BY <2>1, <2>7 DEF Live, DueInv
    <3>4. LabelInv'
      BY <2>1, <2>7, <3>1, SessionAssumption
      DEF Live, LabelInv, CorrelatedRows, SessionAssumption
    <3> QED BY <3>2, <3>3, <3>4 DEF Live, Passing
  <2>8. CASE /\ ev.item \in Caches
             /\ session'.correlated = session.correlated /\ session'.row = session.row
             /\ session'.limited = session.limited /\ session'.revision = session.revision
             /\ session'.status = session.status
    <3>1. \A s \in Sections : IsOver(s)' <=> IsOver(s)
      BY <2>8 DEF IsOver
    <3>2. ~IsEnd(ev)
      BY <2>8, FeedAssumption DEF IsEnd, FeedAssumption
    <3>3. Passing'
      BY <2>5, <3>1, <3>2, SessionAssumption DEF SessionAssumption
    <3>4. DueInv'
      BY <1>2, <2>1, <2>8, <3>1, SessionAssumption DEF Live, DueInv, SessionAssumption
    <3>5. LabelInv'
      BY <2>1, <2>8, <3>1, SessionAssumption
      DEF Live, LabelInv, CorrelatedRows, SessionAssumption
    <3> QED BY <3>3, <3>4, <3>5 DEF Live, Passing
  <2>9. ASSUME NEW kept \in SUBSET {ev.item}, ev.item \in Findings,
               session' = Retained(session, kept, {ev.item} \ kept)
        PROVE  Live'
    <3> DEFINE refused == {ev.item} \ kept
    <3>1. /\ kept \in SUBSET Findings /\ refused \in SUBSET Findings
          /\ session' = Retained(session, kept, refused)
      BY <2>9
    <3>2. ev.sec = SectionOf[ev.item] /\ ~IsEnd(ev) /\ pump'.at = "idle"
      <4>1. ev.item # Nothing /\ ev.item \notin Caches
        BY <2>9, FeedAssumption DEF FeedAssumption
      <4> QED BY <1>1, <1>4, <1>6, <2>9, <4>1 DEF RightSection, IsEnd, PumpTake, Idle
    <3> HIDE DEF refused
    <3>3. KeepsRun(session, session') /\ KeepsRows(session, session', kept, refused)
      BY <3>1, RetainedIs DEF Basics
    <3>4. \A s \in SectionsOf(refused) : s = ev.sec
      BY <3>2 DEF SectionsOf, refused
    <3>5. \A s \in Sections : /\ IsOver(s) => IsOver(s)'
                              /\ IsOver(s)' => IsOver(s) \/ s \in SectionsOf(refused)
      BY <3>3 DEF KeepsRows, IsOver, Over
    <3>6. ASSUME NEW s \in SectionsOf(refused), s \in Sections
          PROVE  session.correlated
      <4>1. s \in session'.limited
        BY <3>3, <3>6 DEF KeepsRows
      <4> QED BY <2>1, <4>1 DEF Live, DueInv
    <3>7. \A s \in Correlated : IsOver(s)' => IsOver(s)
      BY <3>5, <3>6, SessionAssumption DEF Live, LabelInv, SessionAssumption
    <3>8. Passing'
      BY <2>5, <3>2, <3>5, <3>7
    <3>9. DueInv'
      <4> SUFFICES ASSUME ~session'.correlated PROVE DueInv'
        BY DEF DueInv
      <4>1. ~session.correlated /\ session.limited = {} /\ session'.limited = {}
        BY <2>1, <3>3 DEF KeepsRun, Live, DueInv
      <4>2. \A s \in Sections : IsOver(s)' <=> IsOver(s)
        BY <3>5, <3>6, <4>1
      <4>3. ~((\E s \in Sections : IsOver(s)) /\ (\A s \in Correlated : IsOver(s)))
        BY <1>2, <4>1 DEF Live, DueInv
      <4> QED BY <4>1, <4>2, <4>3, SessionAssumption DEF DueInv, SessionAssumption
    <3>10. LabelInv'
      <4> SUFFICES ASSUME session'.correlated PROVE LabelInv'
        BY DEF LabelInv
      <4>1. session.correlated
        BY <3>3 DEF KeepsRun
      <4>2. \A s \in Correlated : IsOver(s) /\ IsOver(s)'
        BY <3>5, <4>1, SessionAssumption DEF Live, LabelInv, SessionAssumption
      <4>3. ev.sec \notin Correlated
        <5>1. Of(chan[1], ev.sec)
          BY <1>5, <1>6, <2>3
        <5>2. Coming(ev.sec)
          BY <1>5, <5>1 DEF Coming
        <5> QED BY <4>2, <5>2 DEF Live, NothingFollows
      <4>4. CorrelatedRows' \subseteq CorrelatedRows \ {ev.item}
        BY <3>2, <3>3, <4>3 DEF CorrelatedRows, Present, KeepsRows
      <4>5. session'.limited = {} => session.limited = {}
        <5>1. session.limited \subseteq Sections
          BY <1>0 DEF SessionTypes
        <5> QED BY <3>3, <5>1 DEF KeepsRows
      <4>6. session'.limited = {} => CorrelatedRows' \subseteq labelled'
        BY <2>1, <4>1, <4>4, <4>5 DEF Live, LabelInv
      <4> QED BY <4>2, <4>6 DEF LabelInv
    <3> QED BY <3>8, <3>9, <3>10 DEF Live, Passing
  <2>10. \/ ev.sec \in session.limited /\ session' = session
         \/ /\ IsEnd(ev)
            /\ session'.correlated = session.correlated /\ session'.row = session.row
            /\ session'.limited = session.limited /\ session'.revision = session.revision
            /\ \A s \in Sections \ {ev.sec} : session'.status[s] = session.status[s]
            /\ Over(session'.status[ev.sec])
         \/ /\ ev.item \in Findings
            /\ \E kept \in SUBSET {ev.item} :
                 session' = Retained(session, kept, {ev.item} \ kept)
         \/ /\ ev.item \in Caches
            /\ session'.correlated = session.correlated /\ session'.row = session.row
            /\ session'.limited = session.limited /\ session'.revision = session.revision
            /\ session'.status = session.status
    <3> DEFINE t == session'
    <3>1. Sound(session) /\ t \in Applied(session, ev)
      BY <2>1 DEF Basics
    <3> HIDE DEF t
    <3>2. \/ ev.sec \in session.limited /\ t = session
          \/ /\ IsEnd(ev)
             /\ t.correlated = session.correlated /\ t.row = session.row
             /\ t.limited = session.limited /\ t.revision = session.revision
             /\ \A s \in Sections \ {ev.sec} : t.status[s] = session.status[s]
             /\ Over(t.status[ev.sec])
          \/ /\ ev.item \in Findings
             /\ \E kept \in SUBSET {ev.item} : t = Retained(session, kept, {ev.item} \ kept)
          \/ /\ ev.item \in Caches
             /\ t.correlated = session.correlated /\ t.row = session.row
             /\ t.limited = session.limited /\ t.revision = session.revision
             /\ t.status = session.status
      BY <3>1, AppliedIs
    <3> QED BY <3>2 DEF t
  <2> QED BY <2>6, <2>7, <2>8, <2>9, <2>10
<1> QED BY <1>3, <1>4

LEMMA LiveCorrelated ==
  ASSUME Basics, UnderWay, Live, SameRun, PumpAfter, ~engine'.stopped
  PROVE  Live'
<1>0. session \in SessionTypes /\ engine \in EngineTypes
  BY DEF Basics, Sound, EngineInv
<1>1. UNCHANGED <<queue, held, chan>>
  BY DEF PumpAfter, inbound
<1>2. CASE ~CorrelationDue
  <2>1. UNCHANGED <<engine, session, labelled>>
    BY <1>2 DEF PumpAfter
  <2>2. Passing'
    BY <1>1, <2>1, PassingKept DEF Live, Passing, StatusStays, IsOver
  <2>3. session.correlated \/ ~(\A s \in Correlated : IsOver(s))
    BY <1>2 DEF CorrelationDue, UnderWay, IsOver
  <2>4. DueInv' /\ LabelInv'
    BY <2>1, <2>3 DEF Live, DueInv, LabelInv, IsOver, CorrelatedRows
  <2> QED BY <2>2, <2>4 DEF Live, Passing
<1>3. CASE CorrelationDue
  <2>1. \A s \in Correlated : IsOver(s)
    BY <1>3 DEF CorrelationDue, IsOver
  <2>2. Halted(engine).stopped
    BY <1>0 DEF Halted, EngineTypes
  <2>3. PICK kept \in Retainable(CorrelatedRows) :
          /\ session' = [Retained(session, kept, CorrelatedRows \ kept)
                           EXCEPT !.correlated = TRUE]
          /\ labelled' = labelled \cup kept
    BY <1>3, <2>2 DEF PumpAfter
  <2>4. engine' = engine
    BY <1>3, <2>2 DEF PumpAfter
  <2>5. PICK rows : rows = CorrelatedRows
    OBVIOUS
  <2> DEFINE refused == rows \ kept
             t == Retained(session, kept, refused)
  <2>6. kept \in SUBSET rows /\ rows \in SUBSET Findings
    BY <2>5 DEF Retainable, CorrelatedRows, Present
  <2>7. refused \in SUBSET rows /\ (refused = {} => kept = rows)
    BY <2>6
  <2>8. t = Retained(session, kept, refused) /\ session' = [t EXCEPT !.correlated = TRUE]
    BY <2>3, <2>5
  <2> HIDE DEF refused
  <2>9. t \in SessionTypes
    BY <2>6, <2>7, RetainedFollows DEF Basics, Follows, Sound
  <2> HIDE DEF t
  <2>10. KeepsRows(session, t, kept, refused)
    BY <2>6, <2>7, <2>8, RetainedIs DEF Basics
  <2>11. /\ session'.correlated /\ session'.status = t.status /\ session'.row = t.row
         /\ session'.limited = t.limited /\ session'.revision = t.revision
    BY <2>8, <2>9 DEF SessionTypes
  <2>12. KeepsRows(session, session', kept, refused)
    BY <2>10, <2>11 DEF KeepsRows
  <2>13. /\ StatusStays
         /\ \A s \in Correlated : IsOver(s)'
         /\ CorrelatedRows' = CorrelatedRows
         /\ session'.limited = {} => session.limited = {} /\ refused = {}
    BY <2>1, <2>5, <2>6, <2>7, <2>12, WrittenAgain DEF Basics
  <2>14. Passing'
    BY <1>1, <2>4, <2>13, PassingKept DEF Live, Passing
  <2>15. DueInv' /\ LabelInv'
    BY <2>3, <2>5, <2>7, <2>11, <2>13 DEF DueInv, LabelInv
  <2> QED BY <2>14, <2>15 DEF Live, Passing
<1> QED BY <1>2, <1>3

LEMMA LiveEnriched ==
  ASSUME Basics, TaskInv, UnderWay, Live, SameRun, NEW g \in Runs, EnrichApply(g)
  PROVE  Live'
<1>1. /\ UNCHANGED <<queue, held, chan, engine, pump, labelled>>
      /\ enrich[g].at = "fetched"
  BY Zenon DEF EnrichApply, inbound
<1>2. CASE UNCHANGED session
  <2>1. Passing'
    BY <1>1, <1>2, PassingKept DEF Live, Passing, StatusStays, IsOver
  <2>2. DueInv' /\ LabelInv'
    BY <1>1, <1>2, LabelsKept DEF Live
  <2> QED BY <2>1, <2>2 DEF Live, Passing
<1>3. ASSUME session.run = g, NEW touched \in SUBSET enrich[g].rows,
             NEW kept \in Retainable(touched),
             session' = Retained(session, kept, touched \ kept)
      PROVE  Live'
  <2> DEFINE refused == touched \ kept
  <2>1. session.correlated /\ enrich[g].rows \subseteq CorrelatedRows
    BY <1>1, <1>3 DEF TaskInv
  <2>2. CorrelatedRows \subseteq Findings
    BY DEF CorrelatedRows, Present
  <2>3. /\ kept \in SUBSET CorrelatedRows /\ refused \in SUBSET CorrelatedRows
        /\ session' = Retained(session, kept, refused)
    BY <1>3, <2>1 DEF Retainable
  <2> HIDE DEF refused
  <2>4. KeepsRun(session, session') /\ KeepsRows(session, session', kept, refused)
    BY <2>2, <2>3, RetainedIs DEF Basics
  <2>5. \A s \in Correlated : IsOver(s)
    BY <2>1 DEF Live, LabelInv
  <2>6. /\ StatusStays
        /\ \A s \in Correlated : IsOver(s)'
        /\ CorrelatedRows' = CorrelatedRows
        /\ session'.limited = {} => session.limited = {} /\ refused = {}
    BY <2>3, <2>4, <2>5, WrittenAgain DEF Basics
  <2>7. Passing'
    BY <1>1, <2>6, PassingKept DEF Live, Passing
  <2>8. session'.correlated
    BY <2>1, <2>4 DEF KeepsRun
  <2>9. DueInv' /\ LabelInv'
    BY <1>1, <2>1, <2>6, <2>8 DEF Live, DueInv, LabelInv
  <2> QED BY <2>7, <2>9 DEF Live, Passing
<1>4. CASE ~StillWanted(g)
  <2>1. UNCHANGED session
    BY <1>4, Zenon DEF EnrichApply
  <2> QED BY <1>2, <2>1
<1>5. CASE StillWanted(g)
  <2>1. PICK touched \in SUBSET enrich[g].rows :
          \E kept \in Retainable(touched) :
            session' = Retained(session, kept, touched \ kept)
    BY <1>5 DEF EnrichApply
  <2>2. session.run = g
    BY <1>5 DEF StillWanted
  <2> QED BY <1>3, <2>1, <2>2
<1> QED BY <1>4, <1>5

\* The inductive step: a run that nobody stopped keeps its order, and a run
\* that begins has nothing to keep yet.
LEMMA LiveHolds ==
  ASSUME "walk" \notin Faults, Basics, Basics', [Next]_vars, GensInv, StopInv,
         TaskInv, LiveInv
  PROVE  LiveInv'
<1>0. engine \in EngineTypes
  BY DEF Basics, EngineInv
<1>1. CASE Restarted
  <2>1. /\ session' = Begun(session.run + 1) /\ session'.run = session.run + 1
        /\ queue' = Nothing /\ held' = Nothing /\ chan' = chan
        /\ engine' = NewEngine(session.run + 1)
    BY <1>1, BegunIsSound DEF Restarted, Restart, Supersede, Basics, Sound, SessionTypes
  <2>2. \A s \in Sections : ~Of(queue, s)' /\ ~Of(held, s)' /\ s \in engine'.alive
    BY <2>1 DEF Of, NewEngine
  <2>3. ASSUME NEW k \in 1..Len(chan) PROVE chan[k].gen # session'.run
    <3>1. chan[k] \in Events
      BY DEF Basics, EventsInv
    <3>2. chan[k].gen \in Nat
      BY <3>1, FeedAssumption DEF Events, Runs, FeedAssumption
    <3>3. chan[k].gen <= session.run /\ session.run \in Nat
      BY DEF GensInv, Basics, Sound, SessionTypes
    <3> QED BY <2>1, <3>2, <3>3
  <2>4. \A s \in Sections, k \in 1..Len(chan') : ~Of(chan[k], s)'
    BY <2>1, <2>3 DEF Of
  <2>5. /\ session'.limited = {} /\ ~session'.correlated
        /\ \A s \in Sections : ~IsOver(s)'
    BY <2>1 DEF Begun, NewSession, IsOver, Over
  <2>6. EndsLast'
    BY <2>2, <2>4 DEF EndsLast, Ends, Of
  <2>7. EndingsCome' /\ NothingFollows' /\ DueInv' /\ LabelInv'
    BY <2>2, <2>5, SessionAssumption
    DEF EndingsCome, NothingFollows, DueInv, LabelInv, SessionAssumption
  <2> QED BY <2>6, <2>7 DEF LiveInv, Live
<1>2. CASE ~Restarted
  <2> SUFFICES ASSUME session'.run # 0, ~engine'.stopped
               PROVE  Live'
    BY DEF LiveInv
  <2>1. SameRun /\ EngineGoes
    BY <1>2, SessionMoves, EngineStays DEF Follows, SameRun
  <2>2. UnderWay /\ Live
    BY <2>1, <1>0 DEF SameRun, EngineGoes, UnderWay, StopInv, LiveInv
  <2>3. ASSUME UNCHANGED <<queue, held, chan, session, labelled>>,
               engine'.alive = engine.alive,
               pump.at = "ended" => pump'.at = "ended"
        PROVE  Live'
    <3>1. Passing'
      BY <2>1, <2>2, <2>3, PassingKept DEF Live, Passing, StatusStays, IsOver
    <3> QED BY <2>2, <2>3, <3>1, LabelsKept DEF Live, Passing
  <2>4. Halted(engine).stopped /\ CalledOff(engine).stopped
    BY <1>0 DEF Halted, CalledOff, EngineTypes
  <2>5. ASSUME NEW w \in Sections, Work(w) PROVE Live'
    <3>1. queue' \in Events
      <4>1. ASSUME NEW i \in ItemsOf(w), queue' = Event(engine.run, w, i, TRUE)
            PROVE  queue' \in Events
        BY <2>5, <4>1, EventsTyped DEF Work, Send, Basics
      <4>2. ASSUME NEW ok \in BOOLEAN, queue' = Event(engine.run, w, Nothing, ok)
            PROVE  queue' \in Events
        BY <2>5, <4>2, EventsTyped DEF Work, Send, Basics
      <4> QED BY <2>5, <4>1, <4>2 DEF Work, Send
    <3>2. Passing'
      BY <2>1, <2>2, <2>5, <3>1, PassingWork DEF Live, Passing
    <3>3. UNCHANGED <<session, labelled, pump>>
      BY <2>5 DEF Work, EngineOnly
    <3> QED BY <2>2, <3>2, <3>3, LabelsKept DEF Live, Passing
  <2>6. CASE Forward
    <3>1. Passing'
      BY <2>1, <2>2, <2>6, PassingForward DEF Live, Passing
    <3>2. UNCHANGED <<session, labelled, pump>>
      BY <2>6 DEF Forward, EngineOnly
    <3> QED BY <2>2, <3>1, <3>2, LabelsKept DEF Live, Passing
  <2>7. CASE Publish
    <3>1. /\ held # Nothing /\ chan' = Append(chan, held) /\ held' = Nothing
          /\ UNCHANGED <<queue, engine, session, labelled, pump>>
      BY <2>7 DEF Publish, Deliver, EngineOnly
    <3>2. held \in Events
      BY <3>1 DEF Basics, EventsInv
    <3>3. Passing'
      BY <2>1, <2>2, <3>1, <3>2, PassingPublish DEF Live, Passing
    <3> QED BY <2>2, <3>1, <3>3, LabelsKept DEF Live, Passing
  <2>8. CASE PublishLate
    <3>1. /\ late # Nothing /\ held' = held
          /\ UNCHANGED <<queue, engine, session, labelled, pump>>
      BY <2>8 DEF PublishLate, DeliverLate, EngineOnly
    <3>2. CASE chan' = Append(chan, late)
      <4>1. late \in Events /\ late.gen # session.run
        BY <3>1, FeedAssumption DEF Basics, EventsInv, GensInv, Events, Runs, FeedAssumption,
           Sound, SessionTypes
      <4>2. Passing'
        BY <2>1, <2>2, <3>1, <3>2, <4>1, PassingPublish DEF Live, Passing
      <4> QED BY <2>2, <3>1, <4>2, LabelsKept DEF Live, Passing
    <3>3. CASE chan' = chan
      BY <2>3, <3>1, <3>3
    <3> QED BY <2>8, <3>2, <3>3 DEF PublishLate, DeliverLate
  <2>9. CASE PumpTake
    BY <2>1, <2>2, <2>9, LiveTake
  <2>10. CASE PumpStore
    <3>1. /\ UNCHANGED <<engine, session>> /\ pump.at = "store"
          /\ UNCHANGED <<queue, held, chan, labelled>>
      BY <2>4, <2>10 DEF PumpStore, inbound
    <3> QED BY <2>3, <3>1
  <2>11. CASE PumpAfter
    BY <2>1, <2>2, <2>11, LiveCorrelated
  <2>12. ASSUME NEW g \in Runs, EnrichApply(g) PROVE Live'
    BY <2>1, <2>2, <2>12, LiveEnriched
  <2>13. CASE Tick \/ AskPage
    <3>1. session' = session
      BY <2>2, <2>13, NothingToReconcile DEF Tick, AskPage, UnderWay
    <3> QED BY <2>3, <2>13, <3>1 DEF Tick, AskPage, inbound
  <2>14. CASE Starve
    BY <2>3, <2>4, <2>14 DEF Starve, inbound
  <2>15. CASE CancelScan
    BY <2>4, <2>15 DEF CancelScan
  <2>16. ASSUME NEW g \in Runs, EnrichLook(g) PROVE Live'
    BY <2>3, <2>16 DEF EnrichLook, inbound
  <2>17. CASE Wake \/ TellBegin \/ ReadRows \/ TellRows \/ ReadState \/ TellState
    <3>1. UNCHANGED <<queue, held, chan, session, labelled, engine, pump>>
      BY <2>17 DEF Wake, TellBegin, ReadRows, TellRows, ReadState, TellState, DispatchOnly,
         inbound
    <3> QED BY <2>3, <3>1
  <2>18. CASE GivePage \/ PlanBegin \/ PlanEnd \/ Execute
    BY <2>3, <2>18 DEF GivePage, PlanBegin, PlanEnd, Execute, inbound
  <2>19. CASE StartRun \/ BatchEnds
    BY <1>2, <2>3, <2>19 DEF StartRun, BatchEnds, Restarted, callers, inbound
  <2>20. CASE UNCHANGED vars
    BY <2>3, <2>20 DEF vars, inbound
  <2> QED
    BY <2>5, <2>6, <2>7, <2>8, <2>9, <2>10, <2>11, <2>12, <2>13, <2>14, <2>15,
       <2>16, <2>17, <2>18, <2>19, <2>20
    DEF Next, EngineSteps, PumpSteps, EnrichSteps, DispatchSteps, ClientSteps
<1> QED BY <1>1, <1>2

\* CorrelatedWhole: in a run that nobody stopped, correlation comes although
\* no event announces that it is due, and no row of the sections it reads
\* comes after it.  A walk that runs out of memory gives the run a reason to
\* have stopped without stopping it, and the pump settles sections whose rows
\* are still on their way.
THEOREM CorrelationIsWhole ==
  ASSUME "walk" \notin Faults, Sections # {}
  PROVE  Spec => []CorrelatedWhole
<1> DEFINE I == GensInv /\ StopInv /\ TaskInv /\ LiveInv
<1>1. Init => I
  BY DEF Init, FeedInit, NoEngine, NewEngine, NewSession, GensInv, StopInv, TaskInv, NoTask,
     LiveInv
<1>2. I /\ Basics /\ Basics' /\ [Next]_vars => I'
  BY GensHold, StopHolds, TasksHold, LiveHolds
<1>3. I /\ Basics => CorrelatedWhole
  <2> SUFFICES ASSUME I, Basics, ~engine.stopped PROVE CorrelatedWhole
    BY DEF CorrelatedWhole, CorrelationComes
  <2>1. ASSUME session.run # 0, NothingToCome, pump.at = "idle"
        PROVE  session.correlated
    <3>1. Live /\ SessionAssumption
      BY <2>1, SessionAssumption DEF LiveInv
    <3>2. \A s \in Sections : ~EndComes(s) /\ s \notin engine.alive
      BY <2>1 DEF NothingToCome, EndComes, Ends, Of
    <3>3. \A s \in Sections : IsOver(s)
      BY <3>1, <3>2 DEF Live, EndingsCome
    <3> QED BY <2>1, <3>1, <3>3 DEF Live, DueInv, SessionAssumption
  <2>2. ASSUME session.correlated, session.limited = {}
        PROVE  CorrelatedRows \subseteq labelled
    BY <2>2 DEF StopInv, LiveInv, Live, LabelInv
  <2> QED BY <2>1, <2>2 DEF CorrelatedWhole, CorrelationComes
<1> HIDE DEF I
<1> QED BY <1>1, <1>2, <1>3, BasicsAlways, PTL DEF Spec
=============================================================================
