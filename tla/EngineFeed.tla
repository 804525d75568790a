----------------------------- MODULE EngineFeed -----------------------------
(***************************************************************************)
(* The engine (src/src/engine.rs) as its front ends see it: the current    *)
(* run, what its metadata says, and the events on their way to the         *)
(* channel that the front end reads.  FfiSession and Terminal extend it.   *)
(*                                                                         *)
(* RunEngine has the whole.  Here a section is one worker without          *)
(* dependencies, a run is of every section, the walk of the selected root  *)
(* is Home discovery too, and an event of a superseded run is at most one. *)
(***************************************************************************)
EXTENDS Integers, FiniteSets, Sequences

CONSTANTS
  Sections,
  Caches,      \* the sections that deliver a tree or footprints
  Trees,       \* those that deliver a tree: the disk
  Findings,    \* numbered in the order of their ids
  SectionOf,   \* the section of each finding
  Faults,      \* here "error", "walk" and "bus"; the front ends have more
  ChannelCap,
  MaxRuns,     \* bound on the runs started
  Nothing

ASSUME FeedAssumption ==
  /\ Trees \subseteq Caches /\ Caches \subseteq Sections
  /\ Findings \subseteq Nat \ {0} /\ IsFiniteSet(Findings)
  /\ SectionOf \in [Findings -> Sections]
  /\ ChannelCap \in Nat \ {0} /\ MaxRuns \in Nat
  /\ Findings \cap Caches = {} /\ Nothing \notin Findings \cup Caches

VARIABLES
  engine,    \* the current run: workers, token, recorded metadata
  queue,     \* the event on its way to the current run's forwarder
  held,      \* the event that forwarder publishes
  late,      \* an event that a superseded forwarder still publishes
  chan       \* the channel to the front end

inbound == <<queue, held, late, chan>>

-----------------------------------------------------------------------------
(* Values.                                                                 *)

Runs == 1..MaxRuns

\* What a section sends before it ends: its rows and its cache.
Items == Findings \cup Caches
ItemsOf(s) == {f \in Findings : SectionOf[f] = s} \cup ({s} \cap Caches)

\* item is Nothing for the end of a section.
Event(g, s, item, ok) == [gen |-> g, sec |-> s, item |-> item, ok |-> ok]
IsEnd(ev) == ev.item = Nothing
Events == [gen : Runs, sec : Sections, item : Items \cup {Nothing}, ok : BOOLEAN]

\* Where there is no event there is Nothing.
ASSUME EventAssumption == Nothing \notin Events

\* alive: workers.  reason: a context has Cancelled or ResourceLimited among
\* its stop reasons.  todo: items not sent.
NewEngine(g) ==
  [run |-> g, stopped |-> FALSE, reason |-> FALSE, todo |-> Items,
   alive |-> Sections, completed |-> {}, failed |-> {}]

NoEngine == [NewEngine(0) EXCEPT !.alive = {}]

Ended(e) == e.completed \cup e.failed

\* resource_limited.
Halted(e) == [e EXCEPT !.stopped = TRUE, !.reason = TRUE]

\* cancel leaves no reason with contexts that are complete.
CalledOff(e) ==
  [e EXCEPT !.stopped = TRUE, !.reason = @ \/ Ended(e) # Sections]

-----------------------------------------------------------------------------
(* Workers and forwarders.                                                 *)

\* A section sends what it has, in any order, and then its end, which is a
\* failure if it sees the token cancelled.
Send(s) ==
  /\ s \in engine.alive /\ queue = Nothing
  /\ \/ \E i \in ItemsOf(s) \cap engine.todo :
          /\ engine' = [engine EXCEPT !.todo = @ \ {i}]
          /\ queue' = Event(engine.run, s, i, TRUE)
     \/ \E ok \in IF "error" \in Faults \/ engine.stopped THEN BOOLEAN ELSE {TRUE} :
          /\ ok => ItemsOf(s) \cap engine.todo = {}
          /\ engine' = [engine EXCEPT !.alive = @ \ {s}]
          /\ queue' = Event(engine.run, s, Nothing, ok)
  /\ UNCHANGED <<held, late, chan>>

Recorded(e, ev) ==
  CASE IsEnd(ev) /\ ev.ok -> [e EXCEPT !.completed = @ \cup {ev.sec}]
    [] IsEnd(ev) /\ ~ev.ok -> [e EXCEPT !.failed = @ \cup {ev.sec}]
    [] ~IsEnd(ev) -> e

\* The forwarder records an event before it publishes it.  A walk that ran
\* out of memory leaves a reason and stops nothing; a finding that the bus
\* has no memory for stops the run, and a failure takes its place.
Record ==
  /\ queue # Nothing /\ held = Nothing
  /\ queue' = Nothing
  /\ \/ engine' = Recorded(engine, queue) /\ held' = queue
     \/ /\ "walk" \in Faults /\ queue.item \in Trees
        /\ engine' = [engine EXCEPT !.reason = TRUE] /\ held' = queue
     \/ /\ "bus" \in Faults /\ queue.item \in Findings
        /\ engine' = Halted(engine)
        /\ held' = Event(queue.gen, queue.sec, Nothing, FALSE)
  /\ UNCHANGED <<late, chan>>

Room == Len(chan) < ChannelCap

Deliver ==
  /\ held # Nothing
  /\ \/ Room /\ chan' = Append(chan, held)
     \/ ~Room /\ engine.stopped /\ UNCHANGED chan
  /\ held' = Nothing
  /\ UNCHANGED <<engine, queue, late>>

\* A superseded run is cancelled.
DeliverLate ==
  /\ late # Nothing
  /\ IF Room THEN chan' = Append(chan, late) ELSE UNCHANGED chan
  /\ late' = Nothing
  /\ UNCHANGED <<engine, queue, held>>

\* start_run: of the run it supersedes, what its forwarder holds remains.
Supersede(g) ==
  /\ g \in Runs
  /\ engine' = NewEngine(g)
  /\ queue' = Nothing /\ held' = Nothing
  /\ late' = IF held # Nothing THEN held ELSE late

FeedInit(e) ==
  /\ engine = e
  /\ queue = Nothing /\ held = Nothing /\ late = Nothing /\ chan = <<>>

\* All that the current run has sent has been received.
NothingToCome ==
  engine.alive = {} /\ queue = Nothing /\ held = Nothing /\ chan = <<>>
=============================================================================
