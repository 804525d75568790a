------------------------------ MODULE RunEngine ------------------------------
(***************************************************************************)
(* The scan engine (src/src/engine.rs, ScannerManager).  start_run spawns  *)
(* one worker per section, and one for Home unless the selected root is    *)
(* Home.  Workers send events into a bounded queue per lane; a forwarder   *)
(* per lane folds each event into the run's metadata and the bus in one    *)
(* critical section, then publishes it on the receiver's bounded channel.  *)
(* A run is cancelled by its user, by a later run, by a closed receiver or *)
(* at a resource limit, and its tasks live on until they have retired.     *)
(*                                                                         *)
(* Locks: the `active` mutex makes each critical section one step; the     *)
(* token of a run is read once in it.                                      *)
(***************************************************************************)
EXTENDS RunMetadata, Sequences

CONSTANTS
  Home,         \* the worker of the separate Home discovery
  Deps,         \* the sections a section waits for on the bus
  Audits,       \* the workers that wait for an audit's admission
  Channels,     \* receivers' channels; a run publishes on one of them
  Separations,  \* whether runs walk Home separately: a set of BOOLEANs
  \* What may happen in a run that walks Home separately, and in one that
  \* does not: a function of that BOOLEAN each.
  Faults,       \* which failures, see FaultKinds
  Outcomes,     \* how good the result of each walk and section is
  Chatter,      \* which events come besides results and endings
  QueueCap,     \* capacity of the queue of the sections (32 in the code)
  ChannelCap,   \* capacity of a receiver's channel
  MaxRuns,      \* bound on the number of runs
  Nothing       \* no event, no channel, no snapshot

\* A scanner's error, a scanner or a subprocess at a resource limit, memory
\* refused to the bus or to a receiver, a receiver that goes away, a worker
\* whose task panics.
FaultKinds == {"error", "limit", "memory", "close", "panic"}

ASSUME EngineAssumption ==
  /\ Home \notin Sections
  /\ Deps \in [Sections -> SUBSET Sections] /\ Deps[Fs] = {}
  /\ Audits \subseteq {Home} \cup {s \in Sections \ {Fs} : Deps[s] = {}}
  /\ Separations \subseteq BOOLEAN
  /\ Faults \in [BOOLEAN -> SUBSET FaultKinds]
  /\ Outcomes \in [BOOLEAN -> [Sections \cup {Home} -> SUBSET Qualities]]
  /\ Chatter \in [BOOLEAN -> SUBSET {"started", "snapshot", "finding"}]
  /\ QueueCap \in Nat \ {0} /\ ChannelCap \in Nat \ {0}
  /\ MaxRuns \in Nat \ {0}
  /\ Nothing \notin Channels

VARIABLES
  gen,      \* the current run, 0 before the first
  stopped,  \* the runs whose token is cancelled
  run,      \* metadata of the current run
  bus,      \* entries of the ScanBus
  worker,   \* per run and worker: what it does and the event it has to send
  queue,    \* per run and lane: events sent and not yet forwarded
  hold,     \* per run and lane: the notice its forwarder publishes, or its phase
  awaited,  \* the runs whose Home forwarder still waits for an ending
  tx,       \* the channel a run publishes on
  chan,     \* the receivers' channels, and what each receiver looks at
  cause,    \* history: what of its own the current run has to stop for
  source,   \* history: how the current run's sections ended
  sent,     \* history: the latest items of the current run's sections
  told      \* history: sections whose ending the current receiver was sent

vars == <<gen, stopped, run, bus, worker, queue, hold, awaited, tx, chan,
          cause, source, sent, told>>

RunIds == 1..MaxRuns
Workers == Sections \cup {Home}
Lanes == {"sections", "home"}
LaneOf(w) == IF w = Home THEN "home" ELSE "sections"
LaneCap(l) == IF l = "home" THEN 1 ELSE QueueCap

\* What a section retains on the bus, by kind: one finding id, one root.
Keys == {"finding", "tree"}
KeyOf(ev) == IF ev.kind = "Tree" THEN "tree" ELSE "finding"
BusItem(ev) == ev.kind \in {"Finding", "DiskFinding", "Tree"}

\* The bus of this engine; attribution's wait is part of the worker here.
Bus == INSTANCE ScanBus WITH
         Values <- Qualities, Waiters <- {}, Deps <- [w \in {} |-> {}],
         MaxGen <- MaxRuns, cur <- gen, waiter <- [w \in {} |-> {}]

Event(s, k, v) == [sec |-> s, kind |-> k, val |-> v]

\* The section a worker speaks for: the Home walk is an Fs scanner too.
SectionOf(w) == IF w = Home THEN Fs ELSE w

-----------------------------------------------------------------------------
(* Workers (spawn_one).  pc: "scan" until the scanner returns, "end" until *)
(* the terminal event is sent, then "gone"; "dead" when the task panicked. *)
(* stage says how far the scan got: 1 an early snapshot, 2 the main        *)
(* result, 3 more after it; of a dead worker, 0 that it died in its first  *)
(* poll.                                                                   *)

Spawned(w, isSeparate) ==
  [pc |-> "scan", stage |-> 0,
   out |-> IF "started" \in Chatter[isSeparate]
             THEN Event(SectionOf(w), "Started", "whole") ELSE Nothing]
Gone == [pc |-> "gone", stage |-> 0, out |-> Nothing]
Dead(n) == [pc |-> "dead", stage |-> n, out |-> Nothing]

Died(g, w) == worker[g][w].pc = "dead"
IsOut(g, w) == worker[g][w].pc \in {"gone", "dead"}

Scanning(g, w) ==
  /\ worker[g][w].pc = "scan"
  /\ worker[g][w].out = Nothing

\* disk_started is cancelled after the first poll of the disk's scanner, and
\* never when that poll panics.  Audits wait for it; a cancelled run's give up.
NeverStarted(g) == worker[g][Fs] = Dead(0)
Admitted(g, w) == w \in Audits => ~NeverStarted(g)

\* The scanner of w comes to stage n with event ev to send.
Emits(g, w, n, ev) ==
  worker' = [worker EXCEPT ![g][w].stage = n, ![g][w].out = ev]

OnlyWorkers == UNCHANGED <<gen, stopped, run, bus, hold, awaited, tx, chan,
                           cause, source, sent, told>>

\* Mistaken variant: one event more than the queue holds.
HasRoomOver(g, l) == Len(queue[g][l]) <= LaneCap(l)

HasRoom(g, l) == Len(queue[g][l]) < LaneCap(l)

\* A snapshot of the disk inventory during the walk: try_send, so it is
\* dropped when the queue is full.
Snapshot(g) ==
  /\ "snapshot" \in Chatter[run.separate]
  /\ Scanning(g, Fs) /\ worker[g][Fs].stage = 0
  /\ g \notin stopped
  /\ worker' = [worker EXCEPT ![g][Fs].stage = 1]
  /\ queue' = IF HasRoom(g, "sections")
                THEN [queue EXCEPT ![g]["sections"] = Append(@, Event(Fs, "Tree", "gaps"))]
                ELSE queue
  /\ OnlyWorkers

\* The walk of the selected root is over: its tree, then findings, unless the
\* run was cancelled.
WalkDone(g) ==
  /\ Scanning(g, Fs) /\ g \notin stopped
  /\ \/ /\ worker[g][Fs].stage < 2
        /\ \E q \in Outcomes[run.separate][Fs] : Emits(g, Fs, 2, Event(Fs, "Tree", q))
     \/ /\ "finding" \in Chatter[run.separate] /\ worker[g][Fs].stage = 2
        /\ \E k \in {"DiskFinding", "Finding"} :
             Emits(g, Fs, 3, Event(Fs, k, "gaps"))
  /\ UNCHANGED queue
  /\ OnlyWorkers

\* Home discovery ends with one coverage finding, of what there is when the
\* run was cancelled.
HomeWalked(g) ==
  /\ Scanning(g, Home) /\ worker[g][Home].stage = 0 /\ Admitted(g, Home)
  /\ \E q \in Outcomes[run.separate][Home] :
       /\ q = "whole" => g \notin stopped
       /\ Emits(g, Home, 2, Event(Fs, "Finding", q))
  /\ UNCHANGED queue
  /\ OnlyWorkers

\* A section without dependencies finds something.
Find(g, s) ==
  /\ s # Fs /\ Deps[s] = {}
  /\ Scanning(g, s) /\ worker[g][s].stage = 0 /\ Admitted(g, s)
  /\ \E q \in Outcomes[run.separate][s] \ {"limited"} :
       Emits(g, s, 2, Event(s, "Finding", q))
  /\ UNCHANGED queue
  /\ OnlyWorkers

\* Mistaken variant: attribution waits for snapshots, which a failed section
\* never has.
DepsFinished(g, s) ==
  g \in stopped \/ \A d \in Deps[s] : bus[d].gen = g /\ bus[d].valid # Nothing

\* The wait_for of an attribution scanner is over.
DepsReady(g, s) ==
  g \in stopped \/ \A d \in Deps[s] : Bus!Resolved(bus, d, g)

\* attribution::run: the footprints name the dependencies without snapshot.
Attribute(g, s) ==
  /\ Deps[s] # {}
  /\ Scanning(g, s) /\ worker[g][s].stage = 0
  /\ DepsReady(g, s)
  /\ LET have == {c.section : c \in Bus!Collected(bus, Deps[s], g)}
     IN  Emits(g, s, 2, Event(s, "Footprints",
                              IF have = Deps[s] THEN "whole" ELSE "gaps"))
  /\ UNCHANGED queue
  /\ OnlyWorkers

\* The scanner returned and the token is looked at once more: after a
\* cancellation whatever it returned is a failure.  A scanner that found
\* everything it looks for may have found nothing to report.
MayFinish(g, w) ==
  worker[g][w].stage >= 2 \/ (w \in Sections \ {Fs} /\ Deps[w] = {})

\* Before its wait is over an attribution scanner does nothing else, nor does
\* an audit before it is admitted.
Waits(g, w) ==
  /\ worker[g][w].stage = 0 /\ g \notin stopped
  /\ (w \in Sections /\ Deps[w] # {}) \/ ~Admitted(g, w)

End(g, w) ==
  /\ Scanning(g, w) /\ ~Waits(g, w)
  /\ \E how \in IF g \in stopped
                  THEN {<<"Failed", "cancelled">>}
                  ELSE ({"Failed"} \X (Faults[run.separate] \cap {"error", "limit"}))
                       \cup (IF MayFinish(g, w) THEN {<<"Finished", "whole">>} ELSE {}) :
       worker' = [worker EXCEPT ![g][w].pc = "end",
                    ![g][w].out = Event(SectionOf(w), how[1], how[2])]
  /\ UNCHANGED queue
  /\ OnlyWorkers

\* No audit of run g has been admitted yet, as far as anyone can tell.
NoAuditYet(g) ==
  \A w \in Audits :
    \/ worker[g][w].pc = "scan" /\ worker[g][w].stage = 0
    \/ w = Home /\ ~run.separate

\* A worker's task panics in its scanner: its guard is dropped, nothing is
\* sent.  In its first poll the disk can only die before any audit.
Panic(g, w) ==
  /\ "panic" \in Faults[run.separate]
  /\ Scanning(g, w) /\ Admitted(g, w)
  /\ w \in Sections => DepsReady(g, w)
  /\ \E n \in 0..1 :
       /\ n = 0 => w = Fs /\ worker[g][Fs].stage = 0 /\ NoAuditYet(g)
       /\ worker' = [worker EXCEPT ![g][w] = Dead(n)]
  /\ UNCHANGED queue
  /\ OnlyWorkers

Delivered(g, w) ==
  worker' = [worker EXCEPT ![g][w] =
               IF @.pc = "end" THEN Gone ELSE [@ EXCEPT !.out = Nothing]]

\* deliver_event of the Fs scanner gives up when the token is cancelled.
Droppable(g, w) ==
  SectionOf(w) = Fs /\ worker[g][w].pc = "scan" /\ worker[g][w].stage > 0

Send(g, w) ==
  LET l == LaneOf(w)
  IN  /\ worker[g][w].out # Nothing
      /\ HasRoom(g, l)
      /\ w = Fs /\ Droppable(g, w) => g \notin stopped
      /\ queue' = [queue EXCEPT ![g][l] = Append(@, worker[g][w].out)]
      /\ Delivered(g, w)
      /\ OnlyWorkers

Drop(g, w) ==
  /\ worker[g][w].out # Nothing
  /\ Droppable(g, w) /\ g \in stopped
  /\ Delivered(g, w)
  /\ UNCHANGED queue
  /\ OnlyWorkers

-----------------------------------------------------------------------------
(* Cancellation.                                                           *)

\* The token of g is cancelled and the bus told so.
HaltBus(g) ==
  /\ stopped' = stopped \cup {g}
  /\ bus' = Bus!Cancelled(bus, g)

\* ScannerManager::cancel.
Cancel ==
  /\ gen > 0
  /\ run' = StopContexts(run)
  /\ HaltBus(gen)
  /\ cause' = cause \cup {"user"}
  /\ UNCHANGED <<gen, worker, queue, hold, awaited, tx, chan, source, sent, told>>

\* A resource limit hit by run g, on behalf of one of its contexts: a run
\* that is no longer current has no metadata to mark.
HaltLimited(g, isHost) ==
  /\ run' = IF g = gen THEN MarkLimited(run, isHost) ELSE run
  /\ cause' = IF g = gen THEN cause \cup {"limit"} ELSE cause
  /\ HaltBus(g)

\* RunCommandRunner::run: a subprocess exceeded its output budget.
CommandLimit(g, s) ==
  /\ "limit" \in Faults[run.separate]
  /\ s # Fs
  /\ Scanning(g, s) /\ worker[g][s].stage < 3
  /\ DepsReady(g, s) /\ Admitted(g, s)
  /\ HaltLimited(g, TRUE)
  /\ Emits(g, s, 3, Event(s, "Failed", "limit"))
  /\ UNCHANGED <<gen, queue, hold, awaited, tx, chan, source, sent, told>>

-----------------------------------------------------------------------------
(* Forwarders (spawn_set).                                                 *)

Ready(g, l) == hold[g][l] = Nothing /\ queue[g][l] # <<>>

\* What matters of an event once it is forwarded: whether a receiver retains
\* it, and in which context, or else whose ending it is.
Notice(ev) ==
  CASE ev.kind \in {"Finding", "Footprints"} -> "host"
    [] ev.kind = "DiskFinding" -> "disk"
    [] Terminal(ev) -> ev.sec
    [] OTHER -> "other"

Notices == Sections \cup {"disk", "host", "other"}

\* What a forwarder is at when it is not publishing.
Phases == {"heard", "ignored", "withdrawn", Nothing}

Take(g, l) == queue' = [queue EXCEPT ![g][l] = Tail(@)]
Holds(g, l, n) == hold' = [hold EXCEPT ![g][l] = n]

\* An event of a superseded run is thrown away.
Discard(g, l) ==
  /\ Ready(g, l) /\ g # gen
  /\ Take(g, l)
  /\ UNCHANGED <<gen, stopped, run, bus, worker, hold, awaited, tx, chan,
                 cause, source, sent, told>>

\* Mistaken variant: whether or not the run is cancelled.
BusHearsAll(ev, isStopped) ==
  LET e == bus[ev.sec]
  IN  CASE BusItem(ev) -> [bus EXCEPT ![ev.sec] =
                             Bus!AfterItem(e, KeyOf(ev), ev.val, FALSE)]
        [] ev.kind = "Finished" -> [bus EXCEPT ![ev.sec] = Bus!AfterFinished(e, FALSE)]
        [] ev.kind = "Failed" -> [bus EXCEPT ![ev.sec] = Bus!Silenced(e)]
        [] OTHER -> bus

\* What the bus makes of an event of the current run.
BusHears(ev, isStopped) ==
  LET e == bus[ev.sec]
  IN  CASE BusItem(ev) -> [bus EXCEPT ![ev.sec] =
                             Bus!AfterItem(e, KeyOf(ev), ev.val, isStopped)]
        [] ev.kind = "Finished" -> [bus EXCEPT ![ev.sec] = Bus!AfterFinished(e, isStopped)]
        [] ev.kind = "Failed" -> [bus EXCEPT ![ev.sec] = Bus!Silenced(e)]
        [] OTHER -> bus

\* The forwarder of the sections: metadata first, then the bus.  A failure
\* that speaks of a resource limit stops the run.
Forward(g) ==
  LET ev == Head(queue[g]["sections"])
      isLimit == ev.kind = "Failed" /\ ev.val = "limit"
      stop == isLimit \/ g \in stopped
      marked == IF isLimit THEN MarkLimited(run, ev.sec # Fs) ELSE run
  IN  /\ Ready(g, "sections") /\ g = gen
      /\ Take(g, "sections")
      /\ run' = ObserveRun(marked, ev, stop)
      /\ stopped' = IF isLimit THEN stopped \cup {g} ELSE stopped
      /\ cause' = IF isLimit THEN cause \cup {"limit"} ELSE cause
      /\ bus' = BusHears(ev, stop)
      /\ sent' = IF BusItem(ev) THEN [sent EXCEPT ![ev.sec][KeyOf(ev)] = ev.val] ELSE sent
      /\ source' = CASE ev.kind = "Finished" -> [source EXCEPT ![ev.sec] = "finished"]
                     [] ev.kind = "Failed" -> [source EXCEPT ![ev.sec] = "failed"]
                     [] OTHER -> source
      /\ Holds(g, "sections", Notice(ev))
      /\ UNCHANGED <<gen, worker, awaited, tx, chan, told>>

\* The bus has no memory left for a finding: the run is marked, its bus
\* entries end, and a failure is published in the finding's place.
ForwardExhausted(g) ==
  LET ev == Head(queue[g]["sections"])
  IN  /\ "memory" \in Faults[run.separate]
      /\ Ready(g, "sections") /\ g = gen /\ g \notin stopped
      /\ ev.kind \in {"Finding", "DiskFinding"} /\ ~bus[ev.sec].terminal
      /\ Take(g, "sections")
      /\ run' = MarkLimited(ObserveRun(run, ev, FALSE), ev.kind = "Finding")
      /\ HaltBus(g)
      /\ cause' = cause \cup {"limit"}
      /\ Holds(g, "sections", ev.sec)
      /\ UNCHANGED <<gen, worker, awaited, tx, chan, source, sent, told>>

\* The Home forwarder publishes a diagnostic in the place of an event.
Diagnostic == Notice(Event(Fs, "Finding", "whole"))

\* observe_discovery cancels the token when what is known is limited.
LimitedDiscovery(g, isHeard) ==
  IF isHeard /\ run'.limited
    THEN stopped' = stopped \cup {g} /\ cause' = cause \cup {"limit"}
    ELSE UNCHANGED <<stopped, cause>>

ForwardHome(g) ==
  LET ev == Head(queue[g]["home"])
      isHeard == ev.kind # "Started"
      heard == IF isHeard THEN ObserveDiscovery(run, ev, g \in stopped) ELSE run
  IN  /\ Ready(g, "home") /\ g = gen
      /\ Take(g, "home")
      /\ run' = heard
      /\ LimitedDiscovery(g, isHeard)
      /\ Holds(g, "home", IF isHeard THEN "heard" ELSE "ignored")
      /\ UNCHANGED <<gen, bus, worker, awaited, tx, chan, source, sent, told>>

\* Out of the critical section, the token is looked at again.
HomeLooks(g) ==
  /\ hold[g]["home"] \in {"heard", "ignored"}
  /\ bus' = IF g \in stopped THEN Bus!Cancelled(bus, g) ELSE bus
  /\ Holds(g, "home", IF hold[g]["home"] = "heard" THEN Diagnostic ELSE Nothing)
  /\ UNCHANGED <<gen, stopped, run, worker, queue, awaited, tx, chan, cause, source,
                 sent, told>>

\* Mistaken variant: the forwarder waits for a terminal event, not for the
\* closing of its queue.
HomeEnded(g) == IsOut(g, Home) /\ (g = gen => run.discovery # "open")

HomeGone(g) == IsOut(g, Home)

\* Mistaken variant: a walk whose coverage is known counts as ended.
HomeUnheard(g) == g = gen /\ run.discovery = "open" /\ ~run.covered

HomeLost(g) == g = gen /\ run.discovery = "open"

\* The Home worker is gone and its queue empty: a walk that never reported
\* an ending is recorded as failed.
HomeClosed(g) ==
  LET isLost == HomeLost(g)
      lost == Event(Fs, "Failed", IF g \in stopped THEN "cancelled" ELSE "error")
  IN  /\ g \in awaited /\ HomeGone(g)
      /\ queue[g]["home"] = <<>> /\ hold[g]["home"] = Nothing
      /\ awaited' = awaited \ {g}
      /\ run' = IF isLost THEN ObserveDiscovery(run, lost, g \in stopped) ELSE run
      /\ LimitedDiscovery(g, isLost)
      /\ Holds(g, "home", IF isLost THEN Diagnostic ELSE Nothing)
      /\ UNCHANGED <<gen, bus, worker, queue, tx, chan, source, sent, told>>

-----------------------------------------------------------------------------
(* publish_run_event: a place in the channel is taken if there is one,     *)
(* whether or not the run is cancelled.                                    *)

Publishing(g, l) == hold[g][l] \in Notices

Publish(g, l) ==
  LET c == tx[g]
      n == hold[g][l]
  IN  /\ Publishing(g, l)
      /\ chan[c].open /\ Len(chan[c].items) < ChannelCap
      /\ chan' = [chan EXCEPT ![c].items = Append(@, [gen |-> g, notice |-> n])]
      /\ told' = IF g = gen THEN told \cup ({n} \cap Sections) ELSE told
      /\ Holds(g, l, Nothing)
      /\ UNCHANGED <<gen, stopped, run, bus, worker, queue, awaited, tx,
                     cause, source, sent>>

\* The receiver is gone: the token first, the bus in a step of its own.
Withdraw(g, l) ==
  /\ Publishing(g, l)
  /\ ~chan[tx[g]].open
  /\ stopped' = stopped \cup {g}
  /\ Holds(g, l, "withdrawn")
  /\ UNCHANGED <<gen, run, bus, worker, queue, awaited, tx, chan, cause, source,
                 sent, told>>

Full(g) == Len(chan[tx[g]].items) = ChannelCap

\* Mistaken variants: an event is dropped as soon as there is no room for
\* it; the wait for room does not heed the token.
CongestedEarly(g) == Full(g)
CongestedNever(g) == FALSE

Congested(g) == g \in stopped /\ Full(g)

\* cancel_generation, after that or because the run is cancelled and the
\* channel full.
GiveUp(g, l) ==
  /\ \/ hold[g][l] = "withdrawn"
     \/ Publishing(g, l) /\ chan[tx[g]].open /\ Congested(g)
  /\ bus' = Bus!Cancelled(bus, g)
  /\ Holds(g, l, Nothing)
  /\ UNCHANGED <<gen, stopped, run, worker, queue, awaited, tx, chan, cause, source,
                 sent, told>>

-----------------------------------------------------------------------------
(* Users of the engine.                                                    *)

\* start_run and spawn_set.  Nothing of the new run exists in between, and
\* the workers of other runs find it the same before and after.  The caller
\* holds the receiver of the channel it passes.
StartRun(c, isSeparate) ==
  /\ gen < MaxRuns /\ chan[c].open
  /\ gen' = gen + 1
  /\ stopped' = stopped \cup ({gen} \ {0})
  /\ run' = NewRun(isSeparate)
  /\ bus' = Bus!Begun(bus, gen + 1)
  /\ worker' = [worker EXCEPT ![gen + 1] =
                  [w \in Workers |->
                     IF w = Home /\ ~isSeparate THEN Gone ELSE Spawned(w, isSeparate)]]
  /\ awaited' = IF isSeparate THEN awaited \cup {gen + 1} ELSE awaited
  /\ tx' = [tx EXCEPT ![gen + 1] = c]
  /\ source' = [s \in Sections |-> "open"]
  /\ sent' = [s \in Sections |-> Bus!NoItems]
  /\ cause' = {} /\ told' = {}
  /\ UNCHANGED <<queue, hold, chan>>

\* A receiver takes an event; it looks at it until it takes the next one.
Receive(c) ==
  /\ chan[c].items # <<>>
  /\ LET m == Head(chan[c].items)
     IN  chan' = [chan EXCEPT ![c].items = Tail(@),
                    ![c].seen = IF m.notice \in {"disk", "host"} /\ "memory" \in Faults[run.separate]
                                  THEN m ELSE Nothing]
  /\ UNCHANGED <<gen, stopped, run, bus, worker, queue, hold, awaited, tx,
                 cause, source, sent, told>>

\* Mistaken variant: the limit is put down to whatever run is current.
IsAnyRun(m) == m.gen \in RunIds

IsCurrent(m) == m.gen = gen

\* The receiver has no memory for what it took: resource_limited and
\* finding_resource_limited, by the id of the run it came from.
ReportLimit(c) ==
  LET got == chan[c].seen
  IN  /\ "memory" \in Faults[run.separate]
      /\ got # Nothing
      /\ chan' = [chan EXCEPT ![c].seen = Nothing]
      /\ IF IsCurrent(got)
           THEN /\ run' = MarkLimited(run, got.notice = "host")
                /\ HaltBus(gen)
           ELSE UNCHANGED <<stopped, run, bus>>
      /\ cause' = IF got.gen = gen THEN cause \cup {"limit"} ELSE cause
      /\ UNCHANGED <<gen, worker, queue, hold, awaited, tx, source, sent, told>>

CloseReceiver(c) ==
  /\ "close" \in Faults[run.separate]
  /\ chan[c].open /\ \E g \in RunIds : tx[g] = c
  /\ chan' = [chan EXCEPT ![c] = [open |-> FALSE, items |-> <<>>, seen |-> Nothing]]
  /\ UNCHANGED <<gen, stopped, run, bus, worker, queue, hold, awaited, tx,
                 cause, source, sent, told>>

-----------------------------------------------------------------------------
Init ==
  /\ gen = 0
  /\ stopped = {} /\ cause = {} /\ awaited = {} /\ told = {}
  /\ run = NewRun(FALSE)
  /\ bus = [s \in Sections |-> Bus!Registered(0)]
  /\ worker = [g \in RunIds |-> [w \in Workers |-> Gone]]
  /\ queue = [g \in RunIds |-> [l \in Lanes |-> <<>>]]
  /\ hold = [g \in RunIds |-> [l \in Lanes |-> Nothing]]
  /\ tx = [g \in RunIds |-> Nothing]
  /\ chan = [c \in Channels |-> [open |-> TRUE, items |-> <<>>, seen |-> Nothing]]
  /\ source = [s \in Sections |-> "none"]
  /\ sent = [s \in Sections |-> Bus!NoItems]

\* What a run's own tasks do, scanners and forwarders.
WorkerStep(g, w) ==
  \/ w = Fs /\ (Snapshot(g) \/ WalkDone(g))
  \/ w = Home /\ HomeWalked(g)
  \/ w \in Sections /\ (Find(g, w) \/ Attribute(g, w) \/ CommandLimit(g, w))
  \/ End(g, w) \/ Send(g, w) \/ Drop(g, w)

ForwarderStep(g, l) ==
  \/ Discard(g, l)
  \/ l = "sections" /\ (Forward(g) \/ ForwardExhausted(g))
  \/ l = "home" /\ (ForwardHome(g) \/ HomeLooks(g) \/ HomeClosed(g))
  \/ Publish(g, l) \/ Withdraw(g, l) \/ GiveUp(g, l)

Next ==
  \/ \E g \in RunIds, w \in Workers : WorkerStep(g, w) \/ Panic(g, w)
  \/ \E g \in RunIds, l \in Lanes : ForwarderStep(g, l)
  \/ Cancel
  \/ \E c \in Channels :
       \/ \E isSeparate \in Separations : StartRun(c, isSeparate)
       \/ Receive(c)
       \/ ReportLimit(c)
       \/ CloseReceiver(c)

Spec == Init /\ [][Next]_vars

\* Scanners return, and the runtime goes on with some task of each run that
\* has one that can go on.  Nothing is assumed of users and receivers, and no
\* task has to panic.
Fairness ==
  \A g \in RunIds : WF_vars(\/ \E w \in Workers : WorkerStep(g, w)
                             \/ \E l \in Lanes : ForwarderStep(g, l))

FairSpec == Spec /\ Fairness

-----------------------------------------------------------------------------
Events == [sec : Sections,
           kind : {"Started", "Finding", "DiskFinding", "Tree", "Footprints",
                   "Finished", "Failed"},
           val : Qualities \cup {"error", "cancelled", "limit"}]

Messages == [gen : RunIds, notice : Notices]

\* What is told apart in a variable of its own: an ending is no other notice
\* and no phase, and Nothing is nothing else.
ASSUME TagAssumption ==
  /\ Sections \cap {"disk", "host", "other", "heard", "ignored", "withdrawn"} = {}
  /\ Nothing \notin Events /\ Nothing \notin Messages /\ Nothing \notin Bus!Snapshots
  /\ Nothing \notin Notices \cup Qualities \cup {"heard", "ignored", "withdrawn"}

\* The type invariant.
TypeOK ==
  /\ gen \in 0..MaxRuns
  /\ stopped \subseteq 1..gen /\ cause \subseteq {"user", "limit"}
  /\ run \in Runs
  /\ bus \in [Sections -> Bus!Entries]
  /\ worker \in [RunIds -> [Workers ->
       [pc : {"scan", "end", "gone", "dead"}, stage : 0..3, out : Events \cup {Nothing}]]]
  /\ \A g \in RunIds, l \in Lanes :
       /\ queue[g][l] \in Seq(Events) /\ Len(queue[g][l]) <= LaneCap(l)
       /\ hold[g][l] \in Notices \cup Phases
  /\ awaited \subseteq 1..gen
  /\ tx \in [RunIds -> Channels \cup {Nothing}]
  /\ \A c \in Channels :
       /\ chan[c].open \in BOOLEAN /\ chan[c].seen \in Messages \cup {Nothing}
       /\ chan[c].items \in Seq(Messages) /\ Len(chan[c].items) <= ChannelCap
  /\ source \in [Sections -> {"none", "open", "finished", "failed"}]
  /\ sent \in [Sections -> Bus!Contents]
  /\ told \subseteq Sections

\* The tasks of run g are gone.
Retired(g) ==
  /\ \A w \in Workers : IsOut(g, w)
  /\ \A l \in Lanes : queue[g][l] = <<>> /\ hold[g][l] = Nothing
  /\ g \notin awaited

\* A context is reported Complete only if the run earned it: the walk of the
\* selected root finished and its last tree had no gaps; for the host, every
\* section finished, none of them with gaps, and so did Home discovery.  A
\* partial snapshot, a section that failed, a dependency that attribution
\* missed or a discovery that died keep it from Complete, in any order.
CompleteIsEarned ==
  /\ run.disk.state = "Complete" =>
       source[Fs] = "finished" /\ sent[Fs]["tree"] = "whole"
  /\ run.host.state = "Complete" =>
       /\ \A s \in Sections : source[s] = "finished"
       /\ \A s \in Sections \ {Fs} : sent[s]["finding"] # "gaps"
       /\ \A s \in Sections : \A d \in Deps[s] : bus[d].valid # Nothing
       /\ run.disc = "Complete"

\* The sections of the current run whose worker died: nobody speaks for them.
Mute == {s \in Sections : Died(gen, s)}

\* Once the tasks of the current run are gone its metadata says Running only
\* of what a mute section had to end, and not even of that when the user or a
\* limit stopped the run.  Home discovery never stays Running when it is
\* walked separately, whoever dies.
RetiredIsSettled ==
  gen > 0 /\ Retired(gen) =>
    /\ run.disk.state = "Running" => Fs \in Mute
    /\ run.disc = "Running" => Fs \in Mute /\ ~run.separate
    /\ run.host.state = "Running" => Mute # {}
    /\ cause # {} => "Running" \notin {run.disk.state, run.host.state, run.disc}

\* Only what belongs to a run stops it: its user, the receiver it publishes
\* to, or a resource limit of its own, which it then reports.  The closing
\* of another run's receiver, or a late limit of another run, never does.
StopHasOwnCause ==
  /\ gen \in stopped => cause # {} \/ ~chan[tx[gen]].open
  /\ "limit" \in cause => "ResourceLimited" \in run.disk.why \cup run.host.why

\* The receiver of a run that was not stopped has been sent the ending of
\* every section but the mute ones by the time the run's tasks are gone.
NoEndingLost ==
  gen > 0 /\ Retired(gen) /\ gen \notin stopped => Sections \ Mute \subseteq told

\* A verdict once given stands until the next run, except that a resource
\* limit makes it Partial and says so.
VerdictStands ==
  [][\A c \in {"disk", "host"} :
       gen' = gen /\ run[c].state # "Running" /\ run'[c].state # run[c].state =>
         run'[c].state = "Partial" /\ "ResourceLimited" \in run'[c].why]_vars

\* A cancelled run retires whatever its receiver does: a receiver that is
\* never drained cannot keep its tasks alive.
CancelledRetires == \A g \in RunIds : g \in stopped ~> Retired(g)

\* What keeps a run from its end when a section died: attribution waits for
\* the snapshots of the section, audits for a disk that never started.
Orphaned(g) ==
  /\ g \notin stopped
  /\ \E w \in Workers :
       /\ worker[g][w].pc = "scan"
       /\ ~Admitted(g, w) \/ (w \in Sections /\ \E d \in Deps[w] : Died(g, d))

\* Any run retires if its receiver is drained: no worker waits for ever for
\* a dependency, for room in a queue or for an ending that does not come,
\* unless the section it waits for died.  Only a cancellation ends that wait.
DrainedRetires ==
  (\A c \in Channels : WF_vars(Receive(c)))
    => \A g \in RunIds : g <= gen ~> Retired(g) \/ Orphaned(g)

\* The engine uses its bus as the bus expects: its steps are steps of the
\* environment that ScanBus assumes.
BusSpec == Bus!Spec
=============================================================================
