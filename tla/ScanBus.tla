------------------------------- MODULE ScanBus -------------------------------
(***************************************************************************)
(* The bus between a run's event forwarder and the two attribution         *)
(* scanners (src/src/attribution/bus.rs).  The forwarder feeds it the      *)
(* events of every section; a waiter asks for the snapshots of the         *)
(* sections it depends on and sleeps until all of them are terminal.       *)
(*                                                                         *)
(* The bus is a mutex around one entry per section, so each of its methods *)
(* is one step, except wait_for: it registers for notifications, looks at  *)
(* the entries, and sleeps, and other threads run between those steps.     *)
(*                                                                         *)
(* The rest of the engine appears through what it does to the bus: runs    *)
(* begin one after the other, tokens are cancelled, and events arrive in   *)
(* the order in which a section's worker sends them.  RunEngine, which     *)
(* models that part in full, is checked to be such an environment.         *)
(***************************************************************************)
EXTENDS Integers

CONSTANTS
  Sections,    \* the sections of a run
  Keys,        \* what identifies an item: a finding's id, a tree's root
  Values,      \* the content of an item
  Waiters,     \* attribution scanners waiting on the bus
  Deps,        \* the sections each of them waits for
  MaxGen,      \* bound on the number of runs
  Nothing      \* no item for a key, no snapshot of a section

ASSUME BusAssumption ==
  /\ MaxGen \in Nat \ {0}
  /\ Deps \in [Waiters -> SUBSET Sections]
  /\ Nothing \notin Values

Gens == 1..MaxGen
Contents == [Keys -> Values \cup {Nothing}]
Snapshots == [gen : Gens, items : Contents]

ASSUME SnapshotAssumption == Nothing \notin Snapshots

VARIABLES
  cur,      \* the run registered last, 0 before the first
  stopped,  \* the runs whose cancellation token is cancelled
  bus,      \* the section entries
  source,   \* what the current run's worker of each section has come to
  sent,     \* the latest items the current run's workers sent
  waiter    \* the wait_for calls

vars == <<cur, stopped, bus, source, sent, waiter>>

NoItems == [k \in Keys |-> Nothing]

-----------------------------------------------------------------------------
(* The entry of one section: struct SectionState and what each method of   *)
(* ScanBus makes of it.                                                    *)

Registered(g) ==
  [gen |-> g, terminal |-> FALSE, acc |-> NoItems, valid |-> Nothing]

\* Mistaken variant: the end of a run takes its snapshots back.
SilencedWithSnapshot(e) ==
  [e EXCEPT !.terminal = TRUE, !.acc = NoItems, !.valid = Nothing]

\* A section that ended without a snapshot: Failed, or its run was cancelled.
Silenced(e) == [e EXCEPT !.terminal = TRUE, !.acc = NoItems]

\* A finding or a tree after the end, or after the token, is not collected;
\* otherwise it replaces the item with its id or root.
AfterItem(e, k, v, isStopped) ==
  IF e.terminal \/ isStopped THEN e ELSE [e EXCEPT !.acc[k] = v]

\* No memory for a finding: the entry ends, its run is then cancelled.
AfterExhausted(e) == [e EXCEPT !.terminal = TRUE]

AfterFinished(e, isStopped) ==
  IF isStopped
    THEN Silenced(e)
    ELSE [e EXCEPT !.terminal = TRUE, !.acc = NoItems,
                   !.valid = [gen |-> e.gen, items |-> e.acc]]

\* Mistaken variant: the entries keep the snapshots of the last run.
BegunOver(b, g) ==
  [s \in Sections |-> [Registered(g) EXCEPT !.valid = b[s].valid]]

\* ScanBus::begin: every section is registered anew, without a snapshot.
Begun(b, g) == [s \in Sections |-> Registered(g)]

\* Mistaken variant: events are told apart by their section alone.
HeardFromAnyRun(b, s, g, e) == [b EXCEPT ![s] = e]

\* ScanBus::observe_checked: an event of another run than the registered one
\* changes nothing; otherwise the entry of its section becomes e.
Heard(b, s, g, e) == IF b[s].gen # g THEN b ELSE [b EXCEPT ![s] = e]

\* ScanBus::cancel_generation.
Cancelled(b, g) ==
  [s \in Sections |-> IF b[s].gen = g THEN Silenced(b[s]) ELSE b[s]]

\* The test of wait_for: s is not in flight for run g.
Resolved(b, s, g) == b[s].gen # g \/ b[s].terminal

\* The snapshots wait_for returns: those of run g among the listed sections.
Collected(b, deps, g) ==
  {[section |-> s, items |-> b[s].valid.items] :
     s \in {d \in deps : b[d].valid # Nothing /\ b[d].valid.gen = g}}

-----------------------------------------------------------------------------
IdleWaiter == [pc |-> "idle", gen |-> 0, woken |-> FALSE, out |-> {}]

Init ==
  /\ cur = 0
  /\ stopped = {}
  /\ bus = [s \in Sections |-> Registered(0)]
  /\ source = [s \in Sections |-> "none"]
  /\ sent = [s \in Sections |-> NoItems]
  /\ waiter = [w \in Waiters |-> IdleWaiter]

\* Mistaken variant: only one of the registered calls is woken (notify_one).
NotifyOne ==
  LET waiting == {w \in Waiters : waiter[w].pc \in {"registered", "asleep"}}
      one == CHOOSE w \in waiting : TRUE
  IN  waiter' = IF waiting = {} THEN waiter ELSE [waiter EXCEPT ![one].woken = TRUE]

\* Notify::notify_waiters wakes every wait_for call that has registered,
\* whether it sleeps already or still has to look at the entries.
NotifyWaiters ==
  waiter' = [w \in Waiters |->
               IF waiter[w].pc \in {"registered", "asleep"}
                 THEN [waiter[w] EXCEPT !.woken = TRUE]
                 ELSE waiter[w]]

\* start_run: the previous token is cancelled, then all sections are
\* registered for the new run before any of its workers exists.
Begin ==
  /\ cur < MaxGen
  /\ cur' = cur + 1
  /\ stopped' = stopped \cup ({cur} \ {0})
  /\ bus' = Begun(bus, cur + 1)
  /\ source' = [s \in Sections |-> "open"]
  /\ sent' = [s \in Sections |-> NoItems]
  /\ NotifyWaiters

\* A token is cancelled; what the bus knows of the run follows later.
CancelToken(g) ==
  /\ g <= cur
  /\ stopped' = stopped \cup {g}
  /\ UNCHANGED <<cur, bus, source, sent, waiter>>

\* cancel_generation, called with the token or after it.
CancelGeneration(g) ==
  /\ g <= cur
  /\ stopped' = stopped \cup {g}
  /\ bus' = Cancelled(bus, g)
  /\ NotifyWaiters
  /\ UNCHANGED <<cur, source, sent>>

\* cancel_all; no caller in the engine, which cancels by run.
CancelAll ==
  /\ cur \in stopped
  /\ bus' = [s \in Sections |-> Silenced(bus[s])]
  /\ NotifyWaiters
  /\ UNCHANGED <<cur, stopped, source, sent>>

\* An item of run g, current or superseded.  The current run's section has
\* not sent its Finished yet.
ObserveItem(s, g, k, v) ==
  /\ g <= cur
  /\ g = cur => source[s] # "finished"
  /\ bus' = Heard(bus, s, g, AfterItem(bus[s], k, v, g \in stopped))
  /\ sent' = IF g = cur THEN [sent EXCEPT ![s][k] = v] ELSE sent
  /\ UNCHANGED <<cur, stopped, source, waiter>>

\* A finding the bus has no memory for: it cancels the run's token itself.
ObserveExhausted(s) ==
  /\ cur \in Gens \ stopped
  /\ source[s] # "finished"
  /\ ~bus[s].terminal
  /\ bus' = [bus EXCEPT ![s] = AfterExhausted(@)]
  /\ stopped' = stopped \cup {cur}
  /\ NotifyWaiters
  /\ UNCHANGED <<cur, source, sent>>

ObserveFinished(s, g) ==
  /\ g <= cur
  /\ g = cur => source[s] = "open"
  /\ bus' = Heard(bus, s, g, AfterFinished(bus[s], g \in stopped))
  /\ source' = IF g = cur THEN [source EXCEPT ![s] = "finished"] ELSE source
  /\ IF bus[s].gen = g THEN NotifyWaiters ELSE UNCHANGED waiter
  /\ UNCHANGED <<cur, stopped, sent>>

\* A failed section may fail again (a refused subprocess, then the scanner),
\* but it never finishes afterwards.  A failure at a resource limit cancels
\* the token before the bus hears of it.
ObserveFailed(s, g) ==
  /\ g <= cur
  /\ g = cur => source[s] # "finished"
  /\ stopped' \in {stopped, stopped \cup {g}}
  /\ bus' = Heard(bus, s, g, Silenced(bus[s]))
  /\ source' = IF g = cur THEN [source EXCEPT ![s] = "failed"] ELSE source
  /\ IF bus[s].gen = g THEN NotifyWaiters ELSE UNCHANGED waiter
  /\ UNCHANGED <<cur, sent>>

-----------------------------------------------------------------------------
(* wait_for.                                                               *)

\* An attribution worker of the current run calls wait_for: Notify::notified
\* comes before the first look at the entries.
Register(w) ==
  /\ cur > 0
  /\ waiter[w].pc = "idle"
  /\ waiter' = [waiter EXCEPT ![w] =
                  [pc |-> "registered", gen |-> cur, woken |-> FALSE, out |-> {}]]
  /\ UNCHANGED <<cur, stopped, bus, source, sent>>

Ready(w) ==
  \/ \A s \in Deps[w] : Resolved(bus, s, waiter[w].gen)
  \/ waiter[w].gen \in stopped

Look(w) ==
  /\ waiter[w].pc = "registered"
  /\ waiter' =
       IF Ready(w)
         THEN [waiter EXCEPT ![w].pc = "returned",
                 ![w].out = Collected(bus, Deps[w], waiter[w].gen)]
         ELSE [waiter EXCEPT ![w].pc = "asleep"]
  /\ UNCHANGED <<cur, stopped, bus, source, sent>>

\* The select of wait_for: a notification or the caller's token; the next
\* round registers before it looks.
Wake(w) ==
  /\ waiter[w].pc = "asleep"
  /\ waiter[w].woken \/ waiter[w].gen \in stopped
  /\ waiter' = [waiter EXCEPT ![w].pc = "registered", ![w].woken = FALSE]
  /\ UNCHANGED <<cur, stopped, bus, source, sent>>

Next ==
  \/ Begin
  \/ CancelAll
  \/ \E g \in Gens : CancelToken(g) \/ CancelGeneration(g)
  \/ \E s \in Sections : ObserveExhausted(s)
  \/ \E s \in Sections, g \in Gens :
       \/ \E k \in Keys, v \in Values : ObserveItem(s, g, k, v)
       \/ ObserveFinished(s, g)
       \/ ObserveFailed(s, g)
  \/ \E w \in Waiters : Register(w) \/ Look(w) \/ Wake(w)

\* A waiter is a task the runtime keeps polling once it is awake.
Fairness == \A w \in Waiters : WF_vars(Look(w)) /\ WF_vars(Wake(w))

Spec == Init /\ [][Next]_vars
FairSpec == Spec /\ Fairness

-----------------------------------------------------------------------------
Entries == [gen : 0..MaxGen, terminal : BOOLEAN, acc : Contents,
            valid : Snapshots \cup {Nothing}]

WaitResults == SUBSET [section : Sections, items : Contents]

WaiterStates == [pc : {"idle", "registered", "asleep", "returned"},
                 gen : 0..MaxGen, woken : BOOLEAN, out : WaitResults]

\* The type invariant: in particular no token of a run to come is cancelled
\* and no wait_for call belongs to a run to come.
TypeOK ==
  /\ cur \in 0..MaxGen
  /\ stopped \subseteq 1..cur
  /\ bus \in [Sections -> Entries]
  /\ source \in [Sections -> {"none", "open", "finished", "failed"}]
  /\ sent \in [Sections -> Contents]
  /\ waiter \in [Waiters -> WaiterStates]
  /\ \A w \in Waiters :
       waiter[w].gen <= cur /\ (waiter[w].pc = "idle" <=> waiter[w].gen = 0)

\* What a published snapshot holds is exactly what the section's worker of
\* the registered run sent before its Finished: nothing of an earlier run
\* ("selected-root data cannot leak across run boundaries"), nothing sent
\* too early to be missing, and no snapshot of a section that failed.
SnapshotIsWhole ==
  \A s \in Sections :
    bus[s].valid # Nothing =>
      /\ source[s] = "finished"
      /\ bus[s].valid = [gen |-> cur, items |-> sent[s]]

\* A wait_for call that returned to a run still current and not cancelled
\* waited for every dependency, and got the snapshot of each one that
\* finished and of no other: what attribution reports as a missing
\* dependency has failed.
ReturnedIsJustified ==
  \A w \in Waiters :
    waiter[w].pc = "returned" /\ waiter[w].gen = cur /\ cur \notin stopped =>
      LET ended(c) == {s \in Deps[w] : source[s] = c}
      IN  /\ Deps[w] = ended("finished") \cup ended("failed")
          /\ waiter[w].out =
               {[section |-> s, items |-> sent[s]] : s \in ended("finished")}

\* A snapshot, once published, stands until the next run begins: neither a
\* late event nor a cancellation takes it back or changes it.
SnapshotStands ==
  [][\A s \in Sections :
       bus[s].valid # Nothing /\ cur' = cur => bus'[s].valid = bus[s].valid]_vars

\* No wait_for call sleeps through what it waits for: once all its
\* dependencies are terminal or its token is cancelled, it returns, whichever
\* step of it that event fell between.
WaiterReturns ==
  \A w \in Waiters :
    waiter[w].pc \in {"registered", "asleep"} /\ Ready(w)
      ~> waiter[w].pc = "returned"
=============================================================================
