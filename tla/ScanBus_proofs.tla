--------------------------- MODULE ScanBus_proofs ---------------------------
(***************************************************************************)
(* Proofs about ScanBus, for any sections, items, waiters and number of    *)
(* runs.  The argument is one inductive invariant: while the current run   *)
(* is not cancelled, an entry that is still open holds exactly what its    *)
(* section's worker has sent (SectionInv), so what a Finished publishes is   *)
(* the whole of it, and a waiter that finds its dependencies terminal      *)
(* finds them ended (ReturnedIsJustified).                                 *)
(***************************************************************************)
EXTENDS ScanBus, TLAPS

-----------------------------------------------------------------------------
(* What the methods of the bus make of an entry.                           *)

\* Every operator on an entry yields an entry.
LEMMA EntryTypes ==
  ASSUME NEW e \in Entries
  PROVE  /\ \A g \in 0..MaxGen : Registered(g) \in Entries
         /\ Silenced(e) \in Entries
         /\ AfterExhausted(e) \in Entries
         /\ \A k \in Keys, v \in Values, b \in BOOLEAN :
              AfterItem(e, k, v, b) \in Entries
         /\ \A b \in BOOLEAN : e.gen \in Gens => AfterFinished(e, b) \in Entries
<1>1. NoItems \in Contents
  BY DEF NoItems, Contents
<1>2. \A g \in 0..MaxGen : Registered(g) \in Entries
  BY <1>1 DEF Registered, Entries
<1>3. Silenced(e) \in Entries
  BY <1>1 DEF Silenced, Entries
<1>4. AfterExhausted(e) \in Entries
  BY DEF AfterExhausted, Entries
<1>5. ASSUME NEW k \in Keys, NEW v \in Values, NEW b \in BOOLEAN
      PROVE  AfterItem(e, k, v, b) \in Entries
  <2>1. [e.acc EXCEPT ![k] = v] \in Contents
    BY DEF Entries, Contents
  <2>2. [e EXCEPT !.acc[k] = v] = [e EXCEPT !.acc = [e.acc EXCEPT ![k] = v]]
    BY DEF Entries
  <2> QED
    BY <2>1, <2>2 DEF AfterItem, Entries
<1>6. ASSUME NEW b \in BOOLEAN, e.gen \in Gens
      PROVE  AfterFinished(e, b) \in Entries
  <2>1. [gen |-> e.gen, items |-> e.acc] \in Snapshots
    BY <1>6 DEF Snapshots, Entries
  <2> QED
    BY <1>1, <1>3, <2>1 DEF AfterFinished, Entries
<1> QED
  BY <1>2, <1>3, <1>4, <1>5, <1>6

\* notify_waiters only marks a call as woken.
LEMMA NotifyKeeps ==
  ASSUME waiter \in [Waiters -> WaiterStates], NotifyWaiters
  PROVE  /\ waiter' \in [Waiters -> WaiterStates]
         /\ \A w \in Waiters :
              /\ waiter'[w].pc = waiter[w].pc
              /\ waiter'[w].gen = waiter[w].gen
              /\ waiter'[w].out = waiter[w].out
  BY DEF NotifyWaiters, WaiterStates

\* What wait_for returns is of the type of its result.
LEMMA CollectedType ==
  ASSUME NEW b \in [Sections -> Entries], NEW deps \in SUBSET Sections,
         NEW g
  PROVE  Collected(b, deps, g) \in WaitResults
<1> SUFFICES ASSUME NEW s \in deps, b[s].valid # Nothing
             PROVE  [section |-> s, items |-> b[s].valid.items]
                      \in [section : Sections, items : Contents]
  BY DEF Collected, WaitResults
<1>1. b[s].valid \in Snapshots
  BY DEF Entries
<1> QED
  BY <1>1 DEF Snapshots

\* An event that reaches the entry of its run changes that entry alone.
LEMMA HeardType ==
  ASSUME NEW b \in [Sections -> Entries], NEW s \in Sections,
         NEW g \in Gens, NEW e, b[s].gen = g => e \in Entries
  PROVE  Heard(b, s, g, e) \in [Sections -> Entries]
  BY DEF Heard

-----------------------------------------------------------------------------
(* Type correctness.                                                       *)

LEMMA TypeInit == Init => TypeOK
<1> SUFFICES ASSUME Init PROVE TypeOK
  OBVIOUS
<1>1. NoItems \in Contents
  BY DEF NoItems, Contents
<1>2. Registered(0) \in Entries
  BY <1>1, BusAssumption DEF Registered, Entries
<1>3. IdleWaiter \in WaiterStates /\ IdleWaiter.gen = 0
       /\ IdleWaiter.pc = "idle"
  BY BusAssumption DEF IdleWaiter, WaiterStates, WaitResults
<1> QED
  BY <1>1, <1>2, <1>3, BusAssumption DEF Init, TypeOK

LEMMA TypeStep == TypeOK /\ [Next]_vars => TypeOK'
<1> SUFFICES ASSUME TypeOK, [Next]_vars PROVE TypeOK'
  OBVIOUS
<1> USE BusAssumption
<1>1. NoItems \in Contents
  BY DEF NoItems, Contents
<1>2. ASSUME NotifyWaiters, cur' \in Nat, cur' >= cur
      PROVE  /\ waiter' \in [Waiters -> WaiterStates]
             /\ \A w \in Waiters :
                  /\ waiter'[w].gen <= cur'
                  /\ waiter'[w].pc = "idle" <=> waiter'[w].gen = 0
  BY <1>2, NotifyKeeps DEF TypeOK, WaiterStates
<1>3. CASE Begin
  <2>1. cur' \in Gens /\ cur' = cur + 1
    BY <1>3 DEF Begin, TypeOK, Gens
  <2>2. bus' \in [Sections -> Entries]
    <3>1. Registered(cur + 1) \in Entries
      BY <1>1, <2>1 DEF Registered, Entries, Gens
    <3> QED
      BY <1>3, <3>1 DEF Begin, Begun
  <2>3. stopped' \subseteq 1..cur'
    BY <1>3, <2>1 DEF Begin, TypeOK, Gens
  <2> QED
    BY <1>1, <1>2, <1>3, <2>1, <2>2, <2>3 DEF Begin, TypeOK, Gens
<1>4. CASE CancelAll
  <2>1. bus' \in [Sections -> Entries]
    BY <1>4, EntryTypes DEF CancelAll, TypeOK
  <2> QED
    BY <1>2, <1>4, <2>1 DEF CancelAll, TypeOK
<1>5. ASSUME NEW g \in Gens, CancelToken(g)
      PROVE  TypeOK'
  BY <1>5 DEF CancelToken, TypeOK, Gens
<1>6. ASSUME NEW g \in Gens, CancelGeneration(g)
      PROVE  TypeOK'
  <2>1. bus' \in [Sections -> Entries]
    BY <1>6, EntryTypes DEF CancelGeneration, Cancelled, TypeOK
  <2> QED
    BY <1>2, <1>6, <2>1 DEF CancelGeneration, TypeOK, Gens
<1>7. ASSUME NEW s \in Sections, ObserveExhausted(s)
      PROVE  TypeOK'
  <2>1. bus' \in [Sections -> Entries]
    BY <1>7, EntryTypes DEF ObserveExhausted, TypeOK
  <2> QED
    BY <1>2, <1>7, <2>1 DEF ObserveExhausted, TypeOK, Gens
<1>8. ASSUME NEW s \in Sections, NEW g \in Gens, NEW k \in Keys,
             NEW v \in Values, ObserveItem(s, g, k, v)
      PROVE  TypeOK'
  <2>1. AfterItem(bus[s], k, v, g \in stopped) \in Entries
    <3>1. bus[s] \in Entries /\ (g \in stopped) \in BOOLEAN
      BY DEF TypeOK
    <3> QED
      BY <3>1, EntryTypes
  <2>2. bus' \in [Sections -> Entries]
    BY <1>8, <2>1, HeardType DEF ObserveItem, TypeOK
  <2>3. [sent[s] EXCEPT ![k] = v] \in Contents
    BY DEF TypeOK, Contents
  <2>4. [sent EXCEPT ![s][k] = v] = [sent EXCEPT ![s] = [sent[s] EXCEPT ![k] = v]]
    BY DEF TypeOK
  <2>5. sent' \in [Sections -> Contents]
    BY <1>8, <2>3, <2>4 DEF ObserveItem, TypeOK
  <2> QED
    BY <1>8, <2>2, <2>5 DEF ObserveItem, TypeOK
<1>9. ASSUME NEW s \in Sections, NEW g \in Gens, ObserveFinished(s, g)
      PROVE  TypeOK'
  <2>1. bus[s].gen = g => AfterFinished(bus[s], g \in stopped) \in Entries
    <3>1. bus[s] \in Entries /\ (g \in stopped) \in BOOLEAN
      BY DEF TypeOK
    <3> QED
      BY <3>1, EntryTypes
  <2>2. bus' \in [Sections -> Entries]
    BY <1>9, <2>1, HeardType DEF ObserveFinished, TypeOK
  <2>3. source' \in [Sections -> {"none", "open", "finished", "failed"}]
    BY <1>9 DEF ObserveFinished, TypeOK
  <2>4. /\ waiter' \in [Waiters -> WaiterStates]
        /\ \A w \in Waiters :
             /\ waiter'[w].gen <= cur'
             /\ waiter'[w].pc = "idle" <=> waiter'[w].gen = 0
    BY <1>2, <1>9 DEF ObserveFinished, TypeOK
  <2> QED
    BY <1>9, <2>2, <2>3, <2>4 DEF ObserveFinished, TypeOK
<1>10. ASSUME NEW s \in Sections, NEW g \in Gens, ObserveFailed(s, g)
       PROVE  TypeOK'
  <2>1. bus' \in [Sections -> Entries]
    BY <1>10, EntryTypes, HeardType DEF ObserveFailed, TypeOK
  <2>2. source' \in [Sections -> {"none", "open", "finished", "failed"}]
    BY <1>10 DEF ObserveFailed, TypeOK
  <2>3. /\ waiter' \in [Waiters -> WaiterStates]
        /\ \A w \in Waiters :
             /\ waiter'[w].gen <= cur'
             /\ waiter'[w].pc = "idle" <=> waiter'[w].gen = 0
    BY <1>2, <1>10 DEF ObserveFailed, TypeOK
  <2>4. stopped' \subseteq 1..cur'
    BY <1>10 DEF ObserveFailed, TypeOK, Gens
  <2> QED
    BY <1>10, <2>1, <2>2, <2>3, <2>4 DEF ObserveFailed, TypeOK
<1>11. ASSUME NEW w \in Waiters, Register(w)
       PROVE  TypeOK'
  BY <1>11 DEF Register, TypeOK, WaiterStates, WaitResults
<1>12. ASSUME NEW w \in Waiters, Look(w)
       PROVE  TypeOK'
  <2>1. Collected(bus, Deps[w], waiter[w].gen) \in WaitResults
    BY CollectedType DEF TypeOK
  <2>2. waiter \in [Waiters -> WaiterStates]
    BY DEF TypeOK
  <2>3. /\ waiter' \in [Waiters -> WaiterStates]
        /\ \A v \in Waiters :
             /\ waiter'[v].gen = waiter[v].gen
             /\ waiter'[v].pc = "idle" <=> waiter[v].pc = "idle"
    <3> DEFINE out == Collected(bus, Deps[w], waiter[w].gen)
    <3>1. waiter[w].pc = "registered" /\ out \in WaitResults
      BY <1>12, <2>1 DEF Look
    <3>2. \/ waiter' = [waiter EXCEPT ![w].pc = "returned", ![w].out = out]
          \/ waiter' = [waiter EXCEPT ![w].pc = "asleep"]
      BY <1>12 DEF Look
    <3> HIDE DEF out
    <3>3. /\ waiter'[w].gen = waiter[w].gen /\ waiter'[w].pc \in {"returned", "asleep"}
          /\ waiter'[w] \in WaiterStates
      BY <2>2, <3>1, <3>2 DEF WaiterStates
    <3>4. \A v \in Waiters \ {w} : waiter'[v] = waiter[v]
      BY <2>2, <3>2
    <3>5. waiter' \in [Waiters -> WaiterStates]
      <4>1. waiter' = [waiter EXCEPT ![w] = waiter'[w]]
        BY <2>2, <3>2
      <4> QED BY <2>2, <3>3, <4>1
    <3>6. waiter'[w].pc # "idle" /\ waiter[w].pc # "idle"
      BY <3>1, <3>3
    <3> QED BY <3>3, <3>4, <3>5, <3>6
  <2>4. UNCHANGED <<cur, stopped, source, sent, bus>>
    BY <1>12 DEF Look
  <2>5. /\ waiter' \in [Waiters -> WaiterStates]
        /\ \A v \in Waiters :
             /\ waiter'[v].gen <= cur'
             /\ waiter'[v].pc = "idle" <=> waiter'[v].gen = 0
    <3>1. \A v \in Waiters :
             waiter[v].gen <= cur /\ (waiter[v].pc = "idle" <=> waiter[v].gen = 0)
      BY DEF TypeOK
    <3> QED BY <2>3, <2>4, <3>1
  <2> QED BY <2>4, <2>5 DEF TypeOK
<1>13. ASSUME NEW w \in Waiters, Wake(w)
       PROVE  TypeOK'
  <2>1. waiter \in [Waiters -> WaiterStates] /\ waiter[w].pc = "asleep"
    BY <1>13 DEF Wake, TypeOK
  <2>2. waiter' = [waiter EXCEPT ![w].pc = "registered", ![w].woken = FALSE]
    BY <1>13 DEF Wake
  <2>3. /\ waiter' \in [Waiters -> WaiterStates]
        /\ \A v \in Waiters :
             /\ waiter'[v].gen = waiter[v].gen
             /\ waiter'[v].pc = "idle" <=> waiter[v].pc = "idle"
    <3>1. /\ waiter'[w].gen = waiter[w].gen /\ waiter'[w].pc = "registered"
          /\ waiter'[w] \in WaiterStates
      BY <2>1, <2>2 DEF WaiterStates
    <3>2. \A v \in Waiters \ {w} : waiter'[v] = waiter[v]
      BY <2>1, <2>2
    <3>3. waiter' \in [Waiters -> WaiterStates]
      <4>1. waiter' = [waiter EXCEPT ![w] = waiter'[w]]
        BY <2>1, <2>2
      <4> QED BY <2>1, <3>1, <4>1
    <3> QED BY <2>1, <3>1, <3>2, <3>3
  <2>4. UNCHANGED <<cur, stopped, source, sent, bus>>
    BY <1>13 DEF Wake
  <2>5. /\ waiter' \in [Waiters -> WaiterStates]
        /\ \A v \in Waiters :
             /\ waiter'[v].gen <= cur'
             /\ waiter'[v].pc = "idle" <=> waiter'[v].gen = 0
    <3>1. \A v \in Waiters :
             waiter[v].gen <= cur /\ (waiter[v].pc = "idle" <=> waiter[v].gen = 0)
      BY DEF TypeOK
    <3> QED BY <2>3, <2>4, <3>1
  <2> QED BY <2>4, <2>5 DEF TypeOK
<1>14. CASE UNCHANGED vars
  BY <1>14 DEF vars, TypeOK
<1> QED
  BY <1>3, <1>4, <1>5, <1>6, <1>7, <1>8, <1>9, <1>10, <1>11, <1>12, <1>13,
     <1>14 DEF Next

\* The bus, the tokens and the wait_for calls are well-formed in every
\* reachable state: entries and calls belong to runs that have begun.
THEOREM TypeCorrect == Spec => []TypeOK
<1> QED
  BY TypeInit, TypeStep, PTL DEF Spec

-----------------------------------------------------------------------------
(* Snapshots hold what was sent.                                           *)

\* The part of the invariant that is about one section.
SectionInv(s) ==
  /\ bus[s].gen = cur
  /\ source[s] = "none" <=> cur = 0
  /\ source[s] = "open" /\ cur \notin stopped =>
       ~bus[s].terminal /\ bus[s].acc = sent[s]
  /\ source[s] \in {"finished", "failed"} => bus[s].terminal
  /\ source[s] = "finished" /\ cur \notin stopped => bus[s].valid # Nothing
  /\ bus[s].valid # Nothing =>
       /\ source[s] = "finished"
       /\ bus[s].valid = [gen |-> cur, items |-> sent[s]]

LEMMA SectionInit == Init => \A s \in Sections : SectionInv(s)
<1> SUFFICES ASSUME Init, NEW s \in Sections PROVE SectionInv(s)
  OBVIOUS
<1>1. bus[s] = Registered(0) /\ source[s] = "none" /\ cur = 0
  BY DEF Init
<1> QED
  BY <1>1 DEF SectionInv, Registered

\* Every step keeps the invariant of a section: a step on another section or
\* for another run leaves its entry alone, one on its own entry is met by
\* the guards that depend on the token and on the end of the section.
LEMMA SectionStep ==
  ASSUME TypeOK, [Next]_vars, NEW t \in Sections, SectionInv(t)
  PROVE  SectionInv(t)'
<1> USE BusAssumption DEF SectionInv
<1>0. bus[t] \in Entries
  BY DEF TypeOK
<1>1. CASE Begin
  <2>1. bus'[t] = Registered(cur + 1) /\ source'[t] = "open" /\ sent'[t] = NoItems
    BY <1>1 DEF Begin, Begun
  <2>2. cur' = cur + 1 /\ cur' # 0
    BY <1>1 DEF Begin, TypeOK
  <2> QED
    BY <2>1, <2>2 DEF Registered
<1>2. ASSUME bus'[t] = Silenced(bus[t]), cur' = cur, stopped \subseteq stopped',
             cur \in stopped', sent' = sent, source' = source
      PROVE  SectionInv(t)'
  BY <1>0, <1>2 DEF Silenced, Entries
<1>3. CASE CancelAll
  BY <1>2, <1>3 DEF CancelAll
<1>4. ASSUME NEW g \in Gens, CancelToken(g)
      PROVE  SectionInv(t)'
  BY <1>4 DEF CancelToken
<1>5. ASSUME NEW g \in Gens, CancelGeneration(g)
      PROVE  SectionInv(t)'
  <2>1. CASE g = cur
    BY <1>2, <1>5, <2>1 DEF CancelGeneration, Cancelled
  <2>2. CASE g # cur
    BY <1>5, <2>2 DEF CancelGeneration, Cancelled
  <2> QED
    BY <2>1, <2>2
<1>6. ASSUME NEW s \in Sections, ObserveExhausted(s)
      PROVE  SectionInv(t)'
  <2>1. CASE s = t
    <3>1. bus'[t] = AfterExhausted(bus[t])
      BY <1>6, <2>1 DEF ObserveExhausted, TypeOK
    <3> QED
      BY <1>0, <1>6, <3>1 DEF ObserveExhausted, AfterExhausted, Entries, TypeOK
  <2>2. CASE s # t
    BY <1>6, <2>2 DEF ObserveExhausted, TypeOK
  <2> QED
    BY <2>1, <2>2
<1>7. ASSUME NEW s \in Sections, NEW g \in Gens, NEW k \in Keys,
             NEW v \in Values, ObserveItem(s, g, k, v)
      PROVE  SectionInv(t)'
  <2>1. CASE s = t /\ g = cur
    <3>1. /\ bus'[t] = AfterItem(bus[t], k, v, cur \in stopped)
          /\ sent'[t] = [sent[t] EXCEPT ![k] = v]
          /\ source'[t] = source[t] /\ source[t] # "finished"
          /\ cur' = cur /\ stopped' = stopped
      BY <1>7, <2>1 DEF ObserveItem, Heard, TypeOK
    <3>2. CASE bus[t].terminal \/ cur \in stopped
      BY <3>1, <3>2 DEF AfterItem
    <3>3. CASE ~(bus[t].terminal \/ cur \in stopped)
      <4>1. bus'[t] = [bus[t] EXCEPT !.acc = [bus[t].acc EXCEPT ![k] = v]]
        BY <1>0, <3>1, <3>3 DEF AfterItem, Entries
      <4> QED
        BY <1>0, <3>1, <3>3, <4>1 DEF Entries
    <3> QED
      BY <3>2, <3>3
  <2>2. CASE s # t \/ g # cur
    BY <1>7, <2>2 DEF ObserveItem, Heard, TypeOK
  <2> QED
    BY <2>1, <2>2
<1>8. ASSUME NEW s \in Sections, NEW g \in Gens, ObserveFinished(s, g)
      PROVE  SectionInv(t)'
  <2>1. CASE s = t /\ g = cur
    <3>1. /\ bus'[t] = AfterFinished(bus[t], cur \in stopped)
          /\ source'[t] = "finished" /\ source[t] = "open"
          /\ sent' = sent /\ cur' = cur /\ stopped' = stopped
      BY <1>8, <2>1 DEF ObserveFinished, Heard, TypeOK
    <3>2. CASE cur \in stopped
      BY <1>0, <3>1, <3>2 DEF AfterFinished, Silenced, Entries, TypeOK, Gens
    <3>3. CASE cur \notin stopped
      <4>1. [gen |-> cur, items |-> sent[t]] \in Snapshots
        BY <2>1 DEF Snapshots, TypeOK
      <4>2. [gen |-> cur, items |-> sent[t]] # Nothing
        BY <4>1, SnapshotAssumption
      <4>3. bus'[t] = [bus[t] EXCEPT !.terminal = TRUE, !.acc = NoItems,
                         !.valid = [gen |-> cur, items |-> sent[t]]]
        BY <3>1, <3>3 DEF AfterFinished
      <4> QED
        BY <1>0, <2>1, <3>1, <3>3, <4>2, <4>3 DEF Entries, TypeOK, Gens
    <3> QED
      BY <3>2, <3>3
  <2>2. CASE s # t \/ g # cur
    BY <1>8, <2>2 DEF ObserveFinished, Heard, TypeOK
  <2> QED
    BY <2>1, <2>2
<1>9. ASSUME NEW s \in Sections, NEW g \in Gens, ObserveFailed(s, g)
      PROVE  SectionInv(t)'
  <2>1. CASE s = t /\ g = cur
    <3>1. /\ bus'[t] = Silenced(bus[t])
          /\ source'[t] = "failed" /\ source[t] # "finished"
          /\ sent' = sent /\ cur' = cur
      BY <1>9, <2>1 DEF ObserveFailed, Heard, TypeOK
    <3> QED
      BY <1>0, <2>1, <3>1 DEF Silenced, Entries, TypeOK, Gens
  <2>2. CASE s # t \/ g # cur
    BY <1>9, <2>2 DEF ObserveFailed, Heard, TypeOK
  <2> QED
    BY <2>1, <2>2
<1>10. ASSUME NEW w \in Waiters, Register(w) \/ Look(w) \/ Wake(w)
       PROVE  SectionInv(t)'
  BY <1>10 DEF Register, Look, Wake
<1>11. CASE UNCHANGED vars
  BY <1>11 DEF vars
<1> QED
  BY <1>1, <1>3, <1>4, <1>5, <1>6, <1>7, <1>8, <1>9, <1>10, <1>11 DEF Next

LEMMA AllSections == Spec => [](\A s \in Sections : SectionInv(s))
<1>1. TypeOK /\ (\A s \in Sections : SectionInv(s)) /\ [Next]_vars
        => (\A s \in Sections : SectionInv(s))'
  BY SectionStep
<1> QED
  BY <1>1, SectionInit, TypeCorrect, PTL DEF Spec

\* No snapshot holds anything but what its section sent in the current run,
\* all of it: attribution never reads the data of another root.
THEOREM SnapshotsAreWhole == Spec => []SnapshotIsWhole
<1>1. (\A s \in Sections : SectionInv(s)) => SnapshotIsWhole
  BY DEF SectionInv, SnapshotIsWhole
<1> QED
  BY <1>1, AllSections, PTL

\* No step between two runs takes a snapshot back or changes it.
THEOREM SnapshotsStand == Spec => SnapshotStands
<1>1. ASSUME TypeOK, \A s \in Sections : SectionInv(s), [Next]_vars
      PROVE  [\A s \in Sections :
                bus[s].valid # Nothing /\ cur' = cur
                  => bus'[s].valid = bus[s].valid]_vars
  <2> SUFFICES ASSUME NEW s \in Sections, bus[s].valid # Nothing, cur' = cur
               PROVE  bus'[s].valid = bus[s].valid
    OBVIOUS
  <2>1. bus[s] \in Entries /\ source[s] = "finished" /\ bus[s].gen = cur
    BY <1>1 DEF SectionInv, TypeOK
  <2>2. ASSUME NEW t \in Sections, NEW g \in Gens, NEW k \in Keys,
               NEW v \in Values, ObserveItem(t, g, k, v)
        PROVE  bus'[s].valid = bus[s].valid
    BY <1>1, <2>1, <2>2 DEF ObserveItem, Heard, AfterItem, Entries, TypeOK
  <2>3. ASSUME NEW t \in Sections, NEW g \in Gens, ObserveFinished(t, g)
        PROVE  bus'[s].valid = bus[s].valid
    <3>1. t # s \/ g # cur
      BY <2>1, <2>3 DEF ObserveFinished
    <3> QED
      BY <1>1, <2>1, <2>3, <3>1 DEF ObserveFinished, Heard, TypeOK
  <2>4. ASSUME NEW t \in Sections, NEW g \in Gens, ObserveFailed(t, g)
        PROVE  bus'[s].valid = bus[s].valid
    BY <1>1, <2>1, <2>4 DEF ObserveFailed, Heard, Silenced, Entries, TypeOK
  <2>5. ASSUME NEW t \in Sections, ObserveExhausted(t)
        PROVE  bus'[s].valid = bus[s].valid
    BY <1>1, <2>1, <2>5 DEF ObserveExhausted, AfterExhausted, Entries, TypeOK
  <2>6. ASSUME NEW g \in Gens, CancelGeneration(g)
        PROVE  bus'[s].valid = bus[s].valid
    BY <2>1, <2>6 DEF CancelGeneration, Cancelled, Silenced, Entries
  <2>7. CASE CancelAll
    BY <2>1, <2>7 DEF CancelAll, Silenced, Entries
  <2>8. CASE Begin
    BY <1>1, <2>8 DEF Begin, TypeOK
  <2> QED
    BY <1>1, <2>2, <2>3, <2>4, <2>5, <2>6, <2>7, <2>8
       DEF Next, vars, CancelToken, Register, Look, Wake
<1> QED
  BY <1>1, TypeCorrect, AllSections, PTL DEF Spec, SnapshotStands

-----------------------------------------------------------------------------
(* What wait_for returns.                                                  *)

\* ReturnedIsJustified for one call.
Justified(w) ==
  waiter[w].pc = "returned" /\ waiter[w].gen = cur /\ cur \notin stopped =>
    LET ended(c) == {s \in Deps[w] : source[s] = c}
    IN  /\ Deps[w] = ended("finished") \cup ended("failed")
        /\ waiter[w].out =
             {[section |-> s, items |-> sent[s]] : s \in ended("finished")}

\* A call returns to a live run only when every dependency has ended, with
\* the snapshots of those that finished.
LEMMA LookJustified ==
  ASSUME TypeOK, \A s \in Sections : SectionInv(s), NEW w \in Waiters,
         Look(w), waiter'[w].pc = "returned", waiter[w].gen = cur,
         cur \notin stopped
  PROVE  LET ended(c) == {s \in Deps[w] : source[s] = c}
         IN  /\ Deps[w] = ended("finished") \cup ended("failed")
             /\ waiter'[w].out =
                  {[section |-> s, items |-> sent[s]] : s \in ended("finished")}
<1> DEFINE done == {s \in Deps[w] : source[s] = "finished"}
           failed == {s \in Deps[w] : source[s] = "failed"}
<1>1. Deps[w] \subseteq Sections
  BY BusAssumption
<1>2. Ready(w) /\ waiter'[w].out = Collected(bus, Deps[w], cur)
  BY DEF Look, TypeOK, WaiterStates
<1>3. \A s \in Deps[w] : bus[s].terminal
  BY <1>1, <1>2 DEF Ready, Resolved, SectionInv
<1>4. cur # 0
  BY DEF Look, TypeOK
<1>5. ASSUME NEW s \in Deps[w]
      PROVE  source[s] \in {"finished", "failed"}
  <2>1. SectionInv(s) /\ source[s] \in {"none", "open", "finished", "failed"}
    BY <1>1 DEF TypeOK
  <2>2. source[s] # "none" /\ source[s] # "open"
    BY <1>3, <1>4, <2>1 DEF SectionInv
  <2> QED
    BY <2>1, <2>2
<1>6. ASSUME NEW s \in Deps[w]
      PROVE  /\ (bus[s].valid # Nothing /\ bus[s].valid.gen = cur) <=> s \in done
             /\ s \in done => bus[s].valid.items = sent[s]
  <2>1. SectionInv(s)
    BY <1>1
  <2>2. bus[s].valid # Nothing =>
          bus[s].valid.gen = cur /\ bus[s].valid.items = sent[s]
    BY <2>1 DEF SectionInv
  <2> QED
    BY <2>1, <2>2 DEF SectionInv
<1>7. {s \in Deps[w] : bus[s].valid # Nothing /\ bus[s].valid.gen = cur} = done
  BY <1>6
<1>8. Collected(bus, Deps[w], cur) = {[section |-> s, items |-> sent[s]] : s \in done}
  <2>1. Collected(bus, Deps[w], cur) =
          {[section |-> s, items |-> bus[s].valid.items] : s \in done}
    BY <1>7, Zenon DEF Collected
  <2>2. \A s \in done : bus[s].valid.items = sent[s]
    BY <1>6
  <2> QED
    BY <2>1, <2>2
<1>9. Deps[w] = done \cup failed
  BY <1>5
<1> QED
  BY <1>2, <1>8, <1>9

\* Runs follow one another and a cancelled token stays cancelled.
LEMMA RunsFollow ==
  ASSUME TypeOK, [Next]_vars
  PROVE  cur' \in {cur, cur + 1} /\ stopped \subseteq stopped'
  BY DEF Next, vars, Begin, CancelAll, CancelToken, CancelGeneration,
     ObserveExhausted, ObserveItem, ObserveFinished, ObserveFailed,
     Register, Look, Wake

\* A section that ended stays as it is until the next run begins.
LEMMA EndedStays ==
  ASSUME TypeOK, [Next]_vars, cur' = cur, NEW s \in Sections,
         source[s] \in {"finished", "failed"}
  PROVE  /\ source'[s] = source[s]
         /\ source[s] = "finished" => sent'[s] = sent[s]
<1>1. ASSUME NEW t \in Sections, NEW g \in Gens, NEW k \in Keys,
             NEW v \in Values, ObserveItem(t, g, k, v)
      PROVE  /\ source'[s] = source[s]
             /\ source[s] = "finished" => sent'[s] = sent[s]
  BY <1>1 DEF ObserveItem, TypeOK
<1>2. ASSUME NEW t \in Sections, NEW g \in Gens, ObserveFinished(t, g)
      PROVE  source'[s] = source[s] /\ sent' = sent
  BY <1>2 DEF ObserveFinished, TypeOK
<1>3. ASSUME NEW t \in Sections, NEW g \in Gens, ObserveFailed(t, g)
      PROVE  source'[s] = source[s] /\ sent' = sent
  BY <1>3 DEF ObserveFailed, TypeOK
<1>4. ~Begin
  BY DEF Begin, TypeOK
<1> QED
  BY <1>1, <1>2, <1>3, <1>4
     DEF Next, vars, CancelAll, CancelToken, CancelGeneration, ObserveExhausted,
         Register, Look, Wake

\* A call changes its answer only by looking.
LEMMA OthersKeepAnswer ==
  ASSUME TypeOK, [Next]_vars, NEW w \in Waiters, waiter'[w].pc = "returned",
         ~Look(w)
  PROVE  waiter'[w].pc = waiter[w].pc /\ waiter'[w].gen = waiter[w].gen
         /\ waiter'[w].out = waiter[w].out
<1>1. ASSUME NEW v \in Waiters, Register(v)
      PROVE  waiter'[w] = waiter[w]
  BY <1>1 DEF Register, TypeOK, WaiterStates
<1>2. ASSUME NEW v \in Waiters, Look(v)
      PROVE  waiter'[w] = waiter[w]
  BY <1>2 DEF Look, TypeOK, WaiterStates
<1>3. ASSUME NEW v \in Waiters, Wake(v)
      PROVE  waiter'[w] = waiter[w]
  BY <1>3 DEF Wake, TypeOK, WaiterStates
<1>4. CASE NotifyWaiters
  BY <1>4, NotifyKeeps DEF TypeOK
<1> QED
  BY <1>1, <1>2, <1>3, <1>4
     DEF Next, vars, Begin, CancelAll, CancelToken, CancelGeneration,
         ObserveExhausted, ObserveItem, ObserveFinished, ObserveFailed

LEMMA JustifiedStep ==
  ASSUME TypeOK, TypeOK', \A s \in Sections : SectionInv(s), [Next]_vars,
         NEW w \in Waiters, Justified(w)
  PROVE  Justified(w)'
<1> SUFFICES ASSUME waiter'[w].pc = "returned", waiter'[w].gen = cur',
                    cur' \notin stopped'
             PROVE  LET ended(c) == {s \in Deps[w] : source'[s] = c}
                    IN  /\ Deps[w] = ended("finished") \cup ended("failed")
                        /\ waiter'[w].out =
                             {[section |-> s, items |-> sent'[s]] :
                                s \in ended("finished")}
  BY DEF Justified
<1>1. CASE Look(w)
  <2>1. /\ waiter[w].gen = cur /\ cur \notin stopped
        /\ source' = source /\ sent' = sent
    BY <1>1 DEF Look, TypeOK, WaiterStates
  <2> QED
    BY <1>1, <2>1, LookJustified, Zenon
<1>2. CASE ~Look(w)
  <2>1. /\ waiter[w].pc = "returned" /\ waiter[w].gen = cur'
        /\ waiter'[w].out = waiter[w].out
    BY <1>2, OthersKeepAnswer
  <2>2. cur' = cur
    <3>1. cur' \in {cur, cur + 1}
      BY RunsFollow
    <3>2. waiter[w].gen <= cur /\ cur \in Nat
      BY BusAssumption DEF TypeOK
    <3> QED
      BY <2>1, <3>1, <3>2
  <2> DEFINE done == {s \in Deps[w] : source[s] = "finished"}
             failed == {s \in Deps[w] : source[s] = "failed"}
  <2>3. /\ Deps[w] = done \cup failed
        /\ waiter[w].out = {[section |-> s, items |-> sent[s]] : s \in done}
    BY <2>1, <2>2, RunsFollow DEF Justified
  <2>4. ASSUME NEW s \in Deps[w]
        PROVE  /\ source'[s] = source[s]
               /\ s \in done => sent'[s] = sent[s]
    BY <2>2, <2>3, EndedStays, BusAssumption
  <2>5. /\ done = {s \in Deps[w] : source'[s] = "finished"}
        /\ failed = {s \in Deps[w] : source'[s] = "failed"}
    BY <2>4
  <2>6. {[section |-> s, items |-> sent[s]] : s \in done} =
          {[section |-> s, items |-> sent'[s]] : s \in done}
    BY <2>4
  <2> QED
    BY <2>1, <2>3, <2>5, <2>6, Zenon
<1> QED
  BY <1>1, <1>2

\* A wait_for call that returned to a live run has the snapshots of exactly
\* those dependencies that finished, and every other one has failed.
THEOREM WaitersAreJustified == Spec => []ReturnedIsJustified
<1>1. Init => \A w \in Waiters : Justified(w)
  BY DEF Init, IdleWaiter, Justified
<1>2. ASSUME TypeOK, TypeOK', \A s \in Sections : SectionInv(s),
             \A w \in Waiters : Justified(w), [Next]_vars
      PROVE  (\A w \in Waiters : Justified(w))'
  BY <1>2, JustifiedStep
<1>3. (\A w \in Waiters : Justified(w)) => ReturnedIsJustified
  BY DEF Justified, ReturnedIsJustified
<1> QED
  BY <1>1, <1>2, <1>3, TypeCorrect, AllSections, PTL DEF Spec
=============================================================================
