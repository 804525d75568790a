------------------------ MODULE CleanupBatch_proofs -------------------------
(***************************************************************************)
(* Proofs about CleanupBatch, for every plan, every graph of packages and  *)
(* any number of interventions.  Over type correctness there are three     *)
(* inductive parts: where each action of the plan is at each place of the  *)
(* batch (Located), what the loop knows of the actions it has passed       *)
(* (OwnersInv), and how the graph it read relates to the machine           *)
(* (GraphInv).  The rounds of the removal order are numbers of a recursive *)
(* function; with them the loop's order and its checks agree.              *)
(***************************************************************************)
EXTENDS CleanupBatch, FiniteSetTheorems, WellFoundedInduction, TLAPS

-----------------------------------------------------------------------------
(* Operators.                                                              *)

\* Sets of actions are finite, and have a size.
LEMMA ActionsFinite ==
  \A as \in SUBSET Actions : IsFiniteSet(as) /\ Cardinality(as) \in Nat
<1>1. Len(Plan) \in Nat
  BY PlanAssumption
<1>2. IsFiniteSet(Actions)
  BY <1>1, FS_Interval DEF Actions
<1> QED
  BY <1>2, FS_Subset, FS_CardinalityType

\* An element of the plan.
LEMMA PlanElement ==
  ASSUME NEW S, Plan \in Seq(S), NEW a \in Actions
  PROVE  Plan[a] \in S
  BY DEF Actions

\* The fields of a planned action.
LEMMA StepType ==
  ASSUME NEW a \in Actions
  PROVE  Plan[a].kind \in Kinds /\ Plan[a].package \in Nat
<1> DEFINE Steps == [kind : Kinds, finding : Nat, deletes : BOOLEAN, owner : Nat,
                     command : Nat, package : Packages \cup {NoPackage}]
<1>1. Plan \in Seq(Steps)
  BY PlanAssumption
<1>2. Plan[a] \in Steps
  <2> HIDE DEF Steps
  <2> QED
    BY <1>1, PlanElement
<1>3. Packages \cup {NoPackage} \subseteq Nat
  BY PackageAssumption DEF NoPackage
<1>4. Plan[a].kind \in Kinds /\ Plan[a].package \in Packages \cup {NoPackage}
  BY <1>2
<1> QED
  BY <1>3, <1>4

\* The packages of a set of actions are packages.
LEMMA TargetsType ==
  /\ \A as \in SUBSET Actions : Targets(as) \subseteq Packages
  /\ \A as : \A a \in as : Brew(a) => Plan[a].package \in Targets(as)
<1>1. \A a \in Actions : Brew(a) => Plan[a].package \in Packages
  BY PlanAssumption DEF Brew
<1> QED
  BY <1>1 DEF Targets

\* The rounds of the removal order are numbered.
LEMMA RoundType ==
  ASSUME NEW p, NEW removing \in SUBSET Packages
  PROVE  Round(p, removing) \in Nat
<1>1. Cardinality(removing) \in Nat
  BY PackageAssumption, FS_Subset, FS_CardinalityType
<1>2. IsFiniteSet(0..Cardinality(removing))
  BY <1>1, FS_Interval
<1>3. \A S \in SUBSET (0..Cardinality(removing)) : Cardinality(S) \in Nat
  BY <1>2, FS_Subset, FS_CardinalityType
<1> QED
  BY <1>3 DEF Round

\* The order of the loop is asymmetric.
LEMMA PrecedesAsymmetric ==
  ASSUME NEW a \in Actions, NEW b \in Actions, ok \subseteq Actions,
         Precedes(a, b)
  PROVE  ~Precedes(b, a)
<1>1. Targets(ok) \subseteq Packages
  BY TargetsType
<1> DEFINE ra == Round(Plan[a].package, Targets(ok))
           rb == Round(Plan[b].package, Targets(ok))
<1>2. ra \in Nat /\ rb \in Nat
  BY <1>1, RoundType
<1>3. Plan[a].package \in Nat /\ Plan[b].package \in Nat
  BY StepType
<1>4. Plan[a].kind \in Kinds /\ Plan[b].kind \in Kinds
  BY StepType
<1>5. Phase(a) \in Nat /\ Phase(b) \in Nat
  BY <1>4 DEF Phase, Kinds
<1>6. a \in Int /\ b \in Int
  BY DEF Actions
<1> HIDE DEF ra, rb
<1>7. \/ Phase(a) < Phase(b)
      \/ /\ Phase(a) = Phase(b)
         /\ \/ Brew(a) /\ Brew(b) /\ ra < rb
            \/ Brew(a) /\ Brew(b) /\ ra = rb /\ Plan[a].package < Plan[b].package
            \/ (Brew(a) /\ Brew(b) => Plan[a].package = Plan[b].package) /\ a < b
  BY DEF Precedes, ra, rb
<1>8. SUFFICES ASSUME Precedes(b, a) PROVE FALSE
  OBVIOUS
<1>9. \/ Phase(b) < Phase(a)
      \/ /\ Phase(b) = Phase(a)
         /\ \/ Brew(a) /\ Brew(b) /\ rb < ra
            \/ Brew(a) /\ Brew(b) /\ rb = ra /\ Plan[b].package < Plan[a].package
            \/ (Brew(a) /\ Brew(b) => Plan[b].package = Plan[a].package) /\ b < a
  BY <1>8 DEF Precedes, ra, rb
<1>10. Plan[a].package = Plan[b].package => ra = rb
  BY DEF ra, rb
<1> QED
  BY <1>2, <1>3, <1>5, <1>6, <1>7, <1>9, <1>10

\* What filter_brew_dependencies lets pass was selected, and every package of
\* it is in the graph.
LEMMA FitIsPart ==
  ASSUME NEW as, NEW graph
  PROVE  /\ Fit(as, graph) \subseteq as
         /\ \A a \in Fit(as, graph) : Brew(a) => Plan[a].package \in graph
  BY DEF Fit, Removable

-----------------------------------------------------------------------------
(* Type correctness.                                                       *)

LEMMA TypeInit == Init => TypeOK
<1> SUFFICES ASSUME Init PROVE TypeOK
  OBVIOUS
<1>1. MaxSurprises \in Nat
  BY PlanAssumption
<1>2. surprises \in 0..MaxSurprises
  BY <1>1 DEF Init
<1>3. verdicts = << >> /\ DOMAIN verdicts = {}
  BY DEF Init
<1>4. installed \subseteq Packages
  BY DEF Init, Consistent
<1>5. before \in Graphs /\ after \in Graphs
  BY DEF Init, Unread, Graphs
<1> QED
  BY <1>2, <1>3, <1>4, <1>5 DEF Init, TypeOK

\* A count of the interventions that stays within its bound.
LEMMA CountType ==
  ASSUME TypeOK, NEW as \in SUBSET Actions,
         surprises + Cardinality(as) <= MaxSurprises,
         surprises' = surprises + Cardinality(as)
  PROVE  surprises' \in 0..MaxSurprises
<1>1. Cardinality(as) \in Nat /\ MaxSurprises \in Nat
  BY ActionsFinite, PlanAssumption
<1>2. surprises \in Nat
  BY DEF TypeOK
<1>3. ASSUME NEW s \in Nat, NEW n \in Nat, NEW m \in Nat, s + n <= m
      PROVE  s + n \in 0..m
  BY <1>3
<1> QED
  BY <1>1, <1>2, <1>3

LEMMA TypeStep == TypeOK /\ [Next]_vars => TypeOK'
<1> SUFFICES ASSUME TypeOK, [Next]_vars PROVE TypeOK'
  OBVIOUS
<1> USE DEF machine, outcome, books, report
<1>1. MaxSurprises \in Nat
  BY PlanAssumption
<1>2. CASE World
  <2>1. surprises' \in 0..MaxSurprises
    <3>1. surprises < MaxSurprises /\ surprises' = surprises + 1
      BY <1>2 DEF World, Depart, Arrive, Replace, Surprise
    <3>2. surprises \in 0..MaxSurprises
      BY DEF TypeOK
    <3> QED
      BY <1>1, <3>1, <3>2
  <2>2. /\ UNCHANGED <<scanned, stop, pc, ok, waiting, current, executed,
                       failed, cancelled, refused, failedKeys, removedBrew,
                       brewTouched, before, after, verdicts>>
        /\ installed' \subseteq Packages /\ arrived' \subseteq Packages
        /\ changed' \subseteq Actions
    BY <1>2 DEF World, Depart, Arrive, Replace, Surprise, Destructive, TypeOK
  <2> QED
    BY <2>1, <2>2 DEF TypeOK
<1>3. CASE AskStop
  BY <1>3 DEF AskStop, TypeOK
<1>4. ASSUME NEW gone \in SUBSET Actions, NEW unfit \in SUBSET Actions,
             OpenDialog(gone, unfit)
      PROVE  TypeOK'
  <2>1. surprises' \in 0..MaxSurprises
    BY <1>4, CountType DEF OpenDialog
  <2>2. ok' \subseteq Actions
    BY <1>4, FitIsPart DEF OpenDialog
  <2> QED
    BY <1>4, <2>1, <2>2 DEF OpenDialog, TypeOK
<1>5. CASE Confirm \/ Decline
  BY <1>5 DEF Confirm, Decline, TypeOK
<1>6. ASSUME NEW lost \in SUBSET ok, Recheck(lost) PROVE TypeOK'
  <2>1. surprises' \in 0..MaxSurprises
    BY <1>6, CountType DEF Recheck, TypeOK
  <2> QED
    BY <1>6, <2>1 DEF Recheck, Refuse, TypeOK
<1>7. ASSUME NEW answers \in BOOLEAN, NEW stale \in SUBSET ok,
             Refresh(answers, stale)
      PROVE  TypeOK'
  <2>1. surprises' \in 0..MaxSurprises
    BY <1>7, CountType DEF Refresh, TypeOK
  <2>2. before' \in Graphs
    BY <1>7 DEF Refresh, Unread, Graphs, TypeOK
  <2>3. ok' \subseteq ok
    BY <1>7, FitIsPart DEF Refresh
  <2> QED
    BY <1>7, <2>1, <2>2, <2>3 DEF Refresh, Refuse, TypeOK
<1>8. ASSUME NEW a \in Actions,
             SkipStopped(a) \/ SkipOwner(a) \/ SkipRetained(a) \/ Announce(a)
      PROVE  TypeOK'
  BY <1>8 DEF SkipStopped, SkipOwner, SkipRetained, Announce, Skip, Turn,
              Refuse, Bar, TypeOK
<1>9. ASSUME pc \in {"announced", "running"}
      PROVE  /\ CancelAnnounced \/ RefuseChanged \/ Launch => TypeOK'
             /\ Succeed \/ Fail => TypeOK'
  <2> current \in Actions
    BY <1>9 DEF TypeOK
  <2>1. Targets({current}) \subseteq Packages
    BY TargetsType
  <2>2. Removes(current) => /\ installed' \subseteq Packages
                            /\ changed' \subseteq Actions
                            /\ UNCHANGED <<scanned, arrived, surprises>>
    BY DEF Removes, Destructive, TypeOK
  <2>3. CancelAnnounced \/ RefuseChanged \/ Launch => TypeOK'
    BY <1>9 DEF CancelAnnounced, RefuseChanged, Launch, Resume, Refuse, Bar, TypeOK
  <2>4. Succeed => TypeOK'
    BY <1>9, <2>1, <2>2 DEF Succeed, Resume, Touches, Brew, TypeOK
  <2>5. Fail => TypeOK'
    BY <1>9, <2>2 DEF Fail, Resume, Bar, TypeOK
  <2> QED
    BY <2>3, <2>4, <2>5
<1>10. ASSUME NEW answers \in BOOLEAN, Verify(answers) PROVE TypeOK'
  <2>1. after' \in Graphs
    BY <1>10 DEF Verify, Unread, Graphs, TypeOK
  <2>2. Targets(ok) \subseteq Packages
    BY TargetsType DEF TypeOK
  <2>3. /\ DOMAIN verdicts' \subseteq Packages
        /\ \A p \in DOMAIN verdicts' :
             verdicts'[p] \in {"StillPresent", "RemovedAsExpected"}
    BY <1>10, <2>2 DEF Verify
  <2> QED
    BY <1>10, <2>1, <2>3 DEF Verify, TypeOK
<1>11. CASE UNCHANGED vars
  BY <1>11 DEF vars, TypeOK
<1>12. CancelAnnounced \/ RefuseChanged \/ Launch \/ Succeed \/ Fail =>
         pc \in {"announced", "running"}
  BY DEF CancelAnnounced, RefuseChanged, Launch, Succeed, Fail
<1> QED
  BY <1>2, <1>3, <1>4, <1>5, <1>6, <1>7, <1>8, <1>9, <1>10, <1>11, <1>12
     DEF Next, Dialog, Batch, Done

\* TypeOK holds in every state of the batch.
THEOREM TypeCorrect == Spec => []TypeOK
  BY TypeInit, TypeStep, PTL DEF Spec

-----------------------------------------------------------------------------
(* Where the actions of the plan are.                                      *)

Started == pc \in {"loop", "announced", "running", "done"}
InHand == IF pc \in {"announced", "running"} THEN {current} ELSE {}

\* Nothing has become of the actions before the loop, and the loop goes
\* through those that passed the last preflight.
Located ==
  /\ ~Started => /\ executed = {} /\ failed = {} /\ cancelled = {}
                 /\ waiting = {} /\ failedKeys = {} /\ removedBrew = {}
                 /\ brewTouched = FALSE
  /\ pc = "idle" => ok = {} /\ refused = {}
  /\ pc = "done" => waiting = {}
  /\ waiting \cup InHand \cup executed \subseteq ok
  /\ waiting \cap InHand = {}

\* What lies before the batch, in the terms of the steps.
LEMMA PendingIs ==
  ASSUME TypeOK
  PROVE  /\ pc = "idle" => Pending = Actions
         /\ pc \in {"dialog", "recheck", "refresh"} => Pending = ok
         /\ Started => Pending = waiting \cup InHand
<1>1. \A a \in Actions : a # 0
  BY DEF Actions
<1> QED
  BY <1>1 DEF Pending, Started, InHand, TypeOK

LEMMA PendingIsAfter ==
  ASSUME TypeOK'
  PROVE  /\ pc' = "idle" => Pending' = Actions
         /\ pc' \in {"dialog", "recheck", "refresh"} => Pending' = ok'
         /\ Started' => Pending' = waiting' \cup InHand'
<1>1. \A a \in Actions : a # 0
  BY DEF Actions
<1> QED
  BY <1>1 DEF Pending, Started, InHand, TypeOK

\* The world changes the machine only.
LEMMA WorldFrame ==
  World \/ AskStop =>
    /\ UNCHANGED <<scanned, pc, ok, waiting, current, executed, failed,
                   cancelled, refused, failedKeys, removedBrew, brewTouched,
                   before, after, verdicts>>
    /\ stop => stop'
<1>1. World => UNCHANGED <<scanned, stop, pc, ok, waiting, current, executed,
                          failed, cancelled, refused, failedKeys, removedBrew,
                          brewTouched, before, after, verdicts>>
  BY DEF World, Depart, Arrive, Replace, Surprise, outcome, books, report
<1>2. AskStop => UNCHANGED <<scanned, pc, ok, waiting, current, executed,
                            failed, cancelled, refused, failedKeys, removedBrew,
                            brewTouched, before, after, verdicts>>
  BY DEF AskStop, machine, outcome, books, report
<1>3. World => stop' = stop
  BY <1>1
<1>4. AskStop => stop'
  BY DEF AskStop
<1> QED
  BY <1>1, <1>2, <1>3, <1>4

LEMMA LocatedStep ==
  ASSUME TypeOK, TypeOK', Located, AccountedOnce, [Next]_vars
  PROVE  Located' /\ AccountedOnce'
<1> USE DEF machine, outcome, books, report
<1>1. CASE World \/ AskStop \/ UNCHANGED vars
  <2>1. UNCHANGED <<pc, ok, waiting, current, executed, failed, cancelled,
                    refused, failedKeys, removedBrew, brewTouched>>
    BY <1>1, WorldFrame DEF vars
  <2>2. Started' = Started /\ InHand' = InHand /\ Pending' = Pending
    BY <2>1 DEF Started, InHand, Pending
  <2> QED
    BY <2>1, <2>2 DEF Located, AccountedOnce
<1>2. ASSUME NEW gone \in SUBSET Actions, NEW unfit \in SUBSET Actions,
             OpenDialog(gone, unfit)
      PROVE  Located' /\ AccountedOnce'
  <2>1. Pending' = ok' /\ refused' = Actions \ ok' /\ ok' \subseteq Actions
    BY <1>2, PendingIsAfter DEF OpenDialog, TypeOK
  <2>2. ~Started /\ ~Started' /\ InHand' = {} /\ pc' = "dialog"
        /\ UNCHANGED <<executed, failed, cancelled, waiting, failedKeys,
                       removedBrew, brewTouched>>
    BY <1>2 DEF OpenDialog, Started, InHand
  <2> QED
    BY <2>1, <2>2 DEF Located, AccountedOnce
<1>3. CASE Confirm
  <2>1. Pending' = ok /\ Pending = ok /\ ~Started /\ ~Started' /\ InHand' = {}
        /\ InHand = {}
    BY <1>3, PendingIs, PendingIsAfter DEF Confirm, Started, InHand
  <2> QED
    BY <1>3, <2>1 DEF Confirm, Located, AccountedOnce
<1>4. CASE Decline
  <2>1. Pending' = Actions /\ ~Started /\ ~Started' /\ InHand' = {}
    BY <1>4, PendingIsAfter DEF Decline, Started, InHand
  <2> QED
    BY <1>4, <2>1 DEF Decline, Located, AccountedOnce
<1>5. ASSUME NEW lost \in SUBSET ok, Recheck(lost)
      PROVE  Located' /\ AccountedOnce'
  <2>1. Pending = ok /\ Pending' = ok' /\ ~Started /\ ~Started' /\ InHand' = {}
    BY <1>5, PendingIs, PendingIsAfter DEF Recheck, Started, InHand
  <2> QED
    BY <1>5, <2>1 DEF Recheck, Refuse, Located, AccountedOnce
<1>6. ASSUME NEW answers \in BOOLEAN, NEW stale \in SUBSET ok,
             Refresh(answers, stale)
      PROVE  Located' /\ AccountedOnce'
  <2>1. Pending = ok /\ Pending' = ok' /\ ~Started /\ Started' /\ InHand' = {}
    BY <1>6, PendingIs, PendingIsAfter DEF Refresh, Started, InHand
  <2>2. ok' \subseteq ok /\ waiting' = ok' /\ refused' = refused \cup (ok \ ok')
        /\ UNCHANGED <<executed, failed, cancelled>> /\ pc' = "loop"
    BY <1>6, FitIsPart DEF Refresh, Refuse
  <2> QED
    BY <2>1, <2>2 DEF Located, AccountedOnce
<1>7. ASSUME NEW a \in Actions,
             SkipStopped(a) \/ SkipOwner(a) \/ SkipRetained(a) \/ Announce(a)
      PROVE  Located' /\ AccountedOnce'
  <2>1. /\ pc = "loop" /\ a \in waiting /\ waiting' = waiting \ {a}
        /\ UNCHANGED <<executed, ok>>
        /\ \/ pc' = "loop" /\ cancelled' = cancelled \cup {a}
              /\ UNCHANGED <<failed, refused>>
           \/ pc' = "loop" /\ failed' = failed \cup {a}
              /\ UNCHANGED <<cancelled, refused>>
           \/ pc' = "loop" /\ refused' = refused \cup {a}
              /\ UNCHANGED <<cancelled, failed>>
           \/ pc' = "announced" /\ current' = a
              /\ UNCHANGED <<cancelled, failed, refused>>
    BY <1>7 DEF SkipStopped, SkipOwner, SkipRetained, Announce, Skip, Turn, Refuse
  <2>2. Pending = waiting /\ Started /\ Started' /\ InHand = {}
    BY <2>1, PendingIs DEF Started, InHand
  <2>3. Pending' = waiting' \cup InHand'
        /\ InHand' = IF pc' = "announced" THEN {a} ELSE {}
    BY <2>1, <2>2, PendingIsAfter DEF InHand
  <2> QED
    BY <2>1, <2>2, <2>3 DEF Located, AccountedOnce
<1>8. CASE Launch
  <2>1. Started /\ Started' /\ InHand' = InHand /\ InHand = {current}
        /\ UNCHANGED <<waiting, ok, executed, failed, cancelled, refused>>
        /\ pc' = "running"
    BY <1>8 DEF Launch, Started, InHand
  <2>2. Pending' = Pending
    BY <2>1, PendingIs, PendingIsAfter
  <2> QED
    BY <2>1, <2>2 DEF Located, AccountedOnce
<1>9. CASE CancelAnnounced \/ RefuseChanged \/ Succeed \/ Fail
  <2>1. /\ pc \in {"announced", "running"} /\ pc' = "loop"
        /\ UNCHANGED <<waiting, ok>>
        /\ \/ cancelled' = cancelled \cup {current}
              /\ UNCHANGED <<executed, failed, refused>>
           \/ refused' = refused \cup {current}
              /\ UNCHANGED <<executed, failed, cancelled>>
           \/ executed' = executed \cup {current}
              /\ UNCHANGED <<failed, cancelled, refused>>
           \/ failed' = failed \cup {current}
              /\ UNCHANGED <<executed, cancelled, refused>>
    BY <1>9 DEF CancelAnnounced, RefuseChanged, Succeed, Fail, Resume, Refuse
  <2>2. Started /\ Started' /\ InHand = {current} /\ InHand' = {}
    BY <2>1 DEF Started, InHand
  <2>3. Pending = waiting \cup {current} /\ Pending' = waiting
    BY <2>1, <2>2, PendingIs, PendingIsAfter
  <2> QED
    BY <2>1, <2>2, <2>3 DEF Located, AccountedOnce
<1>10. ASSUME NEW answers \in BOOLEAN, Verify(answers)
       PROVE  Located' /\ AccountedOnce'
  <2>1. /\ Started /\ Started' /\ InHand = {} /\ InHand' = {}
        /\ waiting = {} /\ pc' = "done"
        /\ UNCHANGED <<waiting, ok, executed, failed, cancelled, refused>>
    BY <1>10 DEF Verify, Started, InHand
  <2>2. Pending = {} /\ Pending' = {}
    BY <2>1, PendingIs, PendingIsAfter
  <2> QED
    BY <2>1, <2>2 DEF Located, AccountedOnce
<1> QED
  BY <1>1, <1>2, <1>3, <1>4, <1>5, <1>6, <1>7, <1>8, <1>9, <1>10
     DEF Next, Dialog, Batch, Done

LEMMA LocatedInit == Init => Located /\ AccountedOnce
  BY DEF Init, Located, AccountedOnce, Started, InHand, Pending

\* Each planned action is accounted for exactly once, in every state of a
\* batch over any plan.
THEOREM EachAccountedOnce == Spec => []AccountedOnce
<1>1. TypeOK /\ TypeOK' /\ Located /\ AccountedOnce /\ [Next]_vars
        => (Located /\ AccountedOnce)'
  BY LocatedStep
<1> QED
  BY <1>1, LocatedInit, TypeCorrect, PTL DEF Spec

\* No command starts after the user asked to stop.
THEOREM StopIsKept == Spec => StopHolds
<1>1. [Next]_vars => (stop /\ pc # "running" => pc' # "running")
  <2> SUFFICES ASSUME [Next]_vars, stop, pc # "running" PROVE pc' # "running"
    OBVIOUS
  <2>1. World \/ AskStop => pc' = pc
    BY WorldFrame
  <2> QED
    BY <2>1
       DEF Next, Dialog, Batch, OpenDialog, Confirm, Decline, Recheck, Refresh,
           SkipStopped, SkipOwner, SkipRetained, Skip, Announce, CancelAnnounced,
           RefuseChanged, Launch, StoppedMeanwhile, Succeed, Fail, Resume,
           Verify, Done, vars
<1> QED
  BY <1>1, PTL DEF Spec, StopHolds

-----------------------------------------------------------------------------
(* The graph the batch read, and the machine.                              *)

\* What was installed when the graph was read is in it, and what the batch
\* uninstalled is gone: whatever is neither gone nor new was seen.
GraphInv ==
  /\ removedBrew \cap (installed \ arrived) = {}
  /\ Started /\ Targets(ok) # {} => installed \ arrived \subseteq before.packages
  /\ pc = "announced" /\ Brew(current) =>
       Dependents(Plan[current].package, before.packages) \subseteq removedBrew
  /\ \A a \in executed : Brew(a) => brewTouched /\ Plan[a].package \in removedBrew
  /\ RemovalIsSeen

\* What the world and the commands do to the packages adds nothing but what
\* has arrived.
LEMMA NothingUnseen ==
  World \/ AskStop \/ Succeed \/ Fail =>
    installed' \ arrived' \subseteq installed \ arrived
<1>1. World => installed' \ arrived' \subseteq installed \ arrived
  BY DEF World, Depart, Arrive, Replace
<1>2. AskStop => installed' \ arrived' \subseteq installed \ arrived
  BY DEF AskStop, machine
<1>3. Succeed \/ Fail => installed' \ arrived' \subseteq installed \ arrived
  BY DEF Succeed, Fail, Removes, machine
<1> QED
  BY <1>1, <1>2, <1>3

LEMMA GraphStep ==
  ASSUME TypeOK, Located, Located', GraphInv, [Next]_vars
  PROVE  GraphInv'
<1> USE DEF machine, outcome, books, report
<1>1. CASE World \/ AskStop
  <2>1. /\ UNCHANGED <<pc, ok, current, executed, removedBrew, brewTouched,
                       before, verdicts>>
        /\ installed' \ arrived' \subseteq installed \ arrived
    BY <1>1, WorldFrame, NothingUnseen
  <2>2. pc # "done" /\ Started' = Started
    BY <1>1, <2>1 DEF World, Depart, Arrive, Replace, Surprise, AskStop, Started
  <2> QED
    BY <2>1, <2>2 DEF GraphInv, RemovalIsSeen
<1>2. ASSUME NEW gone, NEW unfit, OpenDialog(gone, unfit)
      PROVE  GraphInv'
  <2>1. ~Started /\ ~Started' /\ pc' = "dialog" /\ removedBrew' = {} /\ executed' = {}
    BY <1>2 DEF OpenDialog, Started, Located
  <2> QED
    BY <2>1 DEF GraphInv, RemovalIsSeen
<1>3. CASE Confirm \/ Decline \/ \E lost \in SUBSET ok : Recheck(lost)
  <2>1. ~Started /\ ~Started' /\ pc' \in {"idle", "recheck", "refresh"}
        /\ removedBrew' = {} /\ executed' = {}
    BY <1>3 DEF Confirm, Decline, Recheck, Started, Located
  <2> QED
    BY <2>1 DEF GraphInv, RemovalIsSeen
<1>4. ASSUME NEW answers \in BOOLEAN, NEW stale \in SUBSET ok,
             Refresh(answers, stale)
      PROVE  GraphInv'
  <2>1. ~Started /\ pc' = "loop" /\ removedBrew' = {} /\ executed' = {}
        /\ arrived' = {} /\ installed' = installed
    BY <1>4 DEF Refresh, Started, Located
  <2>2. \A a \in ok' : Brew(a) => Plan[a].package \in before'.packages
    BY <1>4, FitIsPart DEF Refresh
  <2>3. Targets(ok') # {} => before'.packages # {}
    BY <2>2 DEF Targets
  <2>4. before'.packages # {} => before'.packages = installed
    BY <1>4 DEF Refresh, Unread
  <2> QED
    BY <2>1, <2>3, <2>4 DEF GraphInv, RemovalIsSeen
<1>5. ASSUME NEW a \in Actions, SkipStopped(a) \/ SkipOwner(a) \/ SkipRetained(a)
      PROVE  GraphInv'
  <2>1. Started /\ pc' = "loop"
        /\ UNCHANGED <<installed, arrived, ok, executed, removedBrew, brewTouched, before>>
    BY <1>5 DEF SkipStopped, SkipOwner, SkipRetained, Skip, Started
  <2> QED
    BY <2>1 DEF GraphInv, RemovalIsSeen
<1>6. ASSUME NEW a \in Actions, Announce(a)
      PROVE  GraphInv'
  <2>1. Started /\ pc' = "announced" /\ current' = a
        /\ UNCHANGED <<installed, arrived, ok, executed, removedBrew, brewTouched, before>>
    BY <1>6 DEF Announce, Started
  <2>2. Brew(a) => Dependents(Plan[a].package, before.packages) \subseteq removedBrew
    BY <1>6 DEF Announce, Retained
  <2> QED
    BY <2>1, <2>2 DEF GraphInv, RemovalIsSeen
<1>7. CASE CancelAnnounced \/ RefuseChanged \/ Launch
  <2>1. Started /\ pc' \in {"loop", "running"}
        /\ UNCHANGED <<installed, arrived, ok, executed, removedBrew, brewTouched, before>>
    BY <1>7 DEF CancelAnnounced, RefuseChanged, Launch, Resume, Started
  <2> QED
    BY <2>1 DEF GraphInv, RemovalIsSeen
<1>8. CASE Succeed
  <2>1. Started /\ pc' = "loop" /\ UNCHANGED <<ok, before>>
        /\ removedBrew' = removedBrew \cup Targets({current})
        /\ executed' = executed \cup {current}
        /\ installed' \ arrived' \subseteq installed \ arrived
    BY <1>8, NothingUnseen DEF Succeed, Resume, Started
  <2>2. brewTouched => brewTouched'
    BY <1>8 DEF Succeed
  <2>3. Brew(current) => /\ brewTouched' /\ Plan[current].package \in removedBrew'
                         /\ Plan[current].package \notin installed'
    <3> SUFFICES ASSUME Brew(current)
                 PROVE  /\ brewTouched' /\ Plan[current].package \in removedBrew'
                        /\ Plan[current].package \notin installed'
      OBVIOUS
    <3>1. brewTouched'
      BY <1>8 DEF Succeed, Touches
    <3>2. Plan[current].package \in removedBrew'
      BY <2>1, TargetsType
    <3>3. Plan[current].package \notin installed'
      <4>1. current \in Actions
        BY <1>8 DEF Succeed, TypeOK
      <4> QED
        BY <1>8, <4>1 DEF Succeed, Removes, Brew, Destructive
    <3> QED
      BY <3>1, <3>2, <3>3
  <2>4. Targets({current}) = IF Brew(current) THEN {Plan[current].package} ELSE {}
    BY DEF Targets
  <2> QED
    BY <2>1, <2>2, <2>3, <2>4 DEF GraphInv, RemovalIsSeen, Started
<1>9. CASE Fail
  <2>1. Started /\ pc' = "loop" /\ UNCHANGED <<ok, before, executed, removedBrew, brewTouched>>
        /\ installed' \ arrived' \subseteq installed \ arrived
    BY <1>9, NothingUnseen DEF Fail, Resume, Started
  <2> QED
    BY <2>1 DEF GraphInv, RemovalIsSeen
<1>10. ASSUME NEW answers \in BOOLEAN, Verify(answers)
       PROVE  GraphInv'
  <2>1. Started /\ pc' = "done"
        /\ UNCHANGED <<installed, arrived, ok, executed, removedBrew, brewTouched, before>>
    BY <1>10 DEF Verify, Started
  <2>2. ASSUME NEW a \in executed, Brew(a), verdicts'[Plan[a].package] = "StillPresent"
        PROVE  Plan[a].package \in arrived
    <3>1. a \in ok /\ Plan[a].package \in Targets(ok)
      BY <2>2, TargetsType DEF Located
    <3>2. Plan[a].package \in after'.packages
      BY <1>10, <2>2, <3>1 DEF Verify
    <3>3. after'.packages \subseteq installed
      BY <1>10, <2>2 DEF Verify, GraphInv, Unread
    <3> QED
      BY <2>2, <3>2, <3>3 DEF GraphInv
  <2> QED
    BY <2>1, <2>2 DEF GraphInv, RemovalIsSeen
<1>11. CASE UNCHANGED vars
  BY <1>11 DEF vars, GraphInv, RemovalIsSeen, Started
<1> QED
  BY <1>1, <1>2, <1>3, <1>4, <1>5, <1>6, <1>7, <1>8, <1>9, <1>10, <1>11
     DEF Next, Dialog, Batch, Done

LEMMA GraphInit == Init => GraphInv
  BY DEF Init, GraphInv, RemovalIsSeen, Started

\* An uninstall starts only when nothing the batch could know of still needs
\* the package.
LEMMA LaunchIsSafe ==
  ASSUME Located, GraphInv, Launch, Brew(current)
  PROVE  Dependents(Plan[current].package, installed \ arrived) = {}
<1>1. pc = "announced"
  BY DEF Launch
<1>2. current \in ok /\ Plan[current].package \in Targets(ok) /\ Started
  BY <1>1, TargetsType DEF Located, InHand, Started
<1>3. installed \ arrived \subseteq before.packages
  BY <1>2 DEF GraphInv
<1>4. Dependents(Plan[current].package, installed \ arrived)
        \subseteq Dependents(Plan[current].package, before.packages)
  BY <1>3 DEF Dependents
<1>5. Dependents(Plan[current].package, installed \ arrived) \subseteq installed \ arrived
  BY DEF Dependents
<1> QED
  BY <1>1, <1>4, <1>5 DEF GraphInv

LEMMA OnlyLaunchLaunches ==
  ASSUME [Next]_vars, pc = "announced", pc' = "running"
  PROVE  Launch
<1>1. World \/ AskStop => pc' = pc
  BY WorldFrame
<1> QED
  BY <1>1
     DEF Next, Dialog, Batch, OpenDialog, Confirm, Decline, Recheck, Refresh,
         SkipStopped, SkipOwner, SkipRetained, Skip, Announce, CancelAnnounced,
         RefuseChanged, Succeed, Fail, Resume, Verify, Done, vars

LEMMA GraphHolds == Spec => [](Located /\ GraphInv)
<1>1. TypeOK /\ TypeOK' /\ (Located /\ AccountedOnce) /\ [Next]_vars
        => (Located /\ AccountedOnce)'
  BY LocatedStep
<1>2. TypeOK /\ Located /\ Located' /\ GraphInv /\ [Next]_vars => GraphInv'
  BY GraphStep
<1>3. Spec => [](Located /\ AccountedOnce)
  BY <1>1, LocatedInit, TypeCorrect, PTL DEF Spec
<1> QED
  BY <1>2, <1>3, GraphInit, TypeCorrect, PTL DEF Spec

\* No uninstall strands a package that the batch could know to need it.
THEOREM DependentsGoFirst == Spec => NoDependentStranded
<1>1. Located /\ GraphInv /\ [Next]_vars =>
        (pc = "announced" /\ pc' = "running" /\ Brew(current) =>
           Dependents(Plan[current].package, installed \ arrived) = {})
  BY LaunchIsSafe, OnlyLaunchLaunches
<1> QED
  BY <1>1, GraphHolds, PTL DEF Spec, NoDependentStranded

\* A package whose uninstall succeeded is not reported as still present,
\* unless somebody installed it again.
THEOREM SuccessIsSeen == Spec => []RemovalIsSeen
<1>1. GraphInv => RemovalIsSeen
  BY DEF GraphInv
<1> QED
  BY <1>1, GraphHolds, PTL

-----------------------------------------------------------------------------
(* The order of the loop, and the owners it bars.                          *)

\* Everything the loop has passed comes before what it has not; it was
\* executed, or its owner is barred, or the user had stopped the batch; and
\* the action in hand may run.
OwnersInv ==
  /\ cancelled # {} => stop
  /\ Started =>
       /\ \A a \in ok \ waiting, b \in waiting : Precedes(a, b)
       /\ \A a \in (ok \ waiting) \ InHand :
            a \in executed \cup cancelled \/ Owner(a) \in failedKeys
  /\ \A a \in InHand : cancelled = {} /\ Owner(a) \notin failedKeys
  /\ \A a \in InHand, b \in ok :
       b # a /\ Owner(b) = Owner(a) /\ Precedes(b, a) => b \in executed
  /\ OwnerInOrder

\* The order of the loop is settled with the actions in it.
LEMMA PrecedesStays ==
  ASSUME ok' = ok
  PROVE  \A a, b : Precedes(a, b)' <=> Precedes(a, b)
  BY DEF Precedes, Targets, Brew

LEMMA OwnersStep ==
  ASSUME TypeOK, Located, Located', OwnersInv, [Next]_vars
  PROVE  OwnersInv'
<1> USE DEF machine, outcome, books, report
<1>1. CASE World \/ AskStop \/ UNCHANGED vars
  <2>1. UNCHANGED <<pc, ok, waiting, current, executed, cancelled, failedKeys>>
        /\ (stop => stop')
    BY <1>1, WorldFrame DEF vars
  <2>2. Started' = Started /\ InHand' = InHand
    BY <2>1 DEF Started, InHand
  <2> QED
    BY <2>1, <2>2, PrecedesStays DEF OwnersInv, OwnerInOrder
<1>2. CASE Dialog \/ \E lost \in SUBSET ok : Recheck(lost)
  <2>1. ~Started /\ ~Started' /\ InHand' = {} /\ cancelled' = {} /\ executed' = {}
    BY <1>2 DEF Dialog, OpenDialog, Confirm, Decline, Recheck, Started, InHand,
                Located
  <2> QED
    BY <2>1 DEF OwnersInv, OwnerInOrder
<1>3. ASSUME NEW answers, NEW stale, Refresh(answers, stale)
      PROVE  OwnersInv'
  <2>1. waiting' = ok' /\ InHand' = {} /\ cancelled' = {} /\ executed' = {}
    BY <1>3 DEF Refresh, Started, InHand, Located
  <2> QED
    BY <2>1 DEF OwnersInv, OwnerInOrder
<1>4. ASSUME NEW a \in Actions, SkipStopped(a) \/ SkipOwner(a) \/ SkipRetained(a)
      PROVE  OwnersInv'
  <2>1. /\ pc = "loop" /\ pc' = "loop" /\ Turn(a) /\ waiting' = waiting \ {a}
        /\ UNCHANGED <<ok, executed, stop>>
        /\ \/ stop /\ cancelled' = cancelled \cup {a} /\ failedKeys' = failedKeys
           \/ Owner(a) \in failedKeys' /\ cancelled' = cancelled
              /\ failedKeys \subseteq failedKeys'
    BY <1>4 DEF SkipStopped, SkipOwner, SkipRetained, Skip, Bar
  <2>2. Started /\ Started' /\ InHand = {} /\ InHand' = {} /\ a \in waiting
    BY <2>1 DEF Started, InHand, Turn
  <2>3. \A b \in waiting' : Precedes(a, b)
    BY <2>1 DEF Turn
  <2> QED
    BY <2>1, <2>2, <2>3, PrecedesStays DEF OwnersInv, OwnerInOrder
<1>5. ASSUME NEW a \in Actions, Announce(a)
      PROVE  OwnersInv'
  <2>1. /\ pc = "loop" /\ pc' = "announced" /\ Turn(a) /\ waiting' = waiting \ {a}
        /\ current' = a /\ ~stop /\ Owner(a) \notin failedKeys
        /\ UNCHANGED <<ok, executed, stop, cancelled, failedKeys>>
    BY <1>5 DEF Announce
  <2>2. Started /\ Started' /\ InHand = {} /\ InHand' = {a} /\ a \in waiting
    BY <2>1 DEF Started, InHand, Turn
  <2>3. \A b \in waiting' : Precedes(a, b)
    BY <2>1 DEF Turn
  <2>4. cancelled = {}
    BY <2>1 DEF OwnersInv
  <2>5. ASSUME NEW b \in ok, b # a, Owner(b) = Owner(a), Precedes(b, a)
        PROVE  b \in executed
    <3>1. b \notin waiting
      BY <2>1, <2>3, <2>5, PrecedesAsymmetric DEF TypeOK
    <3> QED
      BY <2>1, <2>2, <2>4, <2>5, <3>1 DEF OwnersInv
  <2> QED
    BY <2>1, <2>2, <2>3, <2>4, <2>5, PrecedesStays DEF OwnersInv, OwnerInOrder
<1>6. CASE CancelAnnounced
  <2>1. pc = "announced" /\ pc' = "loop" /\ stop /\ cancelled' = cancelled \cup {current}
        /\ UNCHANGED <<ok, waiting, executed, stop, failedKeys>>
    BY <1>6 DEF CancelAnnounced, Resume, StoppedMeanwhile
  <2>2. Started /\ Started' /\ InHand = {current} /\ InHand' = {}
    BY <2>1 DEF Started, InHand
  <2> QED
    BY <2>1, <2>2, PrecedesStays DEF OwnersInv, OwnerInOrder
<1>7. CASE RefuseChanged \/ Fail
  <2>1. pc \in {"announced", "running"} /\ pc' = "loop"
        /\ failedKeys' = failedKeys \cup {Owner(current)}
        /\ UNCHANGED <<ok, waiting, executed, stop, cancelled>>
    BY <1>7 DEF RefuseChanged, Fail, Resume, Bar
  <2>2. Started /\ Started' /\ InHand = {current} /\ InHand' = {}
    BY <2>1 DEF Started, InHand
  <2> QED
    BY <2>1, <2>2, PrecedesStays DEF OwnersInv, OwnerInOrder
<1>8. CASE Launch
  <2>1. /\ UNCHANGED <<ok, waiting, executed, stop, cancelled, failedKeys, current>>
        /\ pc = "announced" /\ pc' = "running"
    BY <1>8 DEF Launch
  <2>2. Started /\ Started' /\ InHand' = InHand
    BY <2>1 DEF Started, InHand
  <2> QED
    BY <2>1, <2>2, PrecedesStays DEF OwnersInv, OwnerInOrder
<1>9. CASE Succeed
  <2>1. pc = "running" /\ pc' = "loop" /\ executed' = executed \cup {current}
        /\ UNCHANGED <<ok, waiting, stop, cancelled, failedKeys>>
    BY <1>9 DEF Succeed, Resume
  <2>2. Started /\ Started' /\ InHand = {current} /\ InHand' = {}
    BY <2>1 DEF Started, InHand
  <2> QED
    BY <2>1, <2>2, PrecedesStays DEF OwnersInv, OwnerInOrder
<1>10. ASSUME NEW answers, Verify(answers)
       PROVE  OwnersInv'
  <2>1. pc = "loop" /\ pc' = "done"
        /\ UNCHANGED <<ok, waiting, executed, stop, cancelled, failedKeys>>
    BY <1>10 DEF Verify
  <2>2. Started /\ Started' /\ InHand = {} /\ InHand' = {}
    BY <2>1 DEF Started, InHand
  <2> QED
    BY <2>1, <2>2, PrecedesStays DEF OwnersInv, OwnerInOrder
<1> QED
  BY <1>1, <1>2, <1>3, <1>4, <1>5, <1>6, <1>7, <1>8, <1>9, <1>10
     DEF Next, Batch, Done

LEMMA OwnersInit == Init => OwnersInv
  BY DEF Init, OwnersInv, OwnerInOrder, Started, InHand

LEMMA OwnersHold == Spec => []OwnersInv
<1>1. TypeOK /\ Located /\ Located' /\ OwnersInv /\ [Next]_vars => OwnersInv'
  BY OwnersStep
<1> QED
  BY <1>1, OwnersInit, GraphHolds, TypeCorrect, PTL DEF Spec

\* Steps on one installation run in the order of the loop or not at all.
THEOREM OwnersInOrder == Spec => []OwnerInOrder
<1>1. OwnersInv => OwnerInOrder
  BY DEF OwnersInv
<1> QED
  BY <1>1, OwnersHold, PTL

-----------------------------------------------------------------------------
(* Overlapping targets.                                                    *)

\* Two actions with a target in common are of one remedy and do not both
\* delete it.
Compatible(a, b) == SameFinding(a, b) /\ ~BothDelete(a, b)

\* What the dialog lets pass is compatible, and nothing joins it later.
ApartInv == \A a, b \in ok : a # b /\ <<a, b>> \in Clash => Compatible(a, b)

LEMMA ApartStep ==
  ASSUME TypeOK, ApartInv, [Next]_vars
  PROVE  ApartInv'
<1>1. ASSUME NEW gone \in SUBSET Actions, NEW unfit \in SUBSET Actions,
             OpenDialog(gone, unfit)
      PROVE  ApartInv'
  <2>1. PICK kept \in SUBSET Actions :
          /\ kept = {a \in Actions : Keeps(a, {b \in kept : b < a}, gone, unfit)}
          /\ ok' = Fit(kept, scanned)
    BY <1>1 DEF OpenDialog
  <2>2. \A a \in kept, b \in kept :
          b < a /\ Collide(a, b) => Compatible(a, b) /\ Compatible(b, a)
    BY <2>1 DEF Keeps, Overlaps, Compatible, SameFinding, BothDelete
  <2>3. \A a \in Actions, b \in Actions : a # b => a < b \/ b < a
    BY DEF Actions
  <2>4. ok' \subseteq kept
    BY <2>1, FitIsPart
  <2> QED
    BY <2>2, <2>3, <2>4 DEF ApartInv, Collide
<1>2. ASSUME NEW answers, NEW stale, Refresh(answers, stale)
      PROVE  ApartInv'
  <2>1. ok' \subseteq ok
    BY <1>2, FitIsPart DEF Refresh
  <2> QED
    BY <2>1 DEF ApartInv
<1>3. ASSUME NEW lost, Recheck(lost)
      PROVE  ApartInv'
  BY <1>3 DEF Recheck, ApartInv
<1>4. CASE Decline
  BY <1>4 DEF Decline, ApartInv
<1>5. CASE World \/ AskStop
  <2>1. ok' = ok
    BY <1>5, WorldFrame
  <2> QED
    BY <2>1 DEF ApartInv
<1>6. ASSUME ok' = ok PROVE ApartInv'
  BY <1>6 DEF ApartInv
<1> QED
  BY <1>1, <1>2, <1>3, <1>4, <1>5, <1>6
     DEF Next, Dialog, Batch, Confirm, SkipStopped, SkipOwner, SkipRetained, Skip,
         Announce, CancelAnnounced, RefuseChanged, Launch, Succeed, Fail, Resume,
         Verify, Done, vars

\* A target is acted upon on behalf of one finding and deleted once: what was
\* executed with overlapping targets are steps of one remedy, of which at
\* most one deletes them.
THEOREM TargetsHitOnce == Spec => []TargetHitOnce
<1>1. Init => ApartInv
  BY DEF Init, ApartInv
<1>2. TypeOK /\ ApartInv /\ [Next]_vars => ApartInv'
  BY ApartStep
<1>3. ApartInv /\ Located => TargetHitOnce
  BY DEF ApartInv, Compatible, Located, TargetHitOnce
<1> QED
  BY <1>1, <1>2, <1>3, TypeCorrect, GraphHolds, PTL DEF Spec

-----------------------------------------------------------------------------
(* The rounds of the removal order.                                        *)

\* A set of numbers that is not empty has a least element.
LEMMA LeastNumber ==
  ASSUME NEW T \in SUBSET Nat, T # {}
  PROVE  \E n \in T : \A m \in T : n <= m
<1>1. PICK x \in T : \A y \in T : ~ (<<y, x>> \in OpToRel(<, Nat))
  BY NatLessThanWellFounded, WFMin
<1>2. \A y \in T : ~(y < x)
  BY <1>1 DEF OpToRel
<1> QED
  BY <1>2

\* A property that holds at first and at every next number holds at all.
LEMMA NumbersAll ==
  ASSUME NEW T \in SUBSET Nat, 0 \in T, \A n \in T : n + 1 \in T
  PROVE  T = Nat
<1>1. SUFFICES ASSUME Nat \ T # {} PROVE FALSE
  OBVIOUS
<1>2. PICK n \in Nat \ T : \A m \in Nat \ T : n <= m
  BY <1>1, LeastNumber
<1>3. n - 1 \in Nat /\ n - 1 \in T
  BY <1>2
<1> QED
  BY <1>2, <1>3

\* What the rounds of the removal order leave, as a function of their number.
Descends(f, removing) ==
  f = [n \in Nat |-> IF n = 0 THEN removing ELSE f[n - 1] \ Ready(f[n - 1])]

Left(removing) ==
  LET left[n \in Nat] ==
        IF n = 0 THEN removing ELSE left[n - 1] \ Ready(left[n - 1])
  IN left

LEMMA LeftFor ==
  ASSUME NEW removing, \E f : Descends(f, removing)
  PROVE  Descends(Left(removing), removing)
BY DEF Descends, Left

LEMMA RoundBy ==
  ASSUME NEW p, NEW removing
  PROVE  Round(p, removing) = Cardinality({n \in 0..Cardinality(removing) : p \in Left(removing)[n]})
BY DEF Left, Round

\* The first rounds, up to the n-th, in a function of any domain that has them.
Rounds(g, n, removing) ==
  /\ g[0] = removing
  /\ \A i \in Nat : i < n => g[i + 1] = g[i] \ Ready(g[i])

LEMMA RoundsExist ==
  ASSUME NEW removing, NEW n \in Nat
  PROVE  \E g : Rounds(g, n, removing)
<1> DEFINE T == {k \in Nat : \E g : Rounds(g, k, removing)}
<1>1. 0 \in T
  <2> DEFINE g == [i \in Nat |-> removing]
  <2>1. Rounds(g, 0, removing)
    BY DEF Rounds
  <2> QED
    BY <2>1
<1>2. ASSUME NEW k \in T PROVE k + 1 \in T
  <2>1. PICK g : Rounds(g, k, removing)
    OBVIOUS
  <2> DEFINE h == [i \in Nat |-> IF i = k + 1 THEN g[k] \ Ready(g[k]) ELSE g[i]]
  <2>2. k \in Nat /\ k + 1 \in Nat
    OBVIOUS
  <2>3. h[k + 1] = g[k] \ Ready(g[k])
    BY <2>2
  <2>4. \A i \in Nat : i # k + 1 => h[i] = g[i]
    OBVIOUS
  <2> HIDE DEF h
  <2>5. h[0] = removing
    BY <2>1, <2>2, <2>4 DEF Rounds
  <2>6. ASSUME NEW i \in Nat, i < k + 1
        PROVE  h[i + 1] = h[i] \ Ready(h[i])
    <3>1. h[i] = g[i]
      BY <2>2, <2>4, <2>6
    <3>2. CASE i = k
      BY <2>3, <3>1, <3>2
    <3>3. CASE i < k
      <4>1. h[i + 1] = g[i + 1]
        BY <2>2, <2>4, <3>3
      <4> QED
        BY <2>1, <3>1, <3>3, <4>1 DEF Rounds
    <3> QED
      BY <2>2, <2>6, <3>2, <3>3
  <2>7. Rounds(h, k + 1, removing)
    BY <2>5, <2>6 DEF Rounds
  <2> QED
    BY <2>2, <2>7
<1>3. T = Nat
  <2>1. T \in SUBSET Nat
    OBVIOUS
  <2> HIDE DEF T
  <2> QED
    BY <1>1, <1>2, <2>1, NumbersAll
<1> QED
  BY <1>3

LEMMA RoundsAgree ==
  ASSUME NEW removing, NEW n \in Nat, NEW m \in Nat, n <= m, NEW g, NEW h,
         Rounds(g, n, removing), Rounds(h, m, removing)
  PROVE  g[n] = h[n]
<1> DEFINE T == {i \in Nat : i <= n => g[i] = h[i]}
<1>1. 0 \in T
  BY DEF Rounds
<1>2. ASSUME NEW i \in T PROVE i + 1 \in T
  <2>1. CASE i + 1 <= n
    <3>1. i < n /\ i < m /\ g[i] = h[i]
      BY <2>1
    <3>2. g[i + 1] = g[i] \ Ready(g[i]) /\ h[i + 1] = h[i] \ Ready(h[i])
      BY <3>1 DEF Rounds
    <3> QED
      BY <3>1, <3>2
  <2> QED
    BY <2>1
<1>3. T = Nat
  <2>1. T \in SUBSET Nat
    OBVIOUS
  <2> HIDE DEF T
  <2> QED
    BY <1>1, <1>2, <2>1, NumbersAll
<1> QED
  BY <1>3

\* The rounds of the removal order, one after the other.
LEMMA LeftIs ==
  ASSUME NEW removing
  PROVE  /\ Left(removing)[0] = removing
         /\ \A n \in Nat :
              Left(removing)[n + 1] = Left(removing)[n] \ Ready(Left(removing)[n])
<1> DEFINE C(n) == CHOOSE g : Rounds(g, n, removing)
           f == [n \in Nat |-> C(n)[n]]
<1>1. ASSUME NEW n \in Nat PROVE Rounds(C(n), n, removing)
  BY RoundsExist
<1>2. f[0] = removing
  BY <1>1 DEF Rounds
<1>3. ASSUME NEW n \in Nat PROVE f[n + 1] = f[n] \ Ready(f[n])
  <2>1. Rounds(C(n), n, removing) /\ Rounds(C(n + 1), n + 1, removing)
    BY <1>1
  <2>2. f[n] = C(n)[n] /\ f[n + 1] = C(n + 1)[n + 1]
    OBVIOUS
  <2> HIDE DEF C, f
  <2>3. C(n)[n] = C(n + 1)[n]
    BY <2>1, RoundsAgree
  <2>4. C(n + 1)[n + 1] = C(n + 1)[n] \ Ready(C(n + 1)[n])
    BY <2>1 DEF Rounds
  <2> QED
    BY <2>2, <2>3, <2>4
<1>4. f = [n \in Nat |-> IF n = 0 THEN removing ELSE f[n - 1] \ Ready(f[n - 1])]
  <2>1. ASSUME NEW n \in Nat
        PROVE  f[n] = IF n = 0 THEN removing ELSE f[n - 1] \ Ready(f[n - 1])
    <3>1. CASE n = 0
      BY <1>2, <3>1
    <3>2. CASE n # 0
      <4>1. n - 1 \in Nat /\ (n - 1) + 1 = n
        BY <3>2
      <4> HIDE DEF f
      <4>2. f[(n - 1) + 1] = f[n - 1] \ Ready(f[n - 1])
        BY <1>3, <4>1
      <4> QED
        BY <3>2, <4>1, <4>2
    <3> QED
      BY <3>1, <3>2
  <2> DEFINE e == [n \in Nat |-> IF n = 0 THEN removing ELSE f[n - 1] \ Ready(f[n - 1])]
  <2>2. f = [n \in Nat |-> f[n]]
    OBVIOUS
  <2> HIDE DEF f
  <2>3. \A n \in Nat : e[n] = f[n]
    BY <2>1
  <2> QED
    BY <2>1, <2>2
<1>5. Descends(Left(removing), removing)
  <2>1. Descends(f, removing)
    BY <1>4 DEF Descends
  <2> HIDE DEF f
  <2> QED
    BY <2>1, LeftFor
<1>6. ASSUME NEW n \in Nat
      PROVE  Left(removing)[n] = IF n = 0 THEN removing
                ELSE Left(removing)[n - 1] \ Ready(Left(removing)[n - 1])
  <2> DEFINE l == Left(removing)
  <2> HIDE DEF l
  <2>1. l = [k \in Nat |-> IF k = 0 THEN removing ELSE l[k - 1] \ Ready(l[k - 1])]
    BY <1>5 DEF Descends, l
  <2>2. l[n] = IF n = 0 THEN removing ELSE l[n - 1] \ Ready(l[n - 1])
    BY <2>1
  <2> QED
    BY <2>2 DEF l
<1>7. ASSUME NEW n \in Nat
      PROVE  Left(removing)[n + 1] = Left(removing)[n] \ Ready(Left(removing)[n])
  <2>1. n + 1 \in Nat /\ n + 1 # 0 /\ (n + 1) - 1 = n
    OBVIOUS
  <2> QED
    BY <1>6, <2>1
<1> QED
  BY <1>6, <1>7

\* Without a cycle a round takes out the packages nothing left depends on, and
\* it takes out at least one.
LEMMA ReadyIs ==
  ASSUME Acyclic, NEW left \in SUBSET Packages
  PROVE  /\ Ready(left) = {p \in left : Dependents(p, left) = {}}
         /\ left # {} => Ready(left) # {}
<1> DEFINE free == {p \in left : Dependents(p, left) = {}}
<1>1. left # {} => free # {}
  BY DEF Acyclic
<1>2. Ready(left) = free
  BY <1>1 DEF Ready
<1> QED
  BY <1>1, <1>2

\* The rounds take out of what is to be removed, until nothing is left.
LEMMA LeftShrinks ==
  ASSUME Acyclic, NEW removing \in SUBSET Packages
  PROVE  /\ \A n \in Nat : Left(removing)[n] \subseteq removing
         /\ Left(removing)[Cardinality(removing)] = {}
<1> DEFINE L(n) == Left(removing)[n]
           Fits(n) == /\ L(n) \subseteq removing
                      /\ L(n) = {} \/ Cardinality(L(n)) + n <= Cardinality(removing)
           T == {n \in Nat : Fits(n)}
<1>1. L(0) = removing /\ \A n \in Nat : L(n + 1) = L(n) \ Ready(L(n))
  BY LeftIs
<1>2. /\ IsFiniteSet(removing)
      /\ \A s \in SUBSET removing : IsFiniteSet(s) /\ Cardinality(s) \in Nat
  BY PackageAssumption, FS_Subset, FS_CardinalityType
<1> HIDE DEF L
<1>3. 0 \in T
  BY <1>1, <1>2
<1>4. ASSUME NEW n \in T PROVE n + 1 \in T
  <2>1. L(n) \subseteq removing /\ L(n) \in SUBSET Packages
    OBVIOUS
  <2>2. L(n + 1) = L(n) \ Ready(L(n)) /\ L(n + 1) \subseteq removing
    BY <1>1, <2>1
  <2>3. CASE L(n + 1) = {}
    BY <2>2, <2>3
  <2>4. CASE L(n + 1) # {}
    <3>1. L(n) # {} /\ Cardinality(L(n)) + n <= Cardinality(removing)
      BY <2>2, <2>4
    <3>2. Ready(L(n)) # {} /\ Ready(L(n)) \subseteq L(n)
      BY <2>1, <3>1, ReadyIs
    <3>3. L(n + 1) \subseteq L(n) /\ L(n + 1) # L(n)
      BY <2>2, <3>2
    <3>4. IsFiniteSet(L(n)) /\ Cardinality(L(n)) \in Nat /\ Cardinality(L(n + 1)) \in Nat
          /\ Cardinality(removing) \in Nat
      BY <1>2, <2>1, <2>2
    <3>5. Cardinality(L(n + 1)) < Cardinality(L(n))
      BY <3>3, <3>4, FS_Subset
    <3>6. Cardinality(L(n + 1)) + (n + 1) <= Cardinality(removing)
      BY <3>1, <3>4, <3>5
    <3> QED
      BY <2>2, <3>6
  <2> QED
    BY <2>3, <2>4
<1>5. T = Nat
  <2>1. T \in SUBSET Nat
    OBVIOUS
  <2> HIDE DEF T
  <2> QED
    BY <1>3, <1>4, <2>1, NumbersAll
<1>6. L(Cardinality(removing)) = {}
  <2>1. Cardinality(removing) \in Nat
    BY <1>2
  <2>2. Fits(Cardinality(removing))
    BY <1>5, <2>1
  <2>3. SUFFICES ASSUME L(Cardinality(removing)) # {} PROVE FALSE
    OBVIOUS
  <2> DEFINE last == L(Cardinality(removing))
  <2>4. IsFiniteSet(last) /\ Cardinality(last) \in Nat
    BY <1>2, <2>2
  <2>5. Cardinality(last) = 0
    BY <2>1, <2>2, <2>3, <2>4
  <2> QED
    BY <2>3, <2>4, <2>5, FS_EmptySet
<1>7. \A n \in Nat : L(n) \subseteq removing
  BY <1>5
<1> QED
  BY <1>6, <1>7 DEF L

\* Without a cycle a package is taken out in an earlier round than what it
\* depends on.
THEOREM DependentsFirst ==
  ASSUME Acyclic, NEW removing \in SUBSET Packages, NEW p \in removing,
         NEW d \in Dependents(p, removing)
  PROVE  Round(d, removing) < Round(p, removing)
<1> DEFINE L(n) == Left(removing)[n]
           N == Cardinality(removing)
           Rd == {n \in 0..N : d \in L(n)}
           Rp == {n \in 0..N : p \in L(n)}
<1>1. L(0) = removing /\ \A n \in Nat : L(n + 1) = L(n) \ Ready(L(n))
  BY LeftIs
<1>2. (\A n \in Nat : L(n) \in SUBSET Packages) /\ L(N) = {}
  BY LeftShrinks
<1>3. N \in Nat
  BY PackageAssumption, FS_Subset, FS_CardinalityType
<1>4. Round(d, removing) = Cardinality(Rd) /\ Round(p, removing) = Cardinality(Rp)
  BY RoundBy
<1> HIDE DEF L, N
<1>5. d \in removing /\ <<d, p>> \in Needs
  BY DEF Dependents
<1>6. ASSUME NEW n \in Nat, d \in L(n), p \in L(n) PROVE p \in L(n + 1)
  <2>1. d \in Dependents(p, L(n))
    BY <1>5, <1>6 DEF Dependents
  <2>2. p \notin Ready(L(n))
    BY <1>2, <2>1, ReadyIs
  <2> QED
    BY <1>1, <1>6, <2>2
<1>7. \A n \in Nat : d \in L(n) => p \in L(n)
  <2> DEFINE T == {n \in Nat : d \in L(n) => p \in L(n)}
  <2>1. 0 \in T
    BY <1>1
  <2>2. ASSUME NEW n \in T PROVE n + 1 \in T
    BY <1>1, <1>6
  <2>3. T = Nat
    <3>1. T \in SUBSET Nat
      OBVIOUS
    <3> HIDE DEF T
    <3> QED
      BY <2>1, <2>2, <3>1, NumbersAll
  <2> QED
    BY <2>3
<1>8. PICK m \in Nat : /\ d \notin L(m)
                      /\ \A n \in Nat : d \notin L(n) => m <= n
  <2> DEFINE T == {n \in Nat : d \notin L(n)}
  <2>1. N \in T
    BY <1>2, <1>3
  <2>2. \E n \in T : \A k \in T : n <= k
    <3>1. T \in SUBSET Nat /\ T # {}
      BY <2>1
    <3> HIDE DEF T
    <3> QED
      BY <3>1, LeastNumber
  <2> QED
    BY <2>2
<1>9. m # 0 /\ m - 1 \in Nat /\ (m - 1) + 1 = m /\ m <= N
  BY <1>1, <1>2, <1>3, <1>5, <1>8
<1>10. d \in L(m - 1) /\ p \in L(m - 1)
  BY <1>7, <1>8, <1>9
<1>11. p \in L(m)
  BY <1>6, <1>9, <1>10
<1>12. m \in Rp /\ m \notin Rd /\ Rd \subseteq Rp
  BY <1>3, <1>7, <1>8, <1>9, <1>11
<1>13. IsFiniteSet(Rp)
  <2>1. IsFiniteSet(0..N)
    BY <1>3, FS_Interval
  <2>2. Rp \subseteq 0..N
    OBVIOUS
  <2> QED
    BY <2>1, <2>2, FS_Subset
<1> HIDE DEF Rd, Rp
<1>14. Cardinality(Rd) \in Nat /\ Cardinality(Rp) \in Nat /\ Cardinality(Rd) < Cardinality(Rp)
  <2>1. IsFiniteSet(Rd)
    BY <1>12, <1>13, FS_Subset
  <2>2. Cardinality(Rd) \in Nat /\ Cardinality(Rp) \in Nat
    BY <1>13, <2>1, FS_CardinalityType
  <2>3. Cardinality(Rd) <= Cardinality(Rp) /\ Rd # Rp
    BY <1>12, <1>13, FS_Subset
  <2>4. Cardinality(Rd) = Cardinality(Rp) => Rd = Rp
    BY <1>12, <1>13, FS_Subset
  <2> QED
    BY <2>2, <2>3, <2>4
<1> QED
  BY <1>4, <1>14

-----------------------------------------------------------------------------
(* The order of the loop and its check for retained dependents.            *)

\* What needed a package of the batch when it read the graph is in the batch.
Closed ==
  Started =>
    \A a \in ok : Brew(a) =>
      Dependents(Plan[a].package, before.packages) \subseteq Targets(ok)

LEMMA FitIsClosed ==
  ASSUME NEW as, NEW graph, NEW a \in Fit(as, graph), Brew(a)
  PROVE  Dependents(Plan[a].package, graph) \subseteq Targets(Fit(as, graph))
<1>1. PICK s \in SUBSET (Targets(as) \cap graph) :
        /\ Plan[a].package \in s
        /\ \A p \in s : Dependents(p, graph) \subseteq s
  BY DEF Fit, Removable
<1>2. s \subseteq Removable(Targets(as), graph)
  BY <1>1 DEF Removable
<1>3. ASSUME NEW d \in s PROVE d \in Targets(Fit(as, graph))
  <2>1. PICK b \in as : Brew(b) /\ Plan[b].package = d
    BY <1>1, <1>3 DEF Targets
  <2>2. b \in Fit(as, graph)
    BY <1>2, <1>3, <2>1 DEF Fit
  <2> QED
    BY <2>1, <2>2 DEF Targets
<1> QED
  BY <1>1, <1>3

LEMMA ClosedStep ==
  ASSUME Closed, [Next]_vars
  PROVE  Closed'
<1>1. ASSUME NEW answers, NEW stale, Refresh(answers, stale)
      PROVE  Closed'
  <2>1. PICK held : ok' = Fit(held, before'.packages)
    BY <1>1 DEF Refresh
  <2>2. \A a \in Fit(held, before'.packages) : Brew(a) =>
          Dependents(Plan[a].package, before'.packages)
            \subseteq Targets(Fit(held, before'.packages))
    BY FitIsClosed
  <2> QED
    BY <2>1, <2>2 DEF Closed, Targets, Dependents, Brew
<1>2. CASE Dialog \/ \E lost \in SUBSET ok : Recheck(lost)
  <2>1. ~Started'
    BY <1>2 DEF Dialog, OpenDialog, Confirm, Decline, Recheck, Started
  <2> QED
    BY <2>1 DEF Closed
<1>3. ASSUME ok' = ok, before' = before, Started' => Started
      PROVE  Closed'
  BY <1>3 DEF Closed, Targets, Dependents, Brew
<1>4. CASE World \/ AskStop \/ UNCHANGED vars
  <2>1. ok' = ok /\ before' = before /\ pc' = pc
    BY <1>4, WorldFrame DEF vars
  <2> QED
    BY <1>3, <2>1 DEF Started
<1>5. CASE \/ \E a \in Actions : SkipStopped(a) \/ SkipOwner(a) \/ SkipRetained(a) \/ Announce(a)
           \/ CancelAnnounced \/ RefuseChanged \/ Launch \/ Succeed \/ Fail
           \/ \E answers \in BOOLEAN : Verify(answers)
  <2>1. ok' = ok /\ before' = before /\ Started
    BY <1>5 DEF SkipStopped, SkipOwner, SkipRetained, Announce, Skip, CancelAnnounced,
                RefuseChanged, Launch, Succeed, Fail, Resume, Verify, Started
  <2> QED
    BY <1>3, <2>1
<1> QED
  BY <1>1, <1>2, <1>4, <1>5 DEF Next, Batch, Done

\* As long as no owner is barred and no stop was asked for, what the loop comes
\* to next has no dependent that was not uninstalled: the dependent is in the
\* batch, and its round is an earlier one.
LEMMA NoneRetained ==
  ASSUME Acyclic, TypeOK, Located, GraphInv, OwnersInv, Closed,
         NEW a \in Actions, pc = "loop", Turn(a), Brew(a), ~stop, failedKeys = {}
  PROVE  Retained(Plan[a].package) = {}
<1> DEFINE p == Plan[a].package
<1>1. SUFFICES ASSUME NEW d \in Retained(p) PROVE FALSE
  OBVIOUS
<1>2. d \in Dependents(p, before.packages) /\ d \notin removedBrew
  BY <1>1 DEF Retained
<1>3. Started /\ InHand = {} /\ a \in waiting /\ a \in ok
  BY DEF Started, InHand, Turn, Located
<1>4. Targets(ok) \subseteq Packages /\ p \in Targets(ok)
  BY <1>3, TargetsType DEF TypeOK
<1>5. d \in Targets(ok)
  BY <1>2, <1>3 DEF Closed
<1>6. PICK b \in ok : Brew(b) /\ Plan[b].package = d
  BY <1>5 DEF Targets
<1>7. b \in waiting
  <2>1. cancelled = {}
    BY DEF OwnersInv
  <2>2. b \notin executed
    BY <1>2, <1>6 DEF GraphInv
  <2> QED
    BY <1>3, <1>6, <2>1, <2>2 DEF OwnersInv
<1>8. Round(d, Targets(ok)) < Round(p, Targets(ok))
  <2>1. d \in Dependents(p, Targets(ok))
    BY <1>2, <1>5 DEF Dependents
  <2> HIDE DEF p
  <2> QED
    BY <1>4, <2>1, DependentsFirst
<1>9. Round(d, Targets(ok)) \in Nat /\ Round(p, Targets(ok)) \in Nat
  BY <1>4, RoundType
<1>10. d # p
  BY <1>8, <1>9
<1>11. Precedes(a, b)
  BY <1>6, <1>7, <1>10 DEF Turn
<1>12. Phase(a) = 0 /\ Phase(b) = 0
  BY <1>6 DEF Phase, Brew
<1> QED
  BY <1>6, <1>8, <1>9, <1>10, <1>11, <1>12 DEF Precedes

\* Where no packages need each other in circles, the loop refuses a package
\* for a dependent of the batch only after something failed or was refused.
THEOREM RefusalsAreEarned == Acyclic => (Spec => RefusalIsEarned)
<1> SUFFICES ASSUME Acyclic PROVE Spec => RefusalIsEarned
  OBVIOUS
<1>1. TypeOK /\ Located /\ GraphInv /\ OwnersInv /\ Closed /\ [Next]_vars =>
        (pc = "loop" /\ refused' # refused => failedKeys # {})
  <2> SUFFICES ASSUME TypeOK, Located, GraphInv, OwnersInv, Closed, [Next]_vars,
                      pc = "loop", refused' # refused, failedKeys = {}
               PROVE  FALSE
    OBVIOUS
  <2>1. \E a \in Actions : SkipRetained(a)
    <3>1. ~(World \/ AskStop \/ UNCHANGED vars)
      BY WorldFrame DEF vars, outcome
    <3> QED
      BY <3>1
         DEF Next, Dialog, Batch, OpenDialog, Confirm, Decline, Recheck, Refresh,
             SkipStopped, SkipOwner, Skip, Announce, CancelAnnounced, RefuseChanged,
             Launch, Succeed, Fail, Resume, Verify, Done, outcome
  <2>2. PICK a \in Actions : SkipRetained(a)
    BY <2>1
  <2>3. Turn(a) /\ Brew(a) /\ ~stop /\ Retained(Plan[a].package) # {}
    BY <2>2 DEF SkipRetained, Skip
  <2> QED
    BY <2>3, NoneRetained
<1>2. Init => Closed
  BY DEF Init, Closed, Started
<1>3. Closed /\ [Next]_vars => Closed'
  BY ClosedStep
<1>4. Spec => []Closed
  BY <1>2, <1>3, PTL DEF Spec
<1> QED
  BY <1>1, <1>4, TypeCorrect, GraphHolds, OwnersHold, PTL DEF Spec, RefusalIsEarned

=============================================================================
