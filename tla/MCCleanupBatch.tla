--------------------------- MODULE MCCleanupBatch ---------------------------
(***************************************************************************)
(* A library (1) and a program that needs it (2), planned in the order     *)
(* that does not work; packages 3 and 4, which are in nobody's plan, may   *)
(* come and need them.  A service that is unloaded and whose file is then  *)
(* deleted, two steps of one finding; and a launcher that is trashed and   *)
(* overlaps with that file.                                                *)
(***************************************************************************)
EXTENDS CleanupBatch

\* An action of a finding of its own, which is its owner too.
Step(kind, owner, command, package) ==
  [kind |-> kind, finding |-> owner, deletes |-> FALSE, owner |-> owner,
   command |-> command, package |-> package]

Deleting(step) == [step EXCEPT !.deletes = TRUE]

Formulas == 1..4
Dependencies == {<<2, 1>>, <<3, 1>>, <<3, 2>>, <<4, 1>>}

MixedPlan ==
  << Step("brew", 11, 1, 1), Deleting(Step("launcher", 13, 2, NoPackage)),
     Step("brew", 12, 3, 2), Step("plain", 14, 4, NoPackage),
     Deleting(Step("plain", 14, 5, NoPackage)) >>
Overlapping == {<<4, 2>>, <<5, 2>>, <<5, 4>>}

\* A batch of packages and something to copy to the clipboard.
PackagePlan ==
  << Step("brew", 11, 1, 1), Step("brew", 13, 2, 3), Step("brew", 12, 3, 2),
     Step("aside", 14, 4, NoPackage) >>

\* What the theorem about RefusalIsEarned supposes is so here.
ASSUME CircleFree == Acyclic
=============================================================================
