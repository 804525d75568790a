---------------------------- MODULE MemoryBudget ----------------------------
(***************************************************************************)
(* The memory budget that inventories, queries, walks and the discovery    *)
(* pipe share (MemoryBudget and Reservation, src/src/inventory.rs).  One   *)
(* atomic counter is charged with a load and a compare-and-exchange that   *)
(* is tried again while it fails; a charge that does not fit has the       *)
(* reclaimers drop what is disposable and is tried once more.              *)
(*                                                                         *)
(* A holder is a Reservation: its bytes belong to whoever has it, the      *)
(* counter and the peak to everybody.  This module has the steps; Client   *)
(* modules say who charges what, and RepoPipe runs them.                   *)
(***************************************************************************)
EXTENDS Integers, FiniteSets

CONSTANTS
  Holders,
  Disposable,   \* the holders that a reclaimer may empty
  Limit

ASSUME BudgetAssumption == Limit \in Nat /\ Disposable \subseteq Holders

VARIABLES
  used,   \* MemoryBudget.used
  peak,   \* MemoryBudget.peak
  held,   \* the bytes of each Reservation
  call    \* the charge each holder has in progress

budget == <<used, peak, held, call>>

\* seen is the local variable of try_charge, again whether the reclaimers ran.
NoCall == [at |-> "none", asked |-> 0, seen |-> 0, again |-> FALSE]
Returned(h) == call[h].at \in {"granted", "refused"}

-----------------------------------------------------------------------------
(* charge and try_charge.                                                  *)

\* reserve and grow: the caller waits for the answer.
Ask(h, n) ==
  /\ call[h].at = "none"
  /\ call' = [call EXCEPT ![h] = [NoCall EXCEPT !.at = "load", !.asked = n]]
  /\ UNCHANGED <<used, peak, held>>

\* What a charge does about the value of the counter it has just read.
Decided(c) ==
  [c EXCEPT !.seen = used,
            !.at = IF used + c.asked <= Limit THEN "exchange"
                   ELSE IF c.again \/ c.asked > Limit THEN "refused"
                   ELSE "reclaim"]

Load(h) ==
  /\ call[h].at = "load"
  /\ call' = [call EXCEPT ![h] = Decided(@)]
  /\ UNCHANGED <<used, peak, held>>

\* Mistaken variant: the sum is stored whatever the counter has become.
Stored(c) == TRUE

\* Does the comparison of the exchange succeed?
Unmoved(c) == used = c.seen

Exchange(h) ==
  /\ call[h].at = "exchange"
  /\ LET c == call[h]
     IN  IF Unmoved(c)
           THEN /\ used' = c.seen + c.asked
                /\ call' = [call EXCEPT ![h].at = "raise"]
           ELSE /\ call' = [call EXCEPT ![h] = Decided(c)]
                /\ UNCHANGED used
  /\ UNCHANGED <<peak, held>>

\* The peak follows the counter, and the reservation its charge.
Raise(h) ==
  /\ call[h].at = "raise"
  /\ LET next == call[h].seen + call[h].asked
     IN  peak' = IF next > peak THEN next ELSE peak
  /\ held' = [held EXCEPT ![h] = @ + call[h].asked]
  /\ call' = [call EXCEPT ![h].at = "granted"]
  /\ UNCHANGED used

\* A reclaimer empties what it may, unless somebody is using it.
Reclaim(h, d) ==
  /\ call[h].at = "reclaim"
  /\ held[d] > 0 /\ call[d].at = "none"
  /\ used' = used - held[d]
  /\ held' = [held EXCEPT ![d] = 0]
  /\ UNCHANGED <<peak, call>>

Retry(h) ==
  /\ call[h].at = "reclaim"
  /\ call' = [call EXCEPT ![h].at = "load", ![h].again = TRUE]
  /\ UNCHANGED <<used, peak, held>>

\* The caller has its answer.
Answered(h, answer) == call[h].at = answer
Taken(h) == [call EXCEPT ![h] = NoCall]

ChargeStep(h) ==
  \/ Load(h) \/ Exchange(h) \/ Raise(h) \/ Retry(h)
  \/ \E d \in Disposable : Reclaim(h, d)

-----------------------------------------------------------------------------
(* Giving back: resize to less, absorb, and drop.                          *)

Lowered(h, n) ==
  /\ used' = used - n
  /\ held' = [held EXCEPT ![h] = @ - n]

Drop(h) == Lowered(h, held[h])

\* The bytes change hands, and the counter does not move.
Absorbed(h, other) ==
  /\ held' = [held EXCEPT ![h] = @ + held[other], ![other] = 0]
  /\ UNCHANGED used
=============================================================================
