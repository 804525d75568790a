----------------------------- MODULE MCRepoPipe -----------------------------
(* RepoPipe with two threads, an audit that competes for the one permit,   *)
(* and two repositories of different sizes.                                *)
EXTENDS RepoPipe, TLC

CONSTANTS r1, r2

Two == {r1, r2}
TwoSizes == r1 :> 1 @@ r2 :> 2
FourHolders == {Pipe, Arena, Spare, Cache}
OnlyCache == {Cache}
=============================================================================
