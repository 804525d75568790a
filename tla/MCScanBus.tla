----------------------------- MODULE MCScanBus -----------------------------
(* ScanBus with two runs of two sections: one scanner waits for both, as   *)
(* Projects does, the other for a part of them, as App Storage does.       *)
EXTENDS ScanBus, TLC

CONSTANTS fs, git, projects, appStorage

TwoSections == {fs, git}
TwoWaiters == {projects, appStorage}
TwoDeps == projects :> {fs, git} @@ appStorage :> {fs}
=============================================================================
