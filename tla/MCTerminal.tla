----------------------------- MODULE MCTerminal -----------------------------
(* Terminal with the disk, which delivers a tree, and a correlated section *)
(* with one row.                                                           *)
EXTENDS Terminal, TLC

CONSTANTS apps, disk

AppsAndDisk == {apps, disk}
OneRow == 1 :> apps
=============================================================================
