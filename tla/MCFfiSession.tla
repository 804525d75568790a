---------------------------- MODULE MCFfiSession ----------------------------
(* FfiSession with a section that delivers a tree or footprints, and one   *)
(* row, of it or of a correlated section.                                  *)
EXTENDS FfiSession, TLC

CONSTANTS apps, owners, disk

AppsAndOwners == {apps, owners}
AppsAndDisk == {apps, disk}
JustDisk == {disk}

DiskRow == 1 :> disk
OneRow == 1 :> apps
=============================================================================
