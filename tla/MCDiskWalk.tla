----------------------------- MODULE MCDiskWalk -----------------------------
(***************************************************************************)
(* A root with a file and two directories, A and B.  A has a directory C,  *)
(* B an alias of it, so that what is in it is found once, by whichever     *)
(* comes first; a directory in it is excluded by one of its two paths, and *)
(* the file in it has a further link in B.  What C has may not be among    *)
(* the largest under that name.  The root also has an empty file.  A mount *)
(* point and a directory the visitor skips are never entered.              *)
(***************************************************************************)
EXTENDS DiskWalk, TLC

CONSTANTS dirRoot, dirA, dirB, dirC, dirAlias, dirDeep, dirExcluded, dirMount,
          dirSkipped, fileLink, fileBig, fileSmall, fileTwin, filePlain, fileEmpty

Tree == {dirRoot, dirA, dirB, dirC, dirAlias, dirDeep, dirExcluded, dirMount,
         dirSkipped}
TreeFiles == {fileLink, fileBig, fileSmall, fileTwin, filePlain,
              fileEmpty}
TreeListing ==
  dirRoot :> <<fileEmpty, dirA, dirB, fileBig>> @@ dirA :> <<dirC, filePlain>>
    @@ dirB :> <<dirMount, fileLink, dirAlias>> @@ dirC :> <<dirDeep, fileSmall>>
    @@ dirAlias :> <<dirExcluded, fileTwin>> @@ dirDeep :> <<dirSkipped>>
    @@ dirExcluded :> <<>> @@ dirMount :> <<>> @@ dirSkipped :> <<>>
TreeNode ==
  dirRoot :> 1 @@ dirA :> 2 @@ dirB :> 3 @@ dirC :> 4 @@ dirAlias :> 4 @@ dirDeep :> 5
    @@ dirExcluded :> 5 @@ dirMount :> 6 @@ dirSkipped :> 7
TreeInode ==
  fileSmall :> 1 @@ fileTwin :> 1 @@ fileLink :> 1 @@ fileBig :> 2 @@ filePlain :> 3
    @@ fileEmpty :> 4
TreeLinks == 1 :> 2 @@ 2 :> 1 @@ 3 :> 1 @@ 4 :> 1
TreeAlloc == 1 :> 2 @@ 2 :> 3 @@ 3 :> 1 @@ 4 :> 0
TreeRank ==
  fileSmall :> 1 @@ filePlain :> 2 @@ fileTwin :> 3 @@ fileLink :> 4 @@ fileBig :> 5
    @@ fileEmpty :> 6
SomeFail ==
  [d \in Tree |-> CASE d = dirA -> {"ok", "partial", "deep"}
                    [] d = dirC -> {"ok", "unreadable", "device"}
                    [] d = dirAlias -> {"ok", "nomem", "dataless"}
                    [] OTHER -> {"ok"}]
=============================================================================
