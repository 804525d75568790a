CONSTANTS
  dirRoot = dirRoot
  dirA = dirA
  dirB = dirB
  dirC = dirC
  dirAlias = dirAlias
  dirDeep = dirDeep
  dirExcluded = dirExcluded
  dirMount = dirMount
  dirSkipped = dirSkipped
  fileLink = fileLink
  fileBig = fileBig
  fileSmall = fileSmall
  fileTwin = fileTwin
  filePlain = filePlain
  fileEmpty = fileEmpty
  Dirs <- Tree
  Root = dirRoot
  Files <- TreeFiles
  Listing <- TreeListing
  Node <- TreeNode
  Inode <- TreeInode
  NLink <- TreeLinks
  Alloc <- TreeAlloc
  Rank <- TreeRank
  Excluded = {dirExcluded}
  MountPoints = {dirMount}
  Skipped = {dirSkipped}
  NoTop = {dirC}
  Results <- SomeFail
  Faults = {"memory", "cancel", "entries"}
  TopN = 2
  ChannelCap = 1
  Nobody = Nobody
SPECIFICATION FairSpec
CHECK_DEADLOCK FALSE
INVARIANTS
  TypeOK
  RollupHolds
  ResultIsExact
PROPERTIES
  WalkEnds
