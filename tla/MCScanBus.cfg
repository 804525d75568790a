CONSTANTS
  fs = fs
  git = git
  projects = projects
  appStorage = appStorage
  Sections <- TwoSections
  Waiters <- TwoWaiters
  Deps <- TwoDeps
  Keys = {k}
  Values = {v}
  MaxGen = 2
  Nothing = Nothing
SPECIFICATION FairSpec
INVARIANTS
  SnapshotIsWhole
  ReturnedIsJustified
PROPERTIES
  SnapshotStands
  WaiterReturns
