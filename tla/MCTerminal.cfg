CONSTANTS
  apps = apps
  disk = disk
  Sections <- AppsAndDisk
  Correlated = {apps}
  Caches = {disk}
  Trees = {disk}
  Findings = {1}
  SectionOf <- OneRow
  Faults = {"memory", "error", "walk", "start", "fake"}
  Keys = {"cancel", "rescan", "cleanup"}
  Online = TRUE
  ChannelCap = 1
  MaxRuns = 2
  Nothing = Nothing
SPECIFICATION FairSpec
INVARIANTS
  TypeOK
  DoneIsWhole
  CleanedIsRescanned
PROPERTIES
  Settles
