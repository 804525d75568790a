CONSTANTS
  apps = apps
  owners = owners
  disk = disk
  Sections <- JustDisk
  Correlated = {disk}
  Caches = {disk}
  Trees = {disk}
  Findings = {1}
  SectionOf <- DiskRow
  Faults = {}
  Clients = {"cleanup", "pages"}
  Online = TRUE
  FlushThreshold = 1
  ChannelCap = 1
  MaxRuns = 2
  Nothing = Nothing
SPECIFICATION Spec
INVARIANTS
  CachesAreCurrent
  BatchOfTheRun
PROPERTIES
  PageTellsItsRevision
