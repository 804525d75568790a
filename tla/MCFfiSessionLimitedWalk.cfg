CONSTANTS
  apps = apps
  owners = owners
  disk = disk
  Sections <- AppsAndDisk
  Correlated = {apps}
  Caches = {disk}
  Trees = {disk}
  Findings = {1}
  SectionOf <- OneRow
  Faults = {"walk"}
  Clients = {}
  Online = TRUE
  FlushThreshold = 1
  ChannelCap = 1
  MaxRuns = 1
  Nothing = Nothing
SPECIFICATION Spec
INVARIANTS
  CorrelationComes
