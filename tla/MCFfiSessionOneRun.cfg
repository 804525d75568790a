CONSTANTS
  apps = apps
  owners = owners
  disk = disk
  Sections <- AppsAndOwners
  Correlated = {apps}
  Caches = {owners}
  Trees = {}
  Findings = {1}
  SectionOf <- OneRow
  Faults = {"memory", "publish", "correlate", "cache", "error", "bus"}
  Clients = {"cancel"}
  Online = TRUE
  FlushThreshold = 1
  ChannelCap = 1
  MaxRuns = 1
  Nothing = Nothing
SPECIFICATION FairSpec
INVARIANTS
  FinishedAfterRows
  AnnouncedIsServed
  CorrelatedWhole
PROPERTIES
  Converges
