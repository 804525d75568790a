CONSTANTS
  apps = apps
  owners = owners
  disk = disk
  Sections <- JustDisk
  Correlated = {disk}
  Caches = {}
  Trees = {}
  Findings = {1}
  SectionOf <- DiskRow
  Faults = {}
  Clients = {"pages"}
  Online = TRUE
  FlushThreshold = 1
  ChannelCap = 1
  MaxRuns = 1
  Nothing = Nothing
SPECIFICATION Spec
PROPERTIES
  PageIsOfItsRevision
