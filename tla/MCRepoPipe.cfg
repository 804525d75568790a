CONSTANTS
  r1 = r1
  r2 = r2
  Repos <- Two
  Size <- TwoSizes
  Walkers = {w1, w2}
  Home = home
  Audits = {ports}
  Slots = 1
  Probes = 1
  Capacity = 1
  PipeLimits = {3, 4}
  QueueBytes = 1
  Pipe = pipe
  Arena = arena
  Spare = spare
  Cache = cache
  Holders <- FourHolders
  Disposable <- OnlyCache
  CacheBytes = 2
  ArenaBytes = 2
  ArenaStep = 2
  MaxArena = 4
  Limit = 7
  Nobody = Nobody
SPECIFICATION FairSpec
CHECK_DEADLOCK FALSE
INVARIANTS
  TypeOK
  Accounted
  PipeIsCharged
  NothingLostUnsaid
PROPERTIES
  PipelineDrains
