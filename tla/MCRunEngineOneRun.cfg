CONSTANTS
  Fs = fs
  projects = projects
  Home = home
  Sections <- WalkAndProjects
  Deps <- ProjectsNeedsWalk
  Audits = {home}
  Channels = {c1}
  Separations = {TRUE, FALSE}
  Faults <- FaultsOfEach
  Outcomes <- OutcomesOfEach
  Chatter <- AllBeside
  QueueCap = 1
  ChannelCap = 1
  MaxRuns = 1
  Nothing = Nothing
SPECIFICATION FairSpec
INVARIANTS
  CompleteIsEarned
  NoEndingLost
  RetiredIsSettled
PROPERTIES
  VerdictStands
  BusSpec
  CancelledRetires
  DrainedRetires
