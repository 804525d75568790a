CONSTANTS
  Fs = fs
  projects = projects
  Home = home
  Sections <- Walk
  Deps <- WalkNeedsNone
  Audits = {}
  Channels = {c1, c2}
  Separations = {FALSE}
  Faults <- ErrorsAndLimits
  Outcomes <- WholeOrLimited
  Chatter <- Findings
  QueueCap = 1
  ChannelCap = 1
  MaxRuns = 2
  Nothing = Nothing
SPECIFICATION Spec
INVARIANTS
  TypeOK
  StopHasOwnCause
SYMMETRY ChannelSymmetry
