CONSTANTS
  h1 = h1
  h2 = h2
  a1 = a1
  Player = {h1, h2, a1}
  Home <- MCHome
  MinRows = 2
  Horizon = 0
  MaxDelay = 1
  LeaseTicks = 1

  Match = {m1}
  Proc = {p1}
  MaxGen = 2
  MaxLive = 1
  ClaimLimit = 1
  MaxWorkers = 1
  Allowed = {m1}
  Supported = {m1}
  Delays = {1}
  MaxAttempt = 1
  RegistryStale = 1
  ScrapeStale = 1
  Grace = 1
  StartupLimit = 1
  Answers <- LateNameAnswers
  InitialStatus = {"LIVE"}
  DirectStatus = {"CONCLUDED"}
  MetadataStatus = {}
  OneShotMatch = {m1}
  LaneFaults = FALSE
  OperatorRecovers = FALSE
SPECIFICATION Spec
PROPERTIES FinalityKept
CHECK_DEADLOCK FALSE
