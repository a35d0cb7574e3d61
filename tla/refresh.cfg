CONSTANTS
  h1 = h1
  h2 = h2
  a1 = a1
  Player = {h1, a1}
  Home <- MCHome
  MinRows = 2
  Horizon = 0
  MaxDelay = 1
  LeaseTicks = 1

  Match = {m1, m2}
  Proc = {p1, p2}
  MaxGen = 1
  MaxLive = 1
  ClaimLimit = 2
  MaxWorkers = 2
  Allowed = {m1}
  Supported = {m1, m2}
  Delays = {1}
  MaxAttempt = 1
  RegistryStale = 1
  ScrapeStale = 1
  Grace = 1
  StartupLimit = 1
  Answers <- FewAnswers
  InitialStatus = {"LIVE"}
  DirectStatus = {"CONCLUDED"}
  MetadataStatus = {"CANCELLED"}
  OneShotMatch = {}
  LaneFaults = TRUE
  OperatorRecovers = FALSE
SYMMETRY ProcSymmetry
SPECIFICATION Spec
INVARIANTS CompleteMeansFinal
CHECK_DEADLOCK FALSE
