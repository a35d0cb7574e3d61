CONSTANTS
  h1 = h1
  h2 = h2
  a1 = a1
  Player = {h1, a1}
  Home <- MCHome
  MinRows = 2
  Horizon = 0
  MaxDelay = 1
  LeaseTicks = 1

  Match = {m1}
  Proc = {p1, p2}
  MaxGen = 2
  MaxLive = 2
  ClaimLimit = 1
  MaxWorkers = 1
  Allowed = {m1}
  Supported = {m1}
  Delays = {1}
  MaxAttempt = 1
  RegistryStale = 1
  ScrapeStale = 1
  Grace = 0
  StartupLimit = 1
  Answers <- FinalOrNothing
  InitialStatus = {"LIVE"}
  DirectStatus = {"CONCLUDED"}
  MetadataStatus = {}
  OneShotMatch = {}
  LaneFaults = TRUE
  OperatorRecovers = TRUE
SPECIFICATION Spec
SYMMETRY ProcSymmetry
INVARIANTS TypeOK LeaseConsistent AuditRowsAgree OwnerStillRunning
PROPERTIES OnlyNewestCommits ValidLeaseNotStolen ClosedStaysClosed TerminalLeftAlone ImplementsFencedLease
CHECK_DEADLOCK FALSE
