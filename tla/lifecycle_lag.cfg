CONSTANTS
  h1 = h1
  a1 = a1
  Player = {h1, a1}
  Home <- MCHome
  MinRows = 2
  Horizon = 1
  MaxDelay = 2
  LeaseTicks = 2
  Delays = {1, 2}
  MaxFaults = 3
  Refreshes = {TRUE}
SPECIFICATION Spec
CHECK_DEADLOCK FALSE
INVARIANTS CorrectedByCollection
