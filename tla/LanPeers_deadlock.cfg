CONSTANTS
  d1 = d1  d2 = d2
  Devices <- TwoDevices
  Owner = d1
  Starts <- Paired
  MaxNonces = 4
  MaxCommands = 1
  Limits <- GrantAndSearch
  MaxTurns = 2
SPECIFICATION FairSpec
CHECK_DEADLOCK FALSE
PROPERTIES LeaseEnds
