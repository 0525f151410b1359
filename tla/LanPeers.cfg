CONSTANTS
  d1 = d1  d2 = d2
  Devices <- TwoDevices
  Owner = d1
  Starts <- AnyPast
  MaxNonces = 4
  MaxCommands = 1
  Limits <- SomeOfEach
  MaxTurns = 4
SPECIFICATION Spec
CHECK_DEADLOCK FALSE
INVARIANTS LanTypeOK TrustIsMutual BlockIsRestored StruckStaysOut EvidenceIsGiven
