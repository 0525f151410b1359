CONSTANTS
  i1 = i1  i2 = i2
  Indexes <- OneIndex
  MaxSequence = 3
  MaxContent = 1
  MaxLosses = 1
  MaxBlocks = 0
  Kinds <- NoRequests
SPECIFICATION FairSpec
CHECK_DEADLOCK FALSE
PROPERTIES AcceptedWithdrawalsEnd
