CONSTANTS
  i1 = i1  i2 = i2
  Indexes <- OneIndex
  MaxSequence = 3
  MaxContent = 2
  MaxLosses = 1
  MaxBlocks = 1
  Kinds <- AnyRequest
SPECIFICATION Spec
CHECK_DEADLOCK FALSE
INVARIANTS FederationTypeOK AnnouncementsAreDistinguishable
PROPERTIES DisclosedIsPublic 
