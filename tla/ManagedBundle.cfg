CONSTANTS
  a1 = a1  a2 = a2  p1 = p1  p2 = p2
  Apps <- OneApp
  Paths <- OnePath
  Scopes <- AnyScope
  MaxBytes = 2
  MaxEdits = 1
  MaxGrants = 1
  MaxFaults = 1
  MaxCrashes = 1
SPECIFICATION FairSpec
CHECK_DEADLOCK FALSE
INVARIANTS BundleTypeOK ServedConceptsAreOnDisk IndexListsConcepts
PROPERTIES  StartResolvesOwnChanges ImplementsCasMemory 
