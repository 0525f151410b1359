CONSTANTS
  s1 = s1  p1 = p1  p2 = p2  h1 = h1  h2 = h2  d1 = d1  d2 = d2
  j1 = j1  j2 = j2
  None = None
  Sources <- OneSource
  Paths <- OnePath
  Hashes <- TwoHashes
  Drafts <- OneDraft
  Jobs <- TwoJobs
  MaxRevision = 2
  Large <- NoContent
  Tasks <- ScanAndQuarantine
  Fails <- WriteFailures
  MaxPasses = 2
  MaxEdits = 2
  MaxFaults = 1
  MaxRestarts = 0
SPECIFICATION WikiSpec
CHECK_DEADLOCK FALSE
INVARIANTS  PagesAreOfStoredBytes
PROPERTIES ExposureIsMaterialized
SYMMETRY Interchangeable
