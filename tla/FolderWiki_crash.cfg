CONSTANTS
  s1 = s1  p1 = p1  p2 = p2  h1 = h1  h2 = h2  d1 = d1  d2 = d2
  j1 = j1  j2 = j2
  None = None
  Sources <- OneSource
  Paths <- TwoPaths
  Hashes <- TwoHashes
  Drafts <- OneDraft
  Jobs <- TwoJobs
  MaxRevision = 2
  Large <- NoContent
  Tasks <- Core
  Fails <- AllButReads
  MaxPasses = 1
  MaxEdits = 2
  MaxFaults = 1
  MaxRestarts = 1
SPECIFICATION WikiSpec
CHECK_DEADLOCK FALSE
INVARIANTS SearchableIsMaterialized StartupServesCurrentBytes QuietBundleMirrorsTables
SYMMETRY Interchangeable
