\* One document through three revisions and two paths, two jobs at a time.
CONSTANTS
  s1 = s1  p1 = p1  p2 = p2  h1 = h1  h2 = h2  d1 = d1  d2 = d2
  j1 = j1  j2 = j2
  None = None
  Sources <- OneSource
  Paths <- TwoPaths
  Hashes <- TwoHashes
  Drafts <- TwoDrafts
  Jobs <- TwoJobs
  MaxRevision = 3
SPECIFICATION Spec
SYMMETRY Interchangeable
CHECK_DEADLOCK FALSE
INVARIANTS
  TypeOK
  ExposureIsReviewed
  RowsAgreeOnExposure
  EvidenceIsCurrent
  PublishingIsOwned
  ReanalysisIsOwned
  IngestIsExclusive
PROPERTIES
  ProposalChangesAreOwned
  ImplementsPromise
