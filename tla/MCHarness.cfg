SPECIFICATION Spec
CONSTANTS
  Name <- MCName
  Listing <- MCListing
  ChunkSize = 2
  AllDirs <- MCAllDirs
  Kinds <- MCKinds
  Selects <- MCSelects
  Base <- MCBase
  NoBase = "none"
  NoImage = "-"
  MaxParallel = 2
INVARIANT Partitioned
INVARIANT OwnImage
INVARIANT RunsOnce
INVARIANT GreenMeansAllPassed
PROPERTY JobsEnd
CHECK_DEADLOCK FALSE
