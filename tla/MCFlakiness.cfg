SPECIFICATION Spec
CONSTANTS
  N = 3
  TempDir <- MCTempDir
  NoDir = ""
INVARIANT WaitsForAll
INVARIANT AnalysesItsOwn
INVARIANT SummaryAddsUp
PROPERTY SummaryEventually
CHECK_DEADLOCK FALSE
