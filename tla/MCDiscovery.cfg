SPECIFICATION Spec
CONSTANTS
  NDirs = 4
  Dir <- MCDir
  NoDir = 0
  Walk <- FlatWalks
INVARIANT FindsTheComplete
INVARIANT BlamesTheIncomplete
CHECK_DEADLOCK FALSE
