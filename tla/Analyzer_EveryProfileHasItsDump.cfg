SPECIFICATION Spec
CONSTANTS
  Stem <- MCStem
  ProfileStem <- MCProfileStem
  Ext <- MCExt
  Pattern <- SafePattern
  Accepted <- SafeAccepted
  Folders <- SafeFolders
  Leq <- MCLeq
  MaxStacks = 2
  MaxRuns = 1
CHECK_DEADLOCK FALSE
INVARIANT EveryProfileHasItsDump
