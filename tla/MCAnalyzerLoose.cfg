SPECIFICATION Spec
CONSTANTS
  Stem <- MCStem
  ProfileStem <- MCProfileStem
  Ext <- MCExt
  Pattern <- LoosePattern
  Accepted <- LooseAccepted
  Folders <- LooseFolders
  Leq <- MCLeq
  MaxStacks = 2
  MaxRuns = 2
INVARIANT ZeroMeansVerified
CHECK_DEADLOCK FALSE
