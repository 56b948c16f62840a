SPECIFICATION Spec
CONSTANTS
  Stem <- MCStem
  ProfileStem <- MCProfileStem
  Ext <- MCExt
  Pattern <- SafePattern
  Accepted <- SafeAccepted
  Folders <- SafeFolders
  Leq <- MCLeq
  MaxStacks = 2
  MaxRuns = 2
INVARIANT ZeroMeansVerified
INVARIANT OneHasAReason
INVARIANT ProfilesIntact
INVARIANT OnlyProfilesMatched
INVARIANT DumpedOnce
INVARIANT RerunAgrees
PROPERTY EveryRunExits
PROPERTY Assesses
CHECK_DEADLOCK FALSE
