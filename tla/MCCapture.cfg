SPECIFICATION Spec
CONSTANTS
  Type = {"cpu", "alloc"}
  Profiles <- MCProfiles
  PprofFiles <- MCPprofFiles
  MaxProfiles = 2
  captureKeysToIgnore = {9}
  ErrorMargin = 1
INVARIANT AggregateRate
INVARIANT OneEntryPerGroup
INVARIANT RoundTrip
INVARIANT RatesAreGrouped
CHECK_DEADLOCK FALSE
