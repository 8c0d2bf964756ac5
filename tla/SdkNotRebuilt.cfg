SPECIFICATION Spec
CONSTANTS
  MaxCacheAge = 4
  MinRefreshLatency = 2
  MetadataTimeout = 1
  Lives = {2, 3, 7, 12}
  MaxTokens = 3
  Horizon = 10
  NoCreds = NoCreds
INVARIANTS SdkCurrent
CHECK_DEADLOCK FALSE
