\* The training loop and the load-use program under the time_predict build.
CONSTANTS
  W = 8
  NRegs = 8
  RamWords = 32
  FOne = 1
  DecodeFrom <- TimingDecode
  Scenarios <- MCTimingScenarios
  NumCounters = 8
  CacheLines = 2
  BramWords = 4
  StackWords = 2
  DdrCycles = 90
SPECIFICATION TimingSpec
INVARIANT TimingTypeOK
INVARIANT StallsResolveHazards
INVARIANT BranchStatsConserved
INVARIANT CacheFillsCounted
