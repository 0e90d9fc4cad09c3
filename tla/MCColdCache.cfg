\* A store to a cold cache line.
CONSTANTS
  W = 8
  NRegs = 8
  RamWords = 32
  FOne = 1
  DecodeFrom <- TimingDecode
  Scenarios <- MCColdScenarios
  NumCounters = 8
  CacheLines = 4
  BramWords = 4
  StackWords = 2
  DdrCycles = 90
SPECIFICATION TimingSpec
INVARIANT FirstAccessMisses
