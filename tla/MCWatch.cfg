\* The spied program, with a watch on a word of its text.
CONSTANTS
  W = 8
  NRegs = 8
  RamWords = 12
  FOne = 1
  DecodeFrom <- MCDecode
  Modes <- MCModes
  BpAddrs = {12}
  SpyAddrs = {10}
  SpyKinds <- AllSpyKinds
  Scenarios <- MCSpyScenarios
  WatchAddrs = {0}
SPECIFICATION Spec
INVARIANT WatchNeverCrashes
