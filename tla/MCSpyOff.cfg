\* The spied program, with spies turned on and off.
CONSTANTS
  W = 8
  NRegs = 8
  RamWords = 12
  FOne = 1
  DecodeFrom <- MCDecode
  Modes <- MCModes
  BpAddrs = {12}
  SpyAddrs = {10}
  SpyKinds <- AllSpyKinds
  Scenarios <- MCSpyScenarios
  WatchAddrs = {10}
SPECIFICATION Spec
INVARIANT SpiesAsRequested
