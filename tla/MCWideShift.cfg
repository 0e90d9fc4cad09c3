\* The shifting program alone (a shift by 9 on 8-bit words).
CONSTANTS
  W = 8
  NRegs = 8
  RamWords = 12
  FOne = 1
  DecodeFrom <- MCDecode
  Modes <- MCModes
  BpAddrs = {12}
  SpyAddrs = {10}
  SpyKinds <- AllSpyKinds
  Scenarios <- MCWideShiftScenarios
  WatchAddrs = {0}
SPECIFICATION Spec
PROPERTY ShiftUsesLowBits
