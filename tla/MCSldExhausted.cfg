\* The SLD reader alone: its third inw finds the sequence exhausted.
CONSTANTS
  W = 8
  NRegs = 8
  RamWords = 12
  FOne = 1
  DecodeFrom <- MCDecode
  Modes <- MCModes
  BpAddrs = {12}
  SpyAddrs = {10}
  SpyKinds <- AllSpyKinds
  Scenarios <- MCSldScenarios
  WatchAddrs = {0}
SPECIFICATION Spec
INVARIANT IoFailureLatched
