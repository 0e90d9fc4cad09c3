\* Every scenario program run by the batch loop of main.rs.
CONSTANTS
  W = 8
  NRegs = 8
  RamWords = 12
  FOne = 1
  DecodeFrom <- MCDecode
  Scenarios <- MCBatchScenarios
  Modes <- MCModes
  BpAddrs = {12}
  WatchAddrs = {10}
  SpyAddrs = {10}
  SpyKinds <- AllSpyKinds
SPECIFICATION BatchSpec
INVARIANT
  ErrorMessagePresent
PROPERTIES
  BatchImplementsExecution
  FailureReported
