\* Every scenario program under every command the debugger offers, with
\* only in-range watch addresses.
CONSTANTS
  W = 8
  NRegs = 8
  RamWords = 12
  FOne = 1
  DecodeFrom <- MCDecode
  Scenarios <- MCScenarios
  Modes <- MCModes
  BpAddrs = {12}
  WatchAddrs = {10}
  SpyAddrs = {10}
  SpyKinds <- AllSpyKinds
SPECIFICATION Spec
INVARIANTS
  TypeOK
  BreakAfterProgress
  StepRunsExactly
PROPERTIES
  FatalIsFinal
  ImplementsExecution
  SpyWriteReportsChange
  TextIntact
