SPECIFICATION Spec
CONSTANTS
  Chain <- MCChain
  SinkChain <- MCSinkChain
  Good <- MCGood
  Inputs <- MCInputs
  Buffer = 2
  Block = 2
  MaxCalls = 2
INVARIANTS
  TypeOK
  PumpedExactly
  DownloadIsVerified
PROPERTIES
  CallsReturn
CHECK_DEADLOCK FALSE
