SPECIFICATION Spec
CONSTANTS
  Sep = 44
  Client = {c1, c2}
  Cli = cli
  CF = {"default", "x"}
  Default = "default"
  Key <- MCMixedKey
  SetKey = {}
  Loaded <- MCMixed
  Params <- MCTSParams
  CFOpts = {{}, {"x"}}
  Keep = {0}
  DefaultLimit = 1
  Now = 12
  MaxRequests = 2
  MaxOpens = 2
  MaxBackups = 1
INVARIANT TSRangeIsComplete
CHECK_DEADLOCK FALSE
