SPECIFICATION FairSpec
CONSTANTS
  s1 = s1
  s2 = s2
  s3 = s3
  Client = {c1}
  State = {s1, s2}
  Registered <- TwoOfThree
  ID = {a, b}
  NoState = NoState
  Bindings <- OneOrNone
  Delays = {TRUE, FALSE}
  Cap = 1
  MaxActs = 2
  MaxSets = 2
  MaxStops = 0
  Callbacks = FALSE
PROPERTIES EventuallyRuns PurgeEndsUnlessThread
CHECK_DEADLOCK FALSE
