SPECIFICATION Spec
CONSTANTS
  s1 = s1
  s2 = s2
  s3 = s3
  Client = {c1, c2}
  State = {s1, s2, s3}
  Registered <- TwoOfThree
  ID = {a, b}
  NoState = NoState
  Bindings <- AnyBinding
  Delays = {TRUE, FALSE}
  Cap = 1
  MaxActs = 2
  MaxSets = 2
  MaxStops = 1
  Callbacks = TRUE
INVARIANTS TypeOK ListedHasThread PurgedAtEnter
PROPERTY FiresAsAsked
CHECK_DEADLOCK FALSE
