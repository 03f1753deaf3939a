SPECIFICATION Spec
CONSTANTS
  Client = {g1, g2}
  Set = {"default", "s"}
  DefaultSet = "default"
  NilSet = "nil"
  N = 2
  Number = {7}
  Nobody = nobody
  MaxCalls = 4
INVARIANTS
  TypeOK
  GetIsConsistent
  SequencesIncrease
  RangeIsSnapshot
CHECK_DEADLOCK FALSE
