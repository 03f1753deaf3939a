SPECIFICATION Spec
CONSTANTS
  N = 3
  Kind = {"plain", "follow", "unfollow", "bad"}
  Account = {a1}
  Limit = 2
  Every = 2
  MaxFaults = 1
  MaxStarts = 3
INVARIANTS
  TypeOK
  CheckpointCovers
  EndsAsMigratedOnce
PROPERTIES
  RunEndsUnlessFailed
CHECK_DEADLOCK FALSE
