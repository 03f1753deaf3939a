SPECIFICATION Spec
CONSTANTS
  Client = {p1}
  Name = {n1}
  Content = {"good", "bad"}
  ChanCap = 1
  Timed = {TRUE}
  Hashed = {TRUE}
  MaxJobs = 2
  MaxCancels = 0
INVARIANT LateAnswerHarmless
CHECK_DEADLOCK FALSE
