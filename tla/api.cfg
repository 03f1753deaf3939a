SPECIFICATION Spec
CONSTANTS
  Caller = {g1, g2}
  Ctx = {"x1", "x2"}
  Name = {"api"}
  Struct = {"A"}
  Obj <- MCObj
  FormID <- MCFormID
  RetryCount <- MCRetryCount
  NotSet = NotSet
  NumCb = 1
  Second = {0, 1}
  MaxCalls = 2
INVARIANTS
  TypeOK
  RetriesFaithful
  OnGoingExact
PROPERTIES
  CallsReturn
CHECK_DEADLOCK FALSE
