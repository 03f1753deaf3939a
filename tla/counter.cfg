SPECIFICATION FairSpec
CONSTANTS
  Client = {p1}
  Adder = {a1, a2}
  Term = {1, 2}
  checkThreshHold = 1
  channelBufferNum = 1
  Count = {2}
  MaxAdds = 3
  MaxTime = 5
INVARIANTS TypeOK MinMaxOfHistory LongTermsExact
PROPERTY AddReturns
CHECK_DEADLOCK FALSE
