SPECIFICATION FairSpec
CONSTANTS
  Client = {c1, c2}
  Controller = {c1}
  Elem = {e1, e2}
  FlushFunc = {g1}
  NoFunc = NoFunc
  Caps = {0, 2}
  Tickings = {TRUE, FALSE}
  Calls <- AllCalls
  MaxAdds = 3
  MaxStarts = 2
INVARIANTS TypeOK Conservation FlushThreadMatchesF
PROPERTIES ImplementsBatchSink EventuallyFlushed StopReturnsUnlessTick
CHECK_DEADLOCK FALSE
