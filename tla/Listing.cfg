SPECIFICATION Spec
CONSTANTS
  m1 = m1
  m2 = m2
  m3 = m3
  Conv = {1, 2, 3}
  Msg = {m1, m2, m3}
  Limit = 1
  Moments = 2
  Lag = 1
  MaxTime = 4
  MaxSecond = 3
CONSTRAINTS OneList NotAll
ACTION_CONSTRAINT OneWalk
INVARIANTS ListedOnce SkippedShareASecond MessagesReached RepeatsAreArrivals
CHECK_DEADLOCK FALSE
