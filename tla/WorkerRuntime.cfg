SPECIFICATION FairSpec
CONSTANTS
  w1 = w1
  w2 = w2
  r1 = r1
  Worker = {w1}
  Client = {w1, r1}
  Burst = 2
  PerToken = 2
  Pause = 1
  Patience = 3
  TTL = 2
  Never = Never
  MaxTime = 4
  MaxCount = 1
  MaxFaults = 1
INVARIANTS NeverTooMany NoneWasted StoppedIsFinal HeartbeatsHold
PROPERTY StopReturns
CHECK_DEADLOCK FALSE
