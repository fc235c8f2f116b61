SPECIFICATION FairSpec
CONSTANTS
  c1 = c1
  c2 = c2
  k1 = k1
  k2 = k2
  Client = {c1, c2}
  Company = {k1, k2}
  Owner <- MCOwner
  NotJoined = NotJoined
  ChanCap = 1
  SendCap = 1
  MaxBroadcasts = 2
INVARIANTS ClosedOnce
PROPERTIES InOrder MembersAreTold DeadForgotten
CHECK_DEADLOCK FALSE
