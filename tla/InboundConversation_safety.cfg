SPECIFICATION Spec
CONSTANTS
  Msg = {m1, m2}
  Call = {c1, c2, c3}
  Desk = {d1}
  None = None
  MaxFaults = 1
  MaxAborts = 1
INVARIANTS AnsweredIsStored ShownOnce UnreadCovers UnreadExact BadgeIsRow
PROPERTY NoLostUpdate
SYMMETRY Symmetry
CHECK_DEADLOCK FALSE
