SPECIFICATION Spec
CONSTANTS
  n1 = n1
  n2 = n2
  l1 = l1
  l2 = l2
  i1 = i1
  i2 = i2
  i3 = i3
  p1 = p1
  p2 = p2
  Name = {n1, n2}
  Lang = {l1, l2}
  Id = {i1, i2, i3}
  Given <- MCGiven
  Proc = {p1, p2}
  None = None
  MaxMeta = 2
  MaxTexts = 1
  MaxDecisions = 1
  MaxFaults = 1
  Budget = 3
CONSTRAINT LittleHappens
INVARIANTS IdentityAgrees Covered VerifiedByMeta
PROPERTY EditsKept
SYMMETRY Symmetry
CHECK_DEADLOCK FALSE
