SPECIFICATION RoutingSpec
CONSTANTS
  n1 = n1
  n2 = n2
  d = d
  c1 = c1
  k1 = k1
  h1 = h1
  h2 = h2
  w1 = w1
  Number = {n1, n2}
  Company = {d, c1}
  Default = d
  Customer = {k1}
  Hook = {h1, h2}
  Worker = {w1}
  None = None
  Quota = 1
  MaxFaults = 1
SYMMETRY Symmetry
CONSTRAINT Apart
INVARIANTS OwnersAreTold NumberIsKept ChargesAreSettled
