CONSTANTS
  Hook = {h1, h2, h3}
  LocalId = LocalId
  NoId = NoId
  MaxCrashes = 1
  MaxFaults = 1
SPECIFICATION Spec
SYMMETRY HookSymmetry
INVARIANTS CatchesUp ShownIsStored
PROPERTY OneWayUnlessRaced
CHECK_DEADLOCK FALSE
