CONSTANTS
  Hook = {h1, h2, h3}
  LocalId = LocalId
  NoId = NoId
  MaxCrashes = 0
  MaxFaults = 0
SPECIFICATION Spec
PROPERTY OneWay
CHECK_DEADLOCK FALSE
