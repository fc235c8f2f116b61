CONSTANTS
  Number = {n1}
  Company = {c1, c2}
  None = None
  Ticker = ticker
  Syncer = {ticker, r1}
  Line = {l1}
  PerDay = 1
  LookBack = 1
  LastDay = 3
  MaxVolume = 2
  MaxProfile = 2
  MaxFaults = 1
  MaxCuts = 1
  MaxTrouble = 1
  MaxUsage = 2
SPECIFICATION FairSpec
CONSTRAINTS LittleTrouble LittleUsage OneSide
INVARIANTS NothingLostBehindMark
PROPERTIES AssignmentKept FiguresGrow UsageIsSettled
