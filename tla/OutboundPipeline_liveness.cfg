CONSTANTS
  r1 = r1  r2 = r2  r3 = r3  r4 = r4  k1 = k1  c1 = c1
  Request = {r3, r4}
  Worker = {w1, w2}
  Company = {c1}
  NoCompany = NoCompany
  NoKey = NoKey
  NoJob = NoJob
  KeyOf <- MCKeyOf
  CompanyOf <- MCCompanyOf
  Limits = {0, 1}
  MaxCrashes = 1
  MaxStops = 1
  MaxDrops = 1
  MaxFaults = 0
  MaxDisturbances = 2
  MaxTimeouts = 0
SPECIFICATION FairSpec
PROPERTY QueueDrains
CHECK_DEADLOCK FALSE
