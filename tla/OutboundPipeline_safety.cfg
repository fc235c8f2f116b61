CONSTANTS
  r1 = r1  r2 = r2  r3 = r3  r4 = r4  k1 = k1  c1 = c1
  Request = {r1, r2, r3}
  Worker = {w1, w2}
  Company = {c1}
  NoCompany = NoCompany
  NoKey = NoKey
  NoJob = NoJob
  KeyOf <- MCKeyOf
  CompanyOf <- MCCompanyOf
  Limits = {1}
  MaxCrashes = 1
  MaxStops = 1
  MaxDrops = 1
  MaxFaults = 1
  MaxDisturbances = 2
  MaxTimeouts = 1
SPECIFICATION Spec
SYMMETRY WorkerSymmetry
CONSTRAINT FewDisturbances
INVARIANTS QuotaAccounting SendsBoundedByRedelivery OneMessagePerKey PendingIsUnderway OutcomeIsTrue
PROPERTY OneDeliveryAtATime
CHECK_DEADLOCK FALSE
