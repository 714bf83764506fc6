CONSTANTS
  r1 = r1
  r2 = r2
  a1 = a1
  a2 = a2
  m1 = m1
  NoConfig = NoConfig
  NoRow = NoRow
  Deleted = Deleted
  NoCache = NoCache
  Config = {c1}
  Request = {r1, r2}
  Lease = {r1, r2}
  Admin = {a1, a2}
  Model = {m1}
  Limit = {0, 1}
  ModelOf <- MCModelOf
SPECIFICATION FairSpec
CHECK_DEADLOCK FALSE
INVARIANTS
  ModelConfigsTypeOK
  LimitInForceIsSaved

  
