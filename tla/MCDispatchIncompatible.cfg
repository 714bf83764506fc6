CONSTANTS
  r1 = r1
  r2 = r2
  c1 = c1
  c2 = c2
  c3 = c3
  m1 = m1
  NoConfig = NoConfig
  Request = {r1, r2}
  Config = {c1, c3}
  Unsupported = {c3}
  Model = {m1}
  Limit = {0, 1}
  Replays = {}
  MaxRetries = 1
  Lease <- MCLease
  ModelOf <- MCModelOf
  Candidates <- MCLiveCandidates
  Priority <- MCPriority
  ConfigLimit <- MCConfigLimit
SYMMETRY MCSymmetry
SPECIFICATION Spec
INVARIANTS
  IncompatibleMeansIncompatible
