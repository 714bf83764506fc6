CONSTANTS
  l1 = l1
  l2 = l2
  l3 = l3
  r1 = r1
  r2 = r2
  m1 = m1
  NoConfig = NoConfig
  Config = {1, 2, 3}
  Lease = {l1, l2, l3}
  Limit = {0, 1, 2}
  Request = {r1, r2}
  Model = {m1}
  ModelOf <- MCModelOf
  Latencies = {1, 8}
  Prioritized <- MCPrioritized
SYMMETRY MCSymmetry
SPECIFICATION RuntimeSpec
INVARIANTS
  RuntimeTypeOK
  ActiveMatchesLeases
  TelemetryConsistent
  WaitersCounted
  AttemptOrdersSound
PROPERTIES
  ImplementsLimiter
