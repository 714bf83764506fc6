SPECIFICATION Spec
CONSTANTS
  Backends = {"b1", "b2"}
  Pools <- MCPools
  Settings <- MCSettings
  Answers <- MCAnswers
  MaxRequests = 2
INVARIANT ResultsKept
CHECK_DEADLOCK FALSE
