SPECIFICATION Spec
CONSTANTS
  Backends = {"b1", "b2"}
  Pools <- MCPools
  Settings <- MCSettings
  Answers <- MCAnswers
  MaxRequests = 2
INVARIANT AnswerInClientDialect
CHECK_DEADLOCK FALSE
