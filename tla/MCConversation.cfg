SPECIFICATION Spec
CONSTANTS
  Backends = {"b1", "b2"}
  Pools <- MCPools
  Settings <- MCSettings
  Answers <- MCAnswers
  MaxRequests = 2
INVARIANTS
  ConversationTypeOK
  RequestKept
  ResultsPaired
  SentAcceptable
  
  AnswerLogged
CHECK_DEADLOCK FALSE
