CONSTANTS
  MaxPieces = 3
  MaxTools = 2
SPECIFICATION Spec
INVARIANTS
  StreamTypeOK
  WordsFaithful
  CallsFaithful
  DialectRulesKept
  CleanEndMeansComplete
  CompleteStreamEnds
  LogKeepsAnswer
  AggregateFaithful
  
