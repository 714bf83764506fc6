CONSTANTS
  KeepCount = 1
  MaxId = 3
  Reader = {r1}
  Results <- MCResults
SPECIFICATION ServicesFairSpec
INVARIANTS
  StatsCacheTypeOK
  
PROPERTIES
  CleanupKeepsRecent
  LogsTrimmed
  StatsCatchUp
