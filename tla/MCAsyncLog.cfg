CONSTANTS
  Entry = {e1, e2, e3, e4}
  QueueSize = 2
  BatchSize = 2
SPECIFICATION FairSpec
INVARIANTS
  AsyncLogTypeOK
  BatchHasTimer
  StopFlushesAll
PROPERTIES
  ImplementsSink
  EntriesSettle
