SPECIFICATION CloudSpec
CONSTANTS
  CloudBatchSize = 2
  CloudKeyTtl = 1
  CloudMaxEvents = 2
  CloudMaxTime = 3
INVARIANTS
  EndedRunHasItsRows
CHECK_DEADLOCK FALSE
