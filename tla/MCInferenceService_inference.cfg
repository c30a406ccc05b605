CONSTANTS
  v1 = v1
  v2 = v2
  none = none
  r1 = r1
  r2 = r2
  r3 = r3
  r4 = r4
  Versions <- MCVersions
  NoVersion = none
  CacheSize = 1
  MaxLoads = 2
  Singles <- MCSingles
  Batches <- MCBatches
  BatchSize = 2
SPECIFICATION Spec
INVARIANTS TypeOK AnswersMatchRequests InOnePlace
 
CHECK_DEADLOCK FALSE
