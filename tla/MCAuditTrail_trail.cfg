CONSTANTS
  t1 = t1
  t2 = t2
  Threads <- MCThreads
  Modes <- MCModes
  FileLines = 2
  MaxEntries = 3
  MaxSecond = 2
SPECIFICATION Spec
INVARIANTS TypeOK NothingDropped LinksAreAdjacent SignaturesVerify 
PROPERTIES  BufferIsFlushed
CHECK_DEADLOCK FALSE
