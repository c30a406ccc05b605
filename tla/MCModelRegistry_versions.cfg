CONSTANTS
  v1 = v1
  v2 = v2
  v3 = v3
  v4 = v4
  none = none
  Versions <- MCVersions
  NoVersion = none
  CacheSize = 3
  MaxLoads = 5
SPECIFICATION RegistrySpec
SYMMETRY MCSymmetry
INVARIANTS EngineServes CacheWithinSize
CHECK_DEADLOCK FALSE
