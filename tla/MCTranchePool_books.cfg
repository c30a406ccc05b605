CONSTANTS
  i1 = i1
  i2 = i2
  x1 = x1
  Investors <- MCInvestors
  Assets <- MCAssets
  Face <- MCFace
  Current <- MCCurrent
  Par = 1000
  DropPercent = 50
  ReservePercent = 30
  MinSize = 3000
  MaxSize = 8000
  TargetRate <- MCTargetRate
  Lots <- MCOneLot
  Marks <- MCMarks
  Inflows <- MCInflows
  MaxEpoch = 2
  MaxPending = 1
SPECIFICATION Spec
SYMMETRY MCSymm
INVARIANTS TypeOK  PendingMatchesQueue
PROPERTIES  DropProtectedByTin
CHECK_DEADLOCK FALSE
