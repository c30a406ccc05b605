CONSTANTS
  a1 = a1
  r1 = r1
  r2 = r2
  o1 = o1
  o2 = o2
  Accounts <- MCAccounts
  Original <- MCOriginal
  Requests <- MCNoRequests
  Ops <- MCNoOps
  Overlap = TRUE
  Outreaches <- MCOne
  Texts <- MCTwoTexts
  Hours <- MCDay
  InitialFlags <- MCNoFlags
  Raisable <- MCSomeFlags
  CallLimit = 7
SPECIFICATION ApiSpec
INVARIANTS LawfulWhenSent
CHECK_DEADLOCK FALSE
