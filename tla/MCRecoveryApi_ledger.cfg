CONSTANTS
  a1 = a1
  r1 = r1
  r2 = r2
  o1 = o1
  o2 = o2
  Accounts <- MCAccounts
  Original <- MCOriginal
  Requests <- MCTwoRequests
  Ops <- MCOps
  Overlap = TRUE
  Outreaches <- MCTwo
  Texts <- MCTwoTexts
  Hours <- MCDay
  InitialFlags <- MCNoFlags
  Raisable <- MCNone
  CallLimit = 7
SPECIFICATION ApiSpec
SYMMETRY Symm
INVARIANTS RollupsNeverExceedRows
PROPERTIES MoneyMovesOnlyWithPayments
CHECK_DEADLOCK FALSE
