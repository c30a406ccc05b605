CONSTANTS
  a1 = a1
  r1 = r1
  r2 = r2
  r3 = r3
  Accounts <- MCAccounts
  Requests <- MCRequests
  Original <- MCOriginal
  Ops <- MCOps
  Overlap = FALSE
SPECIFICATION Spec
INVARIANTS TypeOK LedgerExact
PROPERTIES AtomicSpec
CHECK_DEADLOCK FALSE
