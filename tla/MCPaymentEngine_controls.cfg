CONSTANTS
  k1 = k1
  k2 = k2
  a1 = a1
  m1 = m1
  m2 = m2
  PayKeys <- MCPayKeys
  AuthKeys <- MCAuthKeys
  Methods <- MCMethods
  Expired <- MCExpired
  Amounts <- MCAmounts
  Fee = 1
  HourlyLimit = 1
  DailyLimit = 2
  DailyAmount = 7
  DayLength = 4
  MaxRetries = 1
  PrintLimit = 2
  MaxDebt = 1
  MaxTxns = 3
  MaxHour = 4
SPECIFICATION Spec
SYMMETRY MCSymmetry
INVARIANTS TypeOK   VelocityLimited
CHECK_DEADLOCK FALSE
