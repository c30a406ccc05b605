CONSTANTS
  m1 = m1
  PayKeys <- MCNoKeys
  AuthKeys <- MCNoKeys
  Methods <- MCMethods
  Expired <- MCNoMethod
  Amounts <- MCAmounts
  Fee = 1
  HourlyLimit = 2
  DailyLimit = 2
  DailyAmount = 20
  DayLength = 1
  MaxRetries = 1
  PrintLimit = 4
  MaxDebt = 0
  MaxTxns = 3
  MaxHour = 2
  Plans <- MCPlans
  PlanMethod = m1
  Every = 1
SPECIFICATION PlanSpec
INVARIANTS PlanTypeOK PlanBooks  CompletedIsCharged
CHECK_DEADLOCK FALSE
