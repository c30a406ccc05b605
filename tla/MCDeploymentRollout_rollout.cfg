CONSTANTS
  c1 = c1
  Callers <- MCCallers
  Configs <- MCConfigs
  Approvers = {"a1"}
  Targets <- MCTargets
  MaxCalls = 4
  MaxGates = 1
SPECIFICATION Spec
INVARIANTS TypeOK ShareMatchesStage NoPromotionUnapproved 
PROPERTIES  BadModelIsWithdrawn 
CHECK_DEADLOCK FALSE
