SPECIFICATION Spec
CONSTANTS
  Workers = {w1, w2}
  Strategies = {"planner", "single_shot"}
  Good = {g1}
  Bad = {b1, nan}
  NonFinite = {nan}
  Failed = Failed
  MaxPlan = 3
  MaxRepairs = 0
  ShownRejections = 1
  MaxEvaluations = 2
  MaxRejections = 3
  MaxStarts = 2
INVARIANTS
  TypeOK EvidenceSurvives AskedOnce PlanServedInOrder
  LockInIsForGood
SYMMETRY Perms
CHECK_DEADLOCK FALSE
