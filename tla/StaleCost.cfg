SPECIFICATION Spec
CONSTANTS
  Workers = {w1}
  Strategies = {"planner"}
  Good = {g1}
  Bad = {b1}
  NonFinite = {}
  Failed = Failed
  MaxPlan = 3
  MaxRepairs = 1
  ShownRejections = 3
  MaxEvaluations = 2
  MaxRejections = 3
  MaxStarts = 1
INVARIANT FailuresAppearOnlyAsErrors
CHECK_DEADLOCK FALSE
