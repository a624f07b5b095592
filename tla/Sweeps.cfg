SPECIFICATION Spec
CONSTANTS
  Issued <- OneBudgetEach
  Regrets = {0, 1}
  LogFloor = 0
  First = "agent"
  Second = "tpe"
  Contested <- Rivalled
  NoMatrix = NoMatrix
  NoValue = NoValue
  None = None
INVARIANTS  CrossingIsFirstLeadChange
PROPERTY MatrixIsComplete
