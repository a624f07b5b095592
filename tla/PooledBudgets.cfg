SPECIFICATION Spec
CONSTANTS
  Issued <- TwoBudgets
  Regrets = {0, 1}
  LogFloor = 0
  First = "agent"
  Second = "tpe"
  Contested <- Rivalled
  NoMatrix = NoMatrix
  NoValue = NoValue
  None = None
INVARIANT CellsShareABudget
