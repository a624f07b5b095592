SPECIFICATION Spec
CONSTANTS
  Names <- MCNames
  Words <- MCWords
  Space <- MCSpace
  Order <- MCOrder
  Metrics <- MCMetrics
  Measure <- MCMeasure
  ObjectiveMetric = "objective"
  Constraints <- MCConstraints
  ParsedGoals <- MCParsedGoals
  Strategies = {"grid", "random", "tpe", "planner"}
  RawAnswers <- MCRawAnswers
  MaxEvaluations = 4
  MaxRejections = 2
  Window = 0
  Direction = "MINIMISE"
  Target = NoTarget
  Invalid = Invalid
  Failed = Failed
  NoTarget = NoTarget
  NoBest = NoBest
  ToolError = ToolError
  NoGoal = NoGoal
  NaN = NaN
INVARIANTS TypeOK OnlyLegalPoints RepeatsAreMarked SamplerAgrees GridIsWalkedOnce
PROPERTY ImplementsRecord
CHECK_DEADLOCK FALSE
