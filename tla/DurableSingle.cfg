SPECIFICATION FairSpec
CONSTANTS
  Workers = {w1}
  MaxCrashes = 3
  poor = poor  bad = bad  good = good  broken = broken
  Points <- MCPoints
  Sim <- MCSim
  Nudge <- MCNudge
  Invalid = Invalid  Failed = Failed
  NoTarget = NoTarget  NoBest = NoBest  ToolError = ToolError
  Proposals <- AnyAnswers
  Supply = 3
  WallTimes = {0, 1}
  MaxEvaluations = 3
  MaxRejections = 2
  MaxWall = 2
  Window = 2
  Direction = "MINIMISE"
  Target = 3
INVARIANTS SkippedMeansFinished ReasonIsDerivable
PROPERTIES EventuallyDone
CHECK_DEADLOCK FALSE
