SPECIFICATION Spec
CONSTANTS
  Workers = {w1, w2}
  MaxCrashes = 0
  poor = poor  bad = bad  good = good  broken = broken
  Points <- MCPoints
  Sim <- MCSim
  Nudge <- MCNudge
  Invalid = Invalid  Failed = Failed
  NoTarget = NoTarget  NoBest = NoBest  ToolError = ToolError
  Proposals <- AnyProposals
  Supply = 9
  WallTimes = {0}
  MaxEvaluations = 2
  MaxRejections = 2
  MaxWall = 2
  Window = 0
  Direction = "MINIMISE"
  Target = NoTarget
INVARIANT SkippedMeansFinished
CHECK_DEADLOCK FALSE
