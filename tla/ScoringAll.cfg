SPECIFICATION Spec
CONSTANTS
  Points <- MCPoints
  Sim <- MCSim
  Nudge <- MCNudge
  Proposals <- AnyProposals
  Invalid = Invalid  Failed = Failed
  NoTarget = NoTarget  NoBest = NoBest  ToolError = ToolError  NoValue = NoValue
  Supply = 9
  WallTimes = {0}
  MaxEvaluations = 4
  MaxRejections = 3
  MaxWall = 2
  Window = 2
  Direction = "MINIMISE"
  Target = NoTarget
  KnownOptimum = 2
  Threshold = 1
  MaxIdx = 4
  Coordinates <- MCCoordinates
  CrowdWindow = 3
  Epsilon = 2
INVARIANT IncumbentsAgree
PROPERTIES ThresholdIsStable RejectionsDoNotStagnate
CHECK_DEADLOCK FALSE
