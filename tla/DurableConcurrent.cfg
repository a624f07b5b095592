SPECIFICATION FairSpec
CONSTANTS
  Workers = {w1, w2}
  MaxCrashes = 1
  poor = poor  bad = bad  good = good  broken = broken
  Points <- MCPoints
  Sim <- MCSim
  Nudge <- MCNudge
  Invalid = Invalid  Failed = Failed
  NoTarget = NoTarget  NoBest = NoBest  ToolError = ToolError
  Proposals <- AnyProposals
  Supply = 9
  WallTimes = {0, 1}
  MaxEvaluations = 4
  MaxRejections = 1
  MaxWall = 2
  Window = 2
  Direction = "MINIMISE"
  Target = 3
INVARIANTS
  TypeOK HistoryIsPrefix LocalIsRecomputed
   SnapshotIsOfAPrefix DoneIsFinal
PROPERTIES ImplementsRunRecord LoopTerminates
CHECK_DEADLOCK FALSE
