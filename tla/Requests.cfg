SPECIFICATION FairSpec
CONSTANTS
  Preferred = "ollama"
  FallbackOrder <- MCOrder
  Registries <- MCRegistries
  Modelled = {"ollama", "cerebras", "gemini", "local"}
  MaxAttempts = 3
  BaseDelay = 1
  MaxDelay = 1
  MaxRetryAfter = 3
  MaxRepairs = 1
  MinInterval = 2
  Hints = {5}
  NoHint = NoHint
  Durations = {0, 1}
  MaxRequests = 2
  MaxRouters = 2
INVARIANTS
  TypeOK FallbackIsLastResort FailuresExplain CostIsHonest
  WaitIsBounded CallsArePaced
PROPERTY RequestsReturn
CHECK_DEADLOCK FALSE
