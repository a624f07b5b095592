SPECIFICATION FairSpec
CONSTANTS
  l1 = l1  l2 = l2
  Locks = {l1, l2}
  Nobody = Nobody
  TTL = 3
INVARIANTS
  TypeOK OneFreshHolder LossIsForGood
PROPERTIES
  OnlyTheOwner CrashedFrees
CHECK_DEADLOCK FALSE
