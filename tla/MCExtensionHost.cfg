CONSTANTS
  t1 = t1
  t2 = t2
  p1 = p1
  p2 = p2
  None = None
  Thread = {t1, t2}
  Admin = {t1, t2}
  Package = {p1, p2}
  Requires <- MCRequires
  Start <- MCStart
  MaxRequests = 2
  MaxPending = 1
SPECIFICATION FairSpec
CHECK_DEADLOCK FALSE
INVARIANTS BoundIsEnabled ContractsAreLive NoLockCycle
PROPERTIES EverySyncEnds
