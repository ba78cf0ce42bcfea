CONSTANTS
  t1 = t1
  t2 = t2
  a = a
  b = b
  k1 = k1
  k2 = k2
  None = None
  Thread = {t1, t2}
  Syncer = {t1}
  Package = {a, b}
  Owner = {a}
  Key = {k1, k2}
  PostgreSQL = FALSE
  Limit = 2
  MaxAttempts = 2
  IdempotencyCap = 1
  MaxRows = 2
  MaxSyncs = 2
  MaxCrashes = 1
SPECIFICATION Spec
SYMMETRY KeySymmetry
INVARIANTS DispatchedWasHandled KeyedOnceUnlessExcused InOrder NoLostWakeup
