CONSTANTS
  t1 = t1
  t2 = t2
  a = a
  b = b
  k1 = k1
  k2 = k2
  None = None
  Thread = {t1, t2}
  Syncer = {t1, t2}
  Package = {a}
  Owner = {a}
  Key = {k1}
  PostgreSQL = TRUE
  Limit = 1
  MaxAttempts = 2
  IdempotencyCap = 1
  MaxRows = 2
  MaxSyncs = 1
  MaxCrashes = 1
SPECIFICATION FairSpec
PROPERTIES SettledStaysSettled EveryDrainEnds
