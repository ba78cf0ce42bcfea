CONSTANTS
  j1 = j1
  j2 = j2
  k1 = k1
  k2 = k2
  op1 = op1
  op2 = op2
  ownerA = ownerA
  ownerB = ownerB
  p1 = p1
  p2 = p2
  w1 = w1
  None = None
  Job = {j1, j2}
  Key = {k1, k2}
  Operation = {op1}
  Owner = {ownerA}
  OwnerOf <- MCOneOwnerOf
  Process = {p1, p2}
  Worker = {w1}
  WorkerOf <- MCWorkerOf
  MaximumRecords = 2
  MaximumAttempts = 2
  Lease = 2
  BaseRetryDelay = 1
  MaximumRetryDelay = 2
  Ahead = 0
  PurgeLimit = 0
  Skew = 0
  Past = 1
SPECIFICATION LiveSpec
PROPERTIES EveryJobSettles
