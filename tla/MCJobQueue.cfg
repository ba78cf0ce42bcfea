CONSTANTS
  j1 = j1
  j2 = j2
  k1 = k1
  k2 = k2
  op1 = op1
  op2 = op2
  ownerA = ownerA
  ownerB = ownerB
  p1 = p1
  p2 = p2
  w1 = w1
  None = None
  Job = {j1, j2}
  Key = {k1, k2}
  Operation = {op1, op2}
  Owner = {ownerA, ownerB}
  OwnerOf <- MCOwnerOf
  Process = {p1, p2}
  Worker = {w1}
  WorkerOf <- MCWorkerOf
  MaximumRecords = 2
  MaximumAttempts = 2
  Lease = 2
  BaseRetryDelay = 1
  MaximumRetryDelay = 2
  Ahead = 1
  PurgeLimit = 1
  Skew = 1
  Past = 2
SPECIFICATION Spec
SYMMETRY Symmetry
INVARIANTS OneHolder
PROPERTIES NoEarlyTakeover OutcomeIsFinal
