SPECIFICATION Spec
CONSTANTS
    None = None
    p1 = p1  p2 = p2
    b = b  r = r  s = s  u = u  k = k
    a = a
    Process <- Processes
    Operation = {b, r, s, u, k}
    Plan <- Plans
    Command <- Commands
    Archive = {a}
    Version = {1, 2}
    Schema <- Schemas
    TornAppends = TRUE
    MaxAttempts <- Attempts
SYMMETRY Symmetry
CHECK_DEADLOCK FALSE
INVARIANTS DataCanBePutBack ReplacedTreeIsKept TrustedHeadsAreHistory JournalsVerify
