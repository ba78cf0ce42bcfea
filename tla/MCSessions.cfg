SPECIFICATION Spec
CONSTANTS
    User = {alice, bob}
    Browser = {b1, b2}
    Peer = {p1, p2}
    None = None
    MaximumFailures = 2
    MaximumClients = 1
    CleanupBatch = 1
    MaxSessions = 2
    MaxChanges = 3
SYMMETRY Symmetry
CHECK_DEADLOCK FALSE
INVARIANTS AdminRemains UsableIsAudited GuessesBounded
