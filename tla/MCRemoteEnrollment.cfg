SPECIFICATION Spec
CONSTANTS
    h1 = h1  h2 = h2  c1 = c1  c2 = c2
    None = None
    Host = {h1, h2}
    Intent <- Intents
    Client <- Clients
    Admin = {admin}
    MaxOperations = 3
    MaxFailed = 2
    MaxPending = 1
    MaxCodes = 1
    MaxChallenges = 2
SYMMETRY Symmetry
CHECK_DEADLOCK FALSE
INVARIANTS SpentOnce OpenWasVerified
PROPERTY RecordFollowsGateway
