CONSTANTS
    base = base
    m1 = m1
    m2 = m2
    i1 = i1
    u2 = u2
    r1 = r1
    i2 = i2
    None = None
    Package = {base}
    MaximumVersion = 2
    Migration = {m1, m2}
    Manifest <- MCManifest
    Protected = {}
    Op = {i1, u2, r1, i2}
    Request <- MCRequest
SPECIFICATION LiveSpec
INVARIANTS
    NothingLeftBehind
    TreesMatchRegistry
    OldVersionSurvives
PROPERTIES
    IsAtomic
    DecisionIsRespected
    RecoveryCompletes
