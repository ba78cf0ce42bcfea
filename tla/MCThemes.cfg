SPECIFICATION Spec
CONSTANTS
    Theme = {"a", "b"}
    Version = {1, 2}
    BlockType = {"x", "y"}
    Pages = {{"x"}}
    Revision = {r1, r2}
    None = None
    Manifest <- MCManifest
    MaxChanges = 2
    MaxOperations = 2
    MaxFaults = 1
    MaxCrashes = 1
    MaxEvents = 2
SYMMETRY Symmetry
CHECK_DEADLOCK FALSE
INVARIANTS ActiveIsEnabled SelectionFollowsJournal RecoveryCanFinish PublishedIsPrepared
