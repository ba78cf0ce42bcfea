SPECIFICATION Spec
CONSTANTS
    Form = {"sqlite", "pg"}
    PostgreSQLDatabase = {"pg"}
    Email = {a, b}
    None = None
    Wizard = TRUE
    MaxFaults = 1
SYMMETRY Symmetry
CHECK_DEADLOCK FALSE
INVARIANTS  SucceededHasEffect PendingCanSettle
