CONSTANTS
    base = base
    addon = addon
    pay = pay
    cap = cap
    Package = {base, addon, pay}
    MaximumVersion = 2
    Migration = {}
    Manifest <- MCManifest
    Protected = {}
    Op <- MCOp
    Request <- MCRequest
SPECIFICATION Spec
CHECK_DEADLOCK FALSE
INVARIANTS
    InstalledSound
PROPERTIES
    OrphansAreContained
    UnservedAreContained
