SPECIFICATION Spec
CONSTANTS
    Faults = {"deadTP", "stuck", "drop"}
    MaxAttempts = 2
    MaxHeals = 1
    MaxLegs = 24
    OcoFlags = {TRUE}
    Margins = {TRUE, FALSE}
INVARIANTS
    HardInvariant
    OneLegPerRole
PROPERTIES
    HealKeepsStop
