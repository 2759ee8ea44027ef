SPECIFICATION Spec
CONSTANTS
    Faults = {"refused"}
    MaxAttempts = 2
    MaxHeals = 0
    MaxLegs = 24
    OcoFlags = {TRUE}
    Margins = {TRUE}
INVARIANTS
    HardInvariant
