SPECIFICATION Spec
CONSTANTS
    Faults = {"kill", "toggle"}
    MaxAttempts = 2
    MaxHeals = 0
    MaxLegs = 24
    OcoFlags = {TRUE}
    Margins = {TRUE, FALSE}
INVARIANTS
    NeverStripped
