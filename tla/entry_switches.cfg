SPECIFICATION Spec
CONSTANTS
    Faults = {"toggle", "kill", "margin", "stuck", "raised", "wallet", "noqty", "noclose", "unsaved", "unmarked"}
    MaxAttempts = 2
    MaxHeals = 0
    MaxLegs = 24
    OcoFlags = {TRUE, FALSE}
    Margins = {TRUE, FALSE}
INVARIANTS
    HardInvariant
