SPECIFICATION Spec
CONSTANTS
    Faults = {"refused", "disabled", "stuck", "deadTP", "unseen", "raised", "wallet", "noqty", "noclose", "kill"}
    MaxAttempts = 2
    MaxHeals = 0
    MaxLegs = 24
    OcoFlags = {TRUE, FALSE}
    Margins = {TRUE, FALSE}
INVARIANTS
    TypeOK
    SpotInvariant
    ClaimedStopIsLive
    GapHasStop
    OneLegPerRole
    CancelledIsGone
PROPERTIES
    PromiseKept
    ThreadEnds
