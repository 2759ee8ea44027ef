SPECIFICATION Spec
CONSTANTS
    aws = aws
    canary = canary
    a1 = a1
    a2 = a2
    c1 = c1
    Workers <- MCWorkers
    Procs <- MCProcs
    ProcOf <- MCProcOf
    Faults = {"criteria", "telegram", "refused", "lost", "raised", "toggle", "crash", "unsaved", "stalled", "skipped", "broken"}
    Prices = {1}
    PriceGate = FALSE
    MaxBucket = 1
    MaxEvals = 2
INVARIANTS
    TypeOK
    OneOrderPerIntent
    OneWorkerPerIntent
    OrderIdIsTrue
    AlertOnce
    OnePlacementPerProcess
    PendingIsHandled
PROPERTY
    HandledOnce
SYMMETRY MCSymmetry
