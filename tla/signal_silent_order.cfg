SPECIFICATION Spec
CONSTANTS
    aws = aws
    canary = canary
    a1 = a1
    a2 = a2
    c1 = c1
    Workers <- MCWorkers
    Procs <- MCProcs
    ProcOf <- MCProcOf
    Faults = {"telegram"}
    Prices = {1, 2}
    PriceGate = TRUE
    MaxBucket = 1
    MaxEvals = 2
INVARIANTS
    OrderHasAlert
SYMMETRY MCSymmetry
