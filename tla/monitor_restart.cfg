SPECIFICATION Spec
CONSTANTS
    aws = aws
    canary = canary
    l1 = l1
    l2 = l2
    Procs <- MCProcs
    Primaries <- MCPrimaries
    Loops <- MCLoops
    Faults = {"crash"}
    Timeouts = {TRUE, FALSE}
    MaxCoins = 1
PROPERTIES
    StartIsHeeded
