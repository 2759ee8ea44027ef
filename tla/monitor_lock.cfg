SPECIFICATION Spec
CONSTANTS
    aws = aws
    canary = canary
    l1 = l1
    l2 = l2
    Procs <- MCProcs
    Primaries <- MCPrimaries
    Loops <- MCLoops
    Faults = {"hang", "dropped", "crash", "noconn"}
    Timeouts = {TRUE, FALSE}
    MaxCoins = 1
INVARIANTS
    TypeOK
    OneCycle
    LockIsOfCycle
PROPERTIES
    LockComesFree
    StopEndsLoops
