SPECIFICATION Spec
CHECK_DEADLOCK FALSE
CONSTANTS
    Callers <- MCCallers
    ProcessOf <- MCProcessOf
    Connections <- MCConnections
    PoolOf <- MCPoolOf
INVARIANTS
    OnePairPerEntry
