SPECIFICATION Spec
CONSTANTS
    Legs <- MCPair
    Positions <- MCOnePosition
    PosOf <- MCPosOf
    RoleOf <- MCRoleOf
    Kinds = {"native", "pair", "loose"}
    Faults = {"lost","blind","rollback"}
    MaxFaults = 1
INVARIANTS
    TypeOK
    FilledRowIsTrue
PROPERTIES
    PositionPromise
    TableSettles
