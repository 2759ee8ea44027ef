SPECIFICATION Spec
CONSTANTS
    Legs <- MCCrossing
    Positions <- MCTwoPositions
    PosOf <- MCPosOf
    RoleOf <- MCRoleOf
    Kinds = {"pair"}
    Faults = {}
    MaxFaults = 0
PROPERTIES
    CancelStaysInPosition
