SPECIFICATION Spec
CONSTANTS
    Worlds <- MCWorlds
    Requests <- MCRequests
    MaxFaults = 1
INVARIANTS
    SuccessMeansChecked
    SuppressedWhereDeclared
    StaleIsSafeToDelete
CHECK_DEADLOCK FALSE
