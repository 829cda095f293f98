CONSTANTS
    Setups <- MCSetups
    Names <- MCNames
    Managed <- MCManaged
    PortBase = "P"
    ScopeNamed <- MCScopeNamed
    Underscored <- MCUnderscored
    Runs <- MCRuns
SPECIFICATION Spec
CHECK_DEADLOCK FALSE
INVARIANTS
    FurthestDownHolds
    SameButForTheScope
    BlameReachesACause
