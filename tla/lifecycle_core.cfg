SPECIFICATION Spec
CONSTANTS
    Repos <- MCRepos
    Nested <- MCNested
    Pinned <- MCPinned
    Refs <- MCRefs
    Main = "main"
    MaxCommands = 3
    MaxActs = 2
    MaxFaults = 1
CHECK_DEADLOCK FALSE
PROPERTIES WorkKept SuccessLeavesNothing NothingOrphaned SuccessIsWhole
