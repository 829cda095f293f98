CONSTANTS
  Absent = Absent
  None = None
  Detached = Detached
  Source = Source
  Caller = Caller
  m = m
  f1 = f1
  w1 = w1
  x1 = x1
  p1 = p1
  file = file
  a = a
  b = b
  Repo <- MCRepo
  Standalone <- MCStandalone
  Pinned <- MCPinned
  Worktrees <- MCWorktrees
  Branch <- MCBranch
  Change <- MCChange
  Commands <- MCCommands
  InitRepos <- MCInitRepos
  Changes = {x1}
  Pushes = {p1}
  Files = {file}
  Reach <- MCReach
  MaxAttempts = 2
  MaxCommands = 1
  MaxFaults = 1
  MaxMeddling = 1
  NestedTrees <- MCNestedTrees
  Orphans = {}
SPECIFICATION Spec
INVARIANTS Accounted ReadsSafeOnlyWhenSaved
PROPERTIES WorkKept DivergedUntouched CleanStaysClean
CHECK_DEADLOCK FALSE
