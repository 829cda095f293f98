CONSTANTS
  Workspace = Workspace
  None = None
  Project = Project
  p = p
  q = q
  a = a
  b = b
  ghost = ghost
  Setups <- MCSetups
  Commands <- MCCommands
  Chain <- MCChain
  ScopeOrder <- MCScopeOrder
  MaxFaults = 2
  Deadline = 2
SPECIFICATION Spec
INVARIANTS ExitHonest ChainHolds ProbeForesees
PROPERTIES OnlySelected EveryRunEnds
CHECK_DEADLOCK FALSE
