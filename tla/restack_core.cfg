SPECIFICATION Spec
CONSTANTS
  e1 = e1
  e2 = e2
  main = main
  r1 = r1
  r2 = r2
  None = None
  Envs = {e1, e2}
  Main = main
  Bottoms = {e1}
  Repos <- MCRepos
  Commands <- MCInOrder
  MaxEdits = 1
  MaxPulls = 1
INVARIANTS OwnCommitsKept ResumeSkipsCompleted
PROPERTIES StandsOnPredecessor
CHECK_DEADLOCK FALSE
