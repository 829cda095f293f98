CONSTANTS
  None = None
  User = User
  Ws = Ws
  x = x
  y = y
  claude = claude
  opencode = opencode
  scores = scores
  Repos = {x, y}
  Vendors <- MCVendors
  Copies = {opencode}
  Alphabet <- MCAlphabet
  Setups <- MCSetups
  MaxEdits = 2
  MaxCommands = 2
  MaxFaults = 1
SPECIFICATION Spec
INVARIANT DoctorSeesDrift
PROPERTIES InitProjects PruneKeepsWork
CHECK_DEADLOCK FALSE
