SPECIFICATION Spec
CONSTANTS
  Bad = Bad
  Outside = Outside
  Text = Text
  Garbled = Garbled
  None = None
  DefaultAliases <- MCDefaultAliases
  Managed = {"WINTER_ENV"}
  Vendors = {"claude", "codex"}
  BuiltinTiers = {"opus", "haiku"}
  Roots <- MCRoots
  Index <- MCIndex
  Openings <- MCOpenings
  Drafts <- MCDrafts
  MaxFaults = 1
INVARIANTS
  SlicesDisjoint
  NoFanOut
PROPERTIES
  StillLoads
\* A workspace whose configuration does not load takes no command.
CHECK_DEADLOCK FALSE
