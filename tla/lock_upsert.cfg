SPECIFICATION LockSpec
CONSTANTS
  Repos = {r1, r2, r3}
  Entries = {e1, e2}
  NoEntry = NoEntry
  Torn = Torn
  Nobody = Nobody
  Crashing = TRUE
PROPERTIES ImplementsTable
