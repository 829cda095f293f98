SPECIFICATION Spec
CONSTANTS
  alpha = alpha
  beta = beta
  fa = fa
  fb = fb
  fc = fc
  None = None
  Names <- MCNames
  Digest <- MCDigest
  AliasLists <- EditedAliasLists
  EnvsPerWorkspace = 5
  Overlap = FALSE
  Crashing = {p1}
  Procs = {p1}
  p1 = p1
INVARIANTS UniqueIndices HandedOutStays
PROPERTIES ImplementsPool
