SPECIFICATION Spec
CONSTANTS
  U = U
  V = V
  d1 = d1
  d2 = d2
  c1 = c1
  f = f
  g = g
  NULL = NULL
  Operators = {U, V}
  HasControlPort = {U}
  DocumentThreads = {d1, d2}
  ControlThreads = {c1}
  Feeds <- MCFeeds
  Files = {f, g}
  MaxDocuments = 2
  MaxControls = 3
  MaxReplacements = 1
SYMMETRY Symmetry
INVARIANTS
  OneEnginePerDocument
  FallsBackToInitial
  ShutdownLeavesNothing
CHECK_DEADLOCK FALSE
