CONSTANTS
  c1 = c1
  c2 = c2
  k1 = k1
  k2 = k2
  user = user
  heir = heir
  None = None
  Calls = {c1, c2}
  Keys = {k1, k2}
  Roots = {user, heir}
  RootDepth <- MCRootDepth
  MaxSpawnDepth = 2
  MaxChildren = 1
  LaneCap = 1
  MintAttempts = 2
  WithProjects = {c1}
  Releasable = {heir}
  Stoppable = {user}
  MaxRestarts = 1
SPECIFICATION Spec
INVARIANTS
  
  
  StopReachesRunningDescendants
SYMMETRY KeySymmetry
CHECK_DEADLOCK FALSE
