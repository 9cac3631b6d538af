SPECIFICATION Spec
CONSTANTS
  h1 = h1
  h2 = h2
  p1 = p1
  p2 = p2
  main = main
  feat = feat
  None = None
  Sessions = {h1, h2}
  Paths = {p1, p2}
  Tracked = {p1}
  Branches = {main, feat}
  Situations <- MCSituations
CHECK_DEADLOCK FALSE
INVARIANT SharedBranchIsNotPublished
 
