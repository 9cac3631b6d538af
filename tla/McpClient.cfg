SPECIFICATION FairSpec
CONSTANTS
  c1 = c1
  c2 = c2
  k1 = k1
  k2 = k2
  k3 = k3
  k4 = k4
  b1 = b1
  b2 = b2
  b3 = b3
  Calls = {c1, c2}
  Clients = {k1, k2, k3, k4}
  Batches = {b1, b2, b3}
  ServersOf <- MCServersOf
  NameOf <- MCNameOf
  Wants <- MCWants
  Situations <- MCSituations
  Offering = {k1, k3}
  First = b1
  None = None
  PipeCap = 1
  OutCap = 1
  MaxNoise = 1
CHECK_DEADLOCK FALSE
INVARIANTS
  CallsDoNotMix
  
PROPERTIES
  CallsReturn
