SPECIFICATION FairSpec
CONSTANTS
  s1 = s1
  s2 = s2
  r1 = r1
  r2 = r2
  r3 = r3
  n1 = n1
  n2 = n2
  n3 = n3
  None = None
  LaneCap <- OneSlotEach
  Sessions = {s1, s2}
  Requests = {r1, r2, r3}
  Notes = {}
  To <- TwoSessions
  LaneOf <- R2IsAChild
  ChannelCap = 1
  MaxCalls = 2
  Readers = {r1}
  Interruptible = {s1}
  Compactable = {s2}
  Capped = {}
INVARIANTS TurnsAreSerialized LossNeedsACause
CHECK_DEADLOCK FALSE
PROPERTIES
  EveryRequestReturns
