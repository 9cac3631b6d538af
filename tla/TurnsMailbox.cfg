SPECIFICATION Spec
CONSTANTS
  s1 = s1
  s2 = s2
  r1 = r1
  r2 = r2
  r3 = r3
  n1 = n1
  n2 = n2
  n3 = n3
  None = None
  LaneCap <- OneSlotEach
  Sessions = {s1}
  Requests = {r1, r2}
  Notes = {n1, n2, n3}
  To <- OneSession
  LaneOf <- R2IsAChild
  ChannelCap = 2
  MaxCalls = 2
  Readers = {r1}
  Interruptible = {s1}
  Compactable = {s1}
  Capped = {s1}
SYMMETRY NotePermutations
INVARIANTS TurnsCanBeReached RoutesAreFIFO
PROPERTY ImplementsMailbox
CHECK_DEADLOCK FALSE
