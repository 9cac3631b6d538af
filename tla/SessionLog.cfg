SPECIFICATION Spec
CONSTANTS
  s1 = s1
  s2 = s2
  s3 = s3
  p1 = p1
  p2 = p2
  p3 = p3
  Sessions <- MCSessions
  Processes <- MCProcesses
  ProcessOf <- MCProcessOf
  PidOf <- MCPidOf
  CheckpointInterval = 2
  Situations <- MCSituations
INVARIANTS
  ReplayKeepsTheConversation
  
  CrashesAreFound
  CounterIsCovered
\* A session stops when its turns are used up.
CHECK_DEADLOCK FALSE
