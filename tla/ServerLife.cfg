SPECIFICATION Spec
CONSTANTS
  j1 = j1
  j2 = j2
  j3 = j3
  Jobs <- MCJobs
  Situations <- MCSituations
  Reaper = Reaper
  None = None
  Cap = 1
  MaxFailures = 1
  MaxSweeps = 1
INVARIANTS
  NothingOutlivesItsOwner
  TurnsKeepTheirSession
  FreshRequestsStartEmpty
  DiskRemembersTheSession
PROPERTIES
  TranscriptsOnlyGrow
