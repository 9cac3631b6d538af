SPECIFICATION Spec
CONSTANTS
  m1 = m1
  m2 = m2
  Models <- MCModels
  Default = m1
  None = None
  KeepRecentTurns = 2
  ToolResultKeepFull = 1
  ToolResultDrop = 2
  ToolCallKeepFull = 1
  TriggerMessages = 4
  SummaryTurns = 2
  MaxAPICallsPerTurn = 3
  FlushInterval = 2
  Situations <- MCSituations
INVARIANTS
  RequestsAreWellFormed
  BreakpointsFollowTheirMessages
  
  ObserveChangesNothing
  HealthNeedsEvidence
  ConversationKeepsTheTurn

  
CHECK_DEADLOCK FALSE
