CONSTANTS
  ServedModels <- MCModels
  Names <- MCNames
  Resolve <- MCResolve
  ProviderOf <- MCProviderOf
  MaxAPICallsPerTurn = 2
  Scenarios <- MCScenarios
SPECIFICATION Spec
INVARIANTS
  
  RequestsHoldWhatWasSaid
  TurnRunsAsChosen
CHECK_DEADLOCK FALSE
