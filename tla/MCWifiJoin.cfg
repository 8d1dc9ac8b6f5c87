CONSTANTS
  Callers <- MCCallers
  Keys <- MCKeys
  MaxCalls <- MCMaxCalls
SPECIFICATION Spec
INVARIANTS
  TypeOK
  JoinDataAlive
  IdleIsClean
PROPERTIES
  CallReturns
CHECK_DEADLOCK FALSE
