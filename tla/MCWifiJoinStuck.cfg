CONSTANTS
  Callers <- MCCallers
  Keys <- MCKeys
  MaxCalls <- MCMaxCalls
SPECIFICATION Spec
PROPERTIES
  EveryCallReturns
CHECK_DEADLOCK FALSE
