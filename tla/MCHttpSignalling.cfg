SPECIFICATION HttpSpec
CONSTANTS
  Request <- MCRequest
  NoRequest = "none"
  MaxServerMessages = 1
INVARIANTS
  PairingInv
  TerminatedIsOver
PROPERTIES
  EveryRequestEnds
CHECK_DEADLOCK FALSE
