SPECIFICATION HttpSpec
CONSTANTS
  Request <- MCRequest
  NoRequest = "none"
  MaxServerMessages = 1
PROPERTIES
  TerminateCancels
CHECK_DEADLOCK FALSE
