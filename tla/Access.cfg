SPECIFICATION AccessSpec
CONSTANTS
  Order <- MCOrder
  Wirings <- MCWirings
  Existing = {"first"}
  Policies = {"strict", "request_approval", "public"}
  People = {p, q}
  MaxMessages = 2
  MaxRestarts = 1
PROPERTIES
  RefusedNeverStored
  DeniedStaysQuiet
  
CHECK_DEADLOCK FALSE
