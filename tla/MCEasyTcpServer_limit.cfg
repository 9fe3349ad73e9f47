\* Accept tests the limit before the client is counted.
SPECIFICATION Spec
CONSTANTS
  NServers = 2
  Clients = {c1, c2, c3}
  MaxClient = 2
  NoClient = none
INVARIANT LimitHolds
CHECK_DEADLOCK FALSE
