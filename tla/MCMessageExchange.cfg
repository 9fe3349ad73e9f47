\* Two logins and one heartbeat, buffers of two and three units, two units under way.
SPECIFICATION FairSpec
CONSTANTS
  Builds <- MCBuilds
  SendSize = 2
  RecvSize = 3
  NetCap = 2
  MaxLogins = 2
  MaxHearts = 1
INVARIANTS
  ConnTypeOK
  InOrder
  BuffersHoldStill
  FlagMatchesRequest
PROPERTIES
  OverdueSpared
  LoginsAreHandled
\* The client program ends.
CHECK_DEADLOCK FALSE
