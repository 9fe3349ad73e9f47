\* CheckTime may remove the last client before DoNetEvents.
SPECIFICATION Spec
CONSTANTS
  NServers = 2
  Clients = {c1, c2, c3}
  MaxClient = 2
  NoClient = none
INVARIANT PollsSomebody
CHECK_DEADLOCK FALSE
