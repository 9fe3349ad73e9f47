\* Two message threads, three connections, a limit of two.
SPECIFICATION FairSpec
CONSTANTS
  NServers = 2
  Clients = {c1, c2, c3}
  MaxClient = 2
  NoClient = none
INVARIANTS
  TypeOK
  OwnedOnce
  CountMatches
  FdSetFresh
  CloseFreesAll
  NoUseAfterDelete
PROPERTIES
  AcceptedIsServed
  CloseEnds
\* The server may be closed, and then nothing more happens.
CHECK_DEADLOCK FALSE
