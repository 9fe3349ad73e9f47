\* One controller, one run of the thread, whose function may call Exit.
SPECIFICATION FairSpec
CONSTANTS
  Threads = {c1, w1}
  Workers = {w1}
  NoThread = none
PROPERTY
  CloseAlwaysReturns
CHECK_DEADLOCK FALSE
