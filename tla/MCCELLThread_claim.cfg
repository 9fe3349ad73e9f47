\* One controller, one run of the thread.
SPECIFICATION Spec
CONSTANTS
  Threads = {c1, w1}
  Workers = {w1}
  NoThread = none
INVARIANT
  CloseReturnsAfterThread
CHECK_DEADLOCK FALSE
