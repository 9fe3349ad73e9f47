\* Two controllers and two successive runs of the thread.
SPECIFICATION FairSpec
CONSTANTS
  Threads = {c1, c2, w1, w2}
  Workers = {w1, w2}
  NoThread = none
INVARIANTS
  TypeOK
  TokenAccounting
  NoLostWakeup
  CloseNotStranded
  CloseWaitsForDestory
PROPERTIES
  CloseReturns
  ImplementsCounting
\* An Exit that races with Close leaves both threads blocked for ever.
CHECK_DEADLOCK FALSE
