\* Two closers, one run of the thread, three tasks.
SPECIFICATION FairTaskSpec
CONSTANTS
  Threads = {c1, c2, w1}
  Workers = {w1}
  Runner = w1
  NoThread = none
  MaxTasks = 3
INVARIANTS
  TaskTypeOK
  ExecutedInOrder
  NothingLost
  CloseRunsTasks
PROPERTIES
  EveryTaskRuns
  TaskCloseReturns
\* Once the thread has ended and the tasks are used up nothing is left to do.
CHECK_DEADLOCK FALSE
