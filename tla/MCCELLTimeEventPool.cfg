\* Two one-shot events and a periodic one in a pool for two, two stoppers.
SPECIFICATION FairSpec
CONSTANTS
  OneShot = {e1, e2}
  Periodic = {p1}
  MaxCount = 2
  Stoppers = {s1, s2}
  MaxThrows = 1
INVARIANTS
  TypeOK
  CalledAtMostOnce
  NothingForgotten
  NobodyForgotten
PROPERTIES
  StopReturns
  EventExpires
\* When the pool has been stopped nothing more happens.
CHECK_DEADLOCK FALSE
