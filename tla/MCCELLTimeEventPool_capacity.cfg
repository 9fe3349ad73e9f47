\* A pool for one event: a periodic event comes back to a full queue.
SPECIFICATION Spec
CONSTANTS
  OneShot = {e1}
  Periodic = {p1}
  MaxCount = 1
  Stoppers = {s1}
  MaxThrows = 0
INVARIANT CapacityHolds
CHECK_DEADLOCK FALSE
