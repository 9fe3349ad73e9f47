------------------------- MODULE CountingSemaphore -------------------------
(***************************************************************************)
(* What CELLSemaphore promises its callers: a counting semaphore.  A call  *)
(* of wait() consumes one permit, a call of wakeup() supplies one, and a   *)
(* caller is queued only while there is no permit.  Nothing is said here   *)
(* of counters, condition variables or spurious wakeups.                   *)
(***************************************************************************)
EXTENDS Integers

CONSTANT Threads

VARIABLES permits,   \* wakeups not yet consumed by a wait
          queue      \* the threads blocked in wait()

vars == <<permits, queue>>

Init == permits = 0 /\ queue = {}

(* wait() that finds a permit and returns at once. *)
Pass(t) ==
  /\ t \notin queue
  /\ permits > 0
  /\ permits' = permits - 1
  /\ UNCHANGED queue

(* wait() that finds no permit. *)
Block(t) ==
  /\ t \notin queue
  /\ permits = 0
  /\ queue' = queue \cup {t}
  /\ UNCHANGED permits

(* A blocked wait() consumes a permit and returns. *)
Grant(t) ==
  /\ t \in queue
  /\ permits > 0
  /\ permits' = permits - 1
  /\ queue' = queue \ {t}

(* wakeup() *)
Post == permits' = permits + 1 /\ UNCHANGED queue

Next == Post \/ \E t \in Threads : Pass(t) \/ Block(t) \/ Grant(t)

Spec == Init /\ [][Next]_vars
=============================================================================
