--------------------------- MODULE CELLSemaphore ---------------------------
(***************************************************************************)
(* depends/include/CELLSemaphore.hpp: a semaphore made of two counters and *)
(* a condition variable.  Every method runs under the semaphore's own      *)
(* mutex, so each is one step, except that wait() gives the mutex up while *)
(* it is inside _cv.wait(): the threads inside are split into those that   *)
(* sleep on the condition variable (blocked) and those that have been      *)
(* notified or woken spuriously and have yet to re-evaluate the predicate  *)
(* (ready).                                                                *)
(***************************************************************************)
EXTENDS Integers, FiniteSets

CONSTANT Threads

ASSUME ThreadsFinite == IsFiniteSet(Threads)

VARIABLES waitCount,     \* _wait
          wakeupCount,   \* _wakeup
          blocked, ready

semVars == <<waitCount, wakeupCount, blocked, ready>>

Inside == blocked \cup ready

SemTypeOK ==
  /\ waitCount \in Int
  /\ wakeupCount \in Int
  /\ blocked \subseteq Threads
  /\ ready \subseteq Threads
  /\ blocked \cap ready = {}

SemInit ==
  /\ waitCount = 0
  /\ wakeupCount = 0
  /\ blocked = {}
  /\ ready = {}

(* wait(): it returns at once when the decremented counter is not negative *)
(* or when the predicate of _cv.wait already holds, and sleeps otherwise.  *)
Wait(t) ==
  /\ t \notin Inside
  /\ waitCount' = waitCount - 1
  /\ \/ /\ waitCount' >= 0
        /\ UNCHANGED <<wakeupCount, blocked>>
     \/ /\ waitCount' < 0 /\ wakeupCount > 0
        /\ wakeupCount' = wakeupCount - 1
        /\ UNCHANGED blocked
     \/ /\ waitCount' < 0 /\ wakeupCount <= 0
        /\ blocked' = blocked \cup {t}
        /\ UNCHANGED wakeupCount
  /\ UNCHANGED ready

(* A thread that woke up re-evaluates the predicate: it takes a wakeup and *)
(* returns from wait(), or sleeps again.                                   *)
Resume(t) ==
  /\ t \in ready
  /\ ready' = ready \ {t}
  /\ \/ /\ wakeupCount > 0
        /\ wakeupCount' = wakeupCount - 1
        /\ UNCHANGED blocked
     \/ /\ wakeupCount <= 0
        /\ blocked' = blocked \cup {t}
        /\ UNCHANGED wakeupCount
  /\ UNCHANGED waitCount

(* The condition variable may wake a sleeper for no reason. *)
SpuriousWakeup(t) ==
  /\ t \in blocked
  /\ blocked' = blocked \ {t}
  /\ ready' = ready \cup {t}
  /\ UNCHANGED <<waitCount, wakeupCount>>

(* MUTANT: the woken thread is not taken off the queue of sleepers. *)
NotifyKeepsQueued ==
  \/ blocked = {} /\ UNCHANGED <<blocked, ready>>
  \/ \E t \in blocked : ready' = ready \cup {t} /\ UNCHANGED blocked

(* MUTANT: the sleeper is not notified. *)
NotifyNobody == UNCHANGED <<blocked, ready>>

(* _cv.notify_one(): any one sleeper is woken, if there is one. *)
NotifyOne ==
  \/ /\ blocked = {}
     /\ UNCHANGED <<blocked, ready>>
  \/ \E t \in blocked : /\ blocked' = blocked \ {t}
                        /\ ready' = ready \cup {t}

(* MUTANT: wakeup() reserves a wakeup even when nobody is waiting. *)
WakeupAlwaysReserves ==
  /\ waitCount' = waitCount + 1
  /\ wakeupCount' = wakeupCount + 1
  /\ NotifyOne

(* wakeup() *)
Wakeup ==
  /\ waitCount' = waitCount + 1
  /\ IF waitCount' <= 0
     THEN wakeupCount' = wakeupCount + 1 /\ NotifyOne
     ELSE UNCHANGED <<wakeupCount, blocked, ready>>

SemNext ==
  \/ Wakeup
  \/ \E t \in Threads : Wait(t) \/ Resume(t) \/ SpuriousWakeup(t)

SemSpec == SemInit /\ [][SemNext]_semVars

-----------------------------------------------------------------------------
(* The two counters agree with the threads inside wait(): every thread     *)
(* inside is either owed a wakeup by a negative _wait or has one reserved  *)
(* for it in _wakeup (CELLSemaphore::wait, CELLSemaphore::wakeup).         *)
TokenAccounting ==
  wakeupCount = Cardinality(Inside) + (IF waitCount < 0 THEN waitCount ELSE 0)

(* A wakeup is never lost: while _wakeup is positive that many threads     *)
(* have left the condition variable's queue and will test the predicate.   *)
(* (notify_one wakes one thread; a spurious wakeup may steal its permit.)  *)
NoLostWakeup == 0 <= wakeupCount /\ wakeupCount <= Cardinality(ready)

SemInv == SemTypeOK /\ TokenAccounting /\ NoLostWakeup

(* The counters implement the abstract counting semaphore.                 *)
Abstract == INSTANCE CountingSemaphore
            WITH permits <- waitCount + Cardinality(Inside), queue <- Inside

ImplementsCounting == Abstract!Spec
=============================================================================
