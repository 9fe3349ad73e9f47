----------------------------- MODULE CELLThread -----------------------------
(***************************************************************************)
(* depends/include/CELLThread.hpp: one CELLThread object, shared by the    *)
(* controllers that call Start, Close and Exit on it and by the detached   *)
(* threads ("workers") that successive calls of Start create, each running *)
(* OnWork once.  The semaphore _sem is CELLSemaphore.                      *)
(*                                                                         *)
(* _isRun is a plain bool: OnWork and Exit write and read it without the   *)
(* mutex that Start and Close hold.  Every unlocked access is a step of    *)
(* its own; an access made under _mutex is merged with the locking or      *)
(* unlocking next to it, since the only writes that can come between them  *)
(* store FALSE and commute.                                                *)
(***************************************************************************)
EXTENDS CELLSemaphore

CONSTANTS Workers,   \* the runs of OnWork, one per successful Start
          NoThread   \* _mutex is free

ASSUME WorkersAreThreads == Workers \subseteq Threads
ASSUME NoThreadIsNone == NoThread \notin Threads

Controllers == Threads \ Workers

VARIABLES isRun,    \* _isRun
          mutex,    \* the holder of _mutex
          pc        \* control point of every thread

threadVars == <<isRun, mutex, pc>>
vars == <<semVars, threadVars>>

(* A controller is idle, inside Close before or in _sem.wait(), or inside  *)
(* Exit past its unlocked test.  A worker has not been created, is in      *)
(* _onRun (possibly inside Exit), in _onDestory, about to call wakeup(),   *)
(* about to clear _isRun, or has ended.                                    *)
ControllerPC == {"idle", "close", "close_wait", "exit_lock"}
WorkerPC == {"none", "run", "exit_lock", "onDestory", "wakeup", "clear", "dead"}

Goto(t, label) == pc' = [pc EXCEPT ![t] = label]

Started == {w \in Workers : pc[w] # "none"}

(* Workers that have not called _sem.wakeup() yet; those among them that   *)
(* have passed the test in Exit and need _mutex to go on; and the others,  *)
(* which nothing keeps from reaching wakeup().                             *)
Unposted == {w \in Workers : pc[w] \in {"run", "exit_lock", "onDestory", "wakeup"}}
CaughtInExit == {w \in Workers : pc[w] = "exit_lock"}
Waking == Unposted \ CaughtInExit

TypeOK ==
  /\ SemTypeOK
  /\ isRun \in BOOLEAN
  /\ mutex \in Threads \cup {NoThread}
  /\ pc \in [Threads -> ControllerPC \cup WorkerPC]
  /\ \A c \in Controllers : pc[c] \in ControllerPC
  /\ \A w \in Workers : pc[w] \in WorkerPC

Init ==
  /\ SemInit
  /\ isRun = FALSE
  /\ mutex = NoThread
  /\ pc = [t \in Threads |-> IF t \in Workers THEN "none" ELSE "idle"]

-----------------------------------------------------------------------------
(* Start: nothing happens when the flag is set; otherwise a new thread.    *)
Start(c, w) ==
  /\ pc[c] = "idle" /\ pc[w] = "none"
  /\ mutex = NoThread
  /\ ~isRun
  /\ isRun' = TRUE
  /\ Goto(w, "run")
  /\ UNCHANGED <<semVars, mutex>>

(* MUTANT: Close tests the flag but leaves it set. *)
CloseLeavesFlag(c) ==
  /\ pc[c] = "idle"
  /\ mutex = NoThread
  /\ isRun
  /\ mutex' = c
  /\ Goto(c, "close")
  /\ UNCHANGED <<semVars, isRun>>

(* Close that finds the flag set: it clears it and keeps the mutex.  (One  *)
(* that finds it clear returns without a trace.)                           *)
Close(c) ==
  /\ pc[c] = "idle"
  /\ mutex = NoThread
  /\ isRun
  /\ isRun' = FALSE
  /\ mutex' = c
  /\ Goto(c, "close")
  /\ UNCHANGED semVars

CloseWait(c) ==
  /\ pc[c] = "close"
  /\ Wait(c)
  /\ Goto(c, "close_wait")
  /\ UNCHANGED <<isRun, mutex>>

(* _sem.wait() has returned; the lock guard releases the mutex. *)
CloseReturn(c) ==
  /\ pc[c] = "close_wait" /\ c \notin Inside
  /\ mutex' = NoThread
  /\ Goto(c, "idle")
  /\ UNCHANGED <<semVars, isRun>>

(* Inside _cv.wait(). *)
CloseResume(c) == Resume(c) /\ UNCHANGED threadVars
CloseSpurious(c) == SpuriousWakeup(c) /\ UNCHANGED threadVars

(* Exit, by a controller or by a worker inside _onRun: the test of the     *)
(* flag is not protected, the assignment is.                               *)
ExitTest(t) ==
  /\ pc[t] \in {"idle", "run"}
  /\ isRun
  /\ Goto(t, "exit_lock")
  /\ UNCHANGED <<semVars, isRun, mutex>>

ExitSet(t) ==
  /\ pc[t] = "exit_lock"
  /\ mutex = NoThread
  /\ isRun' = FALSE
  /\ Goto(t, IF t \in Workers THEN "onDestory" ELSE "idle")
  /\ UNCHANGED <<semVars, mutex>>

(* _onRun returns: it has read the flag clear, or it ends by itself with   *)
(* the flag still up, as the input thread of client.cpp does.              *)
RunReturns(w) ==
  /\ pc[w] = "run"
  /\ Goto(w, "onDestory")
  /\ UNCHANGED <<semVars, isRun, mutex>>

(* MUTANT: OnWork wakes the closer before it calls _onDestory. *)
WakeupFirst(w) ==
  /\ pc[w] = "onDestory"
  /\ Wakeup
  /\ Goto(w, "wakeup")
  /\ UNCHANGED <<isRun, mutex>>

(* _onDestory returns. *)
Destory(w) ==
  /\ pc[w] = "onDestory"
  /\ Goto(w, "wakeup")
  /\ UNCHANGED <<semVars, isRun, mutex>>

(* MUTANT: OnWork ends without a wakeup. *)
EndSilently(w) ==
  /\ pc[w] = "wakeup"
  /\ Goto(w, "clear")
  /\ UNCHANGED <<semVars, isRun, mutex>>

WorkWakeup(w) ==
  /\ pc[w] = "wakeup"
  /\ Wakeup
  /\ Goto(w, "clear")
  /\ UNCHANGED <<isRun, mutex>>

(* The last statement of OnWork, not protected by _mutex. *)
WorkClear(w) ==
  /\ pc[w] = "clear"
  /\ isRun' = FALSE
  /\ Goto(w, "dead")
  /\ UNCHANGED <<semVars, mutex>>

Controller(c) ==
  \/ \E w \in Workers : Start(c, w)
  \/ Close(c) \/ CloseWait(c) \/ CloseReturn(c)
  \/ CloseResume(c) \/ CloseSpurious(c)

Worker(w) == RunReturns(w) \/ Destory(w) \/ WorkWakeup(w) \/ WorkClear(w)

Exit(t) == ExitTest(t) \/ ExitSet(t)

Next ==
  \/ \E c \in Controllers : Controller(c)
  \/ \E w \in Workers : Worker(w)
  \/ \E t \in Threads : Exit(t)

(* The scheduler runs every thread that can run.  Nobody is obliged to     *)
(* call Start, Close or Exit, and the condition variable is not obliged to *)
(* wake anybody spuriously.                                                *)
Fairness ==
  /\ \A c \in Controllers :
       WF_vars(CloseWait(c)) /\ WF_vars(CloseResume(c)) /\ WF_vars(CloseReturn(c))
  /\ \A w \in Workers : WF_vars(Worker(w))
  /\ \A t \in Threads : WF_vars(ExitSet(t))

Spec == Init /\ [][Next]_vars
FairSpec == Spec /\ Fairness

-----------------------------------------------------------------------------
(* A call of Close that has taken the flag down is not stranded while no   *)
(* worker is caught in Exit: either a worker is on its way to wakeup(),    *)
(* and nothing holds it up, or the wakeup has already been counted --      *)
(* however starts, closes and exits interleave, whether the worker's       *)
(* function ends on the flag or by itself before it is lowered, and        *)
(* however late the unprotected store at the end of OnWork lands           *)
(* (CELLThread::Close, CELLThread::OnWork).  The premise is needed: a      *)
(* worker that passed the test in Exit before Close took _mutex waits for  *)
(* the closer that waits for it, which CloseAlwaysReturns runs into.       *)
CloseNotStranded ==
  CaughtInExit = {} =>
    \A c \in Controllers :
      /\ pc[c] = "close" => waitCount >= 1 \/ Waking # {}
      /\ c \in Inside => wakeupCount > 0 \/ Waking # {}

(* On an object that is started once, a Close that found the thread        *)
(* running does not return before the thread has finished _onDestory, even *)
(* when several controllers close it at the same time or Exit has raced    *)
(* with them (CELLThread::Close; CELLServer relies on it: ClearClients     *)
(* runs in _onDestory and the CELLServer is deleted after Close).          *)
CloseWaitsForDestory ==
  \A c \in Controllers :
    Cardinality(Started) = 1 /\ pc[c] = "close_wait" /\ c \notin Inside
      => Unposted = {}

(* Close returns, provided that no worker had already passed the           *)
(* unprotected test in Exit when Close took the mutex.                     *)
CloseReturns ==
  \A c \in Controllers :
    pc[c] \in {"close", "close_wait"} /\ CaughtInExit = {} ~> pc[c] = "idle"

(* What the README of EasyTcpServer says of Close: it blocks, waits for    *)
(* the started thread to exit, and only then lets the caller go on.        *)
CloseReturnsAfterThread ==
  \A c \in Controllers :
    pc[c] = "close_wait" /\ c \notin Inside => \A w \in Started : pc[w] = "dead"

(* The same paragraph: the closer is woken up when the thread exits, so    *)
(* Close always returns.                                                   *)
CloseAlwaysReturns ==
  \A c \in Controllers : pc[c] = "close" ~> pc[c] = "idle"
=============================================================================
