------------------------- MODULE CELLThread_proofs -------------------------
(***************************************************************************)
(* Proofs about CELLThread, for every finite set of controllers and every  *)
(* number of successive runs: a Close that has taken the flag down is      *)
(* never stranded, and on an object started once it waits for _onDestory.  *)
(***************************************************************************)
EXTENDS CELLThread, CELLSemaphore_proofs

(* _mutex is held by the one controller that is inside Close, which is the *)
(* only thread that may be inside the semaphore; no run starts meanwhile.  *)
MutexInv ==
  /\ \A c \in Controllers : pc[c] \in {"close", "close_wait"} => mutex = c
  /\ mutex # NoThread => /\ mutex \in Controllers
                         /\ pc[mutex] \in {"close", "close_wait"}
                         /\ ~isRun
  /\ \A t \in Inside : t \in Controllers /\ pc[t] = "close_wait"

(* Whenever the flag is up, some worker has yet to call wakeup() or one    *)
(* that ended by itself has left a permit: whoever takes the flag down has *)
(* a wakeup to wait for.                                                   *)
RunInv == isRun => waitCount >= 1 \/ Unposted # {}

(* The same of a Close that has taken the flag down, caught or not.        *)
WakeupAhead ==
  \A c \in Controllers :
    /\ pc[c] = "close" => waitCount >= 1 \/ Unposted # {}
    /\ c \in Inside => wakeupCount > 0 \/ Unposted # {}

(* Until the only worker has called wakeup(), _wait counts the Close that  *)
(* is waiting for it and nothing else.                                     *)
OneShotInv ==
  \A w \in Workers :
    Started \subseteq {w} /\ Started = Unposted =>
      waitCount = IF \E c \in Controllers : pc[c] = "close_wait" THEN -1 ELSE 0

IInv == TypeOK /\ SemInv /\ MutexInv /\ RunInv /\ WakeupAhead /\ OneShotInv

-----------------------------------------------------------------------------
USE DEF Controllers

(* A step of a controller does not move a worker. *)
LEMMA ControllerMoves ==
  ASSUME TypeOK, NEW c \in Controllers, NEW l \in ControllerPC, Goto(c, l)
  PROVE  /\ \A w \in Workers : pc'[w] = pc[w]
         /\ Started' = Started /\ Unposted' = Unposted
         /\ pc'[c] = l
         /\ \A d \in Controllers : d # c => pc'[d] = pc[d]
         /\ pc' \in [Threads -> ControllerPC \cup WorkerPC]
         /\ \A d \in Controllers : pc'[d] \in ControllerPC
         /\ \A w \in Workers : pc'[w] \in WorkerPC
<1>1. /\ \A w \in Workers : pc'[w] = pc[w]
      /\ pc'[c] = l
      /\ \A d \in Controllers : d # c => pc'[d] = pc[d]
  BY WorkersAreThreads DEF TypeOK, Goto
<1>2. Started' = Started /\ Unposted' = Unposted
  BY <1>1 DEF Started, Unposted
<1>3. QED  BY <1>1, <1>2 DEF TypeOK, Goto

(* A step of a worker does not move a controller. *)
LEMMA WorkerMoves ==
  ASSUME TypeOK, NEW w \in Workers, NEW l \in WorkerPC, Goto(w, l)
  PROVE  /\ \A c \in Controllers : pc'[c] = pc[c]
         /\ pc'[w] = l
         /\ \A v \in Workers : v # w => pc'[v] = pc[v]
         /\ pc' \in [Threads -> ControllerPC \cup WorkerPC]
         /\ \A c \in Controllers : pc'[c] \in ControllerPC
         /\ \A v \in Workers : pc'[v] \in WorkerPC
BY WorkersAreThreads DEF TypeOK, Goto

(* At most one controller is inside Close. *)
LEMMA OneCloser ==
  ASSUME MutexInv, NEW c \in Controllers, NEW d \in Controllers,
         pc[c] \in {"close", "close_wait"}, pc[d] \in {"close", "close_wait"}
  PROVE  c = d
BY DEF MutexInv

(* A closer that has not called wait() yet finds the semaphore idle. *)
LEMMA BeforeWait ==
  ASSUME IInv, NEW c \in Controllers, pc[c] = "close"
  PROVE  Inside = {} /\ waitCount >= 0
<1>1. ASSUME NEW t \in Inside PROVE FALSE
  <2>1. t \in Controllers /\ pc[t] = "close_wait"  BY <1>1 DEF IInv, MutexInv
  <2>2. t = c  BY <2>1, OneCloser DEF IInv
  <2>3. QED  BY <2>1, <2>2
<1>2. Inside = {}  BY <1>1
<1>3. Cardinality(Inside) = 0  BY <1>2, FS_EmptySet
<1>4. QED
  BY <1>2, <1>3 DEF IInv, SemInv, SemTypeOK, TokenAccounting, NoLostWakeup

(* The thread's own semaphore steps are steps of CELLSemaphore. *)
LEMMA SemInvStep ==
  ASSUME SemInv, [SemNext]_semVars
  PROVE  SemInv' /\ SemTypeOK'
BY SemStep DEF SemInv

LEMMA Initially == Init => IInv
<1> SUFFICES ASSUME Init PROVE IInv  OBVIOUS
<1>1. SemInv /\ SemTypeOK /\ Inside = {}
  BY SemInitially DEF Init, SemInv, SemInit, Inside
<1>2. TypeOK
  BY <1>1, WorkersAreThreads DEF Init, TypeOK, ControllerPC, WorkerPC
<1>3. /\ \A c \in Controllers : pc[c] = "idle"
      /\ \A w \in Workers : pc[w] = "none"
  BY WorkersAreThreads DEF Init
<1>4. MutexInv  BY <1>1, <1>3 DEF Init, MutexInv
<1>5. RunInv  BY DEF Init, RunInv
<1>6. WakeupAhead  BY <1>1, <1>3 DEF WakeupAhead
<1>7. OneShotInv  BY <1>3 DEF Init, SemInit, OneShotInv
<1>8. QED  BY <1>1, <1>2, <1>4, <1>5, <1>6, <1>7 DEF IInv

LEMMA StartStep ==
  ASSUME IInv, NEW c \in Controllers, NEW w \in Workers, Start(c, w)
  PROVE  IInv'
<1> USE DEF IInv
<1>1. /\ mutex = NoThread /\ mutex' = mutex /\ isRun' = TRUE
      /\ pc[w] = "none" /\ Goto(w, "run") /\ UNCHANGED semVars
  BY DEF Start
<1>2. "run" \in WorkerPC  BY DEF WorkerPC
<1>3. /\ \A d \in Controllers : pc'[d] = pc[d]
      /\ pc'[w] = "run"
      /\ \A v \in Workers : v # w => pc'[v] = pc[v]
      /\ pc' \in [Threads -> ControllerPC \cup WorkerPC]
      /\ \A d \in Controllers : pc'[d] \in ControllerPC
      /\ \A v \in Workers : pc'[v] \in WorkerPC
  BY <1>1, <1>2, WorkerMoves
<1>4. SemInv' /\ SemTypeOK' /\ Inside' = Inside
  BY <1>1, SemInvStep DEF semVars, Inside
<1>5. TypeOK'  BY <1>1, <1>3, <1>4 DEF TypeOK
<1>6. \A d \in Controllers : pc[d] \notin {"close", "close_wait"}
  BY <1>1, NoThreadIsNone DEF MutexInv
<1>7. MutexInv'  BY <1>1, <1>3, <1>4, <1>6 DEF MutexInv
<1>8. RunInv'  BY <1>3 DEF RunInv, Unposted
<1>9. WakeupAhead'  BY <1>3, <1>4, <1>6 DEF WakeupAhead, MutexInv
<1>10. OneShotInv'
  <2>1. SUFFICES ASSUME NEW v \in Workers, Started' \subseteq {v}
                 PROVE  waitCount' = 0
    BY <1>3, <1>6 DEF OneShotInv
  <2>2. w \in Started'  BY <1>3 DEF Started
  <2>3. Started = {}  BY <1>1, <1>3, <2>1, <2>2 DEF Started
  <2>4. Unposted = {}  BY <2>3 DEF Started, Unposted
  <2>5. waitCount = 0  BY <1>6, <2>3, <2>4 DEF OneShotInv
  <2>6. QED  BY <1>1, <2>5 DEF semVars
<1>11. QED  BY <1>4, <1>5, <1>7, <1>8, <1>9, <1>10

LEMMA CloseStep ==
  ASSUME IInv, NEW c \in Controllers, Close(c)
  PROVE  IInv'
<1> USE DEF IInv
<1>1. /\ pc[c] = "idle" /\ mutex = NoThread /\ isRun
      /\ isRun' = FALSE /\ mutex' = c /\ Goto(c, "close") /\ UNCHANGED semVars
  BY DEF Close
<1>2. "close" \in ControllerPC  BY DEF ControllerPC
<1>3. /\ \A w \in Workers : pc'[w] = pc[w]
      /\ Started' = Started /\ Unposted' = Unposted
      /\ pc'[c] = "close"
      /\ \A d \in Controllers : d # c => pc'[d] = pc[d]
      /\ pc' \in [Threads -> ControllerPC \cup WorkerPC]
      /\ \A d \in Controllers : pc'[d] \in ControllerPC
      /\ \A w \in Workers : pc'[w] \in WorkerPC
  BY <1>1, <1>2, ControllerMoves
<1>4. SemInv' /\ SemTypeOK' /\ Inside' = Inside
  BY <1>1, SemInvStep DEF semVars, Inside
<1>5. TypeOK'  BY <1>1, <1>3, <1>4 DEF TypeOK
<1>6. \A d \in Controllers : pc[d] \notin {"close", "close_wait"}
  BY <1>1, NoThreadIsNone DEF MutexInv
<1>7. Inside = {}  BY <1>6 DEF MutexInv
<1>8. waitCount >= 1 \/ Unposted # {}  BY <1>1 DEF RunInv
<1>9. MutexInv'  BY <1>1, <1>3, <1>4, <1>6, <1>7 DEF MutexInv
<1>10. RunInv'  BY <1>1 DEF RunInv
<1>11. WakeupAhead'  BY <1>1, <1>3, <1>4, <1>7, <1>8 DEF WakeupAhead, semVars
<1>12. \A d \in Controllers : pc'[d] # "close_wait"  BY <1>3, <1>6
<1>13. OneShotInv'  BY <1>1, <1>3, <1>6, <1>12 DEF OneShotInv, semVars
<1>14. QED  BY <1>4, <1>5, <1>9, <1>10, <1>11, <1>13

LEMMA CloseWaitStep ==
  ASSUME IInv, NEW c \in Controllers, CloseWait(c)
  PROVE  IInv'
<1> USE DEF IInv
<1>1. /\ pc[c] = "close" /\ isRun' = isRun /\ mutex' = mutex
      /\ Goto(c, "close_wait") /\ Wait(c)
  BY DEF CloseWait
<1>2. "close_wait" \in ControllerPC  BY DEF ControllerPC
<1>3. /\ \A w \in Workers : pc'[w] = pc[w]
      /\ Started' = Started /\ Unposted' = Unposted
      /\ pc'[c] = "close_wait"
      /\ \A d \in Controllers : d # c => pc'[d] = pc[d]
      /\ pc' \in [Threads -> ControllerPC \cup WorkerPC]
      /\ \A d \in Controllers : pc'[d] \in ControllerPC
      /\ \A w \in Workers : pc'[w] \in WorkerPC
  BY <1>1, <1>2, ControllerMoves
<1>4. SemInv' /\ SemTypeOK'  BY <1>1, SemInvStep DEF SemNext
<1>5. Inside = {} /\ waitCount >= 0 /\ waitCount \in Int
  BY <1>1, BeforeWait DEF TypeOK, SemTypeOK
<1>6. waitCount' = waitCount - 1 /\ Inside' \subseteq {c}
  BY <1>1, <1>5 DEF Wait, Inside
<1>7. TypeOK'  BY <1>1, <1>3, <1>4 DEF TypeOK
<1>8. \A d \in Controllers : d # c => pc[d] \notin {"close", "close_wait"}
  BY <1>1, OneCloser
<1>9. MutexInv'
  <2>1. mutex = c  BY <1>1 DEF MutexInv
  <2>2. QED  BY <1>1, <1>3, <1>6, <1>8, <2>1 DEF MutexInv
<1>10. RunInv'
  <2>1. mutex = c /\ c # NoThread  BY <1>1, NoThreadIsNone DEF MutexInv
  <2>2. QED  BY <1>1, <2>1 DEF MutexInv, RunInv
<1>11. WakeupAhead'
  <2>1. \A d \in Controllers : pc'[d] # "close"  BY <1>3, <1>8
  <2>2. Inside' # {} => waitCount < 1
    BY <1>1, <1>5, <1>6 DEF Wait, Inside
  <2>3. Inside' # {} => Unposted # {}
    BY <1>1, <1>5, <2>2 DEF WakeupAhead
  <2>4. QED  BY <1>3, <2>1, <2>3 DEF WakeupAhead
<1>12. OneShotInv'
  <2>1. ~\E d \in Controllers : pc[d] = "close_wait"  BY <1>1, <1>8
  <2>2. \E d \in Controllers : pc'[d] = "close_wait"  BY <1>3
  <2>3. QED  BY <1>3, <1>6, <2>1, <2>2 DEF OneShotInv
<1>13. QED  BY <1>4, <1>7, <1>9, <1>10, <1>11, <1>12

(* With a single run, Close returns only after the run's wakeup. *)
LEMMA Waited ==
  ASSUME IInv, NEW c \in Controllers, pc[c] = "close_wait", c \notin Inside,
         NEW w \in Workers, Started \subseteq {w}
  PROVE  Started # Unposted
<1> SUFFICES ASSUME Started = Unposted PROVE FALSE  OBVIOUS
<1>1. waitCount = -1  BY DEF IInv, OneShotInv
<1>2. Cardinality(Inside) # 0
  BY <1>1, ThreadSets DEF IInv, SemInv, SemTypeOK, TokenAccounting, NoLostWakeup, Inside
<1>3. Inside # {}  BY <1>2, FS_EmptySet
<1>4. PICK t \in Inside : TRUE  BY <1>3
<1>5. t \in Controllers /\ pc[t] = "close_wait"  BY DEF IInv, MutexInv
<1>6. t = c  BY <1>5, OneCloser DEF IInv
<1>7. QED  BY <1>6

LEMMA CloseReturnStep ==
  ASSUME IInv, NEW c \in Controllers, CloseReturn(c)
  PROVE  IInv'
<1> USE DEF IInv
<1>1. /\ pc[c] = "close_wait" /\ c \notin Inside
      /\ isRun' = isRun /\ mutex' = NoThread
      /\ Goto(c, "idle") /\ UNCHANGED semVars
  BY DEF CloseReturn
<1>2. "idle" \in ControllerPC  BY DEF ControllerPC
<1>3. /\ \A w \in Workers : pc'[w] = pc[w]
      /\ Started' = Started /\ Unposted' = Unposted
      /\ pc'[c] = "idle"
      /\ \A d \in Controllers : d # c => pc'[d] = pc[d]
      /\ pc' \in [Threads -> ControllerPC \cup WorkerPC]
      /\ \A d \in Controllers : pc'[d] \in ControllerPC
      /\ \A w \in Workers : pc'[w] \in WorkerPC
  BY <1>1, <1>2, ControllerMoves
<1>4. SemInv' /\ SemTypeOK' /\ Inside' = Inside
  BY <1>1, SemInvStep DEF semVars, Inside
<1>5. TypeOK'  BY <1>1, <1>3, <1>4 DEF TypeOK
<1>6. \A d \in Controllers : pc'[d] \notin {"close", "close_wait"}
  BY <1>1, <1>3, OneCloser
<1>7. Inside = {}
  <2>1. ASSUME NEW t \in Inside PROVE FALSE
    <3>1. t \in Controllers /\ pc[t] = "close_wait"  BY <2>1 DEF MutexInv
    <3>2. t = c  BY <1>1, <3>1, OneCloser
    <3>3. QED  BY <1>1, <2>1, <3>2
  <2>2. QED  BY <2>1
<1>8. MutexInv'  BY <1>1, <1>4, <1>6, <1>7 DEF MutexInv
<1>9. RunInv'  BY <1>1, <1>3 DEF RunInv, semVars
<1>10. WakeupAhead'  BY <1>4, <1>6, <1>7 DEF WakeupAhead
<1>11. OneShotInv'  BY <1>1, <1>3, Waited DEF OneShotInv
<1>12. QED  BY <1>4, <1>5, <1>8, <1>9, <1>10, <1>11

(* A closer that wakes up inside _cv.wait(). *)
LEMMA CloseInsideStep ==
  ASSUME IInv, NEW c \in Controllers, CloseResume(c) \/ CloseSpurious(c)
  PROVE  IInv'
<1> USE DEF IInv
<1>1. /\ Resume(c) \/ SpuriousWakeup(c)
      /\ isRun' = isRun /\ mutex' = mutex /\ pc' = pc
  BY DEF CloseResume, CloseSpurious, threadVars
<1>2. SemInv' /\ SemTypeOK'  BY <1>1, SemInvStep DEF SemNext
<1>3. Started' = Started /\ Unposted' = Unposted
  BY <1>1 DEF Started, Unposted
<1>4. waitCount' = waitCount /\ Inside' \subseteq Inside /\ c \in Inside
  BY <1>1 DEF Resume, SpuriousWakeup, Inside
<1>5. c \in Inside' => wakeupCount' = wakeupCount
  BY <1>1 DEF Resume, SpuriousWakeup, Inside, SemInv, SemTypeOK
<1>6. Inside \subseteq {c}
  BY <1>4, OneCloser DEF MutexInv
<1>7. TypeOK'  BY <1>1, <1>2 DEF TypeOK
<1>8. MutexInv'  BY <1>1, <1>4 DEF MutexInv
<1>9. RunInv'  BY <1>1, <1>3, <1>4 DEF RunInv
<1>10. WakeupAhead'  BY <1>1, <1>3, <1>4, <1>5, <1>6 DEF WakeupAhead
<1>11. OneShotInv'  BY <1>1, <1>3, <1>4 DEF OneShotInv
<1>12. QED  BY <1>2, <1>7, <1>8, <1>9, <1>10, <1>11

(* Steps of a controller outside Close that at most lower the flag. *)
LEMMA ControllerExitStep ==
  ASSUME IInv, NEW c \in Controllers, Exit(c)
  PROVE  IInv'
<1> USE DEF IInv
<1>1. PICK l \in {"idle", "exit_lock"} :
        /\ pc[c] \in {"idle", "exit_lock"} /\ Goto(c, l)
        /\ mutex' = mutex /\ UNCHANGED semVars
        /\ isRun' = isRun \/ isRun' = FALSE
  <2>1. c \notin Workers  OBVIOUS
  <2>2. pc[c] # "run"  BY DEF TypeOK, ControllerPC
  <2>3. QED  BY <2>1, <2>2 DEF Exit, ExitTest, ExitSet
<1>2. l \in ControllerPC  BY DEF ControllerPC
<1>3. /\ \A w \in Workers : pc'[w] = pc[w]
      /\ Started' = Started /\ Unposted' = Unposted
      /\ pc'[c] = l
      /\ \A d \in Controllers : d # c => pc'[d] = pc[d]
      /\ pc' \in [Threads -> ControllerPC \cup WorkerPC]
      /\ \A d \in Controllers : pc'[d] \in ControllerPC
      /\ \A w \in Workers : pc'[w] \in WorkerPC
  BY <1>1, <1>2, ControllerMoves
<1>4. \A d \in Controllers :
        /\ pc'[d] = "close" <=> pc[d] = "close"
        /\ pc'[d] = "close_wait" <=> pc[d] = "close_wait"
  BY <1>1, <1>3
<1>5. SemInv' /\ SemTypeOK' /\ Inside' = Inside
  BY <1>1, SemInvStep DEF semVars, Inside
<1>6. TypeOK'  BY <1>1, <1>3, <1>5 DEF TypeOK
<1>7. MutexInv'  BY <1>1, <1>4, <1>5 DEF MutexInv
<1>8. RunInv'  BY <1>1, <1>3 DEF RunInv, semVars
<1>9. WakeupAhead'  BY <1>1, <1>3, <1>4, <1>5 DEF WakeupAhead, semVars
<1>10. OneShotInv'  BY <1>1, <1>3, <1>4 DEF OneShotInv, semVars
<1>11. QED  BY <1>5, <1>6, <1>7, <1>8, <1>9, <1>10

(* Steps of a worker up to its wakeup: it stays among the threads that     *)
(* have not called wakeup().                                               *)
LEMMA UnpostedStep ==
  ASSUME IInv, NEW w \in Workers, Exit(w) \/ RunReturns(w) \/ Destory(w)
  PROVE  IInv'
<1> USE DEF IInv
<1>1. PICK l \in {"exit_lock", "onDestory", "wakeup"} :
        /\ pc[w] \in {"run", "exit_lock", "onDestory"} /\ Goto(w, l)
        /\ mutex' = mutex /\ UNCHANGED semVars
        /\ isRun' => isRun
        /\ isRun' \in BOOLEAN
  <2>1. pc[w] # "idle"  BY DEF TypeOK, WorkerPC
  <2>2. CASE ExitTest(w)  BY <2>1, <2>2 DEF ExitTest, TypeOK
  <2>3. CASE ExitSet(w)  BY <2>3 DEF ExitSet
  <2>4. CASE RunReturns(w)  BY <2>4 DEF RunReturns, TypeOK
  <2>5. CASE Destory(w)  BY <2>5 DEF Destory, TypeOK
  <2>6. QED  BY <2>2, <2>3, <2>4, <2>5 DEF Exit
<1>2. l \in WorkerPC  BY DEF WorkerPC
<1>3. /\ \A c \in Controllers : pc'[c] = pc[c]
      /\ pc'[w] = l
      /\ \A v \in Workers : v # w => pc'[v] = pc[v]
      /\ pc' \in [Threads -> ControllerPC \cup WorkerPC]
      /\ \A c \in Controllers : pc'[c] \in ControllerPC
      /\ \A v \in Workers : pc'[v] \in WorkerPC
  BY <1>1, <1>2, WorkerMoves
<1>4. Started' = Started /\ Unposted' = Unposted
  BY <1>1, <1>3 DEF Started, Unposted
<1>5. SemInv' /\ SemTypeOK' /\ Inside' = Inside
  BY <1>1, SemInvStep DEF semVars, Inside
<1>6. TypeOK'  BY <1>1, <1>3, <1>5 DEF TypeOK
<1>7. MutexInv'  BY <1>1, <1>3, <1>5 DEF MutexInv
<1>8. RunInv'  BY <1>1, <1>4 DEF RunInv, semVars
<1>9. WakeupAhead'  BY <1>1, <1>3, <1>4, <1>5 DEF WakeupAhead, semVars
<1>10. OneShotInv'  BY <1>1, <1>3, <1>4 DEF OneShotInv, semVars
<1>11. QED  BY <1>5, <1>6, <1>7, <1>8, <1>9, <1>10

LEMMA WorkWakeupStep ==
  ASSUME IInv, NEW w \in Workers, WorkWakeup(w)
  PROVE  IInv'
<1> USE DEF IInv
<1>1. /\ pc[w] = "wakeup" /\ Goto(w, "clear") /\ Wakeup
      /\ isRun' = isRun /\ mutex' = mutex
  BY DEF WorkWakeup
<1>2. "clear" \in WorkerPC  BY DEF WorkerPC
<1>3. /\ \A c \in Controllers : pc'[c] = pc[c]
      /\ pc'[w] = "clear"
      /\ \A v \in Workers : v # w => pc'[v] = pc[v]
      /\ pc' \in [Threads -> ControllerPC \cup WorkerPC]
      /\ \A c \in Controllers : pc'[c] \in ControllerPC
      /\ \A v \in Workers : pc'[v] \in WorkerPC
  BY <1>1, <1>2, WorkerMoves
<1>4. Started' = Started /\ w \in Started' /\ w \notin Unposted'
  BY <1>1, <1>3 DEF Started, Unposted
<1>5. SemInv' /\ SemTypeOK'  BY <1>1, SemInvStep DEF SemNext
<1>6. Inside' = Inside /\ waitCount' = waitCount + 1
  BY <1>1 DEF Wakeup, NotifyOne, Inside
<1>7. TypeOK'  BY <1>1, <1>3, <1>5 DEF TypeOK
<1>8. MutexInv'  BY <1>1, <1>3, <1>6 DEF MutexInv
<1>9. RunInv'
  <2>1. SUFFICES ASSUME isRun PROVE waitCount' >= 1  BY <1>1 DEF RunInv
  <2>2. \A c \in Controllers : pc[c] \notin {"close", "close_wait"}
    BY <2>1, NoThreadIsNone DEF MutexInv
  <2>3. Inside = {}  BY <2>2 DEF MutexInv
  <2>4. Cardinality(Inside) = 0  BY <2>3, FS_EmptySet
  <2>5. waitCount >= 0 /\ waitCount \in Int
    BY <2>4 DEF SemInv, SemTypeOK, TokenAccounting, NoLostWakeup
  <2>6. QED  BY <1>6, <2>5
<1>10. WakeupAhead'
  <2>1. ASSUME NEW c \in Controllers, pc[c] = "close"
        PROVE  waitCount' >= 1
    BY <1>6, <2>1, BeforeWait DEF TypeOK, SemTypeOK
  <2>2. ASSUME NEW c \in Controllers, c \in Inside
        PROVE  wakeupCount' > 0
    <3>1. waitCount \in Int /\ wakeupCount \in Int /\ wakeupCount >= 0
      BY DEF TypeOK, SemTypeOK, SemInv, NoLostWakeup
    <3>2. CASE waitCount' <= 0  BY <1>1, <3>1, <3>2 DEF Wakeup
    <3>3. CASE waitCount' > 0
      <4>1. Inside \subseteq Threads  BY DEF TypeOK, SemTypeOK, Inside
      <4>2. Cardinality(Inside) \in Nat /\ IsFiniteSet(Inside)
        BY <4>1, ThreadSets
      <4>3. Cardinality(Inside) > 0  BY <2>2, <4>2, FS_EmptySet
      <4>4. wakeupCount = Cardinality(Inside)
        BY <1>6, <3>1, <3>3, <4>2 DEF SemInv, TokenAccounting
      <4>5. wakeupCount' = wakeupCount
        BY <1>1, <3>3, <3>1, <1>6 DEF Wakeup
      <4>6. QED  BY <4>2, <4>3, <4>4, <4>5
    <3>4. QED  BY <1>6, <3>1, <3>2, <3>3
  <2>3. QED  BY <1>3, <1>6, <2>1, <2>2 DEF WakeupAhead
<1>11. OneShotInv'  BY <1>4 DEF OneShotInv
<1>12. QED  BY <1>5, <1>7, <1>8, <1>9, <1>10, <1>11

LEMMA WorkClearStep ==
  ASSUME IInv, NEW w \in Workers, WorkClear(w)
  PROVE  IInv'
<1> USE DEF IInv
<1>1. /\ pc[w] = "clear" /\ Goto(w, "dead") /\ UNCHANGED semVars
      /\ isRun' = FALSE /\ mutex' = mutex
  BY DEF WorkClear
<1>2. "dead" \in WorkerPC  BY DEF WorkerPC
<1>3. /\ \A c \in Controllers : pc'[c] = pc[c]
      /\ pc'[w] = "dead"
      /\ \A v \in Workers : v # w => pc'[v] = pc[v]
      /\ pc' \in [Threads -> ControllerPC \cup WorkerPC]
      /\ \A c \in Controllers : pc'[c] \in ControllerPC
      /\ \A v \in Workers : pc'[v] \in WorkerPC
  BY <1>1, <1>2, WorkerMoves
<1>4. Started' = Started /\ Unposted' = Unposted
  BY <1>1, <1>3 DEF Started, Unposted
<1>5. SemInv' /\ SemTypeOK' /\ Inside' = Inside
  BY <1>1, SemInvStep DEF semVars, Inside
<1>6. TypeOK'  BY <1>1, <1>3, <1>5 DEF TypeOK
<1>7. MutexInv'  BY <1>1, <1>3, <1>5 DEF MutexInv
<1>8. RunInv'  BY <1>1 DEF RunInv
<1>9. WakeupAhead'  BY <1>1, <1>3, <1>4, <1>5 DEF WakeupAhead, semVars
<1>10. OneShotInv'  BY <1>1, <1>3, <1>4 DEF OneShotInv, semVars
<1>11. QED  BY <1>5, <1>6, <1>7, <1>8, <1>9, <1>10

LEMMA ThreadStep == IInv /\ [Next]_vars => IInv'
<1> SUFFICES ASSUME IInv, [Next]_vars PROVE IInv'  OBVIOUS
<1>1. ASSUME NEW c \in Controllers, Controller(c) PROVE IInv'
  BY <1>1, StartStep, CloseStep, CloseWaitStep, CloseReturnStep, CloseInsideStep
  DEF Controller
<1>2. ASSUME NEW w \in Workers, Worker(w) PROVE IInv'
  BY <1>2, UnpostedStep, WorkWakeupStep, WorkClearStep DEF Worker
<1>3. ASSUME NEW t \in Threads, Exit(t) PROVE IInv'
  BY <1>3, ControllerExitStep, UnpostedStep
<1>4. CASE UNCHANGED vars
  <2>1. UNCHANGED <<waitCount, wakeupCount, blocked, ready, isRun, mutex, pc>>
    BY <1>4 DEF vars, semVars, threadVars
  <2>2. SemInv'
    BY <2>1 DEF IInv, SemInv, SemTypeOK, TokenAccounting, NoLostWakeup, Inside
  <2>3. TypeOK' /\ MutexInv'
    BY <2>1 DEF IInv, TypeOK, SemTypeOK, MutexInv, Inside
  <2>4. RunInv' /\ WakeupAhead' /\ OneShotInv'
    BY <2>1 DEF IInv, RunInv, WakeupAhead, OneShotInv, Started, Unposted, Inside
  <2>5. QED  BY <2>2, <2>3, <2>4 DEF IInv
<1>5. QED  BY <1>1, <1>2, <1>3, <1>4 DEF Next

LEMMA OneShotClose == IInv => CloseWaitsForDestory
<1> SUFFICES ASSUME IInv, NEW c \in Controllers, Cardinality(Started) = 1,
                    pc[c] = "close_wait", c \notin Inside
             PROVE  Unposted = {}
  BY DEF CloseWaitsForDestory
<1>1. IsFiniteSet(Started)
  BY ThreadSets, WorkersAreThreads DEF Started
<1>2. PICK w : Started = {w}  BY <1>1, FS_Singleton
<1>3. w \in Workers  BY <1>2 DEF Started
<1>4. Started # Unposted  BY <1>2, <1>3, Waited
<1>5. Unposted \subseteq Started  BY DEF Started, Unposted
<1>6. QED  BY <1>2, <1>4, <1>5

-----------------------------------------------------------------------------
(* Type correctness of CELLThread. *)
THEOREM ThreadTypeOK == Spec => []TypeOK
<1>1. IInv => TypeOK  BY DEF IInv
<1>2. QED  BY <1>1, Initially, ThreadStep, PTL DEF Spec

(* Whatever sequence of Start, Close and Exit any number of threads issue, *)
(* a Close that has lowered the flag has, unless a worker is caught in     *)
(* Exit waiting for _mutex, a worker on its way to wakeup() or its wakeup  *)
(* already counted (CELLThread::Close, CELLThread::OnWork).                *)
THEOREM CloseIsNotStranded == Spec => []CloseNotStranded
<1>1. IInv => CloseNotStranded  BY DEF IInv, WakeupAhead, CloseNotStranded, Waking
<1>2. QED  BY <1>1, Initially, ThreadStep, PTL DEF Spec

(* On an object started once, a Close that found the thread running        *)
(* returns only after _onDestory (CELLThread::Close, CELLThread::OnWork).  *)
THEOREM CloseWaits == Spec => []CloseWaitsForDestory
<1>1. QED  BY Initially, ThreadStep, OneShotClose, PTL DEF Spec

(* What CELLThread does to its semaphore is a behaviour of CELLSemaphore. *)
LEMMA ThreadIsSemStep == [Next]_vars => [SemNext]_semVars
BY DEF Next, Controller, Worker, Exit, Start, Close, CloseWait, CloseReturn,
       CloseResume, CloseSpurious, ExitTest, ExitSet, RunReturns, Destory,
       WorkWakeup, WorkClear, SemNext, vars

LEMMA ThreadUsesSemaphore == Spec => SemSpec
<1>1. Init => SemInit  BY DEF Init
<1>2. QED  BY <1>1, ThreadIsSemStep, PTL DEF Spec, SemSpec

(* Inside CELLThread the semaphore keeps its books and loses no wakeup.    *)
THEOREM ThreadSemaphoreSafe == Spec => [](TokenAccounting /\ NoLostWakeup)
<1>1. (SemTypeOK /\ TokenAccounting /\ NoLostWakeup) => TokenAccounting /\ NoLostWakeup
  OBVIOUS
<1>2. QED  BY <1>1, ThreadUsesSemaphore, SemaphoreSafe, PTL

(* Inside CELLThread the semaphore is a counting semaphore.                *)
THEOREM ThreadImplementsCounting == Spec => ImplementsCounting
BY ThreadUsesSemaphore, SemaphoreImplementsCounting, PTL
=============================================================================
