--------------------------- MODULE CELLTask_proofs ---------------------------
(***************************************************************************)
(* Proofs about CELLTask, for any number of tasks and of closers: tasks    *)
(* run once and in order, none is lost, and Close returns only when every  *)
(* task added before it has run.                                           *)
(***************************************************************************)
EXTENDS CELLTask, CELLThread_proofs, SequenceTheorems

(* _tasks is empty outside the part of the loop that fills and runs it. *)
StageInv ==
  /\ stage \notin {"tasks", "exec"} => tasks = <<>>
  /\ stage = "exec" => next <= Len(tasks) + 1
  /\ stage = "drain" => ~isRun /\ next <= Len(tasksBuf) + 1

(* The worker is past OnRun only when the promised tasks have run, and     *)
(* with the flag down.                                                     *)
DoneInv ==
  /\ promised <= added
  /\ pc[Runner] \notin {"none", "run"} =>
       stage = "drain" /\ Len(executed) >= promised
  /\ pc[Runner] = "none" => stage = "test"
  /\ isRun => pc[Runner] = "run"
  /\ pc[Runner] # "exit_lock"

(* Task number Len(executed) + 1 is the next in line, first in _tasks and  *)
(* then in _tasksBuf.                                                      *)
OrderInv ==
  LET base == Len(executed) - Ran
  IN  /\ \A i \in 1 .. Len(executed) : executed[i] = i
      /\ \A i \in 1 .. Len(tasks) : tasks[i] = base + i
      /\ \A i \in 1 .. Len(tasksBuf) : tasksBuf[i] = base + Len(tasks) + i

TaskInv ==
  /\ TaskTypeOK /\ IInv
  /\ StageInv /\ DoneInv /\ OrderInv /\ NothingLost

-----------------------------------------------------------------------------
(* As far as the thread goes, a task server is a CELLThread. *)
LEMMA TaskIsThreadStep == [TaskNext]_allVars => [Next]_vars
<1>1. Runner \in Workers  BY OneRunner
<1>2. QED
  BY <1>1 DEF TaskNext, addTask, TaskStart, TaskClose, TaskCloseRest, OnRun, TestRun,
       CheckBuf, MoveTasks, CheckTasks, ExecTask, ClearTasks, DrainTask,
       DrainDone, WorkRest, Next, Controller, Worker, allVars

LEMMA ThreadPart == IInv /\ [TaskNext]_allVars => IInv'
BY TaskIsThreadStep, ThreadStep

LEMMA TaskInitially == TaskInit => TaskInv
<1> SUFFICES ASSUME TaskInit PROVE TaskInv  OBVIOUS
<1>1. IInv  BY Initially DEF TaskInit
<1>2. TypeOK  BY <1>1 DEF IInv
<1>3. pc[Runner] = "none"  BY OneRunner, WorkersAreThreads DEF TaskInit, Init
<1>4. TaskTypeOK  BY <1>2 DEF TaskInit, TaskTypeOK, Stage
<1>5. StageInv /\ DoneInv  BY <1>3 DEF TaskInit, Init, StageInv, DoneInv
<1>6. OrderInv /\ NothingLost  BY DEF TaskInit, OrderInv, NothingLost, Ran
<1>7. QED  BY <1>1, <1>4, <1>5, <1>6 DEF TaskInv

LEMMA AddTaskStep ==
  ASSUME TaskInv, addTask
  PROVE  TaskInv'
<1> USE DEF TaskInv
<1>1. IInv' /\ TypeOK'  BY ThreadPart DEF TaskNext, IInv
<1>2. /\ tasksBuf \in Seq(Nat) /\ added \in Nat /\ added' = added + 1
      /\ tasksBuf' = Append(tasksBuf, added + 1)
      /\ UNCHANGED <<isRun, pc, tasks, stage, next, executed, promised>>
  BY DEF addTask, TaskTypeOK, vars, threadVars
<1>3. /\ tasksBuf' \in Seq(Nat) /\ Len(tasksBuf') = Len(tasksBuf) + 1
      /\ \A i \in 1 .. Len(tasksBuf) : tasksBuf'[i] = tasksBuf[i]
      /\ tasksBuf'[Len(tasksBuf) + 1] = added + 1
  BY <1>2
<1>4. TaskTypeOK'  BY <1>1, <1>2, <1>3 DEF TaskTypeOK
<1>5. StageInv' /\ DoneInv'
  BY <1>2, <1>3 DEF StageInv, DoneInv, TaskTypeOK
<1>6. Ran' = Ran /\ Ran \in Int  BY <1>2 DEF Ran, TaskTypeOK
<1>7. NothingLost'  BY <1>2, <1>3, <1>6 DEF NothingLost, TaskTypeOK
<1>8. OrderInv'
  <2>1. /\ Len(tasks) \in Nat /\ Len(executed) \in Nat /\ Len(tasksBuf) \in Nat
        /\ added + 1 = (Len(executed) - Ran) + Len(tasks) + (Len(tasksBuf) + 1)
    BY <1>2, <1>6 DEF NothingLost, TaskTypeOK
  <2>2. ASSUME NEW i \in 1 .. Len(tasksBuf')
        PROVE  tasksBuf'[i] = (Len(executed) - Ran) + Len(tasks) + i
    <3>1. CASE i = Len(tasksBuf) + 1  BY <1>3, <2>1, <3>1
    <3>2. CASE i \in 1 .. Len(tasksBuf)  BY <1>3, <3>2 DEF OrderInv
    <3>3. QED  BY <1>3, <2>1, <3>1, <3>2
  <2>3. QED  BY <1>2, <1>6, <2>2 DEF OrderInv
<1>9. QED  BY <1>1, <1>4, <1>5, <1>7, <1>8

(* Starting and closing do not touch the lists, nor does the tail of       *)
(* OnWork; a Close that lowers the flag finds the worker inside OnRun.     *)
LEMMA ThreadOnlyStep ==
  ASSUME TaskInv, [TaskNext]_allVars,
         UNCHANGED <<queueVars, added>>, promised' \in {promised, added},
         stage = "drain" => ~isRun',
         pc'[Runner] \notin {"none", "run"} =>
           pc[Runner] \notin {"none", "run"} /\ promised' = promised,
         pc'[Runner] = "none" => pc[Runner] = "none",
         pc'[Runner] # "exit_lock",
         isRun' => pc'[Runner] = "run"
  PROVE  TaskInv'
<1> USE DEF TaskInv
<1>1. IInv' /\ TypeOK'  BY ThreadPart DEF IInv
<1>2. TaskTypeOK'  BY <1>1 DEF TaskTypeOK, queueVars
<1>3. StageInv'  BY DEF StageInv, queueVars
<1>4. DoneInv'  BY DEF DoneInv, queueVars, TaskTypeOK
<1>5. OrderInv' /\ NothingLost'  BY DEF OrderInv, NothingLost, Ran, queueVars
<1>6. QED  BY <1>1, <1>2, <1>3, <1>4, <1>5

LEMMA StartTaskStep ==
  ASSUME TaskInv, NEW c \in Controllers, TaskStart(c)
  PROVE  TaskInv'
<1>1. [TaskNext]_allVars  BY DEF TaskNext
<1>2. /\ UNCHANGED <<queueVars, added, promised>>
      /\ pc[Runner] = "none" /\ Goto(Runner, "run")
  BY DEF TaskStart, Start, taskVars
<1>3. pc'[Runner] = "run"
  BY <1>2, OneRunner, WorkersAreThreads DEF Goto, TaskInv, TaskTypeOK, TypeOK
<1>4. stage # "drain"  BY <1>2 DEF TaskInv, DoneInv
<1>5. QED  BY <1>1, <1>2, <1>3, <1>4, ThreadOnlyStep

LEMMA CloseTaskStep ==
  ASSUME TaskInv, NEW c \in Controllers, TaskClose(c) \/ TaskCloseRest(c)
  PROVE  TaskInv'
<1>1. [TaskNext]_allVars  BY DEF TaskNext
<1>2. pc'[Runner] = pc[Runner]
  <2>1. Runner # c  BY OneRunner DEF Controllers
  <2>2. QED
    BY <2>1, OneRunner, WorkersAreThreads DEF Controllers, TaskClose, TaskCloseRest, Close, CloseWait, CloseReturn, CloseResume,
                CloseSpurious, Goto, threadVars, TaskInv, TaskTypeOK, TypeOK
<1>3. /\ UNCHANGED <<queueVars, added>> /\ promised' \in {promised, added}
      /\ isRun' => isRun
      /\ promised' = promised \/ isRun
  BY DEF TaskClose, TaskCloseRest, Close, CloseWait, CloseReturn, CloseResume,
         CloseSpurious, threadVars, taskVars
<1>4. pc'[Runner] \notin {"none", "run"} => promised' = promised
  BY <1>2, <1>3 DEF TaskInv, DoneInv
<1>5. QED
  BY <1>1, <1>2, <1>3, <1>4, ThreadOnlyStep DEF TaskInv, StageInv, DoneInv

LEMMA WorkRestStep ==
  ASSUME TaskInv, WorkRest
  PROVE  TaskInv'
<1>1. [TaskNext]_allVars  BY DEF TaskNext
<1>2. /\ UNCHANGED <<queueVars, added, promised>>
      /\ pc[Runner] \notin {"none", "run"}
      /\ isRun' => isRun
  BY DEF WorkRest, Destory, WorkWakeup, WorkClear, taskVars
<1>3. pc'[Runner] \in {"wakeup", "clear", "dead"}
  BY OneRunner, WorkersAreThreads
  DEF WorkRest, Destory, WorkWakeup, WorkClear, Goto, TaskInv, TaskTypeOK, TypeOK
<1>4. QED
  BY <1>1, <1>2, <1>3, ThreadOnlyStep DEF TaskInv, StageInv, DoneInv

(* A step of the loop that moves to another stage, and possibly resets the *)
(* position, with the lists as they are.                                   *)
LEMMA StageStep ==
  ASSUME TaskInv, TestRun \/ CheckBuf \/ CheckTasks
  PROVE  TaskInv'
<1> USE DEF TaskInv
<1>1. IInv' /\ TypeOK'  BY ThreadPart DEF TaskNext, OnRun, IInv
<1>2. /\ At("test") \/ At("check") \/ At("tasks")
      /\ stage' \in Stage /\ next' \in {1, next}
      /\ UNCHANGED <<isRun, pc, tasksBuf, tasks, executed, added, promised>>
  BY DEF TestRun, CheckBuf, CheckTasks, At, Stage, vars, threadVars
<1>3. /\ stage' = "drain" => ~isRun /\ next' = 1 /\ tasks = <<>>
      /\ stage' = "exec" => next' = 1
      /\ stage' \in {"tasks", "exec"} \/ tasks = <<>>
      /\ stage \notin {"exec", "drain"}
  BY DEF TestRun, CheckBuf, CheckTasks, At, StageInv
<1>4. pc[Runner] = "run"  BY <1>2 DEF At
<1>5. TaskTypeOK'  BY <1>1, <1>2 DEF TaskTypeOK
<1>6. Len(tasks) \in Nat /\ Len(tasksBuf) \in Nat /\ Len(executed) \in Nat
  BY DEF TaskTypeOK
<1>7. StageInv'  BY <1>2, <1>3, <1>6 DEF StageInv
<1>8. DoneInv'  BY <1>2, <1>4 DEF DoneInv
<1>9. Ran = 0 /\ Ran' = 0  BY <1>2, <1>3 DEF Ran
<1>10. OrderInv'  BY <1>2, <1>6, <1>9 DEF OrderInv
<1>11. NothingLost'  BY <1>2, <1>6, <1>9 DEF NothingLost
<1>12. QED  BY <1>1, <1>5, <1>7, <1>8, <1>10, <1>11

LEMMA MoveStep ==
  ASSUME TaskInv, MoveTasks
  PROVE  TaskInv'
<1> USE DEF TaskInv
<1>1. IInv' /\ TypeOK'  BY ThreadPart DEF TaskNext, OnRun, IInv
<1>2. /\ pc[Runner] = "run" /\ stage = "move" /\ stage' = "tasks"
      /\ tasks = <<>> /\ tasks' = tasks \o tasksBuf /\ tasksBuf' = <<>>
      /\ UNCHANGED <<isRun, pc, next, executed, added, promised>>
  BY DEF MoveTasks, At, StageInv, vars, threadVars
<1>3. tasksBuf \in Seq(Nat) /\ executed \in Seq(Nat)  BY DEF TaskTypeOK
<1>4. tasks' = tasksBuf  BY <1>2, <1>3, ConcatEmptySeq
<1>5. TaskTypeOK'  BY <1>1, <1>2, <1>3, <1>4 DEF TaskTypeOK, Stage
<1>6. StageInv' /\ DoneInv'  BY <1>2 DEF StageInv, DoneInv
<1>7. /\ Len(tasks) = 0 /\ Len(tasksBuf') = 0 /\ Ran = 0 /\ Ran' = 0
      /\ Len(executed) \in Nat /\ Len(tasksBuf) \in Nat
  BY <1>2, <1>3 DEF Ran
<1>8. OrderInv'  BY <1>2, <1>3, <1>4, <1>7 DEF OrderInv
<1>9. NothingLost'  BY <1>2, <1>3, <1>4, <1>7 DEF NothingLost
<1>10. QED  BY <1>1, <1>5, <1>6, <1>8, <1>9

LEMMA ExecStep ==
  ASSUME TaskInv, ExecTask \/ DrainTask
  PROVE  TaskInv'
<1> USE DEF TaskInv
<1>1. IInv' /\ TypeOK'  BY ThreadPart DEF TaskNext, OnRun, IInv
<1>2. /\ pc[Runner] = "run" /\ stage' = stage /\ next' = next + 1
      /\ UNCHANGED <<isRun, pc, tasksBuf, tasks, added, promised>>
      /\ \/ /\ stage = "exec" /\ next <= Len(tasks)
            /\ executed' = Append(executed, tasks[next])
         \/ /\ stage = "drain" /\ next <= Len(tasksBuf) /\ tasks = <<>>
            /\ executed' = Append(executed, tasksBuf[next])
  BY DEF ExecTask, DrainTask, Execute, At, StageInv, vars, threadVars
<1>3. /\ executed \in Seq(Nat) /\ tasks \in Seq(Nat) /\ tasksBuf \in Seq(Nat)
      /\ next \in Nat \ {0}
  BY DEF TaskTypeOK
<1>4. /\ Ran = next - 1 /\ Ran' = next
       /\ Len(executed) \in Nat /\ Len(tasks) \in Nat /\ Len(tasksBuf) \in Nat
  BY <1>2, <1>3 DEF Ran
<1>5. PICK k \in Nat : /\ executed' = Append(executed, k)
                       /\ k = Len(executed) + 1
  <2>1. CASE stage = "exec"
    BY <1>2, <1>3, <1>4, <2>1 DEF OrderInv
  <2>2. CASE stage = "drain"
    <3>1. Len(tasks) = 0  BY <1>2, <2>2
    <3>2. QED  BY <1>2, <1>3, <1>4, <2>2, <3>1 DEF OrderInv
  <2>3. QED  BY <1>2, <2>1, <2>2
<1>6. /\ executed' \in Seq(Nat) /\ Len(executed') = Len(executed) + 1
      /\ \A i \in 1 .. Len(executed) : executed'[i] = executed[i]
      /\ executed'[Len(executed) + 1] = Len(executed) + 1
  BY <1>3, <1>5
<1>7. TaskTypeOK'  BY <1>1, <1>2, <1>3, <1>6 DEF TaskTypeOK
<1>8. StageInv' /\ DoneInv'  BY <1>2, <1>3, <1>6 DEF StageInv, DoneInv
<1>9. OrderInv'
  <2>1. Len(executed') - Ran' = Len(executed) - Ran  BY <1>3, <1>6, <1>4
  <2>2. ASSUME NEW i \in 1 .. Len(executed')
        PROVE  executed'[i] = i
    <3>1. CASE i = Len(executed) + 1  BY <1>6, <3>1
    <3>2. CASE i \in 1 .. Len(executed)  BY <1>6, <3>2 DEF OrderInv
    <3>3. QED  BY <1>6, <1>4, <3>1, <3>2
  <2>3. QED  BY <1>2, <2>1, <2>2 DEF OrderInv
<1>10. NothingLost'  BY <1>2, <1>3, <1>6, <1>4 DEF NothingLost
<1>11. QED  BY <1>1, <1>7, <1>8, <1>9, <1>10

LEMMA ClearStep ==
  ASSUME TaskInv, ClearTasks
  PROVE  TaskInv'
<1> USE DEF TaskInv
<1>1. IInv' /\ TypeOK'  BY ThreadPart DEF TaskNext, OnRun, IInv
<1>2. /\ pc[Runner] = "run" /\ stage = "exec" /\ stage' = "test"
      /\ next > Len(tasks) /\ next <= Len(tasks) + 1 /\ tasks' = <<>>
      /\ UNCHANGED <<isRun, pc, next, tasksBuf, executed, added, promised>>
  BY DEF ClearTasks, At, StageInv, vars, threadVars
<1>3. /\ executed \in Seq(Nat) /\ tasks \in Seq(Nat) /\ tasksBuf \in Seq(Nat)
      /\ next \in Nat \ {0} /\ Len(tasks') = 0
  BY <1>2 DEF TaskTypeOK
<1>4. TaskTypeOK'  BY <1>1, <1>2 DEF TaskTypeOK, Stage
<1>5. StageInv' /\ DoneInv'  BY <1>2 DEF StageInv, DoneInv
<1>6. /\ Ran = Len(tasks) /\ Ran' = 0
      /\ Len(executed) \in Nat /\ Len(tasks) \in Nat /\ Len(tasksBuf) \in Nat
  BY <1>2, <1>3 DEF Ran
<1>7. OrderInv'  BY <1>2, <1>3, <1>6 DEF OrderInv
<1>8. NothingLost'  BY <1>2, <1>3, <1>6 DEF NothingLost
<1>9. QED  BY <1>1, <1>4, <1>5, <1>7, <1>8

(* OnRun returns with nothing left to run. *)
LEMMA DrainDoneStep ==
  ASSUME TaskInv, DrainDone
  PROVE  TaskInv'
<1> USE DEF TaskInv
<1>1. IInv' /\ TypeOK'  BY ThreadPart DEF TaskNext, OnRun, IInv
<1>2. /\ stage = "drain" /\ next > Len(tasksBuf) /\ next <= Len(tasksBuf) + 1
      /\ tasks = <<>> /\ Goto(Runner, "onDestory") /\ ~isRun /\ isRun' = isRun
      /\ UNCHANGED <<tasksBuf, tasks, stage, next, executed, added, promised>>
  BY DEF DrainDone, RunReturns, At, StageInv, taskVars, queueVars
<1>3. pc'[Runner] = "onDestory"
  BY <1>2, OneRunner, WorkersAreThreads DEF Goto, TaskTypeOK, TypeOK
<1>4. /\ Len(executed) \in Nat /\ Len(tasks) = 0 /\ Len(tasksBuf) \in Nat
      /\ next \in Nat /\ added \in Nat /\ promised \in Nat
  BY <1>2 DEF TaskTypeOK
<1>5. Len(executed) = added  BY <1>2, <1>4 DEF NothingLost, Ran
<1>6. TaskTypeOK' /\ StageInv'  BY <1>1, <1>2 DEF TaskTypeOK, StageInv
<1>7. DoneInv'  BY <1>2, <1>3, <1>4, <1>5 DEF DoneInv
<1>8. OrderInv' /\ NothingLost'  BY <1>2 DEF OrderInv, NothingLost, Ran
<1>9. QED  BY <1>1, <1>6, <1>7, <1>8

LEMMA TaskStep == TaskInv /\ [TaskNext]_allVars => TaskInv'
<1> SUFFICES ASSUME TaskInv, [TaskNext]_allVars PROVE TaskInv'  OBVIOUS
<1>1. CASE addTask  BY <1>1, AddTaskStep
<1>2. ASSUME NEW c \in Controllers, TaskStart(c) \/ TaskClose(c) \/ TaskCloseRest(c)
      PROVE  TaskInv'
  BY <1>2, StartTaskStep, CloseTaskStep
<1>3. CASE OnRun
  BY <1>3, StageStep, MoveStep, ExecStep, ClearStep, DrainDoneStep DEF OnRun
<1>4. CASE WorkRest  BY <1>4, WorkRestStep
<1>5. CASE UNCHANGED allVars
  <2>1. UNCHANGED <<queueVars, added, promised, isRun, pc>>
    BY <1>5 DEF allVars, vars, threadVars, taskVars
  <2>2. QED  BY <2>1, ThreadOnlyStep DEF TaskInv, StageInv, DoneInv
<1>6. QED  BY <1>1, <1>2, <1>3, <1>4, <1>5 DEF TaskNext

LEMMA ClosedDone == TaskInv => CloseRunsTasks
<1> SUFFICES ASSUME TaskInv, NEW c \in Controllers,
                    pc[c] = "close_wait", c \notin Inside
             PROVE  Len(executed) >= promised
  BY DEF CloseRunsTasks
<1>1. Started \subseteq {Runner}  BY OneRunner DEF Started
<1>2. Started # Unposted  BY <1>1, OneRunner, Waited DEF TaskInv
<1>3. pc[Runner] \notin {"none", "run"}
  BY <1>1, <1>2, OneRunner DEF Started, Unposted
<1>4. QED  BY <1>3 DEF TaskInv, DoneInv

LEMMA InOrder == TaskInv => ExecutedInOrder
<1> SUFFICES ASSUME TaskInv PROVE ExecutedInOrder  OBVIOUS
<1>1. /\ Len(executed) \in Nat /\ Len(tasks) \in Nat /\ Len(tasksBuf) \in Nat
      /\ next \in Nat /\ added \in Nat
  BY DEF TaskInv, TaskTypeOK
<1>2. Ran \in Int /\ Ran <= Len(tasks) + Len(tasksBuf)
  BY <1>1 DEF TaskInv, StageInv, Ran
<1>3. Len(executed) <= added
  BY <1>1, <1>2 DEF TaskInv, NothingLost
<1>4. QED  BY <1>3 DEF TaskInv, OrderInv, ExecutedInOrder

-----------------------------------------------------------------------------
(* Type correctness of the task server. *)
THEOREM TaskServerTypeOK == TaskSpec => []TaskTypeOK
<1>1. TaskInv => TaskTypeOK  BY DEF TaskInv
<1>2. QED  BY <1>1, TaskInitially, TaskStep, PTL DEF TaskSpec

(* Tasks run at most once and in the order of addTask, whatever thread     *)
(* adds them and whenever (CELLTaskServer::addTask, CELLTaskServer::OnRun).*)
THEOREM TasksRunInOrder == TaskSpec => []ExecutedInOrder
<1>1. QED  BY TaskInitially, TaskStep, InOrder, PTL DEF TaskSpec

(* A task that has been added has run or is still in one of the lists.     *)
THEOREM NoTaskIsLost == TaskSpec => []NothingLost
<1>1. TaskInv => NothingLost  BY DEF TaskInv
<1>2. QED  BY <1>1, TaskInitially, TaskStep, PTL DEF TaskSpec

(* Close returns only when every task added before it has run              *)
(* (CELLTaskServer::Close, the loop after the loop of OnRun).              *)
THEOREM CloseRunsEveryTask == TaskSpec => []CloseRunsTasks
<1>1. QED  BY TaskInitially, TaskStep, ClosedDone, PTL DEF TaskSpec

(* A task server uses its CELLThread as CELLThread allows.                 *)
THEOREM TaskServerIsThread == TaskSpec => Spec
<1>1. TaskInit => Init  BY DEF TaskInit
<1>2. QED  BY <1>1, TaskIsThreadStep, PTL DEF TaskSpec, Spec
=============================================================================
