------------------------------ MODULE CELLTask ------------------------------
(***************************************************************************)
(* depends/include/CELLTask.hpp: CELLTaskServer, a CELLThread whose        *)
(* function moves the tasks that any thread adds from a locked buffer to a *)
(* private list and runs them.  The thread is started once (CELLServer and *)
(* CELLLog start theirs in their own Start and constructor) and its        *)
(* function never calls Exit, so of CELLThread the module takes Start,     *)
(* Close and OnWork.  A task is known by its position in the order in      *)
(* which addTask took the lock.                                            *)
(***************************************************************************)
EXTENDS CELLThread, Sequences

CONSTANTS Runner,     \* the one worker
          MaxTasks    \* bound: tasks added in a behaviour

ASSUME OneRunner == Workers = {Runner}
ASSUME MaxTasksIsNat == MaxTasks \in Nat

VARIABLES tasksBuf,   \* _tasksBuf
          tasks,      \* _tasks
          stage,      \* where OnRun is
          next,       \* position of the for loops of OnRun
          added,      \* history: how many tasks have been added
          executed,   \* history: the tasks in the order they ran
          promised    \* history: tasks added when Close lowered the flag

queueVars == <<tasksBuf, tasks, stage, next, executed>>
taskVars == <<queueVars, added, promised>>
allVars == <<vars, taskVars>>

Stage == {"test", "check", "move", "tasks", "exec", "drain"}

TaskTypeOK ==
  /\ TypeOK
  /\ tasksBuf \in Seq(Nat) /\ tasks \in Seq(Nat) /\ executed \in Seq(Nat)
  /\ stage \in Stage
  /\ next \in Nat \ {0}
  /\ added \in Nat /\ promised \in Nat

TaskInit ==
  /\ Init
  /\ tasksBuf = <<>> /\ tasks = <<>> /\ executed = <<>>
  /\ stage = "test"
  /\ next = 1
  /\ added = 0 /\ promised = 0

-----------------------------------------------------------------------------
(* addTask, by any thread. *)
addTask ==
  /\ added < MaxTasks
  /\ added' = added + 1
  /\ tasksBuf' = Append(tasksBuf, added')
  /\ UNCHANGED <<vars, tasks, stage, next, executed, promised>>

TaskStart(c) == Start(c, Runner) /\ UNCHANGED taskVars

(* Close, from its first step to its return. *)
TaskClose(c) ==
  /\ Close(c)
  /\ promised' = added
  /\ UNCHANGED <<queueVars, added>>

TaskCloseRest(c) ==
  /\ CloseWait(c) \/ CloseReturn(c) \/ CloseResume(c) \/ CloseSpurious(c)
  /\ UNCHANGED taskVars

-----------------------------------------------------------------------------
(* OnRun, one action per step another thread can come between. *)
At(s) == pc[Runner] = "run" /\ stage = s

(* while (pThread->isRun()) *)
TestRun ==
  /\ At("test")
  /\ stage' = IF isRun THEN "check" ELSE "drain"
  /\ next' = 1
  /\ UNCHANGED <<vars, tasksBuf, tasks, executed, added, promised>>

(* The test of the buffer is made without the lock. *)
CheckBuf ==
  /\ At("check")
  /\ stage' = IF tasksBuf # <<>> THEN "move" ELSE "tasks"
  /\ UNCHANGED <<vars, tasksBuf, tasks, next, executed, added, promised>>

(* MUTANT: the moved tasks stay in the buffer. *)
MoveKeepsBuf ==
  /\ At("move")
  /\ tasks' = tasks \o tasksBuf
  /\ stage' = "tasks"
  /\ UNCHANGED <<vars, tasksBuf, next, executed, added, promised>>

MoveTasks ==
  /\ At("move")
  /\ tasks' = tasks \o tasksBuf
  /\ tasksBuf' = <<>>
  /\ stage' = "tasks"
  /\ UNCHANGED <<vars, next, executed, added, promised>>

(* MUTANT: the loop over the tasks starts one too early. *)
CheckTasksFromZero ==
  /\ At("tasks")
  /\ stage' = IF tasks = <<>> THEN "test" ELSE "exec"
  /\ next' = 0
  /\ UNCHANGED <<vars, tasksBuf, tasks, executed, added, promised>>

(* Without tasks the loop sleeps and starts over. *)
CheckTasks ==
  /\ At("tasks")
  /\ stage' = IF tasks = <<>> THEN "test" ELSE "exec"
  /\ next' = 1
  /\ UNCHANGED <<vars, tasksBuf, tasks, executed, added, promised>>

Execute(list) ==
  /\ next <= Len(list)
  /\ executed' = Append(executed, list[next])
  /\ next' = next + 1

ExecTask ==
  /\ At("exec")
  /\ Execute(tasks)
  /\ UNCHANGED <<vars, tasksBuf, tasks, stage, added, promised>>

(* MUTANT: the list is not cleared after it has been run. *)
KeepTasks ==
  /\ At("exec") /\ next > Len(tasks)
  /\ stage' = "test"
  /\ UNCHANGED <<vars, tasksBuf, tasks, next, executed, added, promised>>

ClearTasks ==
  /\ At("exec") /\ next > Len(tasks)
  /\ tasks' = <<>>
  /\ stage' = "test"
  /\ UNCHANGED <<vars, tasksBuf, next, executed, added, promised>>

(* After the loop the rest of the buffer is run, without the lock and      *)
(* without emptying it: a task added meanwhile is seen if it is linked in  *)
(* before the iterator reaches the end.                                    *)
DrainTask ==
  /\ At("drain")
  /\ Execute(tasksBuf)
  /\ UNCHANGED <<vars, tasksBuf, tasks, stage, added, promised>>

(* MUTANT: OnRun returns without running the rest of the buffer. *)
ReturnWithoutDrain == At("drain") /\ RunReturns(Runner) /\ UNCHANGED taskVars

DrainDone ==
  /\ At("drain") /\ next > Len(tasksBuf)
  /\ RunReturns(Runner)
  /\ UNCHANGED taskVars

(* The rest of OnWork; CELLTaskServer passes no _onDestory. *)
WorkRest ==
  /\ Destory(Runner) \/ WorkWakeup(Runner) \/ WorkClear(Runner)
  /\ UNCHANGED taskVars

OnRun ==
  \/ TestRun \/ CheckBuf \/ MoveTasks \/ CheckTasks
  \/ ExecTask \/ ClearTasks \/ DrainTask \/ DrainDone

TaskNext ==
  \/ addTask
  \/ \E c \in Controllers : TaskStart(c) \/ TaskClose(c) \/ TaskCloseRest(c)
  \/ OnRun
  \/ WorkRest

TaskFairness ==
  /\ WF_allVars(OnRun) /\ WF_allVars(WorkRest)
  /\ \A c \in Controllers : /\ WF_allVars(CloseWait(c) /\ UNCHANGED taskVars)
                            /\ WF_allVars(CloseResume(c) /\ UNCHANGED taskVars)
                            /\ WF_allVars(CloseReturn(c) /\ UNCHANGED taskVars)

TaskSpec == TaskInit /\ [][TaskNext]_allVars
FairTaskSpec == TaskSpec /\ TaskFairness

-----------------------------------------------------------------------------
(* Tasks that have run and are still in the list being run. *)
Ran == IF stage \in {"exec", "drain"} THEN next - 1 ELSE 0

(* Tasks run in the order they were added, each at most once: what has run *)
(* is the prefix of what was added (CELLTaskServer::OnRun moves tasks      *)
(* between two lists under two different locking disciplines).             *)
ExecutedInOrder ==
  /\ Len(executed) <= added
  /\ \A i \in 1 .. Len(executed) : executed[i] = i

(* No task disappears: what has not run is still in one of the two lists,  *)
(* up to and after the end of the thread.                                  *)
NothingLost ==
  added = Len(executed) + (Len(tasks) + Len(tasksBuf) - Ran)

(* When Close returns, every task that was added before Close lowered the  *)
(* flag has run (CELLTaskServer::Close, CELLThread::Close).                *)
CloseRunsTasks ==
  \A c \in Controllers :
    pc[c] = "close_wait" /\ c \notin Inside => Len(executed) >= promised

(* A task added while the server runs is executed, whether or not the      *)
(* server is closed meanwhile.                                             *)
EveryTaskRuns ==
  \A k \in 1 .. MaxTasks : added >= k /\ isRun ~> Len(executed) >= k

(* Close of a task server always returns: its function never calls Exit.   *)
TaskCloseReturns ==
  \A c \in Controllers : pc[c] = "close" ~> pc[c] = "idle"
=============================================================================
