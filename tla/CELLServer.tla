----------------------------- MODULE CELLServer -----------------------------
(***************************************************************************)
(* depends/include/CELLServer.hpp with its select and epoll subclasses:    *)
(* the message threads of a server.  The accept thread hands connections   *)
(* to the buffer _clientsBuff of one of them; the thread drains the buffer *)
(* into _clients, times its clients out, polls them, and deletes the       *)
(* clients that fail.  This module has the thread's steps; EasyTcpServer   *)
(* adds the accept thread and the shutdown.                                *)
(*                                                                         *)
(* The thread's CELLThread object is represented by what CELLThread shows  *)
(* of an object started once: a flag, a Close that returns only after      *)
(* _onDestory if it finds the flag up (CloseWaitsForDestory), at once if   *)
(* not, and an Exit that tests the flag and then needs the mutex that a    *)
(* waiting Close holds.  Which clients time out or fail is left open: any  *)
(* of them may, in any round.  Messages (DoMsg) do not change who is a     *)
(* client.                                                                 *)
(***************************************************************************)
EXTENDS Integers, FiniteSets

CONSTANTS NServers,   \* how many CELLServer objects
          Clients     \* the connections that may be made

ASSUME NServersIsPositive == NServers \in Nat \ {0}
ASSUME ClientsFinite == IsFiniteSet(Clients)

Servers == 1 .. NServers

VARIABLES
  buff,         \* _clientsBuff of every server
  clients,      \* _clients of every server
  locked,       \* the servers whose _mutex is held by the draining loop
  change,       \* _clients_change
  fdBak,        \* the clients whose sockets are in _fdRead_bak
  running,      \* _isRun of _thread
  stage,        \* where the thread is
  failed,       \* history: servers whose thread took its own flag down
  reporting,    \* the client between the two halves of a join or a departure
  clientCount,  \* EasyTcpServer::_clientCount
  status        \* what has become of every connection

serverVars == <<buff, clients, locked, change, fdBak, running, stage, failed,
                reporting, clientCount, status>>

Stage == {"test", "join", "joined", "poll", "timeout", "build", "select", "events",
          "lost", "erased", "exit_lock", "clear_clients", "clear_buff", "clear_done",
          "ended"}

(* "new": not connected yet.  "open": its CELLClient object exists.        *)
(* "left": deleted by OnClientLeave.  "dropped", "freed": deleted by       *)
(* ClearClients, from _clients or from the buffer.  "refused": closed by   *)
(* Accept.                                                                 *)
Status == {"new", "open", "left", "dropped", "freed", "refused"}

ServerTypeOK ==
  /\ buff \in [Servers -> SUBSET Clients]
  /\ clients \in [Servers -> SUBSET Clients]
  /\ locked \subseteq Servers
  /\ change \in [Servers -> BOOLEAN]
  /\ fdBak \in [Servers -> SUBSET Clients]
  /\ running \in [Servers -> BOOLEAN]
  /\ stage \in [Servers -> Stage]
  /\ failed \subseteq Servers
  /\ reporting \in [Servers -> SUBSET Clients]
  /\ clientCount \in Int
  /\ status \in [Clients -> Status]

(* All servers have been started (EasyTcpServer::Start). *)
ServerInit ==
  /\ buff = [s \in Servers |-> {}]
  /\ clients = [s \in Servers |-> {}]
  /\ locked = {}
  /\ change = [s \in Servers |-> TRUE]
  /\ fdBak = [s \in Servers |-> {}]
  /\ running = [s \in Servers |-> TRUE]
  /\ stage = [s \in Servers |-> "test"]
  /\ failed = {}
  /\ reporting = [s \in Servers |-> {}]
  /\ clientCount = 0
  /\ status = [c \in Clients |-> "new"]

Goto(s, label) == stage' = [stage EXCEPT ![s] = label]

Become(gone, what) ==
  status' = [c \in Clients |-> IF c \in gone THEN what ELSE status[c]]

-----------------------------------------------------------------------------
(* MUTANT: the buffer is looked at only when there is no client to poll.   *)
TestRunClientsFirst(s) ==
  /\ stage[s] = "test"
  /\ \/ ~running[s] /\ Goto(s, "clear_clients") /\ UNCHANGED locked
     \/ /\ running[s] /\ clients[s] # {}
        /\ Goto(s, "poll") /\ UNCHANGED locked
     \/ /\ running[s] /\ clients[s] = {} /\ buff[s] # {}
        /\ Goto(s, "join") /\ locked' = locked \cup {s}
  /\ UNCHANGED <<buff, clients, change, fdBak, running, failed, reporting, clientCount,
                 status>>

(* while (pThread->isRun()), then the unlocked test of the buffer; when it *)
(* is not empty the lock is taken.  With nothing to do the loop starts     *)
(* over.                                                                   *)
TestRun(s) ==
  /\ stage[s] = "test"
  /\ \/ ~running[s] /\ Goto(s, "clear_clients") /\ UNCHANGED locked
     \/ /\ running[s] /\ buff[s] # {}
        /\ Goto(s, "join") /\ locked' = locked \cup {s}
     \/ /\ running[s] /\ buff[s] = {} /\ clients[s] # {}
        /\ Goto(s, "poll") /\ UNCHANGED locked
  /\ UNCHANGED <<buff, clients, change, fdBak, running, failed, reporting, clientCount,
                 status>>

(* One turn of the draining loop: the client enters _clients while it is   *)
(* still in the buffer, and then OnNetJoin counts it.                      *)
Join(s, c) ==
  /\ stage[s] = "join"
  /\ c \in buff[s] \ clients[s]
  /\ clients' = [clients EXCEPT ![s] = @ \cup {c}]
  /\ reporting' = [reporting EXCEPT ![s] = {c}]
  /\ Goto(s, "joined")
  /\ UNCHANGED <<buff, locked, change, fdBak, running, failed, clientCount, status>>

OnNetJoin(s) ==
  /\ stage[s] = "joined"
  /\ clientCount' = clientCount + 1
  /\ reporting' = [reporting EXCEPT ![s] = {}]
  /\ Goto(s, "join")
  /\ UNCHANGED <<buff, clients, locked, change, fdBak, running, failed, status>>

(* MUTANT: the list of clients is not marked as changed. *)
JoinDoneUnmarked(s) ==
  /\ stage[s] = "join"
  /\ buff[s] \subseteq clients[s]
  /\ buff' = [buff EXCEPT ![s] = {}]
  /\ locked' = locked \ {s}
  /\ Goto(s, "poll")
  /\ UNCHANGED <<clients, change, fdBak, running, failed, reporting, clientCount, status>>

(* The buffer is emptied, the lock released. *)
JoinDone(s) ==
  /\ stage[s] = "join"
  /\ buff[s] \subseteq clients[s]
  /\ buff' = [buff EXCEPT ![s] = {}]
  /\ change' = [change EXCEPT ![s] = TRUE]
  /\ locked' = locked \ {s}
  /\ Goto(s, "poll")
  /\ UNCHANGED <<clients, fdBak, running, failed, reporting, clientCount, status>>

(* OnClientLeave and the removal of the client, which are two steps for    *)
(* the threads that read the count and the sizes: CheckTime and the select *)
(* build report a departure first and erase the client afterwards, the     *)
(* epoll build's rmClient erases it first.  CheckTime does so for the      *)
(* clients whose heartbeat is overdue, DoNetEvents for the polled ones     *)
(* whose recv or send fails.                                               *)
Gone(s) ==
  {c \in clients[s] :
     \/ stage[s] = "poll"
     \/ stage[s] \in {"select", "events"} /\ c \in fdBak[s]}

(* MUTANT: OnClientLeave does not report the departure. *)
LeaveUncounted(s, c) ==
  /\ c \in Gone(s)
  /\ change' = [change EXCEPT ![s] = TRUE]
  /\ reporting' = [reporting EXCEPT ![s] = {c}]
  /\ Goto(s, IF stage[s] = "poll" THEN "timeout" ELSE "lost")
  /\ UNCHANGED <<buff, clients, locked, fdBak, running, failed, clientCount, status>>

OnClientLeave(s, c) ==
  /\ c \in Gone(s)
  /\ clientCount' = clientCount - 1
  /\ change' = [change EXCEPT ![s] = TRUE]
  /\ reporting' = [reporting EXCEPT ![s] = {c}]
  /\ Goto(s, IF stage[s] = "poll" THEN "timeout" ELSE "lost")
  /\ UNCHANGED <<buff, clients, locked, fdBak, running, failed, status>>

(* MUTANT: the client is deleted and stays in the list. *)
EraseNothing(s) ==
  /\ stage[s] \in {"timeout", "lost"}
  /\ Become(reporting[s], "left")
  /\ reporting' = [reporting EXCEPT ![s] = {}]
  /\ Goto(s, IF stage[s] = "timeout" THEN "poll" ELSE "events")
  /\ UNCHANGED <<buff, clients, locked, change, fdBak, running, failed, clientCount>>

(* The client is deleted and its entry, which no other thread follows,     *)
(* erased.                                                                 *)
Erase(s) ==
  /\ stage[s] \in {"timeout", "lost"}
  /\ clients' = [clients EXCEPT ![s] = @ \ reporting[s]]
  /\ Become(reporting[s], "left")
  /\ reporting' = [reporting EXCEPT ![s] = {}]
  /\ Goto(s, IF stage[s] = "timeout" THEN "poll" ELSE "events")
  /\ UNCHANGED <<buff, locked, change, fdBak, running, failed, clientCount>>

rmClient(s, c) ==
  /\ stage[s] # "poll" /\ c \in Gone(s)
  /\ clients' = [clients EXCEPT ![s] = @ \ {c}]
  /\ reporting' = [reporting EXCEPT ![s] = {c}]
  /\ Goto(s, "erased")
  /\ UNCHANGED <<buff, locked, change, fdBak, running, failed, clientCount, status>>

LeaveErased(s) ==
  /\ stage[s] = "erased"
  /\ clientCount' = clientCount - 1
  /\ change' = [change EXCEPT ![s] = TRUE]
  /\ Become(reporting[s], "left")
  /\ reporting' = [reporting EXCEPT ![s] = {}]
  /\ Goto(s, "events")
  /\ UNCHANGED <<buff, clients, locked, fdBak, running, failed>>

(* CheckTime is through. *)
CheckTime(s) ==
  /\ stage[s] = "poll"
  /\ Goto(s, "build")
  /\ UNCHANGED <<buff, clients, locked, change, fdBak, running, failed, reporting,
                 clientCount, status>>

(* DoNetEvents builds the set of sockets to poll, afresh only when the     *)
(* list of clients has changed.                                            *)
BuildSet(s) ==
  /\ stage[s] = "build"
  /\ fdBak' = IF change[s] THEN [fdBak EXCEPT ![s] = clients[s]] ELSE fdBak
  /\ change' = [change EXCEPT ![s] = FALSE]
  /\ Goto(s, "select")
  /\ UNCHANGED <<buff, clients, locked, running, failed, reporting, clientCount, status>>

(* DoNetEvents has handled all the events that select or epoll_wait gave,  *)
(* if any; no message that DoMsg handles makes a client leave.             *)
NetEvents(s) ==
  /\ stage[s] \in {"select", "events"}
  /\ Goto(s, "test")
  /\ UNCHANGED <<buff, clients, locked, change, fdBak, running, failed, reporting,
                 clientCount, status>>

(* DoNetEvents returns false: Exit tests the flag without the mutex, ...   *)
NetError(s) ==
  /\ stage[s] = "select"
  /\ Goto(s, IF running[s] THEN "exit_lock" ELSE "clear_clients")
  /\ UNCHANGED <<buff, clients, locked, change, fdBak, running, failed, reporting,
                 clientCount, status>>

(* ... takes it down under the mutex, and the loop is left. *)
ExitSet(s) ==
  /\ stage[s] = "exit_lock"
  /\ running' = [running EXCEPT ![s] = FALSE]
  /\ failed' = failed \cup {s}
  /\ Goto(s, "clear_clients")
  /\ UNCHANGED <<buff, clients, locked, change, fdBak, reporting, clientCount, status>>

(* ClearClients, as _onDestory: without the lock and without OnNetLeave.   *)
ClearClients(s) ==
  /\ stage[s] = "clear_clients"
  /\ Become(clients[s], "dropped")
  /\ clients' = [clients EXCEPT ![s] = {}]
  /\ Goto(s, "clear_buff")
  /\ UNCHANGED <<buff, locked, change, fdBak, running, failed, reporting, clientCount>>

ClearBuff(s) ==
  /\ stage[s] = "clear_buff"
  /\ Become(buff[s], "freed")
  /\ Goto(s, "clear_done")
  /\ UNCHANGED <<buff, clients, locked, change, fdBak, running, failed, reporting,
                 clientCount>>

ClearDone(s) ==
  /\ stage[s] = "clear_done"
  /\ buff' = [buff EXCEPT ![s] = {}]
  /\ Goto(s, "ended")
  /\ UNCHANGED <<clients, locked, change, fdBak, running, failed, reporting, clientCount,
                 status>>

ServerThread(s) ==
  \/ TestRun(s) \/ OnNetJoin(s) \/ JoinDone(s) \/ Erase(s) \/ LeaveErased(s)
  \/ CheckTime(s) \/ BuildSet(s) \/ NetEvents(s)
  \/ ClearClients(s) \/ ClearBuff(s) \/ ClearDone(s)
  \/ \E c \in Clients : Join(s, c) \/ OnClientLeave(s, c) \/ rmClient(s, c)

(* getClientCount reads the two sizes without the lock.  With an empty     *)
(* buffer it is the number of clients; while the buffer is being drained   *)
(* the clients in it may be counted twice, once or not at all.             *)
getClientCount(s) ==
  Cardinality(clients[s]) .. Cardinality(clients[s] \cup buff[s]) + Cardinality(buff[s])

(* addClient *)
addClient(s, c) ==
  /\ s \notin locked
  /\ buff' = [buff EXCEPT ![s] = @ \cup {c}]
=============================================================================
