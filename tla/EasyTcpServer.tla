---------------------------- MODULE EasyTcpServer ----------------------------
(***************************************************************************)
(* depends/include/EasyTcpServer.hpp: a server made of an accept thread,   *)
(* the message threads of CELLServer, and the thread that closes it all.   *)
(* The accept thread (EasySelectServer::OnRun, EasyEpollServer::OnRun)     *)
(* takes a connection, refuses it or creates its CELLClient, and gives it  *)
(* to the CELLServer with the fewest clients, whose counts it reads        *)
(* without a lock.  Close stops the accept thread first and then deletes   *)
(* the CELLServers one by one.                                             *)
(***************************************************************************)
EXTENDS CELLServer

CONSTANTS MaxClient,   \* _nMaxClient
          NoClient     \* the accept thread holds no new client

ASSUME MaxClientIsNat == MaxClient \in Nat
ASSUME NoClientIsNone == NoClient \notin Clients

VARIABLES
  accRunning,  \* _isRun of the accept thread's CELLThread
  acc,         \* where the accept thread is
  hand,        \* the client addClientToCELLServer is placing
  scan, min,   \* its loop variable and pMinServer
  closer,      \* where EasyTcpServer::Close is
  victim,      \* the CELLServer it is deleting
  alive        \* the CELLServer objects that exist

acceptVars == <<accRunning, acc, hand, scan, min>>
closeVars == <<closer, victim, alive>>
vars == <<serverVars, acceptVars, closeVars>>

TypeOK ==
  /\ ServerTypeOK
  /\ accRunning \in BOOLEAN
  /\ acc \in {"test", "choose", "exit_lock", "ended"}
  /\ hand \in Clients \cup {NoClient}
  /\ scan \in 1 .. NServers + 1
  /\ min \in Servers
  /\ closer \in {"open", "accept", "delete", "wait", "closed"}
  /\ victim \in 1 .. NServers + 1
  /\ alive \subseteq Servers

Init ==
  /\ ServerInit
  /\ accRunning = TRUE
  /\ acc = "test"
  /\ hand = NoClient
  /\ scan = 1 /\ min = 1
  /\ closer = "open"
  /\ victim = 1
  /\ alive = Servers

-----------------------------------------------------------------------------
(* Accept: a connection over the limit is closed, any other gets a         *)
(* CELLClient.                                                             *)
Accept(c) ==
  /\ acc = "test" /\ accRunning
  /\ status[c] = "new"
  /\ \/ /\ clientCount < MaxClient
        /\ Become({c}, "open")
        /\ hand' = c
        /\ acc' = "choose"
     \/ /\ clientCount >= MaxClient
        /\ Become({c}, "refused")
        /\ UNCHANGED <<hand, acc>>
  /\ UNCHANGED <<buff, clients, locked, change, fdBak, running, stage, failed,
                 reporting, clientCount, accRunning, scan, min, closeVars>>

(* One comparison of addClientToCELLServer. *)
CompareServer ==
  /\ acc = "choose" /\ scan <= NServers
  /\ \E m \in getClientCount(min), n \in getClientCount(scan) :
       min' = IF m > n THEN scan ELSE min
  /\ scan' = scan + 1
  /\ UNCHANGED <<serverVars, accRunning, acc, hand, closeVars>>

PlaceClient ==
  /\ acc = "choose" /\ scan > NServers
  /\ addClient(min, hand)
  /\ hand' = NoClient
  /\ scan' = 1 /\ min' = 1
  /\ acc' = "test"
  /\ UNCHANGED <<clients, locked, change, fdBak, running, stage, failed,
                 reporting, clientCount, status, accRunning, closeVars>>

(* The loop ends when the flag is down, or with Exit when select or epoll  *)
(* fails; Exit needs the mutex that a waiting Close holds.                 *)
AcceptEnds ==
  /\ acc = "test" /\ ~accRunning
  /\ acc' = "ended"
  /\ UNCHANGED <<serverVars, accRunning, hand, scan, min, closeVars>>

AcceptError ==
  /\ acc = "test" /\ accRunning
  /\ acc' = "exit_lock"
  /\ UNCHANGED <<serverVars, accRunning, hand, scan, min, closeVars>>

AcceptExit ==
  /\ acc = "exit_lock" /\ closer # "accept"
  /\ accRunning' = FALSE
  /\ acc' = "ended"
  /\ UNCHANGED <<serverVars, hand, scan, min, closeVars>>

-----------------------------------------------------------------------------
(* Close: the accept thread's flag. *)
CloseAccept ==
  /\ closer = "open"
  /\ accRunning' = FALSE
  /\ closer' = IF accRunning THEN "accept" ELSE "delete"
  /\ UNCHANGED <<serverVars, acc, hand, scan, min, victim, alive>>

(* MUTANT: Close does not wait for the accept thread. *)
CloseAcceptNoWait ==
  /\ closer = "accept"
  /\ closer' = "delete"
  /\ UNCHANGED <<serverVars, acceptVars, victim, alive>>

CloseAcceptDone ==
  /\ closer = "accept" /\ acc = "ended"
  /\ closer' = "delete"
  /\ UNCHANGED <<serverVars, acceptVars, victim, alive>>

(* MUTANT: the destructor waits for the thread without stopping it. *)
DeleteServerKeepsFlag ==
  /\ closer = "delete" /\ victim <= NServers
  /\ closer' = "wait"
  /\ IF running[victim] THEN UNCHANGED <<alive, victim>>
     ELSE alive' = alive \ {victim} /\ victim' = victim
  /\ UNCHANGED <<serverVars, acceptVars>>

(* delete s: the destructor closes the server's thread; a Close that finds *)
(* the flag down does not wait.                                            *)
DeleteServer ==
  /\ closer = "delete" /\ victim <= NServers
  /\ running' = [running EXCEPT ![victim] = FALSE]
  /\ closer' = "wait"
  /\ IF running[victim] THEN UNCHANGED <<alive, victim>>
     ELSE alive' = alive \ {victim} /\ victim' = victim
  /\ UNCHANGED <<buff, clients, locked, change, fdBak, stage, failed, reporting,
                 clientCount, status, acceptVars>>

(* MUTANT: the destructor does not wait for the thread. *)
DeletedNoWait ==
  /\ closer = "wait"
  /\ alive' = alive \ {victim}
  /\ victim' = victim + 1
  /\ closer' = "delete"
  /\ UNCHANGED <<serverVars, acceptVars>>

(* MUTANT: the loop over the servers runs past its end. *)
DeletePastEnd ==
  /\ closer = "wait"
  /\ victim \in alive => stage[victim] = "ended"
  /\ alive' = alive \ {victim}
  /\ victim' = victim + 1
  /\ UNCHANGED <<serverVars, acceptVars, closer>>

ServerDeleted ==
  /\ closer = "wait"
  /\ victim \in alive => stage[victim] = "ended"
  /\ alive' = alive \ {victim}
  /\ victim' = victim + 1
  /\ closer' = "delete"
  /\ UNCHANGED <<serverVars, acceptVars>>

Closed ==
  /\ closer = "delete" /\ victim > NServers
  /\ closer' = "closed"
  /\ UNCHANGED <<serverVars, acceptVars, victim, alive>>

(* Close of server s has found its flag up and waits for its thread, with  *)
(* the mutex of its CELLThread.                                            *)
Awaited(s) == closer = "wait" /\ victim = s /\ s \in alive

ServerExit(s) == ~Awaited(s) /\ ExitSet(s)

-----------------------------------------------------------------------------
AcceptThread == CompareServer \/ PlaceClient \/ AcceptEnds \/ AcceptExit

Thread(s) == ServerThread(s) \/ ServerExit(s)

Closer == CloseAcceptDone \/ DeleteServer \/ ServerDeleted \/ Closed

Next ==
  \/ \E s \in Servers : (Thread(s) \/ NetError(s)) /\ UNCHANGED <<acceptVars, closeVars>>
  \/ \E c \in Clients : Accept(c)
  \/ AcceptThread \/ AcceptError
  \/ CloseAccept \/ Closer

(* Every thread runs; nobody is obliged to connect, to fail, or to close   *)
(* the server.                                                             *)
Fairness ==
  /\ \A s \in Servers : WF_vars(Thread(s) /\ UNCHANGED <<acceptVars, closeVars>>)
  /\ WF_vars(AcceptThread)
  /\ WF_vars(Closer)

Spec == Init /\ [][Next]_vars
FairSpec == Spec /\ Fairness

-----------------------------------------------------------------------------
Open == {c \in Clients : status[c] = "open"}

Held(s) == clients[s] \cup buff[s]

(* Every CELLClient has exactly one owner.  A list never holds a deleted   *)
(* client (a second delete would follow), no client is in two servers, and *)
(* as long as no server has failed no client is left without an owner      *)
(* (EasyTcpServer::addClientToCELLServer, CELLServer::OnRun,               *)
(* CELLServer::OnClientLeave, CELLServer::ClearClients).                   *)
OwnedOnce ==
  /\ \A s \in Servers : /\ clients[s] \subseteq Open
                        /\ stage[s] # "clear_done" => buff[s] \subseteq Open
  /\ \A s, t \in Servers : s # t => Held(s) \cap Held(t) = {}
  /\ \A s \in Servers : hand \notin Held(s)
  /\ failed = {} =>
       \A c \in Open : c = hand \/ \E s \in Servers : c \in Held(s) \cup reporting[s]

(* The clients that OnNetJoin has counted and OnNetLeave has not: those in *)
(* the lists, but for the one a thread has in hand, that one when it is    *)
(* erased before it is reported, and whoever ClearClients has dropped.     *)
Counted ==
  {c \in Clients : \/ \E s \in Servers : c \in clients[s] \ reporting[s]
                   \/ \E s \in Servers : stage[s] = "erased" /\ c \in reporting[s]
                   \/ status[c] = "dropped"}

(* _clientCount is right at every moment, however the joins and departures *)
(* of several message threads interleave, each in two steps; and a server  *)
(* that drops its clients never gives their places back, so the count      *)
(* Accept compares with the limit goes on including them                   *)
(* (EasyTcpServer::OnNetJoin, OnNetLeave, CELLServer::ClearClients).  The  *)
(* comments at these two callbacks call them unsafe with several           *)
(* cellServers; for the count, which is a std::atomic_int, they are safe.  *)
CountMatches == clientCount = Cardinality(Counted)

(* The cached socket set that select is given is that of the clients:      *)
(* whatever joins, leaves or times out between two rounds marks the list   *)
(* as changed (CELLSelectServer::DoNetEvents, _clients_change).            *)
FdSetFresh ==
  \A s \in Servers : stage[s] = "select" => fdBak[s] = clients[s]

(* When Close has returned, every connection that was accepted is closed,  *)
(* unless a server had failed before (EasyTcpServer::Close).               *)
CloseFreesAll == closer = "closed" /\ failed = {} => Open = {}

(* A CELLServer is deleted only when its thread has finished with it,      *)
(* except one whose thread had taken its own flag down after a failure of  *)
(* the poll: Close finds the flag down and does not wait, so that one may  *)
(* be deleted while its thread is still in ClearClients or in the rest of  *)
(* OnWork.  The accept thread never looks at a deleted server              *)
(* (EasyTcpServer::Close, CELLServer::~CELLServer, CELLThread::Close).     *)
NoUseAfterDelete ==
  /\ \A s \in Servers \ alive : stage[s] = "ended" \/ s \in failed
  /\ acc = "choose" => alive = Servers

(* Threads that have passed the test in Exit and wait for a mutex held by  *)
(* the Close that waits for them.                                          *)
CaughtInExit ==
  \/ closer = "accept" /\ acc = "exit_lock"
  \/ \E s \in Servers : Awaited(s) /\ stage[s] = "exit_lock"

(* An accepted connection is eventually handled by a CELLServer or closed, *)
(* unless a server has failed, or is failing and caught in Exit: there is  *)
(* always a later moment at which no connection is left waiting.  (The     *)
(* connections being finitely many, that is so for each of them.)          *)
AcceptedIsServed ==
  []<>( \/ Open \subseteq UNION {clients[s] : s \in Servers}
        \/ failed # {}
        \/ CaughtInExit )

(* Close returns, also when threads have failed before, unless the thread  *)
(* it waits for is failing at that moment: a thread that has passed the    *)
(* test in Exit when Close takes the mutex and one that waits for it block *)
(* each other, as CELLThread's CloseAlwaysReturns shows.                   *)
CloseEnds == closer # "open" ~> closer = "closed" \/ CaughtInExit

(* The limit as the declaration of _nMaxClient and Accept's message state  *)
(* it: there are never more clients than that.                             *)
LimitHolds == clientCount <= MaxClient

(* What the comment in CELLServer::OnRun says: without clients to handle,  *)
(* polling is skipped.                                                     *)
PollsSomebody == \A s \in Servers : stage[s] = "build" => clients[s] # {}
=============================================================================
