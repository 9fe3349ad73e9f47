------------------------- MODULE EasyTcpServer_proofs -------------------------
(***************************************************************************)
(* Proofs about EasyTcpServer, for any number of message threads, any      *)
(* connections and any limit.                                              *)
(***************************************************************************)
EXTENDS EasyTcpServer, FiniteSetTheorems, TLAPS

Cleaning == {"clear_clients", "clear_buff", "clear_done", "ended"}

(* Close has got as far as server s. *)
Reached(s) == s < victim \/ (s = victim /\ closer = "wait")

(* How far the shutdown is.  A message thread stops because it has failed  *)
(* or because Close has come to its server; before that the accept thread  *)
(* has ended; a server is deleted when Close has come to it and its thread *)
(* has ended or failed.                                                    *)
LifeInv ==
  /\ \A s \in Servers : stage[s] \in Cleaning => ~running[s]
  /\ \A s \in Servers : ~running[s] => s \in failed \/ Reached(s)
  /\ \A s \in Servers : s \notin alive => Reached(s) /\ (s \in failed \/ stage[s] = "ended")
  /\ \A s \in Servers : s < victim => s \notin alive
  /\ closer \in {"open", "accept"} => victim = 1
  /\ closer = "wait" => victim <= NServers
  /\ closer = "closed" => victim = NServers + 1
  /\ closer \in {"delete", "wait", "closed"} => acc = "ended"
  /\ closer = "open" /\ ~accRunning => acc = "ended"
  /\ acc = "choose" <=> hand # NoClient

(* What a message thread does, one way or another. *)
Turn(s) == ServerThread(s) \/ NetError(s) \/ ExitSet(s)

(* Who has which client.  The buffer and the list of a server have clients *)
(* in common only while the buffer is being drained, nothing in them is    *)
(* new, and a server that has finished with its lists has them empty,      *)
(* except for what the accept thread gives to one that has failed.         *)
Joining == {"join", "joined"}

OwnInv ==
  /\ OwnedOnce
  /\ \A s \in Servers : stage[s] \notin Joining => clients[s] \cap buff[s] = {}
  /\ \A s \in Servers : \A c \in Held(s) : status[c] # "new"
  /\ hand # NoClient => status[hand] = "open"
  /\ \A s \in Servers : stage[s] \in {"clear_buff", "clear_done", "ended"} => clients[s] = {}
  /\ \A s \in Servers : failed = {} /\ stage[s] = "clear_done" => buff[s] \cap Open = {}
  /\ \A s \in Servers : failed = {} /\ stage[s] = "ended" => buff[s] = {}

(* A thread has a client in hand between the two halves of a join or a     *)
(* departure: one of its list, or one that it has just erased from it and  *)
(* that nobody else has.                                                   *)
InHand == {"joined", "timeout", "lost", "erased"}

Taken(s) == Held(s) \cup reporting[s]

TakenInv ==
  /\ \A s, t \in Servers : s # t => Taken(s) \cap Taken(t) = {}
  /\ \A s \in Servers : hand \notin Taken(s)
  /\ \A s \in Servers : reporting[s] \subseteq Open
  /\ \A s \in Servers : stage[s] = "erased" => reporting[s] \cap Held(s) = {}
  /\ \A s \in Servers : stage[s] # "erased" => reporting[s] \subseteq clients[s]
  /\ \A s \in Servers : stage[s] \in InHand => \E c \in Clients : reporting[s] = {c}
  /\ \A s \in Servers : stage[s] \notin InHand => reporting[s] = {}

(* The socket set may only differ from the list of clients when that is    *)
(* marked as changed, or about to be.                                      *)
FreshInv ==
  \A s \in Servers :
    /\ stage[s] \in {"test", "poll", "build", "events"} /\ ~change[s] => fdBak[s] = clients[s]
    /\ stage[s] \in {"timeout", "lost"} => change[s]
    /\ stage[s] = "select" => fdBak[s] = clients[s]

ServerInv == TypeOK /\ LifeInv /\ OwnInv /\ TakenInv /\ FreshInv /\ CountMatches

-----------------------------------------------------------------------------
LEMMA ClientSetsAreFinite ==
  \A S \in SUBSET Clients : IsFiniteSet(S) /\ Cardinality(S) \in Nat
BY ClientsFinite, FS_Subset, FS_CardinalityType

LEMMA ServerTurn ==
  ASSUME NEW s \in Servers, Thread(s) \/ NetError(s)
  PROVE  Turn(s)
BY DEF Thread, ServerExit, Turn

LEMMA TypeInitially == Init => TypeOK
<1> SUFFICES ASSUME Init PROVE TypeOK  OBVIOUS
<1>1. ServerTypeOK  BY DEF Init, ServerInit, ServerTypeOK, Stage, Status
<1>2. 1 \in Servers /\ 1 \in 1 .. NServers + 1  BY NServersIsPositive DEF Servers
<1>3. QED  BY <1>1, <1>2 DEF Init, TypeOK

(* The types of what a message thread does. *)
LEMMA ThreadType ==
  ASSUME ServerTypeOK, NEW s \in Servers, Turn(s)
  PROVE  ServerTypeOK'
<1> USE DEF ServerTypeOK, Goto, Stage
<1>1. CASE TestRun(s)  BY <1>1 DEF TestRun
<1>2. ASSUME NEW c \in Clients, Join(s, c)
      PROVE  ServerTypeOK'
  BY <1>2 DEF Join
<1>3. CASE OnNetJoin(s)  BY <1>3 DEF OnNetJoin
<1>4. CASE JoinDone(s)  BY <1>4 DEF JoinDone
<1>5. ASSUME NEW c \in Clients, OnClientLeave(s, c)
      PROVE  ServerTypeOK'
  BY <1>5 DEF OnClientLeave
<1>6. CASE Erase(s)  BY <1>6 DEF Erase, Become, Status
<1>7. ASSUME NEW c \in Clients, rmClient(s, c)
      PROVE  ServerTypeOK'
  BY <1>7 DEF rmClient
<1>8. CASE LeaveErased(s)  BY <1>8 DEF LeaveErased, Become, Status
<1>9. CASE CheckTime(s) \/ NetEvents(s)  BY <1>9 DEF CheckTime, NetEvents
<1>10. CASE BuildSet(s)  BY <1>10 DEF BuildSet
<1>11. CASE NetError(s)  BY <1>11 DEF NetError
<1>12. CASE ExitSet(s)  BY <1>12 DEF ExitSet
<1>13. CASE ClearClients(s)  BY <1>13 DEF ClearClients, Become, Status
<1>14. CASE ClearBuff(s)  BY <1>14 DEF ClearBuff, Become, Status
<1>15. CASE ClearDone(s)  BY <1>15 DEF ClearDone
<1>16. QED
  BY <1>1, <1>2, <1>3, <1>4, <1>5, <1>6, <1>7, <1>8, <1>9, <1>10, <1>11, <1>12, <1>13,
     <1>14, <1>15 DEF Turn, ServerThread

LEMMA TypeStep == TypeOK /\ LifeInv /\ [Next]_vars => TypeOK'
<1> SUFFICES ASSUME TypeOK, LifeInv, [Next]_vars PROVE TypeOK'  OBVIOUS
<1> USE DEF TypeOK
<1>0. NServers \in Nat \ {0} /\ Servers = 1 .. NServers  BY NServersIsPositive DEF Servers
<1>1. ASSUME NEW s \in Servers, Turn(s), UNCHANGED <<acceptVars, closeVars>>
      PROVE  TypeOK'
  BY <1>1, ThreadType DEF acceptVars, closeVars
<1>2. ASSUME NEW c \in Clients, Accept(c)
      PROVE  TypeOK'
  <2>1. ServerTypeOK'  BY <1>2 DEF Accept, Become, ServerTypeOK, Status
  <2>2. QED  BY <1>2, <2>1 DEF Accept, closeVars
<1>3. CASE CompareServer
  <2>1. ServerTypeOK'  BY <1>3 DEF CompareServer, serverVars, ServerTypeOK
  <2>2. scan' \in 1 .. NServers + 1 /\ min' \in Servers  BY <1>0, <1>3 DEF CompareServer
  <2>3. QED  BY <1>3, <2>1, <2>2 DEF CompareServer, closeVars
<1>4. CASE PlaceClient
  <2>1. hand \in Clients  BY <1>4, NoClientIsNone DEF PlaceClient, LifeInv
  <2>2. buff' \in [Servers -> SUBSET Clients]
    BY <1>4, <2>1 DEF PlaceClient, addClient, ServerTypeOK
  <2>3. ServerTypeOK'  BY <1>4, <2>2 DEF PlaceClient, ServerTypeOK
  <2>4. 1 \in Servers /\ 1 \in 1 .. NServers + 1  BY <1>0
  <2>5. QED  BY <1>4, <2>3, <2>4 DEF PlaceClient, closeVars
<1>5. CASE AcceptEnds \/ AcceptExit
  BY <1>5 DEF AcceptEnds, AcceptExit, serverVars, closeVars, ServerTypeOK
<1>6. CASE AcceptError  BY <1>6 DEF AcceptError, serverVars, closeVars, ServerTypeOK
<1>7. CASE CloseAccept  BY <1>7 DEF CloseAccept, serverVars, ServerTypeOK
<1>8. CASE Closer
  <2>1. CASE CloseAcceptDone
    BY <2>1 DEF CloseAcceptDone, serverVars, acceptVars, ServerTypeOK
  <2>2. CASE DeleteServer
    <3>1. ServerTypeOK'  BY <1>0, <2>2 DEF DeleteServer, ServerTypeOK
    <3>2. alive' \subseteq Servers /\ victim' = victim  BY <2>2 DEF DeleteServer
    <3>3. QED  BY <2>2, <3>1, <3>2 DEF DeleteServer, acceptVars
  <2>3. CASE ServerDeleted
    <3>1. victim' \in 1 .. NServers + 1  BY <1>0, <2>3 DEF ServerDeleted, LifeInv
    <3>2. QED  BY <2>3, <3>1 DEF ServerDeleted, serverVars, acceptVars, ServerTypeOK
  <2>4. CASE Closed  BY <2>4 DEF Closed, serverVars, acceptVars, ServerTypeOK
  <2>5. QED  BY <1>8, <2>1, <2>2, <2>3, <2>4 DEF Closer
<1>9. CASE UNCHANGED vars
  BY <1>9 DEF vars, serverVars, acceptVars, closeVars, ServerTypeOK
<1>10. QED
  BY <1>1, <1>2, <1>3, <1>4, <1>5, <1>6, <1>7, <1>8, <1>9, ServerTurn
  DEF Next, AcceptThread

-----------------------------------------------------------------------------
(* What a message thread may do to the state of the shutdown. *)
LEMMA ThreadMoves ==
  ASSUME TypeOK, LifeInv, NEW s \in Servers, Turn(s)
  PROVE  /\ \A t \in Servers : t # s => stage'[t] = stage[t]
         /\ stage[s] # "ended"
         /\ failed \subseteq failed'
         /\ \A t \in Servers : running'[t] = running[t] \/ (t \in failed' /\ ~running'[t])
         /\ stage'[s] \in Cleaning => ~running'[s]
<1> USE DEF TypeOK, ServerTypeOK, LifeInv, Cleaning, Goto
<1>1. CASE TestRun(s)  BY <1>1 DEF TestRun
<1>2. ASSUME NEW c \in Clients, Join(s, c) \/ OnClientLeave(s, c) \/ rmClient(s, c)
      PROVE  /\ \A t \in Servers : t # s => stage'[t] = stage[t]
             /\ stage[s] # "ended" /\ stage'[s] \notin Cleaning
             /\ failed' = failed /\ running' = running
  BY <1>2 DEF Join, OnClientLeave, rmClient, Gone
<1>3. CASE OnNetJoin(s) \/ JoinDone(s)  BY <1>3 DEF OnNetJoin, JoinDone
<1>4. CASE Erase(s) \/ LeaveErased(s)  BY <1>4 DEF Erase, LeaveErased
<1>5. CASE CheckTime(s) \/ BuildSet(s) \/ NetEvents(s)
  BY <1>5 DEF CheckTime, BuildSet, NetEvents
<1>6. CASE NetError(s)  BY <1>6 DEF NetError
<1>7. CASE ExitSet(s)  BY <1>7 DEF ExitSet
<1>8. CASE ClearClients(s)  BY <1>8 DEF ClearClients
<1>9. CASE ClearBuff(s)  BY <1>9 DEF ClearBuff
<1>10. CASE ClearDone(s)  BY <1>10 DEF ClearDone
<1>11. QED
  BY <1>1, <1>2, <1>3, <1>4, <1>5, <1>6, <1>7, <1>8, <1>9, <1>10 DEF Turn, ServerThread

LEMMA LifeInitially == Init => LifeInv
<1>1. ASSUME Init PROVE \A s \in Servers : stage[s] = "test" /\ running[s] /\ s \in alive /\ ~(s < 1)
  BY <1>1, NServersIsPositive DEF Init, ServerInit, Servers
<1>2. QED  BY <1>1, NoClientIsNone DEF Init, LifeInv, Cleaning

LEMMA LifeStep == TypeOK /\ LifeInv /\ [Next]_vars => LifeInv'
<1> SUFFICES ASSUME TypeOK, LifeInv, [Next]_vars PROVE LifeInv'  OBVIOUS
<1> USE DEF LifeInv, Reached
<1>0. NServers \in Nat \ {0} /\ Servers = 1 .. NServers /\ victim \in 1 .. NServers + 1
  BY NServersIsPositive DEF Servers, TypeOK
<1>1. ASSUME NEW s \in Servers, Turn(s), UNCHANGED <<acceptVars, closeVars>>
      PROVE  LifeInv'
  <2>1. UNCHANGED <<accRunning, acc, hand, closer, victim, alive>>
    BY <1>1 DEF acceptVars, closeVars
  <2>2. \A t \in Servers : stage'[t] \in Cleaning => ~running'[t]
    BY <1>1, ThreadMoves DEF TypeOK, ServerTypeOK
  <2>3. \A t \in Servers : ~running'[t] => t \in failed' \/ Reached(t)'
    BY <1>1, <2>1, ThreadMoves
  <2>4. \A t \in Servers : t \notin alive' => Reached(t)' /\ (t \in failed' \/ stage'[t] = "ended")
    BY <1>1, <2>1, ThreadMoves
  <2>5. QED  BY <2>1, <2>2, <2>3, <2>4
<1>2. ASSUME NEW c \in Clients, Accept(c)
      PROVE  LifeInv'
  BY <1>2, NoClientIsNone DEF Accept, closeVars
<1>3. CASE CompareServer  BY <1>3 DEF CompareServer, serverVars, closeVars
<1>4. CASE PlaceClient  BY <1>4 DEF PlaceClient, closeVars
<1>5. CASE AcceptEnds \/ AcceptExit
  BY <1>5 DEF AcceptEnds, AcceptExit, serverVars, closeVars
<1>6. CASE AcceptError  BY <1>6 DEF AcceptError, serverVars, closeVars
<1>7. CASE CloseAccept  BY <1>7 DEF CloseAccept, serverVars
<1>8. CASE CloseAcceptDone  BY <1>8 DEF CloseAcceptDone, serverVars, acceptVars
<1>9. CASE DeleteServer
  <2>1. /\ victim \in Servers /\ closer = "delete" /\ closer' = "wait" /\ victim' = victim
        /\ UNCHANGED <<stage, failed, acc, hand, accRunning>>
    BY <1>0, <1>9 DEF DeleteServer, acceptVars
  <2>2. \A t \in Servers : running'[t] = (running[t] /\ t # victim)
    BY <1>9, <2>1 DEF DeleteServer, TypeOK, ServerTypeOK
  <2>3. alive' = alive \/ (alive' = alive \ {victim} /\ ~running[victim])
    BY <1>9 DEF DeleteServer
  <2>4. ~running[victim] => victim \in failed  BY <1>0, <2>1
  <2>5. \A t \in Servers : t \notin alive' => Reached(t)' /\ (t \in failed' \/ stage'[t] = "ended")
    BY <1>0, <2>1, <2>3, <2>4
  <2>6. \A t \in Servers : t < victim' => t \notin alive'  BY <2>1, <2>3
  <2>7. \A t \in Servers : ~running'[t] => t \in failed' \/ Reached(t)'
    BY <2>1, <2>2
  <2>8. \A t \in Servers : stage'[t] \in Cleaning => ~running'[t]  BY <2>1, <2>2
  <2>9. victim' <= NServers  BY <1>0, <2>1
  <2>10. QED  BY <2>1, <2>5, <2>6, <2>7, <2>8, <2>9
<1>10. CASE ServerDeleted
  <2>1. /\ closer = "wait" /\ closer' = "delete" /\ victim \in Servers /\ victim' = victim + 1
        /\ alive' = alive \ {victim} /\ (victim \in alive => stage[victim] = "ended")
        /\ UNCHANGED <<stage, failed, running, acc, hand, accRunning>>
    BY <1>0, <1>10 DEF ServerDeleted, acceptVars, serverVars
  <2>2. \A t \in Servers : Reached(t) => Reached(t)'  BY <1>0, <2>1
  <2>3. \A t \in Servers : t < victim' => t < victim \/ t = victim  BY <1>0, <2>1
  <2>4. \A t \in Servers : t \notin alive' => Reached(t)' /\ (t \in failed' \/ stage'[t] = "ended")
    BY <1>0, <2>1, <2>2
  <2>5. \A t \in Servers : t < victim' => t \notin alive'  BY <2>1, <2>3
  <2>6. QED  BY <2>1, <2>2, <2>4, <2>5
<1>11. CASE Closed
  <2>1. victim = NServers + 1  BY <1>0, <1>11 DEF Closed
  <2>2. QED  BY <1>11, <2>1 DEF Closed, serverVars, acceptVars
<1>12. CASE UNCHANGED vars  BY <1>12 DEF vars, serverVars, acceptVars, closeVars
<1>13. QED
  BY <1>1, <1>2, <1>3, <1>4, <1>5, <1>6, <1>7, <1>8, <1>9, <1>10, <1>11, <1>12, ServerTurn
  DEF Next, AcceptThread, Closer

-----------------------------------------------------------------------------
(* The cached socket set. *)
LEMMA FreshInitially == Init => FreshInv
BY DEF Init, ServerInit, FreshInv

LEMMA ThreadFresh ==
  ASSUME TypeOK, FreshInv, NEW s \in Servers, Turn(s)
  PROVE  FreshInv'
<1> USE DEF TypeOK, ServerTypeOK, FreshInv, Goto
<1>1. CASE TestRun(s)  BY <1>1 DEF TestRun
<1>2. ASSUME NEW c \in Clients, Join(s, c)
      PROVE  FreshInv'
  BY <1>2 DEF Join
<1>3. CASE OnNetJoin(s)  BY <1>3 DEF OnNetJoin
<1>4. CASE JoinDone(s)  BY <1>4 DEF JoinDone
<1>5. ASSUME NEW c \in Clients, OnClientLeave(s, c)
      PROVE  FreshInv'
  BY <1>5 DEF OnClientLeave
<1>6. CASE Erase(s)
  <2>1. /\ change[s] /\ change' = change /\ fdBak' = fdBak /\ stage'[s] \in {"poll", "events"}
        /\ \A t \in Servers : t # s => clients'[t] = clients[t] /\ stage'[t] = stage[t]
    BY <1>6 DEF Erase
  <2>2. QED  BY <2>1
<1>7. ASSUME NEW c \in Clients, rmClient(s, c)
      PROVE  FreshInv'
  BY <1>7 DEF rmClient
<1>8. CASE LeaveErased(s)  BY <1>8 DEF LeaveErased
<1>9. CASE CheckTime(s) \/ NetEvents(s)  BY <1>9 DEF CheckTime, NetEvents
<1>10. CASE BuildSet(s)  BY <1>10 DEF BuildSet
<1>11. CASE NetError(s) \/ ExitSet(s)  BY <1>11 DEF NetError, ExitSet
<1>12. CASE ClearClients(s)  BY <1>12 DEF ClearClients
<1>13. CASE ClearBuff(s)  BY <1>13 DEF ClearBuff
<1>14. CASE ClearDone(s)  BY <1>14 DEF ClearDone
<1>15. QED
  BY <1>1, <1>2, <1>3, <1>4, <1>5, <1>6, <1>7, <1>8, <1>9, <1>10, <1>11, <1>12, <1>13,
     <1>14 DEF Turn, ServerThread

(* The steps of the other threads leave the message threads alone. *)
LEMMA OtherThreads ==
  ASSUME NEW c, Accept(c) \/ AcceptThread \/ AcceptError \/ CloseAccept \/ Closer
                  \/ UNCHANGED vars
  PROVE  UNCHANGED <<clients, change, fdBak, stage, failed, reporting, clientCount>>
<1> USE DEF serverVars
<1>1. CASE Accept(c)  BY <1>1 DEF Accept
<1>2. CASE AcceptThread
  BY <1>2 DEF AcceptThread, CompareServer, PlaceClient, AcceptEnds, AcceptExit
<1>3. CASE AcceptError \/ CloseAccept  BY <1>3 DEF AcceptError, CloseAccept
<1>4. CASE Closer
  BY <1>4 DEF Closer, CloseAcceptDone, DeleteServer, ServerDeleted, Closed
<1>5. CASE UNCHANGED vars  BY <1>5 DEF vars
<1>6. QED  BY <1>1, <1>2, <1>3, <1>4, <1>5

LEMMA FreshStep == TypeOK /\ FreshInv /\ [Next]_vars => FreshInv'
<1> SUFFICES ASSUME TypeOK, FreshInv, [Next]_vars PROVE FreshInv'  OBVIOUS
<1>1. ASSUME NEW s \in Servers, Turn(s)
      PROVE  FreshInv'
  BY <1>1, ThreadFresh
<1>2. ASSUME NEW c, Accept(c) \/ AcceptThread \/ AcceptError \/ CloseAccept \/ Closer
                      \/ UNCHANGED vars
      PROVE  FreshInv'
  BY <1>2, OtherThreads DEF FreshInv
<1>3. QED  BY <1>1, <1>2, ServerTurn DEF Next

-----------------------------------------------------------------------------
(* The owners of the clients. *)
LEMMA OwnInitially == Init => OwnInv
BY NoClientIsNone DEF Init, ServerInit, OwnInv, OwnedOnce, Held, Open

LEMMA TakenInitially == Init => TakenInv
BY NoClientIsNone DEF Init, ServerInit, TakenInv, Taken, Held, InHand

(* A client is deleted that is in no list but, if at all, that of its own  *)
(* server.                                                                 *)
LEMMA DepartOwn ==
  ASSUME TypeOK, OwnInv, TakenInv, NEW s \in Servers, Erase(s) \/ LeaveErased(s),
         UNCHANGED hand
  PROVE  OwnInv'
<1> USE DEF TypeOK, ServerTypeOK
<1> DEFINE gone == reporting[s]
<1>1. /\ clients'[s] = clients[s] \ gone
      /\ \A t \in Servers : t # s => clients'[t] = clients[t] /\ stage'[t] = stage[t]
      /\ stage'[s] \in {"poll", "events"}
      /\ \A c \in Clients : status'[c] = IF c \in gone THEN "left" ELSE status[c]
      /\ \A t \in Servers : t # s => reporting'[t] = reporting[t]
      /\ UNCHANGED <<buff, failed, hand>>
      /\ stage[s] \in {"timeout", "lost", "erased"}
  <2>1. CASE Erase(s)  BY <2>1 DEF Erase, Become, Goto
  <2>2. CASE LeaveErased(s)
    <3>1. stage[s] = "erased" /\ clients' = clients  BY <2>2 DEF LeaveErased
    <3>2. gone \cap clients[s] = {}  BY <3>1 DEF TakenInv, Held
    <3>3. QED  BY <2>2, <3>1, <3>2 DEF LeaveErased, Become, Goto
  <2>3. QED  BY <2>1, <2>2
<1>2. \A t \in Servers : gone \cap buff[t] = {} /\ (t # s => gone \cap clients[t] = {})
  <2>1. gone \cap buff[s] = {}
    <3>1. CASE stage[s] = "erased"  BY <3>1 DEF TakenInv, Held
    <3>2. CASE stage[s] # "erased"  BY <1>1, <3>2 DEF TakenInv, OwnInv, Joining
    <3>3. QED  BY <3>1, <3>2
  <2>2. QED  BY <2>1 DEF TakenInv, Taken, Held
<1>3. hand \notin gone  BY DEF TakenInv, Taken
<1>4. Open' = Open \ gone  BY <1>1 DEF Open
<1>5. \A t \in Servers : Held(t)' \subseteq Held(t) /\ Held(t) \subseteq Held(t)' \cup gone
  BY <1>1 DEF Held
<1>6. OwnedOnce'
  <2>1. \A t \in Servers : /\ clients'[t] \subseteq Open'
                           /\ stage'[t] # "clear_done" => buff'[t] \subseteq Open'
    BY <1>1, <1>2, <1>4 DEF OwnInv, OwnedOnce
  <2>2. \A t, u \in Servers : t # u => Held(t)' \cap Held(u)' = {}
    BY <1>5 DEF OwnInv, OwnedOnce
  <2>3. \A t \in Servers : hand' \notin Held(t)'  BY <1>1, <1>5 DEF OwnInv, OwnedOnce
  <2>4. failed' = {} =>
          \A c \in Open' : c = hand' \/ \E t \in Servers : c \in Held(t)' \cup reporting'[t]
    <3>1. SUFFICES ASSUME failed = {}, NEW c \in Open \ gone, c # hand
                   PROVE  \E t \in Servers : c \in Held(t)' \cup reporting'[t]
      BY <1>1, <1>4
    <3>2. PICK t \in Servers : c \in Held(t) \cup reporting[t]
      BY <3>1 DEF OwnInv, OwnedOnce
    <3>3. c \in Held(t)' \cup reporting'[t]  BY <1>1, <1>5, <3>1, <3>2
    <3>4. QED  BY <3>3
  <2>5. QED  BY <2>1, <2>2, <2>3, <2>4 DEF OwnedOnce
<1>7. \A t \in Servers : stage'[t] \notin Joining => clients'[t] \cap buff'[t] = {}
  BY <1>1, <1>2 DEF OwnInv, Joining
<1>8. \A t \in Servers : \A c \in Held(t)' : status'[c] # "new"
  BY <1>1, <1>5 DEF OwnInv, Held
<1>9. hand' # NoClient => status'[hand'] = "open"  BY <1>1, <1>3 DEF OwnInv
<1>10. \A t \in Servers :
         /\ stage'[t] \in {"clear_buff", "clear_done", "ended"} => clients'[t] = {}
         /\ failed' = {} /\ stage'[t] = "clear_done" => buff'[t] \cap Open' = {}
         /\ failed' = {} /\ stage'[t] = "ended" => buff'[t] = {}
  BY <1>1, <1>4 DEF OwnInv
<1>11. QED  BY <1>6, <1>7, <1>8, <1>9, <1>10 DEF OwnInv

(* A client is erased before it is reported and deleted. *)
LEMMA RmOwn ==
  ASSUME TypeOK, OwnInv, TakenInv, NEW s \in Servers, NEW c \in Clients, rmClient(s, c),
         UNCHANGED hand
  PROVE  OwnInv'
<1> USE DEF TypeOK, ServerTypeOK
<1>1. /\ stage[s] \in {"select", "events"} /\ stage'[s] = "erased" /\ c \in clients[s]
      /\ clients'[s] = clients[s] \ {c} /\ reporting'[s] = {c}
      /\ \A t \in Servers : t # s => /\ clients'[t] = clients[t] /\ stage'[t] = stage[t]
                                     /\ reporting'[t] = reporting[t]
      /\ UNCHANGED <<buff, failed, status, hand>>
  BY DEF rmClient, Gone, Goto
<1>2. reporting[s] = {}  BY <1>1 DEF TakenInv, InHand
<1>3. \A t \in Servers : Held(t)' \subseteq Held(t)
                         /\ Held(t) \cup reporting[t] \subseteq Held(t)' \cup reporting'[t]
  BY <1>1, <1>2 DEF Held
<1>4. Open' = Open  BY <1>1 DEF Open
<1>5. OwnedOnce'
  <2>1. \A t \in Servers : /\ clients'[t] \subseteq Open'
                           /\ stage'[t] # "clear_done" => buff'[t] \subseteq Open'
    BY <1>1, <1>4 DEF OwnInv, OwnedOnce
  <2>2. \A t, u \in Servers : t # u => Held(t)' \cap Held(u)' = {}
    BY <1>3 DEF OwnInv, OwnedOnce
  <2>3. \A t \in Servers : hand' \notin Held(t)'  BY <1>1, <1>3 DEF OwnInv, OwnedOnce
  <2>4. failed' = {} =>
          \A d \in Open' : d = hand' \/ \E t \in Servers : d \in Held(t)' \cup reporting'[t]
    BY <1>1, <1>3, <1>4 DEF OwnInv, OwnedOnce
  <2>5. QED  BY <2>1, <2>2, <2>3, <2>4 DEF OwnedOnce
<1>6. \A t \in Servers : stage'[t] \notin Joining => clients'[t] \cap buff'[t] = {}
  BY <1>1 DEF OwnInv, Joining
<1>7. \A t \in Servers : \A d \in Held(t)' : status'[d] # "new"
  BY <1>1, <1>3 DEF OwnInv
<1>8. \A t \in Servers :
        /\ stage'[t] \in {"clear_buff", "clear_done", "ended"} => clients'[t] = {}
        /\ failed' = {} /\ stage'[t] = "clear_done" => buff'[t] \cap Open' = {}
        /\ failed' = {} /\ stage'[t] = "ended" => buff'[t] = {}
  BY <1>1, <1>4 DEF OwnInv
<1>9. QED  BY <1>1, <1>5, <1>6, <1>7, <1>8 DEF OwnInv

(* Draining the buffer. *)
LEMMA JoinOwn ==
  ASSUME TypeOK, OwnInv, TakenInv, NEW s \in Servers, NEW c \in Clients, Join(s, c),
         UNCHANGED hand
  PROVE  OwnInv'
<1> USE DEF TypeOK, ServerTypeOK
<1>1. /\ stage[s] = "join" /\ stage'[s] = "joined" /\ c \in buff[s]
      /\ clients'[s] = clients[s] \cup {c} /\ reporting'[s] = {c}
      /\ \A t \in Servers : t # s => /\ clients'[t] = clients[t] /\ stage'[t] = stage[t]
                                     /\ reporting'[t] = reporting[t]
      /\ UNCHANGED <<buff, failed, status, hand>>
  BY DEF Join, Goto
<1>2. \A t \in Servers : Held(t)' = Held(t)  BY <1>1 DEF Held
<1>3. c \in Open /\ Open' = Open  BY <1>1 DEF OwnInv, OwnedOnce, Open
<1>4. \A t \in Servers : reporting[t] \subseteq reporting'[t]
  BY <1>1 DEF TakenInv, InHand
<1>5. OwnedOnce'
  <2>1. \A t \in Servers : /\ clients'[t] \subseteq Open'
                           /\ stage'[t] # "clear_done" => buff'[t] \subseteq Open'
    BY <1>1, <1>3 DEF OwnInv, OwnedOnce
  <2>2. failed' = {} =>
          \A d \in Open' : d = hand' \/ \E t \in Servers : d \in Held(t)' \cup reporting'[t]
    BY <1>1, <1>2, <1>3, <1>4 DEF OwnInv, OwnedOnce
  <2>3. QED  BY <1>1, <1>2, <2>1, <2>2 DEF OwnInv, OwnedOnce
<1>6. \A t \in Servers : stage'[t] \notin Joining => clients'[t] \cap buff'[t] = {}
  BY <1>1 DEF OwnInv, Joining
<1>7. \A t \in Servers :
        /\ stage'[t] \in {"clear_buff", "clear_done", "ended"} => clients'[t] = {}
        /\ failed' = {} /\ stage'[t] = "clear_done" => buff'[t] \cap Open' = {}
        /\ failed' = {} /\ stage'[t] = "ended" => buff'[t] = {}
  BY <1>1, <1>3 DEF OwnInv
<1>8. QED  BY <1>1, <1>2, <1>5, <1>6, <1>7 DEF OwnInv

LEMMA JoinDoneOwn ==
  ASSUME TypeOK, OwnInv, NEW s \in Servers, JoinDone(s), UNCHANGED hand
  PROVE  OwnInv'
<1> USE DEF TypeOK, ServerTypeOK
<1>1. /\ stage[s] = "join" /\ stage'[s] = "poll" /\ buff[s] \subseteq clients[s] /\ buff'[s] = {}
      /\ \A t \in Servers : t # s => buff'[t] = buff[t] /\ stage'[t] = stage[t]
      /\ UNCHANGED <<clients, failed, reporting, status, hand>>
  BY DEF JoinDone, Goto
<1>2. \A t \in Servers : Held(t)' = Held(t)  BY <1>1 DEF Held
<1>3. Open' = Open  BY <1>1 DEF Open
<1>4. OwnedOnce'  BY <1>1, <1>2, <1>3 DEF OwnInv, OwnedOnce
<1>5. \A t \in Servers : stage'[t] \notin Joining => clients'[t] \cap buff'[t] = {}
  BY <1>1 DEF OwnInv, Joining
<1>6. QED  BY <1>1, <1>2, <1>3, <1>4, <1>5 DEF OwnInv

(* The clean-up of one server. *)
LEMMA ClearClientsOwn ==
  ASSUME TypeOK, OwnInv, NEW s \in Servers, ClearClients(s), UNCHANGED hand
  PROVE  OwnInv'
<1> USE DEF TypeOK, ServerTypeOK
<1>1. /\ stage[s] = "clear_clients" /\ stage'[s] = "clear_buff" /\ clients'[s] = {}
      /\ \A t \in Servers : t # s => clients'[t] = clients[t] /\ stage'[t] = stage[t]
      /\ \A c \in Clients : status'[c] = IF c \in clients[s] THEN "dropped" ELSE status[c]
      /\ UNCHANGED <<buff, failed, reporting, hand>>
  BY DEF ClearClients, Goto, Become
<1>2. \A t \in Servers : clients[s] \cap buff[t] = {} /\ (t # s => clients[s] \cap clients[t] = {})
  <2>1. clients[s] \cap buff[s] = {}  BY <1>1 DEF OwnInv, Joining
  <2>2. QED  BY <2>1 DEF OwnInv, OwnedOnce, Held
<1>3. hand \notin clients[s]  BY DEF OwnInv, OwnedOnce, Held
<1>4. Open' = Open \ clients[s]  BY <1>1 DEF Open
<1>5. \A t \in Servers : Held(t)' \subseteq Held(t) /\ Held(t) \subseteq Held(t)' \cup clients[s]
  BY <1>1 DEF Held
<1>6. OwnedOnce'
  <2>1. \A t \in Servers : /\ clients'[t] \subseteq Open'
                           /\ stage'[t] # "clear_done" => buff'[t] \subseteq Open'
    BY <1>1, <1>2, <1>4 DEF OwnInv, OwnedOnce
  <2>2. \A t, u \in Servers : t # u => Held(t)' \cap Held(u)' = {}
    BY <1>5 DEF OwnInv, OwnedOnce
  <2>3. \A t \in Servers : hand' \notin Held(t)'  BY <1>1, <1>5 DEF OwnInv, OwnedOnce
  <2>4. failed' = {} =>
          \A c \in Open' : c = hand' \/ \E t \in Servers : c \in Held(t)' \cup reporting'[t]
    BY <1>1, <1>4, <1>5 DEF OwnInv, OwnedOnce
  <2>5. QED  BY <2>1, <2>2, <2>3, <2>4 DEF OwnedOnce
<1>7. \A t \in Servers : stage'[t] \notin Joining => clients'[t] \cap buff'[t] = {}
  BY <1>1 DEF OwnInv, Joining
<1>8. \A t \in Servers : \A c \in Held(t)' : status'[c] # "new"
  BY <1>1, <1>5 DEF OwnInv, Held
<1>9. hand' # NoClient => status'[hand'] = "open"  BY <1>1, <1>3 DEF OwnInv
<1>10. \A t \in Servers :
         /\ stage'[t] \in {"clear_buff", "clear_done", "ended"} => clients'[t] = {}
         /\ failed' = {} /\ stage'[t] = "clear_done" => buff'[t] \cap Open' = {}
         /\ failed' = {} /\ stage'[t] = "ended" => buff'[t] = {}
  BY <1>1, <1>4 DEF OwnInv
<1>11. QED  BY <1>6, <1>7, <1>8, <1>9, <1>10 DEF OwnInv

LEMMA ClearBuffOwn ==
  ASSUME TypeOK, OwnInv, NEW s \in Servers, ClearBuff(s), UNCHANGED hand
  PROVE  OwnInv'
<1> USE DEF TypeOK, ServerTypeOK
<1>1. /\ stage[s] = "clear_buff" /\ stage'[s] = "clear_done" /\ clients[s] = {}
      /\ \A t \in Servers : t # s => stage'[t] = stage[t]
      /\ \A c \in Clients : status'[c] = IF c \in buff[s] THEN "freed" ELSE status[c]
      /\ UNCHANGED <<clients, buff, failed, reporting, hand>>
  BY DEF ClearBuff, Goto, Become, OwnInv
<1>2. \A t \in Servers : t # s => buff[s] \cap buff[t] = {} /\ buff[s] \cap clients[t] = {}
  BY DEF OwnInv, OwnedOnce, Held
<1>3. hand \notin buff[s]  BY DEF OwnInv, OwnedOnce, Held
<1>4. Open' = Open \ buff[s]  BY <1>1 DEF Open
<1>5. \A t \in Servers : Held(t)' = Held(t)  BY <1>1 DEF Held
<1>6. OwnedOnce'
  <2>1. \A t \in Servers : /\ clients'[t] \subseteq Open'
                           /\ stage'[t] # "clear_done" => buff'[t] \subseteq Open'
    BY <1>1, <1>2, <1>4 DEF OwnInv, OwnedOnce
  <2>2. \A t, u \in Servers : t # u => Held(t)' \cap Held(u)' = {}
    BY <1>5 DEF OwnInv, OwnedOnce
  <2>3. \A t \in Servers : hand' \notin Held(t)'  BY <1>1, <1>5 DEF OwnInv, OwnedOnce
  <2>4. failed' = {} =>
          \A c \in Open' : c = hand' \/ \E t \in Servers : c \in Held(t)' \cup reporting'[t]
    BY <1>1, <1>4, <1>5 DEF OwnInv, OwnedOnce
  <2>5. QED  BY <2>1, <2>2, <2>3, <2>4 DEF OwnedOnce
<1>7. \A t \in Servers : stage'[t] \notin Joining => clients'[t] \cap buff'[t] = {}
  BY <1>1 DEF OwnInv, Joining
<1>8. \A t \in Servers : \A c \in Held(t)' : status'[c] # "new"
  BY <1>1, <1>5 DEF OwnInv, Held
<1>9. hand' # NoClient => status'[hand'] = "open"  BY <1>1, <1>3 DEF OwnInv
<1>10. \A t \in Servers :
         /\ stage'[t] \in {"clear_buff", "clear_done", "ended"} => clients'[t] = {}
         /\ failed' = {} /\ stage'[t] = "clear_done" => buff'[t] \cap Open' = {}
         /\ failed' = {} /\ stage'[t] = "ended" => buff'[t] = {}
  BY <1>1, <1>4 DEF OwnInv
<1>11. QED  BY <1>6, <1>7, <1>8, <1>9, <1>10 DEF OwnInv

LEMMA ClearDoneOwn ==
  ASSUME TypeOK, OwnInv, NEW s \in Servers, ClearDone(s), UNCHANGED hand
  PROVE  OwnInv'
<1> USE DEF TypeOK, ServerTypeOK
<1>1. /\ stage[s] = "clear_done" /\ stage'[s] = "ended" /\ buff'[s] = {} /\ clients[s] = {}
      /\ \A t \in Servers : t # s => buff'[t] = buff[t] /\ stage'[t] = stage[t]
      /\ UNCHANGED <<clients, failed, reporting, status, hand>>
  BY DEF ClearDone, Goto, OwnInv
<1>2. \A t \in Servers : Held(t)' \subseteq Held(t) /\ (t # s => Held(t)' = Held(t))
  BY <1>1 DEF Held
<1>3. Open' = Open  BY <1>1 DEF Open
<1>4. failed = {} => Held(s) \cap Open = {}  BY <1>1 DEF OwnInv, Held
<1>5. OwnedOnce'  BY <1>1, <1>2, <1>3, <1>4 DEF OwnInv, OwnedOnce
<1>6. \A t \in Servers : stage'[t] \notin Joining => clients'[t] \cap buff'[t] = {}
  BY <1>1 DEF OwnInv, Joining
<1>7. QED  BY <1>1, <1>2, <1>3, <1>5, <1>6 DEF OwnInv

(* A step that takes a thread on, or a client in hand. *)
LEMMA MoveOwn ==
  ASSUME TypeOK, OwnInv, NEW s \in Servers,
         UNCHANGED <<clients, buff, status, hand>>, failed \subseteq failed',
         \A t \in Servers : t # s => stage'[t] = stage[t],
         \A t \in Servers : Taken(t) \subseteq Taken(t)',
         stage'[s] \notin Joining => stage[s] \notin Joining,
         stage[s] # "clear_done",
         stage'[s] \notin {"clear_buff", "clear_done", "ended"}
  PROVE  OwnInv'
<1>1. Open' = Open /\ \A t \in Servers : Held(t)' = Held(t)  BY DEF Open, Held
<1>2. OwnedOnce'
  <2>1. \A t \in Servers : /\ clients'[t] \subseteq Open'
                           /\ stage'[t] # "clear_done" => buff'[t] \subseteq Open'
    BY <1>1 DEF OwnInv, OwnedOnce
  <2>2. failed' = {} => failed = {}  OBVIOUS
  <2>3. failed' = {} =>
          \A c \in Open' : c = hand' \/ \E t \in Servers : c \in Held(t)' \cup reporting'[t]
    BY <1>1, <2>2 DEF OwnInv, OwnedOnce, Taken
  <2>4. /\ \A t, u \in Servers : t # u => Held(t)' \cap Held(u)' = {}
        /\ \A t \in Servers : hand' \notin Held(t)'
    BY <1>1 DEF OwnInv, OwnedOnce
  <2>5. QED  BY <2>1, <2>3, <2>4 DEF OwnedOnce
<1>3. \A t \in Servers : stage'[t] \notin Joining => clients'[t] \cap buff'[t] = {}
  BY DEF OwnInv
<1>4. (\A t \in Servers : \A c \in Held(t)' : status'[c] # "new")
        /\ (hand' # NoClient => status'[hand'] = "open")
  BY <1>1 DEF OwnInv
<1>5. \A t \in Servers :
        /\ stage'[t] \in {"clear_buff", "clear_done", "ended"} => clients'[t] = {}
        /\ failed' = {} /\ stage'[t] = "clear_done" => buff'[t] \cap Open' = {}
        /\ failed' = {} /\ stage'[t] = "ended" => buff'[t] = {}
  BY <1>1 DEF OwnInv
<1>6. QED  BY <1>2, <1>3, <1>4, <1>5 DEF OwnInv

LEMMA ThreadOwn ==
  ASSUME TypeOK, OwnInv, TakenInv, NEW s \in Servers, Turn(s), UNCHANGED hand
  PROVE  OwnInv'
<1> USE DEF TypeOK, ServerTypeOK
<1>1. CASE TestRun(s)
  BY <1>1, MoveOwn DEF TestRun, Goto, Joining, Taken, Held
<1>2. ASSUME NEW c \in Clients, Join(s, c)
      PROVE  OwnInv'
  BY <1>2, JoinOwn
<1>3. CASE OnNetJoin(s)
  <2>1. reporting[s] \subseteq clients[s]  BY <1>3 DEF OnNetJoin, TakenInv
  <2>2. \A t \in Servers : Taken(t) \subseteq Taken(t)'
    BY <1>3, <2>1 DEF OnNetJoin, Taken, Held
  <2>3. QED  BY <1>3, <2>2, MoveOwn DEF OnNetJoin, Goto, Joining
<1>4. CASE JoinDone(s)  BY <1>4, JoinDoneOwn
<1>5. ASSUME NEW c \in Clients, OnClientLeave(s, c)
      PROVE  OwnInv'
  <2>1. stage[s] \in {"poll", "select", "events"}  BY <1>5 DEF OnClientLeave, Gone
  <2>2. reporting[s] = {}  BY <2>1 DEF TakenInv, InHand
  <2>3. \A t \in Servers : Taken(t) \subseteq Taken(t)'
    BY <1>5, <2>2 DEF OnClientLeave, Taken, Held
  <2>4. QED  BY <1>5, <2>1, <2>3, MoveOwn DEF OnClientLeave, Goto, Joining
<1>6. CASE Erase(s) \/ LeaveErased(s)  BY <1>6, DepartOwn
<1>7. ASSUME NEW c \in Clients, rmClient(s, c)
      PROVE  OwnInv'
  BY <1>7, RmOwn
<1>8. CASE CheckTime(s)
  BY <1>8, MoveOwn DEF CheckTime, Goto, Joining, Taken, Held
<1>9. CASE BuildSet(s)
  BY <1>9, MoveOwn DEF BuildSet, Goto, Joining, Taken, Held
<1>10. CASE NetEvents(s)
  BY <1>10, MoveOwn DEF NetEvents, Goto, Joining, Taken, Held
<1>11. CASE NetError(s)
  BY <1>11, MoveOwn DEF NetError, Goto, Joining, Taken, Held
<1>12. CASE ExitSet(s)
  BY <1>12, MoveOwn DEF ExitSet, Goto, Joining, Taken, Held
<1>13. CASE ClearClients(s)  BY <1>13, ClearClientsOwn
<1>14. CASE ClearBuff(s)  BY <1>14, ClearBuffOwn
<1>15. CASE ClearDone(s)  BY <1>15, ClearDoneOwn
<1>16. QED
  BY <1>1, <1>2, <1>3, <1>4, <1>5, <1>6, <1>7, <1>8, <1>9, <1>10, <1>11, <1>12, <1>13,
     <1>14, <1>15 DEF Turn, ServerThread

(* A connection that has been taken belongs to the accept thread, ... *)
LEMMA AcceptOwn ==
  ASSUME TypeOK, LifeInv, OwnInv, NEW c \in Clients, Accept(c)
  PROVE  OwnInv'
<1> USE DEF TypeOK, ServerTypeOK
<1>1. /\ status[c] = "new" /\ hand = NoClient
      /\ UNCHANGED <<buff, clients, stage, failed, reporting>>
  BY DEF Accept, LifeInv
<1>2. \A t \in Servers : c \notin Held(t) /\ Held(t)' = Held(t)
  BY <1>1 DEF OwnInv, Held
<1>3. c \notin Open  BY <1>1 DEF Open
<1>4. ASSUME Become({c}, "open"), hand' = c
      PROVE  OwnInv'
  <2>1. \A d \in Clients : status'[d] = IF d = c THEN "open" ELSE status[d]
    BY <1>4 DEF Become
  <2>2. Open' = Open \cup {c}  BY <2>1 DEF Open
  <2>3. OwnedOnce'
    <3>1. \A t \in Servers : /\ clients'[t] \subseteq Open'
                             /\ stage'[t] # "clear_done" => buff'[t] \subseteq Open'
      BY <1>1, <2>2 DEF OwnInv, OwnedOnce
    <3>2. \A t, u \in Servers : t # u => Held(t)' \cap Held(u)' = {}
      BY <1>2 DEF OwnInv, OwnedOnce
    <3>3. \A t \in Servers : hand' \notin Held(t)'  BY <1>2, <1>4
    <3>4. failed' = {} =>
            \A d \in Open' : d = hand' \/ \E t \in Servers : d \in Held(t)' \cup reporting'[t]
      <4>1. NoClient \notin Open  BY NoClientIsNone DEF Open
      <4>2. QED  BY <1>1, <1>2, <1>4, <2>2, <4>1 DEF OwnInv, OwnedOnce
    <3>5. QED  BY <3>1, <3>2, <3>3, <3>4 DEF OwnedOnce
  <2>4. \A t \in Servers : \A d \in Held(t)' : status'[d] # "new"
    BY <1>2, <2>1 DEF OwnInv, Held
  <2>5. \A t \in Servers : failed' = {} /\ stage'[t] = "clear_done" => buff'[t] \cap Open' = {}
    BY <1>1, <1>2, <2>2 DEF OwnInv, Held
  <2>6. hand' # NoClient => status'[hand'] = "open"  BY <1>4, <2>1
  <2>7. \A t \in Servers :
          /\ stage'[t] \notin Joining => clients'[t] \cap buff'[t] = {}
          /\ stage'[t] \in {"clear_buff", "clear_done", "ended"} => clients'[t] = {}
          /\ failed' = {} /\ stage'[t] = "ended" => buff'[t] = {}
    BY <1>1 DEF OwnInv
  <2>8. QED  BY <2>3, <2>4, <2>5, <2>6, <2>7 DEF OwnInv
<1>5. ASSUME Become({c}, "refused"), hand' = hand
      PROVE  OwnInv'
  <2>1. \A d \in Clients : status'[d] = IF d = c THEN "refused" ELSE status[d]
    BY <1>5 DEF Become
  <2>2. Open' = Open  BY <1>3, <2>1 DEF Open
  <2>3. OwnedOnce'  BY <1>1, <1>2, <1>5, <2>2 DEF OwnInv, OwnedOnce
  <2>4. \A t \in Servers : \A d \in Held(t)' : status'[d] # "new"
    BY <1>2, <2>1 DEF OwnInv, Held
  <2>5. hand' = NoClient  BY <1>1, <1>5
  <2>6. \A t \in Servers :
          /\ stage'[t] \notin Joining => clients'[t] \cap buff'[t] = {}
          /\ stage'[t] \in {"clear_buff", "clear_done", "ended"} => clients'[t] = {}
          /\ failed' = {} /\ stage'[t] = "clear_done" => buff'[t] \cap Open' = {}
          /\ failed' = {} /\ stage'[t] = "ended" => buff'[t] = {}
    BY <1>1, <2>2 DEF OwnInv
  <2>7. QED  BY <2>3, <2>4, <2>5, <2>6 DEF OwnInv
<1>6. QED  BY <1>4, <1>5 DEF Accept

(* ... and then to the message thread it is placed with, which is not yet  *)
(* cleaning up unless it has failed.                                       *)
LEMMA PlaceOwn ==
  ASSUME TypeOK, LifeInv, OwnInv, PlaceClient
  PROVE  OwnInv'
<1> USE DEF TypeOK, ServerTypeOK
<1>1. /\ hand \in Clients /\ hand' = NoClient /\ min \in Servers
      /\ buff'[min] = buff[min] \cup {hand}
      /\ \A t \in Servers : t # min => buff'[t] = buff[t]
      /\ UNCHANGED <<clients, stage, failed, reporting, status>>
  BY NoClientIsNone DEF PlaceClient, addClient, LifeInv
<1>2. Open' = Open /\ hand \in Open  BY <1>1, NoClientIsNone DEF Open, OwnInv
<1>3. \A t \in Servers : Held(t)' = IF t = min THEN Held(t) \cup {hand} ELSE Held(t)
  BY <1>1 DEF Held
<1>4. failed = {} => stage[min] \notin Cleaning
  <2>1. acc = "choose"  BY DEF PlaceClient
  <2>2. closer \in {"open", "accept"} /\ victim = 1  BY <2>1 DEF LifeInv
  <2>3. ~Reached(min)  BY <2>2, NServersIsPositive DEF Reached, Servers
  <2>4. QED  BY <1>1, <2>3 DEF LifeInv
<1>5. OwnedOnce'
  <2>1. \A t \in Servers : /\ clients'[t] \subseteq Open'
                           /\ stage'[t] # "clear_done" => buff'[t] \subseteq Open'
    BY <1>1, <1>2 DEF OwnInv, OwnedOnce
  <2>2. \A t, u \in Servers : t # u => Held(t)' \cap Held(u)' = {}
    BY <1>3 DEF OwnInv, OwnedOnce
  <2>3. \A t \in Servers : hand' \notin Held(t)'
    BY <1>1, <1>3, NoClientIsNone DEF Held
  <2>4. failed' = {} =>
          \A c \in Open' : c = hand' \/ \E t \in Servers : c \in Held(t)' \cup reporting'[t]
    BY <1>1, <1>2, <1>3 DEF OwnInv, OwnedOnce
  <2>5. QED  BY <2>1, <2>2, <2>3, <2>4 DEF OwnedOnce
<1>6. \A t \in Servers : stage'[t] \notin Joining => clients'[t] \cap buff'[t] = {}
  BY <1>1 DEF OwnInv, OwnedOnce, Held
<1>7. \A t \in Servers : \A c \in Held(t)' : status'[c] # "new"
  BY <1>1, <1>2, <1>3 DEF OwnInv, Open
<1>8. \A t \in Servers :
        /\ stage'[t] \in {"clear_buff", "clear_done", "ended"} => clients'[t] = {}
        /\ failed' = {} /\ stage'[t] = "clear_done" => buff'[t] \cap Open' = {}
        /\ failed' = {} /\ stage'[t] = "ended" => buff'[t] = {}
  BY <1>1, <1>2, <1>4 DEF OwnInv, Cleaning
<1>9. QED  BY <1>1, <1>5, <1>6, <1>7, <1>8 DEF OwnInv

LEMMA OwnStep == TypeOK /\ LifeInv /\ OwnInv /\ TakenInv /\ [Next]_vars => OwnInv'
<1> SUFFICES ASSUME TypeOK, LifeInv, OwnInv, TakenInv, [Next]_vars PROVE OwnInv'  OBVIOUS
<1>1. ASSUME NEW s \in Servers, Turn(s), UNCHANGED <<acceptVars, closeVars>>
      PROVE  OwnInv'
  BY <1>1, ThreadOwn DEF acceptVars
<1>2. ASSUME NEW c \in Clients, Accept(c)
      PROVE  OwnInv'
  BY <1>2, AcceptOwn
<1>3. CASE PlaceClient  BY <1>3, PlaceOwn
<1>4. ASSUME UNCHANGED <<buff, clients, stage, failed, reporting, status, hand>>
      PROVE  OwnInv'
  BY <1>4 DEF OwnInv, OwnedOnce, Held, Open
<1>5. CASE CompareServer \/ AcceptEnds \/ AcceptExit \/ AcceptError \/ CloseAccept
  BY <1>4, <1>5
  DEF CompareServer, AcceptEnds, AcceptExit, AcceptError, CloseAccept, serverVars
<1>6. CASE Closer
  BY <1>4, <1>6 DEF Closer, CloseAcceptDone, DeleteServer, ServerDeleted, Closed, serverVars,
    acceptVars
<1>7. CASE UNCHANGED vars  BY <1>4, <1>7 DEF vars, serverVars, acceptVars
<1>8. QED  BY <1>1, <1>2, <1>3, <1>5, <1>6, <1>7, ServerTurn DEF Next, AcceptThread

-----------------------------------------------------------------------------
(* The clients in hand.  A thread takes nothing from anybody else.         *)
LEMMA TakenKept ==
  ASSUME TakenInv, NEW s \in Servers, UNCHANGED hand,
         \A t \in Servers : t # s => /\ clients'[t] = clients[t] /\ buff'[t] = buff[t]
                                     /\ reporting'[t] = reporting[t]
                                     /\ stage'[t] = stage[t],
         Taken(s)' \subseteq Taken(s),
         \A t \in Servers : reporting'[t] \subseteq Open',
         stage'[s] = "erased" => reporting'[s] \cap Held(s)' = {},
         stage'[s] # "erased" => reporting'[s] \subseteq clients'[s],
         stage'[s] \in InHand => \E c \in Clients : reporting'[s] = {c},
         stage'[s] \notin InHand => reporting'[s] = {}
  PROVE  TakenInv'
<1>1. \A t \in Servers : t # s => Held(t)' = Held(t) /\ Taken(t)' = Taken(t)
  BY DEF Taken, Held
<1>2. \A t, u \in Servers : t # u => Taken(t)' \cap Taken(u)' = {}
  <2>1. SUFFICES ASSUME NEW t \in Servers, NEW u \in Servers, t # u
                 PROVE  Taken(t)' \subseteq Taken(t) /\ Taken(u)' \subseteq Taken(u)
    BY DEF TakenInv
  <2>2. QED  BY <1>1
<1>3. \A t \in Servers : hand' \notin Taken(t)'
  <2>1. \A t \in Servers : Taken(t)' \subseteq Taken(t)  BY <1>1
  <2>2. QED  BY <2>1 DEF TakenInv
<1>4. \A t \in Servers :
        /\ stage'[t] = "erased" => reporting'[t] \cap Held(t)' = {}
        /\ stage'[t] # "erased" => reporting'[t] \subseteq clients'[t]
        /\ stage'[t] \in InHand => \E c \in Clients : reporting'[t] = {c}
        /\ stage'[t] \notin InHand => reporting'[t] = {}
  BY <1>1 DEF TakenInv
<1>5. QED  BY <1>2, <1>3, <1>4 DEF TakenInv

LEMMA ThreadTaken ==
  ASSUME TypeOK, OwnInv, TakenInv, NEW s \in Servers, Turn(s), UNCHANGED hand
  PROVE  TakenInv'
<1> USE DEF TypeOK, ServerTypeOK
<1>1. CASE \/ TestRun(s) \/ CheckTime(s) \/ BuildSet(s) \/ NetEvents(s) \/ NetError(s)
           \/ ExitSet(s)
  <2>1. /\ UNCHANGED <<clients, buff, reporting, status>>
        /\ stage[s] \notin InHand /\ stage'[s] \notin InHand /\ stage'[s] # "erased"
        /\ \A t \in Servers : t # s => stage'[t] = stage[t]
    BY <1>1 DEF TestRun, CheckTime, BuildSet, NetEvents, NetError, ExitSet, Goto, InHand
  <2>2. reporting'[s] = {} /\ Taken(s)' = Taken(s) /\ Open' = Open
    BY <2>1 DEF TakenInv, Taken, Held, Open
  <2>3. \A t \in Servers : reporting'[t] \subseteq Open'  BY <2>1, <2>2 DEF TakenInv
  <2>4. QED  BY <2>1, <2>2, <2>3, TakenKept
<1>2. ASSUME NEW c \in Clients, Join(s, c)
      PROVE  TakenInv'
  <2>1. /\ stage'[s] = "joined" /\ c \in buff[s] /\ clients'[s] = clients[s] \cup {c}
        /\ reporting'[s] = {c} /\ buff' = buff /\ status' = status
        /\ \A t \in Servers : t # s => /\ clients'[t] = clients[t] /\ stage'[t] = stage[t]
                                       /\ reporting'[t] = reporting[t]
    BY <1>2 DEF Join, Goto
  <2>2. c \in Open /\ Open' = Open  BY <1>2, <2>1 DEF Join, OwnInv, OwnedOnce, Open
  <2>3. Taken(s)' \subseteq Taken(s)  BY <2>1 DEF Taken, Held
  <2>4. \A t \in Servers : reporting'[t] \subseteq Open'  BY <2>1, <2>2 DEF TakenInv
  <2>5. QED  BY <2>1, <2>3, <2>4, TakenKept DEF InHand
<1>3. CASE OnNetJoin(s) \/ JoinDone(s)
  <2>1. /\ stage'[s] \in {"join", "poll"} /\ reporting'[s] = {}
        /\ clients' = clients /\ buff'[s] \subseteq buff[s] /\ status' = status
        /\ \A t \in Servers : t # s => /\ buff'[t] = buff[t] /\ stage'[t] = stage[t]
                                       /\ reporting'[t] = reporting[t]
    <3>1. CASE OnNetJoin(s)  BY <3>1 DEF OnNetJoin, Goto
    <3>2. CASE JoinDone(s)  BY <3>2 DEF JoinDone, Goto, TakenInv, InHand
    <3>3. QED  BY <1>3, <3>1, <3>2
  <2>2. Taken(s)' \subseteq Taken(s) /\ Open' = Open  BY <2>1 DEF Taken, Held, Open
  <2>3. \A t \in Servers : reporting'[t] \subseteq Open'  BY <2>1, <2>2 DEF TakenInv
  <2>4. QED  BY <2>1, <2>2, <2>3, TakenKept DEF InHand
<1>4. ASSUME NEW c \in Clients, OnClientLeave(s, c)
      PROVE  TakenInv'
  <2>1. /\ stage'[s] \in {"timeout", "lost"} /\ c \in clients[s] /\ reporting'[s] = {c}
        /\ UNCHANGED <<clients, buff, status>>
        /\ \A t \in Servers : t # s => stage'[t] = stage[t] /\ reporting'[t] = reporting[t]
    BY <1>4 DEF OnClientLeave, Gone, Goto
  <2>2. c \in Open /\ Open' = Open  BY <2>1 DEF OwnInv, OwnedOnce, Open
  <2>3. Taken(s)' \subseteq Taken(s)  BY <2>1 DEF Taken, Held
  <2>4. \A t \in Servers : reporting'[t] \subseteq Open'  BY <2>1, <2>2 DEF TakenInv
  <2>5. QED  BY <2>1, <2>3, <2>4, TakenKept DEF InHand
<1>5. ASSUME NEW c \in Clients, rmClient(s, c)
      PROVE  TakenInv'
  <2>1. /\ stage[s] \in {"select", "events"} /\ stage'[s] = "erased" /\ c \in clients[s]
        /\ clients'[s] = clients[s] \ {c} /\ reporting'[s] = {c}
        /\ UNCHANGED <<buff, status>>
        /\ \A t \in Servers : t # s => /\ clients'[t] = clients[t] /\ stage'[t] = stage[t]
                                       /\ reporting'[t] = reporting[t]
    BY <1>5 DEF rmClient, Gone, Goto
  <2>2. c \in Open /\ Open' = Open  BY <2>1 DEF OwnInv, OwnedOnce, Open
  <2>3. Taken(s)' \subseteq Taken(s)  BY <2>1 DEF Taken, Held
  <2>4. \A t \in Servers : reporting'[t] \subseteq Open'  BY <2>1, <2>2 DEF TakenInv
  <2>5. c \notin Held(s)'  BY <2>1 DEF Held, OwnInv, Joining
  <2>6. QED  BY <2>1, <2>3, <2>4, <2>5, TakenKept DEF InHand
<1>6. ASSUME NEW gone \in SUBSET Taken(s), NEW what \in Status, Become(gone, what),
             reporting'[s] = {}, stage'[s] \notin InHand,
             clients'[s] \subseteq clients[s], buff' = buff,
             \A t \in Servers : t # s => /\ clients'[t] = clients[t] /\ stage'[t] = stage[t]
                                         /\ reporting'[t] = reporting[t]
      PROVE  TakenInv'
  <2>1. \A t \in Servers : reporting'[t] \subseteq Open'
    <3>1. SUFFICES ASSUME NEW t \in Servers, t # s
                   PROVE  reporting[t] \subseteq Open'
      BY <1>6
    <3>2. reporting[t] \cap gone = {} /\ reporting[t] \subseteq Open
      BY <1>6, <3>1 DEF TakenInv, Taken
    <3>3. QED  BY <1>6, <3>2 DEF Become, Open
  <2>2. Taken(s)' \subseteq Taken(s)  BY <1>6 DEF Taken, Held
  <2>3. stage'[s] # "erased"  BY <1>6 DEF InHand
  <2>4. QED  BY <1>6, <2>1, <2>2, <2>3, TakenKept
<1>7. CASE Erase(s)
  <2>1. reporting[s] \subseteq Taken(s)  BY DEF Taken
  <2>2. QED  BY <1>6, <1>7, <2>1 DEF Erase, Goto, InHand, Status
<1>8. CASE LeaveErased(s)
  <2>1. reporting[s] \subseteq Taken(s)  BY DEF Taken
  <2>2. QED  BY <1>6, <1>8, <2>1 DEF LeaveErased, Goto, InHand, Status
<1>9. CASE ClearClients(s)
  <2>1. clients[s] \subseteq Taken(s)  BY DEF Taken, Held
  <2>2. reporting[s] = {}  BY <1>9 DEF ClearClients, TakenInv, InHand
  <2>3. QED  BY <1>6, <1>9, <2>1, <2>2 DEF ClearClients, Goto, InHand, Status
<1>10. CASE ClearBuff(s)
  <2>1. buff[s] \subseteq Taken(s)  BY DEF Taken, Held
  <2>2. reporting[s] = {}  BY <1>10 DEF ClearBuff, TakenInv, InHand
  <2>3. QED  BY <1>6, <1>10, <2>1, <2>2 DEF ClearBuff, Goto, InHand, Status
<1>11. CASE ClearDone(s)
  <2>1. /\ stage'[s] = "ended" /\ reporting[s] = {} /\ buff'[s] = {}
        /\ UNCHANGED <<clients, reporting, status>>
        /\ \A t \in Servers : t # s => buff'[t] = buff[t] /\ stage'[t] = stage[t]
    BY <1>11 DEF ClearDone, Goto, TakenInv, InHand
  <2>2. Taken(s)' \subseteq Taken(s) /\ Open' = Open  BY <2>1 DEF Taken, Held, Open
  <2>3. \A t \in Servers : reporting'[t] \subseteq Open'  BY <2>1, <2>2 DEF TakenInv
  <2>4. QED  BY <2>1, <2>2, <2>3, TakenKept DEF InHand
<1>12. QED
  BY <1>1, <1>2, <1>3, <1>4, <1>5, <1>7, <1>8, <1>9, <1>10, <1>11 DEF Turn, ServerThread

LEMMA TakenStep == TypeOK /\ LifeInv /\ OwnInv /\ TakenInv /\ [Next]_vars => TakenInv'
<1> SUFFICES ASSUME TypeOK, LifeInv, OwnInv, TakenInv, [Next]_vars PROVE TakenInv'  OBVIOUS
<1> USE DEF TypeOK, ServerTypeOK
<1>1. ASSUME NEW s \in Servers, Turn(s), UNCHANGED <<acceptVars, closeVars>>
      PROVE  TakenInv'
  BY <1>1, ThreadTaken DEF acceptVars
<1>2. ASSUME NEW c \in Clients, Accept(c)
      PROVE  TakenInv'
  <2>1. /\ status[c] = "new" /\ hand = NoClient /\ hand' \in {hand, c}
        /\ UNCHANGED <<buff, clients, stage, reporting>>
        /\ \A d \in Clients : d # c => status'[d] = status[d]
    BY <1>2 DEF Accept, LifeInv, Become
  <2>2. \A t \in Servers : Taken(t)' = Taken(t) /\ Held(t)' = Held(t)
    BY <2>1 DEF Taken, Held
  <2>3. \A t \in Servers : c \notin Taken(t)
    BY <2>1 DEF Taken, TakenInv, OwnInv, Open
  <2>4. \A t \in Servers : reporting'[t] \subseteq Open'
    <3>1. c \notin Open  BY <2>1 DEF Open
    <3>2. Open \subseteq Open'  BY <2>1, <3>1 DEF Open
    <3>3. QED  BY <2>1, <3>2 DEF TakenInv
  <2>5. \A t \in Servers : hand' \notin Taken(t)'
    BY <2>1, <2>2, <2>3 DEF TakenInv
  <2>6. QED  BY <2>1, <2>2, <2>4, <2>5 DEF TakenInv
<1>3. CASE PlaceClient
  <2>1. /\ hand \in Clients /\ hand' = NoClient /\ min \in Servers
        /\ buff'[min] = buff[min] \cup {hand}
        /\ \A t \in Servers : t # min => buff'[t] = buff[t]
        /\ UNCHANGED <<clients, stage, reporting, status>>
    BY <1>3, NoClientIsNone DEF PlaceClient, addClient, LifeInv
  <2>2. \A t \in Servers : /\ Taken(t)' = IF t = min THEN Taken(t) \cup {hand} ELSE Taken(t)
                           /\ Held(t)' = IF t = min THEN Held(t) \cup {hand} ELSE Held(t)
    BY <2>1 DEF Taken, Held
  <2>3. \A t, u \in Servers : t # u => Taken(t)' \cap Taken(u)' = {}
    BY <2>2 DEF TakenInv
  <2>4. \A t \in Servers : hand' \notin Taken(t)'
    <3>1. \A t \in Servers : Taken(t)' \subseteq Clients
      BY <2>1, <2>2 DEF Taken, Held
    <3>2. QED  BY <2>1, <3>1, NoClientIsNone
  <2>5. \A t \in Servers : stage'[t] = "erased" => reporting'[t] \cap Held(t)' = {}
    <3>1. \A t \in Servers : hand \notin reporting[t]  BY DEF TakenInv, Taken
    <3>2. QED  BY <2>1, <2>2, <3>1 DEF TakenInv
  <2>6. Open' = Open  BY <2>1 DEF Open
  <2>7. \A t \in Servers :
          /\ reporting'[t] \subseteq Open'
          /\ stage'[t] # "erased" => reporting'[t] \subseteq clients'[t]
          /\ stage'[t] \in InHand => \E c \in Clients : reporting'[t] = {c}
          /\ stage'[t] \notin InHand => reporting'[t] = {}
    BY <2>1, <2>6 DEF TakenInv
  <2>8. QED  BY <2>3, <2>4, <2>5, <2>7 DEF TakenInv
<1>4. ASSUME UNCHANGED <<buff, clients, stage, reporting, status, hand>>
      PROVE  TakenInv'
  BY <1>4 DEF TakenInv, Taken, Held, Open
<1>5. CASE CompareServer \/ AcceptEnds \/ AcceptExit \/ AcceptError \/ CloseAccept
  BY <1>4, <1>5
  DEF CompareServer, AcceptEnds, AcceptExit, AcceptError, CloseAccept, serverVars
<1>6. CASE Closer
  BY <1>4, <1>6 DEF Closer, CloseAcceptDone, DeleteServer, ServerDeleted, Closed, serverVars,
    acceptVars
<1>7. CASE UNCHANGED vars  BY <1>4, <1>7 DEF vars, serverVars, acceptVars
<1>8. QED  BY <1>1, <1>2, <1>3, <1>5, <1>6, <1>7, ServerTurn DEF Next, AcceptThread

-----------------------------------------------------------------------------
(* The count: server by server, and the clients that have been dropped.    *)
CountedAt(s) ==
  (clients[s] \ reporting[s]) \cup (IF stage[s] = "erased" THEN reporting[s] ELSE {})

LEMMA CountedIs ==
  \A c : c \in Counted <=> /\ c \in Clients
                           /\ (\E s \in Servers : c \in CountedAt(s)) \/ status[c] = "dropped"
BY DEF Counted, CountedAt

LEMMA CountedIsFinite == IsFiniteSet(Counted)
<1>1. Counted \subseteq Clients  BY DEF Counted
<1>2. QED  BY <1>1, ClientSetsAreFinite

LEMMA CountInitially == Init => CountMatches
<1> SUFFICES ASSUME Init PROVE clientCount = Cardinality(Counted)  BY DEF CountMatches
<1>1. Counted = {}  BY DEF Init, ServerInit, Counted
<1>2. QED  BY <1>1, FS_EmptySet DEF Init, ServerInit

(* What has been counted is not in two servers, and not dropped.           *)
LEMMA CountedApart ==
  ASSUME TypeOK, OwnInv, TakenInv, NEW s \in Servers, NEW c \in CountedAt(s) \cup reporting[s]
  PROVE  /\ c \in Clients /\ status[c] = "open"
         /\ \A t \in Servers : t # s => c \notin CountedAt(t)
<1>1. c \in Taken(s) /\ c \in Open
  BY DEF CountedAt, Taken, Held, OwnInv, OwnedOnce, TakenInv
<1>2. \A t \in Servers : t # s => CountedAt(t) \cap Taken(s) = {}
  <2>1. \A t \in Servers : CountedAt(t) \subseteq Taken(t)  BY DEF CountedAt, Taken, Held
  <2>2. QED  BY <2>1 DEF TakenInv
<1>3. QED  BY <1>1, <1>2 DEF Open

(* A join that is counted, ... *)
LEMMA CountJoin ==
  ASSUME TypeOK, OwnInv, TakenInv, CountMatches, NEW s \in Servers, OnNetJoin(s)
  PROVE  CountMatches'
<1> USE DEF TypeOK, ServerTypeOK
<1>1. PICK c \in Clients : reporting[s] = {c}  BY DEF OnNetJoin, TakenInv, InHand
<1>2. /\ stage[s] = "joined" /\ stage'[s] = "join" /\ reporting'[s] = {}
      /\ \A t \in Servers : t # s => reporting'[t] = reporting[t] /\ stage'[t] = stage[t]
      /\ clientCount' = clientCount + 1 /\ UNCHANGED <<clients, status>>
  BY DEF OnNetJoin, Goto
<1>3. c \in clients[s]  BY <1>1, <1>2 DEF TakenInv
<1>4. /\ CountedAt(s)' = CountedAt(s) \cup {c} /\ c \notin CountedAt(s)
      /\ \A t \in Servers : t # s => CountedAt(t)' = CountedAt(t)
  BY <1>1, <1>2, <1>3 DEF CountedAt
<1>5. Counted' = Counted \cup {c} /\ c \notin Counted
  <2>1. \A d : d \in Counted' <=>
             d \in Clients /\ ((\E t \in Servers : d \in CountedAt(t)') \/ status[d] = "dropped")
    BY <1>2 DEF Counted, CountedAt
  <2>2. /\ status[c] = "open"
        /\ \A t \in Servers : t # s => c \notin CountedAt(t)
    BY <1>1, CountedApart
  <2>3. c \notin Counted  BY <1>4, <2>2, CountedIs
  <2>4. Counted' = Counted \cup {c}  BY <1>4, <2>1, CountedIs
  <2>5. QED  BY <2>3, <2>4
<1>6. QED  BY <1>2, <1>5, CountedIsFinite, FS_AddElement DEF CountMatches

(* ... a departure that is reported, ... *)
LEMMA CountLeave ==
  ASSUME TypeOK, OwnInv, TakenInv, CountMatches, NEW s \in Servers, NEW c \in Clients,
         c \in CountedAt(s), CountedAt(s)' = CountedAt(s) \ {c},
         \A t \in Servers : t # s => CountedAt(t)' = CountedAt(t),
         \A d \in Clients : status'[d] = "dropped" <=> status[d] = "dropped",
         clientCount' = clientCount - 1
  PROVE  CountMatches'
<1>1. \A d : d \in Counted' <=>
           d \in Clients /\ ((\E t \in Servers : d \in CountedAt(t)') \/ status[d] = "dropped")
  BY DEF Counted, CountedAt
<1>2. status[c] = "open" /\ \A t \in Servers : t # s => c \notin CountedAt(t)
  BY CountedApart
<1>3. c \in Counted /\ Counted' = Counted \ {c}
  <2>1. c \in Counted  BY CountedIs
  <2>2. c \notin Counted'  BY <1>1, <1>2
  <2>3. \A d : d # c => (d \in Counted' <=> d \in Counted)  BY <1>1, CountedIs
  <2>4. QED  BY <2>1, <2>2, <2>3
<1>4. Cardinality(Counted \ {c}) = Cardinality(Counted) - 1
  BY <1>3, CountedIsFinite, FS_RemoveElement
<1>5. QED  BY <1>3, <1>4 DEF CountMatches

(* ... and anything else. *)
LEMMA CountKept ==
  ASSUME CountMatches, clientCount' = clientCount,
         \A t \in Servers : CountedAt(t)' = CountedAt(t),
         \A d \in Clients : status'[d] = "dropped" <=> status[d] = "dropped"
  PROVE  CountMatches'
<1>1. \A d : d \in Counted' <=>
           d \in Clients /\ ((\E t \in Servers : d \in CountedAt(t)') \/ status[d] = "dropped")
  BY DEF Counted, CountedAt
<1>2. \A d : d \in Counted' <=> d \in Counted  BY <1>1, CountedIs
<1>3. QED  BY <1>2 DEF CountMatches

LEMMA ThreadCount ==
  ASSUME TypeOK, OwnInv, TakenInv, CountMatches, NEW s \in Servers, Turn(s)
  PROVE  CountMatches'
<1> USE DEF TypeOK, ServerTypeOK
<1>1. CASE \/ TestRun(s) \/ JoinDone(s) \/ CheckTime(s) \/ BuildSet(s) \/ NetEvents(s)
           \/ NetError(s) \/ ExitSet(s) \/ ClearDone(s)
  <2>1. /\ UNCHANGED <<clients, reporting, clientCount, status>>
        /\ stage[s] # "erased" /\ stage'[s] # "erased"
        /\ \A t \in Servers : t # s => stage'[t] = stage[t]
    BY <1>1 DEF TestRun, JoinDone, CheckTime, BuildSet, NetEvents, NetError, ExitSet,
      ClearDone, Goto
  <2>2. \A t \in Servers : CountedAt(t)' = CountedAt(t)  BY <2>1 DEF CountedAt
  <2>3. QED  BY <2>1, <2>2, CountKept
<1>2. ASSUME NEW c \in Clients, Join(s, c)
      PROVE  CountMatches'
  <2>1. /\ stage[s] = "join" /\ stage'[s] = "joined" /\ c \notin clients[s]
        /\ clients'[s] = clients[s] \cup {c} /\ reporting'[s] = {c}
        /\ \A t \in Servers : t # s => /\ clients'[t] = clients[t] /\ stage'[t] = stage[t]
                                       /\ reporting'[t] = reporting[t]
        /\ UNCHANGED <<clientCount, status>>
    BY <1>2 DEF Join, Goto
  <2>2. reporting[s] = {}  BY <2>1 DEF TakenInv, InHand
  <2>3. \A t \in Servers : CountedAt(t)' = CountedAt(t)  BY <2>1, <2>2 DEF CountedAt
  <2>4. QED  BY <2>1, <2>3, CountKept
<1>3. CASE OnNetJoin(s)  BY <1>3, CountJoin
<1>4. ASSUME NEW c \in Clients, OnClientLeave(s, c)
      PROVE  CountMatches'
  <2>1. /\ stage[s] \in {"poll", "select", "events"} /\ stage'[s] \in {"timeout", "lost"}
        /\ c \in clients[s] /\ reporting'[s] = {c}
        /\ \A t \in Servers : t # s => reporting'[t] = reporting[t] /\ stage'[t] = stage[t]
        /\ clientCount' = clientCount - 1 /\ UNCHANGED <<clients, status>>
    BY <1>4 DEF OnClientLeave, Gone, Goto
  <2>2. reporting[s] = {}  BY <2>1 DEF TakenInv, InHand
  <2>3. /\ c \in CountedAt(s) /\ CountedAt(s)' = CountedAt(s) \ {c}
        /\ \A t \in Servers : t # s => CountedAt(t)' = CountedAt(t)
    BY <2>1, <2>2 DEF CountedAt
  <2>4. QED  BY <2>1, <2>3, CountLeave
<1>5. CASE Erase(s)
  <2>1. /\ stage[s] \in {"timeout", "lost"} /\ stage'[s] \in {"poll", "events"}
        /\ clients'[s] = clients[s] \ reporting[s] /\ reporting'[s] = {}
        /\ \A t \in Servers : t # s => /\ clients'[t] = clients[t] /\ stage'[t] = stage[t]
                                       /\ reporting'[t] = reporting[t]
        /\ \A d \in Clients : status'[d] = IF d \in reporting[s] THEN "left" ELSE status[d]
        /\ clientCount' = clientCount
    BY <1>5 DEF Erase, Goto, Become
  <2>2. \A t \in Servers : CountedAt(t)' = CountedAt(t)  BY <2>1 DEF CountedAt
  <2>3. \A d \in Clients : status'[d] = "dropped" <=> status[d] = "dropped"
    BY <2>1 DEF TakenInv, Open
  <2>4. QED  BY <2>1, <2>2, <2>3, CountKept
<1>6. ASSUME NEW c \in Clients, rmClient(s, c)
      PROVE  CountMatches'
  <2>1. /\ stage[s] \in {"select", "events"} /\ stage'[s] = "erased" /\ c \in clients[s]
        /\ clients'[s] = clients[s] \ {c} /\ reporting'[s] = {c}
        /\ \A t \in Servers : t # s => /\ clients'[t] = clients[t] /\ stage'[t] = stage[t]
                                       /\ reporting'[t] = reporting[t]
        /\ UNCHANGED <<clientCount, status>>
    BY <1>6 DEF rmClient, Gone, Goto
  <2>2. reporting[s] = {}  BY <2>1 DEF TakenInv, InHand
  <2>3. \A t \in Servers : CountedAt(t)' = CountedAt(t)  BY <2>1, <2>2 DEF CountedAt
  <2>4. QED  BY <2>1, <2>3, CountKept
<1>7. CASE LeaveErased(s)
  <2>1. PICK c \in Clients : reporting[s] = {c}  BY <1>7 DEF LeaveErased, TakenInv, InHand
  <2>2. /\ stage[s] = "erased" /\ stage'[s] = "events" /\ reporting'[s] = {}
        /\ \A t \in Servers : t # s => reporting'[t] = reporting[t] /\ stage'[t] = stage[t]
        /\ \A d \in Clients : status'[d] = IF d = c THEN "left" ELSE status[d]
        /\ clientCount' = clientCount - 1 /\ UNCHANGED clients
    BY <1>7, <2>1 DEF LeaveErased, Goto, Become
  <2>3. c \notin clients[s]  BY <2>1, <2>2 DEF TakenInv, Held
  <2>4. /\ c \in CountedAt(s) /\ CountedAt(s)' = CountedAt(s) \ {c}
        /\ \A t \in Servers : t # s => CountedAt(t)' = CountedAt(t)
    BY <2>1, <2>2, <2>3 DEF CountedAt
  <2>5. \A d \in Clients : status'[d] = "dropped" <=> status[d] = "dropped"
    BY <2>1, <2>2 DEF TakenInv, Open
  <2>6. QED  BY <2>2, <2>4, <2>5, CountLeave
<1>8. CASE ClearClients(s)
  <2>1. /\ stage[s] = "clear_clients" /\ stage'[s] = "clear_buff" /\ clients'[s] = {}
        /\ \A t \in Servers : t # s => clients'[t] = clients[t] /\ stage'[t] = stage[t]
        /\ \A d \in Clients : status'[d] = IF d \in clients[s] THEN "dropped" ELSE status[d]
        /\ UNCHANGED <<reporting, clientCount>>
    BY <1>8 DEF ClearClients, Goto, Become
  <2>2. reporting[s] = {}  BY <2>1 DEF TakenInv, InHand
  <2>3. /\ CountedAt(s) = clients[s] /\ CountedAt(s)' = {}
        /\ \A t \in Servers : t # s => CountedAt(t)' = CountedAt(t)
    BY <2>1, <2>2 DEF CountedAt
  <2>4. \A d : d \in Counted' <=>
             /\ d \in Clients
             /\ (\E t \in Servers : d \in CountedAt(t)') \/ status'[d] = "dropped"
    BY DEF Counted, CountedAt
  <2>5. \A d : d \in Counted' <=> d \in Counted
    BY <2>1, <2>3, <2>4, CountedIs
  <2>6. QED  BY <2>1, <2>5 DEF CountMatches
<1>9. CASE ClearBuff(s)
  <2>1. /\ stage[s] = "clear_buff" /\ stage'[s] = "clear_done"
        /\ \A t \in Servers : t # s => stage'[t] = stage[t]
        /\ \A d \in Clients : status'[d] = IF d \in buff[s] THEN "freed" ELSE status[d]
        /\ UNCHANGED <<clients, reporting, clientCount>>
    BY <1>9 DEF ClearBuff, Goto, Become
  <2>2. \A t \in Servers : CountedAt(t)' = CountedAt(t)  BY <2>1 DEF CountedAt
  <2>3. \A d \in Clients : status'[d] = "dropped" <=> status[d] = "dropped"
    BY <2>1 DEF OwnInv, OwnedOnce, Open
  <2>4. QED  BY <2>1, <2>2, <2>3, CountKept
<1>10. QED
  BY <1>1, <1>2, <1>3, <1>4, <1>5, <1>6, <1>7, <1>8, <1>9 DEF Turn, ServerThread

LEMMA CountStep == TypeOK /\ OwnInv /\ TakenInv /\ CountMatches /\ [Next]_vars => CountMatches'
<1> SUFFICES ASSUME TypeOK, OwnInv, TakenInv, CountMatches, [Next]_vars
             PROVE  CountMatches'
  OBVIOUS
<1>1. ASSUME NEW s \in Servers, Turn(s)
      PROVE  CountMatches'
  BY <1>1, ThreadCount
<1>2. ASSUME NEW c \in Clients, Accept(c)
      PROVE  CountMatches'
  <2>1. UNCHANGED <<clients, stage, reporting, clientCount>>  BY <1>2 DEF Accept
  <2>2. \A d \in Clients : status'[d] = "dropped" <=> status[d] = "dropped"
    BY <1>2 DEF Accept, Become
  <2>3. \A t \in Servers : CountedAt(t)' = CountedAt(t)  BY <2>1 DEF CountedAt
  <2>4. QED  BY <2>1, <2>2, <2>3, CountKept
<1>3. ASSUME UNCHANGED <<clients, stage, reporting, clientCount, status>>
      PROVE  CountMatches'
  <2>1. \A t \in Servers : CountedAt(t)' = CountedAt(t)  BY <1>3 DEF CountedAt
  <2>2. QED  BY <1>3, <2>1, CountKept
<1>4. CASE AcceptThread \/ AcceptError \/ CloseAccept
  BY <1>3, <1>4
  DEF AcceptThread, CompareServer, PlaceClient, AcceptEnds, AcceptExit, AcceptError,
      CloseAccept, serverVars
<1>5. CASE Closer
  BY <1>3, <1>5 DEF Closer, CloseAcceptDone, DeleteServer, ServerDeleted, Closed, serverVars
<1>6. CASE UNCHANGED vars  BY <1>3, <1>6 DEF vars, serverVars
<1>7. QED  BY <1>1, <1>2, <1>4, <1>5, <1>6, ServerTurn DEF Next

-----------------------------------------------------------------------------
LEMMA ServerInitially == Init => ServerInv
BY TypeInitially, LifeInitially, OwnInitially, TakenInitially, FreshInitially, CountInitially
DEF ServerInv

LEMMA ServerStep == ServerInv /\ [Next]_vars => ServerInv'
BY TypeStep, LifeStep, OwnStep, TakenStep, FreshStep, CountStep DEF ServerInv

LEMMA ServerAlways == Spec => []ServerInv
BY ServerInitially, ServerStep, PTL DEF Spec

(* Type correctness of the server. *)
THEOREM ServerIsTyped == Spec => []TypeOK
<1>1. ServerInv => TypeOK  BY DEF ServerInv
<1>2. QED  BY <1>1, ServerAlways, PTL

(* Every client has exactly one owner, whatever the accept thread, the     *)
(* message threads and Close do at the same time                           *)
(* (EasyTcpServer::addClientToCELLServer, CELLServer::OnRun,               *)
(* CELLServer::OnClientLeave, CELLServer::ClearClients).                   *)
THEOREM ClientsHaveOneOwner == Spec => []OwnedOnce
<1>1. ServerInv => OwnedOnce  BY DEF ServerInv, OwnInv
<1>2. QED  BY <1>1, ServerAlways, PTL

(* The client count is at every moment the number of clients that have     *)
(* been reported as joined and not as left, in two steps each and by any   *)
(* number of threads, the ones that ClearClients has deleted included      *)
(* (EasyTcpServer::OnNetJoin, EasyTcpServer::OnNetLeave).                  *)
THEOREM CountIsRight == Spec => []CountMatches
<1>1. ServerInv => CountMatches  BY DEF ServerInv
<1>2. QED  BY <1>1, ServerAlways, PTL

(* select is never given a socket set that is out of date                  *)
(* (CELLSelectServer::DoNetEvents).                                        *)
THEOREM SocketSetIsFresh == Spec => []FdSetFresh
<1>1. ServerInv => FdSetFresh  BY DEF ServerInv, FreshInv, FdSetFresh
<1>2. QED  BY <1>1, ServerAlways, PTL

(* No deleted CELLServer is used by the accept thread, and none is deleted *)
(* before its thread has ended, except a server whose thread took its own  *)
(* flag down after an error of the poll: Close does not wait for that one, *)
(* which may still be running (EasyTcpServer::Close, CELLThread::Close).   *)
THEOREM DeletedIsUnused == Spec => []NoUseAfterDelete
<1>1. ServerInv => NoUseAfterDelete
  <2> SUFFICES ASSUME ServerInv PROVE NoUseAfterDelete  OBVIOUS
  <2> USE DEF ServerInv, LifeInv
  <2>1. \A s \in Servers \ alive : stage[s] = "ended" \/ s \in failed  OBVIOUS
  <2>2. ASSUME acc = "choose" PROVE alive = Servers
    <3>1. closer \in {"open", "accept"} /\ victim = 1  BY <2>2 DEF TypeOK
    <3>2. \A s \in Servers : ~Reached(s)
      BY <3>1, NServersIsPositive DEF Reached, Servers
    <3>3. QED  BY <3>2 DEF TypeOK
  <2>3. QED  BY <2>1, <2>2 DEF NoUseAfterDelete
<1>2. QED  BY <1>1, ServerAlways, PTL

(* When Close has returned no connection is left open, unless a message    *)
(* thread had failed (EasyTcpServer::Close).                               *)
THEOREM CloseClosesAll == Spec => []CloseFreesAll
<1>1. ServerInv => CloseFreesAll
  <2> SUFFICES ASSUME ServerInv, closer = "closed", failed = {} PROVE Open = {}
    BY DEF CloseFreesAll
  <2> USE DEF ServerInv, LifeInv
  <2>1. \A s \in Servers : s < victim  BY NServersIsPositive DEF Servers
  <2>2. \A s \in Servers : stage[s] = "ended"  BY <2>1
  <2>3. \A s \in Servers : Held(s) = {} /\ reporting[s] = {}
    BY <2>2 DEF OwnInv, TakenInv, InHand, Held
  <2>4. hand = NoClient /\ NoClient \notin Open  BY NoClientIsNone DEF Open
  <2>5. QED  BY <2>3, <2>4 DEF OwnInv, OwnedOnce
<1>2. QED  BY <1>1, ServerAlways, PTL
=============================================================================
