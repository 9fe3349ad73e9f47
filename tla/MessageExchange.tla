--------------------------- MODULE MessageExchange ---------------------------
(***************************************************************************)
(* The two programs of the repository talking to each other: the client    *)
(* program (EasyTcpClient/client.cpp over EasySelectClient,                *)
(* EasyEpollClient or EasyIOCPClient) with its work thread and the timer   *)
(* thread that sends heartbeats, and the server program                    *)
(* (EasyTcpServer/server.cpp over CELLSelectServer, CELLEpollServer or     *)
(* CELLIOCPServer) with the message thread that has the connection.  The   *)
(* client sends logins, which the server answers (-sendback), and both     *)
(* ends count the logins they receive (-checkMsgID).  One connection is    *)
(* followed; statistics (sendCount, nConnect) are left out.                *)
(*                                                                         *)
(* The heartbeat callback puts its message into the send buffer that the   *)
(* work thread uses, with no lock between them.  It is two steps: the      *)
(* callback reads the buffer, then changes it.  If the work thread has     *)
(* changed the buffer in between, one of the changes is lost or bytes are  *)
(* counted in that nobody wrote.                                           *)
(***************************************************************************)
EXTENDS Connection

CONSTANTS MaxLogins,  \* logins the client sends
          MaxHearts   \* heartbeats that become due

ASSUME LimitsAreNat == MaxLogins \in Nat /\ MaxHearts \in Nat

VARIABLES
  beat,     \* the heartbeat event: not in the pool, waiting, in its callback
  seen,     \* the send buffer as the callback has read it
  hearts,   \* heartbeats that have become due
  raced     \* history: the callback and the work thread have collided

appVars == <<beat, seen, hearts, raced>>
vars == <<connVars, appVars>>

ConnTypeOK ==
  /\ ConnectionTypeOK
  /\ beat \in {"off", "idle", "callback"}
  /\ seen \in Seq(Unit(Int))
  /\ hearts \in 0 .. MaxHearts
  /\ raced \in BOOLEAN

Init ==
  /\ build \in Builds
  /\ obj = [e \in Ends |-> NewClient]
  /\ life = [e \in Ends |-> "none"]
  /\ io = [e \in Ends |-> << >>]
  /\ stage = [e \in Ends |-> "test"]
  /\ sent = [e \in Ends |-> [taken |-> 0, of |-> 0]]
  /\ net = "idle"
  /\ wire = [e \in Ends |-> << >>]
  /\ beat = "off" /\ seen = << >> /\ hearts = 0 /\ raced = FALSE

-----------------------------------------------------------------------------
(* The server's message thread. *)

ServerAt(label) == stage["server"] = label /\ UNCHANGED <<build, appVars>>

InClients == life["server"] = "live"

(* OnClientLeave; the round goes on.  An IOCP round goes on taking         *)
(* completions.                                                            *)
ServerFail(requests) ==
  /\ Delete("server", requests)
  /\ Goto("server", IF build["server"] = "iocp" THEN "drain" ELSE "test")

(* The accept thread creates the CELLClient and places it with the message *)
(* thread, or closes a connection over the limit.                          *)
Accept ==
  /\ life["server"] = "none" /\ net # "idle"
  /\ \/ /\ life' = [life EXCEPT !["server"] = "buffered"]
        /\ UNCHANGED <<obj, io, net, wire>>
     \/ Delete("server", << >>)
  /\ UNCHANGED <<build, stage, sent, appVars>>

(* The new client enters _clients.  Under IOCP OnClientJoin asks for its   *)
(* first receive; if that fails, which for a socket that has just been     *)
(* accepted is taken to mean that the connection is lost, nobody looks.    *)
ServerJoin ==
  /\ ServerAt("test") /\ life["server"] = "buffered"
  /\ life' = [life EXCEPT !["server"] = "live"]
  /\ IF build["server"] = "iocp"
     THEN /\ obj' = [obj EXCEPT !["server"] = MarkRecv(@)]
          /\ \/ io' = [io EXCEPT !["server"] = @ \o SetToSeq(PostRecv(obj["server"]))]
             \/ Lost /\ UNCHANGED io
     ELSE UNCHANGED <<obj, io>>
  /\ UNCHANGED <<stage, sent, net, wire>>

(* MUTANT: a client that is timed out is deleted whatever is outstanding. *)
CheckTimeDeletes ==
  /\ ServerAt("test") /\ InClients
  /\ ServerFail(io["server"])
  /\ UNCHANGED sent

(* CheckTime starts a round, and any client may be overdue.  It leaves,    *)
(* but with a request outstanding it is only closed: the end of the        *)
(* request deletes it.                                                     *)
CheckTime ==
  /\ ServerAt("test") /\ InClients
  /\ IF build["server"] = "iocp" /\ isPostIoAction(obj["server"])
     THEN Forget("server", "closed", io["server"]) /\ Goto("server", "drain")
     ELSE ServerFail(io["server"])
  /\ UNCHANGED sent

(* The thread polls for its other clients. *)
ServerPollsOthers ==
  /\ ServerAt("test") /\ life["server"] \in {"closed", "deleted"} /\ io["server"] # << >>
  /\ Goto("server", "drain")
  /\ UNCHANGED <<obj, life, io, sent, net, wire>>

(* CELLIOCPServer::DoNetEvents, its first half. *)
ServerPost ==
  /\ ServerAt("test") /\ InClients /\ build["server"] = "iocp"
  /\ \/ PostRequests("server")
     \/ \E requests \in PostFailures("server") : ServerFail(requests)
  /\ UNCHANGED sent

(* CELLIOCPServer::DoIocpNetEvents with a completed request. *)
ServerCompletion ==
  /\ ServerAt("drain") /\ InClients
  /\ \E i \in DOMAIN io["server"] : Completion("server", i)
  /\ UNCHANGED <<life, stage, sent, net>>

(* A request of a client that is not in _clients any more had been done    *)
(* when its socket was closed.  If the client has only been closed nobody  *)
(* deletes it now; the use of one that has been deleted is undefined.      *)
ServerLateCompletion ==
  /\ ServerAt("drain")
  /\ \E i \in DOMAIN io["server"] : io' = [io EXCEPT !["server"] = RemoveAt(@, i)]
  /\ \/ life["server"] = "closed" /\ UNCHANGED stage
     \/ life["server"] = "deleted" /\ Goto("server", "undefined")
  /\ UNCHANGED <<obj, life, sent, net, wire>>

(* rmClient *)
ServerFailedCompletion ==
  /\ ServerAt("drain")
  /\ LET rmClient(requests) ==
           IF life["server"] = "deleted"
           THEN Goto("server", "undefined") /\ UNCHANGED <<obj, life, io, net, wire>>
           ELSE ServerFail(requests)
     IN  \E requests \in FailedCompletions("server") : rmClient(requests)
  /\ UNCHANGED sent

(* wait has timed out: no more completions in this round. *)
ServerDrained ==
  /\ ServerAt("drain")
  /\ Goto("server", IF InClients THEN "msg" ELSE "test")
  /\ UNCHANGED <<obj, life, io, sent, net, wire>>

(* The thread ends, and ClearClients deletes its clients and those in the  *)
(* buffer, with whatever is outstanding.                                   *)
ServerEnds ==
  /\ Goto("server", "ended")
  /\ IF life["server"] \in {"buffered", "live"} THEN Delete("server", io["server"])
     ELSE UNCHANGED <<obj, life, io, net, wire>>
  /\ UNCHANGED sent

(* It ends because Close has taken its flag down, or because select or     *)
(* epoll_wait fails.  (Only once the connection has been accepted: without *)
(* a server there is nothing to follow.)                                   *)
ServerStops == ServerAt("test") /\ life["server"] # "none" /\ ServerEnds

(* Or because wait fails: a failed completion with another error than the  *)
(* two that wait knows does it, and the port is that of all the clients of *)
(* the thread.                                                             *)
ServerWaitFails == ServerAt("drain") /\ ServerEnds

(* The select and epoll rounds: read, then write. *)
ServerRead ==
  /\ ServerAt("test") /\ InClients /\ build["server"] # "iocp"
  /\ \/ ReadSocket("server", "write")
     \/ ReadFails("server") /\ ServerFail(io["server"])
  /\ UNCHANGED sent

ServerWrite ==
  /\ ServerAt("write")
  /\ \/ WriteSocket("server", "msg")
     \/ WriteFails("server") /\ ServerFail(io["server"])

ServerSendOn ==
  /\ \/ SendOn("server", "msg")
     \/ SendFails("server") /\ ServerFail(io["server"])
  /\ UNCHANGED <<build, appVars>>

ServerSendInterrupted == SendInterrupted("server", "msg") /\ UNCHANGED appVars

(* MyServer::OnNetMsg.  A login is counted and answered, its answer may be *)
(* dropped; a heartbeat is answered; anything else is ignored.             *)
OnLogin(c) == SendData([c EXCEPT !.nRecvMsgID = @ + 1], "LOGIN_RESULT")

ServerOnNetMsg(c, header) ==
  CASE header.at # 1 -> c
    [] header.cmd = "LOGIN" -> OnLogin(c)
    [] header.cmd = "C2S_HEART" -> SendData(c, "S2C_HEART")
    [] OTHER -> c

(* CELLServer::DoMsg *)
ServerDoMsg ==
  /\ ServerAt("msg")
  /\ HandleMessage("server", "test",
                   ServerOnNetMsg(obj["server"], Head(obj["server"].recv)))
  /\ UNCHANGED <<life, io, sent, net, wire>>

-----------------------------------------------------------------------------
(* The client's work thread. *)

ClientAt(label) == stage["client"] = label /\ UNCHANGED <<build, hearts, raced>>

isRun == life["client"] = "live"

(* Close, and OnRun returns. *)
ClientFail(requests) == Delete("client", requests) /\ Goto("client", "test")

(* WorkThread connects its client, which gets a heartbeat event. *)
Connect ==
  /\ ClientAt("test") /\ life["client"] = "none" /\ net = "idle"
  /\ Open
  /\ beat' = "idle"
  /\ UNCHANGED <<obj, io, stage, sent, wire, seen>>

(* A turn of the work loop: perhaps a login is due (SendTest, checkSend),  *)
(* then OnRun.  Logins and heartbeats become due within the bounds, and no *)
(* more once the connection is lost.                                       *)
SendTest ==
  /\ ClientAt("test") /\ isRun
  /\ obj["client"].nSendMsgID <= MaxLogins /\ ~Lost
  /\ obj' = [obj EXCEPT !["client"] = SendData(@, "LOGIN")]
  /\ Goto("client", "net")
  /\ UNCHANGED <<life, io, sent, net, wire, beat, seen>>

NoneDue ==
  /\ ClientAt("test") /\ isRun
  /\ Goto("client", "net")
  /\ UNCHANGED <<obj, life, io, sent, net, wire, beat, seen>>

(* EasyIOCPClient::OnRun, its first half. *)
ClientPost ==
  /\ ClientAt("net") /\ build["client"] = "iocp"
  /\ \/ PostRequests("client")
     \/ \E requests \in PostFailures("client") : ClientFail(requests)
  /\ UNCHANGED <<sent, beat, seen>>

(* EasyIOCPClient::DoIocpNetEvents *)
ClientCompletion ==
  /\ ClientAt("drain")
  /\ \E i \in DOMAIN io["client"] : Completion("client", i)
  /\ UNCHANGED <<life, stage, sent, net, beat, seen>>

ClientFailedCompletion ==
  /\ ClientAt("drain")
  /\ \E requests \in FailedCompletions("client") : ClientFail(requests)
  /\ UNCHANGED <<sent, beat, seen>>

ClientDrained ==
  /\ ClientAt("drain")
  /\ Goto("client", "msg")
  /\ UNCHANGED <<obj, life, io, sent, net, wire, beat, seen>>

(* When wait or epoll_wait fails OnRun returns false and the client stays  *)
(* open; a failed completion whose error wait does not know is gone.  When *)
(* select fails the client is closed.                                      *)
ClientWaitFails ==
  /\ ClientAt("drain") /\ Lost
  /\ \E i \in DOMAIN io["client"] : io' = [io EXCEPT !["client"] = RemoveAt(@, i)]
  /\ Goto("client", "test")
  /\ UNCHANGED <<obj, life, sent, net, wire, beat, seen>>

EpollWaitFails ==
  /\ ClientAt("net") /\ build["client"] = "epoll"
  /\ Goto("client", "test")
  /\ UNCHANGED <<obj, life, io, sent, net, wire, beat, seen>>

SelectFails ==
  /\ ClientAt("net") /\ build["client"] = "select"
  /\ ClientFail(<< >>)
  /\ UNCHANGED <<sent, beat, seen>>

(* The select and epoll rounds: read and handle the messages, then write.  *)
ClientRead ==
  /\ ClientAt("net") /\ build["client"] # "iocp"
  /\ \/ ReadSocket("client", "msg")
     \/ ReadFails("client") /\ ClientFail(io["client"])
  /\ UNCHANGED <<sent, beat, seen>>

ClientWrite ==
  /\ ClientAt("write")
  /\ \/ WriteSocket("client", "test")
     \/ WriteFails("client") /\ ClientFail(io["client"])
  /\ UNCHANGED <<beat, seen>>

ClientSendOn ==
  /\ \/ SendOn("client", "test")
     \/ SendFails("client") /\ ClientFail(io["client"])
  /\ UNCHANGED <<build, appVars>>

ClientSendInterrupted == SendInterrupted("client", "test") /\ UNCHANGED appVars

(* MyClient::OnNetMsg counts the answers to its logins. *)
ClientOnNetMsg(c, header) ==
  IF header.at = 1 /\ header.cmd = "LOGIN_RESULT"
  THEN [c EXCEPT !.nRecvMsgID = @ + 1] ELSE c

(* EasyTcpClient::DoMsg *)
ClientDoMsg ==
  /\ ClientAt("msg")
  /\ HandleMessage("client", IF build["client"] = "iocp" THEN "test" ELSE "write",
                   ClientOnNetMsg(obj["client"], Head(obj["client"].recv)))
  /\ UNCHANGED <<life, io, sent, net, wire, beat, seen>>

(* The user stops the program and the loop ends: pool.Stop waits for the   *)
(* callback and drops the event, then the client is closed.                *)
Shutdown ==
  /\ ClientAt("test") /\ beat # "callback"
  /\ Delete("client", << >>)
  /\ beat' = "off"
  /\ Goto("client", "ended")
  /\ UNCHANGED <<sent, seen>>

-----------------------------------------------------------------------------
(* The heartbeat callback.  SendData looks at the client and, if the       *)
(* message fits, reads the end of its send buffer ...                      *)
HeartBegin ==
  /\ beat = "idle" /\ isRun /\ hearts < MaxHearts /\ ~Lost
  /\ Len(obj["client"].send) < SendSize
  /\ hearts' = hearts + 1
  /\ beat' = "callback"
  /\ seen' = obj["client"].send
  /\ UNCHANGED <<connVars, raced>>

(* What the send buffer may become when push writes msg behind the end it  *)
(* has read while the work thread has changed old to cur.  The memory has  *)
(* the message where the old end was and else what was there; its end is   *)
(* counted from the old end or from the new one, or the work thread's      *)
(* count is the last to be stored.                                         *)
PushRaced(cur, old, msg) ==
  LET o == Len(old)
      memory == [k \in 1 .. SendSize |->
                  IF k \in o + 1 .. o + Len(msg) THEN msg[k - o]
                  ELSE IF k <= Len(cur) THEN cur[k]
                  ELSE IF k <= o THEN old[k] ELSE Junk(1)[1]]
      ends == {o + Len(msg), Len(cur) + Len(msg), Len(cur)}
  IN  {SubSeq(memory, 1, n) : n \in ends \cap 0 .. SendSize}

(* ... and pushes.  If Close has deleted the client meanwhile, it writes   *)
(* to freed memory; on a lost connection nothing depends on the outcome.   *)
HeartEnd ==
  /\ beat = "callback"
  /\ beat' = "idle" /\ seen' = << >>
  /\ LET cur == obj["client"].send
         msg == Message("C2S_HEART", 0)
     IN  \/ (~isRun \/ Lost) /\ UNCHANGED <<obj, raced>>
         \/ /\ isRun /\ ~Lost /\ cur = seen
            /\ obj' = [obj EXCEPT !["client"].send = push(cur, msg, SendSize)]
            /\ UNCHANGED raced
         \/ /\ isRun /\ ~Lost /\ cur # seen
            /\ \E buf \in PushRaced(cur, seen, msg) : obj' = [obj EXCEPT !["client"].send = buf]
            /\ raced' = TRUE
  /\ UNCHANGED <<build, life, io, stage, sent, net, wire, hearts>>

-----------------------------------------------------------------------------
(* The network gives out, and with it goes what was under way. *)
ConnectionLost ==
  /\ net = "up"
  /\ net' = "down"
  /\ wire' = [e \in Ends |-> << >>]
  /\ UNCHANGED <<build, obj, life, io, stage, sent, appVars>>

ServerThread ==
  \/ ServerJoin \/ ServerPollsOthers \/ ServerPost \/ ServerDrained
  \/ ServerRead \/ ServerWrite \/ ServerSendOn \/ ServerDoMsg

WorkThread ==
  \/ Connect \/ SendTest \/ NoneDue \/ ClientPost \/ ClientDrained
  \/ ClientRead \/ ClientWrite \/ ClientSendOn \/ ClientDoMsg

Ports ==
  \/ ServerCompletion \/ ServerLateCompletion \/ ServerFailedCompletion
  \/ ClientCompletion \/ ClientFailedCompletion

Faults ==
  \/ CheckTime \/ ServerStops \/ ServerWaitFails
  \/ ClientWaitFails \/ EpollWaitFails \/ SelectFails
  \/ ServerSendInterrupted \/ ClientSendInterrupted \/ ConnectionLost \/ Shutdown

(* What damaged messages do to the two programs is not followed: nothing   *)
(* happens after a collision.                                              *)
Next ==
  /\ ~raced
  /\ Accept \/ ServerThread \/ WorkThread \/ Ports \/ HeartBegin \/ HeartEnd \/ Faults

(* The threads run, and a request that the network can serve again and     *)
(* again is completed.  Nothing is asked of them after a collision.        *)
Fairness ==
  /\ WF_vars(~raced /\ Accept) /\ WF_vars(~raced /\ ServerThread)
  /\ WF_vars(~raced /\ WorkThread) /\ WF_vars(~raced /\ HeartEnd)
  /\ SF_vars(~raced /\ ServerCompletion) /\ SF_vars(~raced /\ ClientCompletion)
  /\ SF_vars(~raced /\ ClientRead)

Spec == Init /\ [][Next]_vars
FairSpec == Spec /\ Fairness

-----------------------------------------------------------------------------
(* The bytes on their way from e: received and not yet handled, under way, *)
(* and in the send buffer without what a blocked send has taken.           *)
Stream(e) ==
  obj[Peer(e)].recv \o wire[Peer(e)]
    \o pop(obj[e].send, sent[e].taken)

(* The logins that begin in s. *)
LoginsIn(s) == Cardinality({k \in DOMAIN s :
                              s[k].at = 1 /\ s[k].cmd \in {"LOGIN", "LOGIN_RESULT"}})

(* The sequence s is a run of messages, perhaps without the end of the     *)
(* last, whose logins are numbered from first.                             *)
Messages(s, first) ==
  \A k \in DOMAIN s :
    IF k = 1 \/ s[k - 1].at = dataLength(s[k - 1].cmd)
    THEN /\ s[k].at = 1
         /\ s[k].cmd \in {"LOGIN", "LOGIN_RESULT"} =>
              s[k].id = first + LoginsIn(SubSeq(s, 1, k - 1))
    ELSE s[k] = [s[k - 1] EXCEPT !.at = @ + 1]

(* As long as the connection is up the bytes between a sender and what its *)
(* peer has handled are whole messages in order, in both directions, and   *)
(* the next login the peer finds has the number it expects, so that        *)
(* -checkMsgID never reports a gap, whatever is split, joined or dropped   *)
(* for want of room: up to a first collision with the heartbeat callback   *)
(* (CELLBuffer, MyServer::OnNetMsg, MyClient::OnNetMsg).                   *)
InOrder ==
  ~raced /\ net = "up" => \A e \in Ends :
    LET expected == obj[Peer(e)].nRecvMsgID
    IN  /\ Messages(Stream(e), expected)
        /\ obj[e].nSendMsgID = expected + LoginsIn(Stream(e))

Requests(e, type) == {i \in DOMAIN io[e] : io[e][i].iotype = type}

(* As long as the connection is up and the heartbeat callback has not      *)
(* collided with the work thread, the memory of an outstanding request     *)
(* stays in place: no message is removed from a buffer that a receive is   *)
(* writing behind, and nothing from one that is being sent                 *)
(* (CELLIOCPServer::DoNetEvents, EasyIOCPClient::OnRun).                   *)
BuffersHoldStill ==
  ~raced /\ net = "up" => \A e \in Ends :
    /\ \A i \in Requests(e, "RECV") : io[e][i].at = Len(obj[e].recv)
    /\ \A i \in Requests(e, "SEND") : IsPrefix(io[e][i].data, obj[e].send)

(* As long as the connection is up a flag says exactly whether a request   *)
(* is outstanding, and there is never more than one of a kind: none is     *)
(* forgotten, which would leave the client deaf, and none made twice       *)
(* (CELLClient::makeRecvIoData, makeSendIoData).                           *)
FlagMatchesRequest ==
  ~raced /\ net = "up" => \A e \in Ends :
    /\ Cardinality(Requests(e, "RECV")) = IF obj[e].isPostRecv THEN 1 ELSE 0
    /\ Cardinality(Requests(e, "SEND")) = IF obj[e].isPostSend THEN 1 ELSE 0

(* CheckTime judges by the flags alone, and rightly.  An overdue client    *)
(* that it deletes has no request outstanding, whose end would find it     *)
(* deleted, on a lost connection neither; one that it only closes, on a    *)
(* connection that was up, has one, whose end can delete it                *)
(* (CELLServer::CheckTime, CELLClient::isPostIoAction).  It is only        *)
(* CheckTime that takes this care: a client is deleted with a request      *)
(* outstanding when another request of its fails or cannot be made, and    *)
(* when its thread ends (ServerFailedCompletion, ServerPost, ServerEnds).  *)
OverdueSpared ==
  [][ CheckTime =>
        /\ life'["server"] = "deleted" => io["server"] = << >>
        /\ life'["server"] = "closed" /\ net = "up" => io["server"] # << >> ]_vars

(* A login that the client has put into its send buffer is handled by the  *)
(* server, unless the connection is lost, the heartbeat callback has       *)
(* collided with the work thread, or both threads are in a blocked send    *)
(* with the network full in both directions, which only the other's        *)
(* reading, or a signal, could end (CELLBuffer::write2socket).             *)
LoginsAreHandled ==
  \A k \in 1 .. MaxLogins :
    obj["client"].nSendMsgID > k ~>
      \/ obj["server"].nRecvMsgID > k
      \/ Lost \/ raced
      \/ \A e \in Ends : stage[e] = "sending" /\ Room(e) = 0
=============================================================================
