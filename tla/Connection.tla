------------------------------ MODULE Connection ------------------------------
(***************************************************************************)
(* One connection from end to end: the two CELLClient objects, the network *)
(* between them, and the requests outstanding with each end's completion   *)
(* port (depends/include/CELLIOCP.hpp).  The actions are what the two      *)
(* event loops have in common; MessageExchange puts the loops together.    *)
(*                                                                         *)
(* The programs are built for select, epoll or IOCP.  Under the first two  *)
(* the sockets are blocking ones: recv is called when there is something   *)
(* to receive, send when there is room for at least one unit, and send     *)
(* returns when it has taken everything, if no signal interrupts it.       *)
(*                                                                         *)
(* A connection is lost when either end closes its socket, or at any time. *)
(* What is then under way may still be received or not; nothing more can   *)
(* be sent.  Other clients of the same server thread are not represented,  *)
(* except that they keep it polling.                                       *)
(***************************************************************************)
EXTENDS CELLClient

CONSTANTS Builds,   \* the builds looked at, of the two ends
          NetCap    \* units under way in one direction

ASSUME NetCapPositive == NetCap \in Nat \ {0}

Ends == {"client", "server"}

Peer(e) == IF e = "client" THEN "server" ELSE "client"

VARIABLES
  build,    \* how each program was built
  obj,      \* the CELLClient object of each end
  life,     \* what has become of it
  io,       \* the requests outstanding with each completion port
  stage,    \* where the thread that runs each end is
  sent,     \* how much of its send buffer a blocked send has taken
  net,      \* the connection
  wire      \* the units under way to each end

connVars == <<build, obj, life, io, stage, sent, net, wire>>

(* "live": in use (a server's client: in _clients).  "closed": destory has *)
(* closed its socket and the server has dropped it, but requests of its    *)
(* are outstanding.  "buffered": accepted, in _clientsBuff.                *)
Life == {"none", "buffered", "live", "closed", "deleted"}

(* "drain": taking completions from the port.  "sending": in a blocked     *)
(* send.  "undefined": the thread has used a deleted object, and what the  *)
(* program does is not defined any more.                                   *)
Stage == {"test", "net", "drain", "write", "sending", "msg", "stop", "ended", "undefined"}

Request == [iotype : {"RECV", "SEND"}, at : 0 .. RecvSize, data : Seq(Unit(Int))]

ConnectionTypeOK ==
  /\ build \in Builds
  /\ obj \in [Ends -> [send : Seq(Unit(Int)), recv : Seq(Unit(Int)),
                       isPostSend : BOOLEAN, isPostRecv : BOOLEAN,
                       nSendMsgID : Nat, nRecvMsgID : Nat]]
  /\ \A e \in Ends : Len(obj[e].send) <= SendSize /\ Len(obj[e].recv) <= RecvSize
  /\ life \in [Ends -> Life]
  /\ io \in [Ends -> Seq(Request)]
  /\ stage \in [Ends -> Stage]
  /\ sent \in [Ends -> [taken : 0 .. SendSize, of : 0 .. SendSize]]
  /\ net \in {"idle", "up", "down"}
  /\ wire \in [Ends -> Seq(Unit(Int))]
  /\ \A e \in Ends : Len(wire[e]) <= NetCap

Goto(e, label) == stage' = [stage EXCEPT ![e] = label]

(* An object that is not used any more is forgotten, with what is under    *)
(* way to it; its requests stay with the port.                             *)
Forget(e, what, requests) ==
  /\ life' = [life EXCEPT ![e] = what]
  /\ obj' = [obj EXCEPT ![e] = NewClient]
  /\ wire' = [wire EXCEPT ![e] = << >>]
  /\ io' = [io EXCEPT ![e] = [i \in DOMAIN requests |->
                                [requests[i] EXCEPT !.at = 0, !.data = << >>]]]
  /\ net' = "down"

(* A client program deletes its client (EasyTcpClient::Close), a server    *)
(* its own (OnClientLeave): the destructor closes the socket.  The client  *)
(* program destroys its port first.                                        *)
Delete(e, requests) == Forget(e, "deleted", IF e = "client" THEN << >> ELSE requests)

(* InitSocket and Connect: the client object, and a connection that the    *)
(* server's listening socket has taken.                                    *)
Open ==
  /\ life' = [life EXCEPT !["client"] = "live"]
  /\ net' = "up"

Lost == net = "down"

Room(e) == NetCap - Len(wire[Peer(e)])

-----------------------------------------------------------------------------
(* One round's requests: a send if there is something to send, then a      *)
(* receive.                                                                *)
NewRequests(e) == SetToSeq(PostSend(obj[e])) \o SetToSeq(PostRecv(obj[e]))

PostRequests(e) ==
  /\ io' = [io EXCEPT ![e] = @ \o NewRequests(e)]
  /\ obj' = [obj EXCEPT ![e] = MarkRecv(MarkSend(@))]
  /\ Goto(e, "drain")
  /\ UNCHANGED <<life, net, wire>>

(* WSASend or WSARecv may fail, on a lost connection or for another        *)
(* reason: what is outstanding then.                                       *)
PostFailures(e) ==
  {io[e] \o SubSeq(NewRequests(e), 1, n) : n \in 0 .. Len(NewRequests(e)) - 1}

(* A completed receive that the port returns: at least one unit. *)
RecvDone(e, i) ==
  /\ io[e][i].iotype = "RECV"
  /\ \E n \in 1 .. Len(wire[e]) :
       /\ n + io[e][i].at <= RecvSize
       /\ obj' = [obj EXCEPT ![e] = recv4iocp(@, io[e][i], SubSeq(wire[e], 1, n))]
       /\ wire' = [wire EXCEPT ![e] = pop(@, n)]
  /\ io' = [io EXCEPT ![e] = RemoveAt(@, i)]

(* A completed send: the network takes at least one unit. *)
SendDone(e, i) ==
  /\ io[e][i].iotype = "SEND"
  /\ ~Lost
  /\ \E n \in 1 .. Len(io[e][i].data) :
       /\ n <= Room(e)
       /\ obj' = [obj EXCEPT ![e] = send2iocp(@, n)]
       /\ wire' = [wire EXCEPT ![Peer(e)] = @ \o SubSeq(io[e][i].data, 1, n)]
  /\ io' = [io EXCEPT ![e] = RemoveAt(@, i)]

(* wait returns the end of the request i: done, or failed because the      *)
(* connection is lost, which is a count of zero; the others stay.          *)
Completion(e, i) == RecvDone(e, i) \/ SendDone(e, i)

FailedCompletions(e) == IF Lost THEN {RemoveAt(io[e], i) : i \in DOMAIN io[e]} ELSE {}

-----------------------------------------------------------------------------
(* One turn of DoMsg: the first message is handled, which leaves the       *)
(* object as handled, and removed; without one the loop ends.  Bytes that  *)
(* are no message are skipped by the length they happen to give.           *)
HandleMessage(e, next, handled) ==
  \E n \in frontLengths(obj[e].recv, RecvSize) :
    \/ /\ hasMsg(obj[e].recv, n)
       /\ obj' = [obj EXCEPT ![e] = pop_front_msg(handled, n)]
       /\ UNCHANGED stage
    \/ /\ ~hasMsg(obj[e].recv, n)
       /\ Goto(e, next)
       /\ UNCHANGED obj

(* A select or epoll round reads first: if the socket is readable and the  *)
(* buffer has room, recv gives at least one unit, or fails.                *)
ReadSocket(e, next) ==
  /\ \/ \E n \in 1 .. Len(wire[e]) :
          /\ n <= RecvSize - Len(obj[e].recv)
          /\ obj' = [obj EXCEPT ![e] = RecvData(@, SubSeq(wire[e], 1, n))]
          /\ wire' = [wire EXCEPT ![e] = pop(@, n)]
     \/ /\ Len(obj[e].recv) = RecvSize \/ (~Lost /\ wire[e] = << >>)
        /\ UNCHANGED <<obj, wire>>
  /\ Goto(e, next)
  /\ UNCHANGED <<life, io, net>>

ReadFails(e) == Lost /\ Len(obj[e].recv) < RecvSize

(* The memory of a send buffer: what lies behind _nLast is anything. *)
Memory(e) == obj[e].send \o Junk(SendSize - Len(obj[e].send))

(* Then it writes, if there was something to send and the socket is        *)
(* writable.  send is called with the whole buffer and returns when it has *)
(* taken all of it; until then the thread is in the call.  (Only after a   *)
(* collision can it find less in the buffer than it has sent; _nLast would *)
(* then be negative.)                                                      *)
Taken(e, n, of, next) ==
  IF n < of
  THEN /\ sent' = [sent EXCEPT ![e] = [taken |-> n, of |-> of]]
       /\ Goto(e, "sending")
       /\ UNCHANGED obj
  ELSE /\ obj' = [obj EXCEPT ![e] = SendDataReal(@, n)]
       /\ sent' = [sent EXCEPT ![e] = [taken |-> 0, of |-> 0]]
       /\ Goto(e, IF n <= Len(obj[e].send) THEN next ELSE "undefined")

Send(e, of, next) ==
  LET taken == sent[e].taken
  IN  \E n \in 1 .. of - taken :
        /\ n <= Room(e)
        /\ wire' = [wire EXCEPT ![Peer(e)] = @ \o SubSeq(Memory(e), taken + 1, taken + n)]
        /\ Taken(e, taken + n, of, next)

WriteSocket(e, next) ==
  /\ \/ /\ needWrite(obj[e].send) /\ ~Lost /\ Room(e) > 0
        /\ Send(e, Len(obj[e].send), next)
     \/ /\ ~needWrite(obj[e].send) \/ (~Lost /\ Room(e) = 0)
        /\ Goto(e, next)
        /\ UNCHANGED <<obj, sent, wire>>
  /\ UNCHANGED <<life, io, net>>

WriteFails(e) == needWrite(obj[e].send) /\ Lost /\ UNCHANGED sent

(* The blocked call goes on when there is room, and fails when the         *)
(* connection is lost.                                                     *)
SendOn(e, next) ==
  /\ stage[e] = "sending" /\ ~Lost
  /\ Send(e, sent[e].of, next)
  /\ UNCHANGED <<life, io, net>>

SendFails(e) ==
  /\ stage[e] = "sending" /\ Lost
  /\ sent' = [sent EXCEPT ![e] = [taken |-> 0, of |-> 0]]

(* A signal ends it early: the part that was taken is its result. *)
SendInterrupted(e, next) ==
  /\ stage[e] = "sending"
  /\ Taken(e, sent[e].taken, sent[e].taken, next)
  /\ UNCHANGED <<build, life, io, net, wire>>
=============================================================================
