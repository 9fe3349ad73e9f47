------------------------------ MODULE CELLClient ------------------------------
(***************************************************************************)
(* depends/include/CELLClient.hpp: one end of a connection, the same class *)
(* in the server and in the client program.  It holds a send and a receive *)
(* buffer and, under IOCP, a flag for each that says that a request is     *)
(* outstanding.  The operators take the object and return it changed.      *)
(***************************************************************************)
EXTENDS CELLBuffer

CONSTANTS SendSize,  \* nSize of _sendBuff, in units
          RecvSize   \* nSize of _recvBuff

(* A message fits a buffer: the defaults are 10240 and 8192 bytes, and the *)
(* longest message has 104.                                                *)
ASSUME BuffersHoldMessages ==
  /\ SendSize \in Nat /\ RecvSize \in Nat
  /\ \A cmd \in CMD : dataLength(cmd) <= SendSize /\ dataLength(cmd) <= RecvSize

(* The constructor.  nSendMsgID and nRecvMsgID number the logins sent and  *)
(* received (in the client program they are members of MyClient).          *)
NewClient == [send |-> << >>, recv |-> << >>, isPostSend |-> FALSE, isPostRecv |-> FALSE,
              nSendMsgID |-> 1, nRecvMsgID |-> 1]

(* MUTANT: the message number is taken also when the message is dropped. *)
SendDataCounts(c, cmd) ==
  LET login == cmd \in {"LOGIN", "LOGIN_RESULT"}
      buf == push(c.send, Message(cmd, IF login THEN c.nSendMsgID ELSE 0), SendSize)
  IN  [c EXCEPT !.send = buf, !.nSendMsgID = IF login THEN @ + 1 ELSE @]

(* SendData puts a message into the send buffer or drops it.  The callers  *)
(* number their logins and count one only when it has been taken.          *)
SendData(c, cmd) ==
  LET login == cmd \in {"LOGIN", "LOGIN_RESULT"}
      buf == push(c.send, Message(cmd, IF login THEN c.nSendMsgID ELSE 0), SendSize)
  IN  [c EXCEPT !.send = buf, !.nSendMsgID = IF login /\ buf # c.send THEN @ + 1 ELSE @]

(* RecvData and SendDataReal after the system call. *)
RecvData(c, units) == [c EXCEPT !.recv = read4socket(@, units)]
SendDataReal(c, ret) == [c EXCEPT !.send = write2socket(@, ret)]

pop_front_msg(c, n) == [c EXCEPT !.recv = pop(@, n)]

(* makeRecvIoData: nothing while a request is outstanding; otherwise the   *)
(* flag goes up whether or not the buffer has a request to offer.          *)
PostRecv(c) == IF c.isPostRecv THEN {} ELSE makeRecvIoData(c.recv, RecvSize)
MarkRecv(c) == [c EXCEPT !.isPostRecv = TRUE]

(* MUTANT: a request is made whether or not one is outstanding. *)
PostSendAgain(c) == makeSendIoData(c.send)

(* makeSendIoData, which is only called when there is something to send. *)
PostSend(c) == IF c.isPostSend THEN {} ELSE makeSendIoData(c.send)
MarkSend(c) == IF needWrite(c.send) THEN [c EXCEPT !.isPostSend = TRUE] ELSE c

recv4iocp(c, io, units) ==
  [c EXCEPT !.isPostRecv = FALSE, !.recv = read4iocp(@, io, units, RecvSize)]

(* MUTANT: the flag stays up after the completion. *)
send2iocpKeepsFlag(c, n) == [c EXCEPT !.send = write2iocp(@, n)]

send2iocp(c, n) == [c EXCEPT !.isPostSend = FALSE, !.send = write2iocp(@, n)]

isPostIoAction(c) == c.isPostRecv \/ c.isPostSend
=============================================================================
