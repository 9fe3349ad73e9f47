------------------------------ MODULE CELLBuffer ------------------------------
(***************************************************************************)
(* depends/include/CELLBuffer.hpp: the byte buffer between an application  *)
(* and its socket, used in both directions, and the messages of            *)
(* depends/include/MessageHeader.hpp that pass through it.                 *)
(*                                                                         *)
(* A buffer is the sequence of its _nLast bytes.  Bytes are counted in     *)
(* units: a message is as many units as dataLength gives it here, and its  *)
(* first unit is its header, so that a message arrives in any number of    *)
(* pieces but its four bytes of header arrive together.                    *)
(***************************************************************************)
EXTENDS Integers, Sequences, SequencesExt

(* enum CMD: the commands that the two programs exchange. *)
CMD == {"LOGIN", "LOGIN_RESULT", "C2S_HEART", "S2C_HEART"}

(* The length fields, as the constructors of the messages set them: a      *)
(* login and its answer are long, a heartbeat is only a header.            *)
dataLength(cmd) == IF cmd \in {"LOGIN", "LOGIN_RESULT"} THEN 2 ELSE 1

Unit(Ids) == [cmd : CMD, id : Ids, at : 0 .. 2]

(* A byte whose value nobody chose. *)
Junk(n) == [k \in 1 .. n |-> [cmd |-> "LOGIN", id |-> 0, at |-> 0]]

(* The bytes of a message with the number msgID. *)
Message(cmd, msgID) ==
  [k \in 1 .. dataLength(cmd) |-> [cmd |-> cmd, id |-> msgID, at |-> k]]

-----------------------------------------------------------------------------
(* MUTANT: the message is tested against the size without what is there. *)
pushUnbounded(buf, msg, nSize) == IF Len(msg) <= nSize THEN buf \o msg ELSE buf

(* push takes a message whole or not at all. *)
push(buf, msg, nSize) == IF Len(buf) + Len(msg) <= nSize THEN buf \o msg ELSE buf

(* pop moves what follows the first n units to the front. *)
pop(buf, n) == SubSeq(buf, n + 1, Len(buf))

needWrite(buf) == Len(buf) > 0

(* hasMsg reads the length of the first message in its header; where there *)
(* is no header the bytes may say anything.  The message is there when the *)
(* buffer holds that many units.                                           *)
frontLengths(buf, nSize) ==
  IF buf = << >> THEN {nSize + 1}
  ELSE IF Head(buf).at = 1 THEN {dataLength(Head(buf).cmd)}
  ELSE 0 .. nSize + 1

hasMsg(buf, n) == n <= Len(buf)

(* read4socket: a successful recv appends between one unit and what is     *)
(* free.                                                                   *)
read4socket(buf, units) == buf \o units

(* write2socket after send has taken the first ret units. *)
write2socket(buf, ret) == pop(buf, ret)

-----------------------------------------------------------------------------
(* The request makeRecvIoData fills in: where the received bytes go.  A    *)
(* full buffer has none.                                                   *)
makeRecvIoData(buf, nSize) ==
  IF Len(buf) < nSize THEN {[iotype |-> "RECV", at |-> Len(buf), data |-> << >>]} ELSE {}

(* The request makeSendIoData fills in: the bytes to send. *)
makeSendIoData(buf) ==
  IF needWrite(buf) THEN {[iotype |-> "SEND", at |-> 0, data |-> buf]} ELSE {}

(* read4iocp counts the received units in at the end of the buffer.  They  *)
(* have been written where the end was when the request was made: if it    *)
(* has moved since, other bytes are counted in.                            *)
read4iocp(buf, io, units, nSize) ==
  IF Len(buf) + Len(units) > nSize THEN buf
  ELSE buf \o IF io.at = Len(buf) THEN units ELSE Junk(Len(units))

(* write2iocp removes the sent units, if there are that many. *)
write2iocp(buf, nSend) == IF Len(buf) < nSend THEN buf ELSE pop(buf, nSend)
=============================================================================
