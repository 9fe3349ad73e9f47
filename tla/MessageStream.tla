---------------------------- MODULE MessageStream ----------------------------
(***************************************************************************)
(* A message on its way through the streams, as CMD_LOGOUT goes through    *)
(* MyServer::OnNetMsg (EasyTcpServer/server.cpp): a sender writes values   *)
(* and arrays into a CELLWriteStream, the server reads them from a         *)
(* CELLReadStream in the same order, into arrays of a fixed size, and      *)
(* writes what it has read into its answer, which is smaller than what may *)
(* have to go into it.  What does not fit is reported in the log and left  *)
(* out.                                                                    *)
(***************************************************************************)
EXTENDS CELLStream

CONSTANTS
  MessageSize,   \* nSize of the sender's stream
  AnswerSize,    \* nSize of the answer's: 128
  ArraySize,     \* elements of the server's arrays: 32 and 10
  Types,         \* the types of the values written
  ArrayTypes,    \* the types of the elements of arrays
  MaxElements,   \* elements of an array written
  MaxWrites      \* writes tried

(* The length in front of a message is a uint16_t. *)
UINT16_MAX == 65535

ASSUME StreamLimits ==
  /\ MessageSize \in Nat /\ 4 <= MessageSize /\ MessageSize <= UINT16_MAX
  /\ AnswerSize \in Nat /\ 4 <= AnswerSize /\ AnswerSize <= UINT16_MAX
  /\ ArraySize \in Nat /\ MaxElements \in Nat /\ MaxWrites \in Nat
  /\ Types \cup ArrayTypes \subseteq DOMAIN SizeOf

VARIABLES
  phase,    \* who has the message
  writer,   \* the sender's stream
  items,    \* what the sender has written
  tries,    \* writes tried
  reader,   \* the server's stream
  got,      \* what the server has read, for each item
  answer,   \* the server's answer
  echoed    \* the items whose values are in it

streamVars == <<phase, writer, items, tries, reader, got, answer, echoed>>

CMD_LOGOUT == 12
CMD_LOGOUT_RESULT == 13

Kinds == {"value", "array", "string"}

StreamTypeOK ==
  /\ phase \in {"writing", "reading", "lost", "answering", "done"}
  /\ \A s \in {writer, reader, answer} :
       /\ s.write \in 0 .. nSize(s) /\ s.read \in 0 .. nSize(s)
       /\ \A k \in DOMAIN s.buff : s.buff[k].k <= s.buff[k].of
  /\ nSize(writer) = MessageSize /\ nSize(answer) = AnswerSize
  /\ \A j \in DOMAIN items : items[j].kind \in Kinds /\ items[j].values \in Seq(Nat)
  /\ tries \in 0 .. MaxWrites
  /\ got \in Seq(Seq(Int)) /\ Len(got) <= Len(items)
  /\ echoed \in Seq(Nat)

StreamInit ==
  /\ phase = "writing"
  /\ writer = setNetCmd(NewWriteStream(MessageSize), CMD_LOGOUT)
  /\ items = << >> /\ tries = 0
  /\ reader = NewStream(0) /\ got = << >>
  /\ answer = setNetCmd(NewWriteStream(AnswerSize), CMD_LOGOUT_RESULT) /\ echoed = << >>

(* An item written to a stream: a value, or an array or string (WriteArray,*)
(* CELLWriteStream::WriteString).                                          *)
WriteItem(s, item) ==
  IF item.kind = "value" THEN Write(s, item.type, item.values[1])
  ELSE WriteArray(s, item.type, item.values)

(* ... and read from one, into an array of len elements. *)
ReadItem(s, item, len) ==
  CASE item.kind = "value" -> LET r == Read(s, item.type, TRUE)
                              IN  [s |-> r.s, values |-> << r.value >>]
    [] item.kind = "array" -> ReadArray(s, item.type, len)
    [] item.kind = "string" -> ReadString(s)

Try(kind, type, values) ==
  LET item == [kind |-> kind, type |-> type, values |-> values]
      done == WriteItem(writer, item)
  IN  /\ phase = "writing" /\ tries < MaxWrites
      /\ tries' = tries + 1
      /\ writer' = done.s
      /\ items' = IF done.ok THEN Append(items, item) ELSE items
      /\ UNCHANGED <<phase, reader, got, answer, echoed>>

(* Each value written is a number of its own. *)
Number(k) == 100 * (tries + 1) + k

WriteValue(type) == Try("value", type, << Number(1) >>)

WriteElements(kind, type, n) == Try(kind, type, [k \in 1 .. n |-> Number(k)])

(* The message is finished, sent and received, and its length and command  *)
(* are read.                                                               *)
Send ==
  /\ phase = "writing"
  /\ writer' = finsh(writer)
  /\ reader' = getNetCmd(Read(NewReadStream(Message(writer')), "int16", TRUE).s).s
  /\ phase' = "reading"
  /\ UNCHANGED <<items, tries, got, answer, echoed>>

(* The reader gets no further: what it reads next it reads at the wrong    *)
(* place, which is not followed.                                           *)
Unreadable(item) ==
  \/ item.kind = "array" /\ Len(item.values) > ArraySize
  \/ item.kind = "string" /\ item.values = << >>

ReadNext ==
  /\ phase = "reading" /\ Len(got) < Len(items)
  /\ LET item == items[Len(got) + 1]
         r == ReadItem(reader, item, ArraySize)
     IN  /\ reader' = r.s
         /\ got' = Append(got, r.values)
         /\ phase' = IF Unreadable(item) THEN "lost" ELSE phase
  /\ UNCHANGED <<writer, items, tries, answer, echoed>>

AllRead ==
  /\ phase = "reading" /\ Len(got) = Len(items)
  /\ phase' = "answering" /\ tries' = 0
  /\ UNCHANGED <<writer, items, reader, got, answer, echoed>>

(* The answer gets what was read; tries counts the items. *)
Echo ==
  /\ phase = "answering" /\ tries < Len(items)
  /\ LET done == WriteItem(answer, [items[tries + 1] EXCEPT !.values = got[tries + 1]])
     IN  /\ answer' = done.s
         /\ echoed' = IF done.ok THEN Append(echoed, tries + 1) ELSE echoed
  /\ tries' = tries + 1
  /\ UNCHANGED <<phase, writer, items, reader, got>>

SendAnswer ==
  /\ phase = "answering" /\ tries = Len(items)
  /\ answer' = finsh(answer)
  /\ phase' = "done"
  /\ UNCHANGED <<writer, items, tries, reader, got, echoed>>

StreamNext ==
  \/ \E type \in Types : WriteValue(type)
  \/ \E type \in ArrayTypes, n \in 0 .. MaxElements : WriteElements("array", type, n)
  \/ \E n \in 0 .. MaxElements : WriteElements("string", "int8", n)
  \/ Send \/ ReadNext \/ AllRead \/ Echo \/ SendAnswer

StreamSpec == StreamInit /\ [][StreamNext]_streamVars

-----------------------------------------------------------------------------
(* What a client reads out of the answer, item by item. *)
ReadBack ==
  LET start == getNetCmd(Read(NewReadStream(Message(answer)), "int16", TRUE).s).s
      back[j \in 0 .. Len(echoed)] ==
        IF j = 0 THEN [s |-> start, values |-> << >>]
        ELSE LET r == ReadItem(back[j - 1].s, items[echoed[j]], MaxElements)
             IN  [s |-> r.s, values |-> Append(back[j - 1].values, r.values)]
  IN  back[Len(echoed)]

(* What one side has written the other reads, in the same order and        *)
(* entirely: each item that was accepted, and none of one that was         *)
(* refused; the length in front is the length of the message.  An array    *)
(* longer than the reader's, or an empty string, is read as nothing and    *)
(* leaves the reader where it is, which its caller cannot see; only then   *)
(* is it lost.  The answer has the items that fitted, and again they are   *)
(* read from it (CELLStream, CELLWriteStream::finsh, MyServer::OnNetMsg).  *)
StreamRoundTrip ==
  /\ \A j \in DOMAIN got :
       got[j] = IF phase = "lost" /\ j = Len(got) THEN << >> ELSE items[j].values
  /\ phase \in {"answering", "done"} => reader.read = writer.write
  /\ phase = "done" =>
       /\ ReadBack.s.read = answer.write
       /\ ReadBack.values = [j \in DOMAIN echoed |-> items[echoed[j]].values]
=============================================================================
