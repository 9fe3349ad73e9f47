------------------------------ MODULE CELLStream ------------------------------
(***************************************************************************)
(* depends/include/CELLStream.hpp and CELLMsgStream.hpp: values written    *)
(* one behind the other into a message and read out of it again.  The      *)
(* operators take a stream and return it with what the call returns.       *)
(*                                                                         *)
(* A stream is its bytes and its two positions.  A byte is the value it is *)
(* part of, a number, which of the value's bytes it is and of how many: a  *)
(* read gives back a value only if it finds all the bytes of one.          *)
(***************************************************************************)
EXTENDS Integers, Sequences, SequencesExt

Byte(value, k, size) == [value |-> value, k |-> k, of |-> size]

Bytes(value, size) == [k \in 1 .. size |-> Byte(value, k, size)]

(* What new char[] leaves in the memory. *)
Junk == Byte(-1, 0, 0)

(* sizeof *)
SizeOf == [int8 |-> 1, uint16 |-> 2, int16 |-> 2, uint32 |-> 4, int32 |-> 4, float |-> 4,
           double |-> 8]

NewStream(nSize) == [buff |-> [k \in 1 .. nSize |-> Junk], write |-> 0, read |-> 0]

nSize(s) == Len(s.buff)
canRead(s, n) == nSize(s) - s.read >= n
canWrite(s, n) == nSize(s) - s.write >= n
push(s, n) == [s EXCEPT !.write = @ + n]
pop(s, n) == [s EXCEPT !.read = @ + n]
setWritePos(s, n) == [s EXCEPT !.write = n]

(* memcpy to the write position and from the read position. *)
Put(s, bytes) ==
  push([s EXCEPT !.buff = [k \in DOMAIN @ |->
          IF k \in s.write + 1 .. s.write + Len(bytes) THEN bytes[k - s.write] ELSE @[k]]],
       Len(bytes))

Peek(s, n) == SubSeq(s.buff, s.read + 1, s.read + n)

(* The value that n bytes make; -1 when they are not one. *)
ValueOf(bytes) ==
  IF bytes = Bytes(bytes[1].value, Len(bytes)) THEN bytes[1].value ELSE -1

-----------------------------------------------------------------------------
(* Write<T>, and WriteInt8 to WriteDouble, which call it. *)
Write(s, type, value) ==
  LET bytes == Bytes(value, SizeOf[type])
  IN  IF canWrite(s, Len(bytes)) THEN [s |-> Put(s, bytes), ok |-> TRUE]
      ELSE [s |-> s, ok |-> FALSE]

(* WriteArray: the number of elements, then the elements, or nothing. *)
WriteArray(s, type, values) ==
  LET bytes == FlattenSeq([k \in DOMAIN values |-> Bytes(values[k], SizeOf[type])])
  IN  IF canWrite(s, Len(bytes) + SizeOf["uint32"])
      THEN [s |-> Put(Write(s, "uint32", Len(values)).s, bytes), ok |-> TRUE]
      ELSE [s |-> s, ok |-> FALSE]

(* Read<T>, and ReadInt8 to ReadDouble; onlyRead does not move on.  A read *)
(* that fails leaves the variable, which is 0 wherever it is called.       *)
Read(s, type, bOffset) ==
  LET n == SizeOf[type]
  IN  IF canRead(s, n)
      THEN [s |-> IF bOffset THEN pop(s, n) ELSE s, value |-> ValueOf(Peek(s, n)), ok |-> TRUE]
      ELSE [s |-> s, value |-> 0, ok |-> FALSE]

(* MUTANT: the count is not stepped over before the elements are read. *)
ReadArrayAtCount(s, type, len) ==
  LET len1 == Read(s, "uint32", FALSE).value
      n == SizeOf[type]
  IN  IF len1 <= len /\ canRead(s, len1 * n + SizeOf["uint32"])
      THEN [s |-> pop(s, len1 * n),
            values |-> [k \in 1 .. len1 |-> ValueOf(Peek(pop(s, (k - 1) * n), n))]]
      ELSE [s |-> s, values |-> << >>]

(* ReadArray into an array of len elements.  More elements than that, or   *)
(* more than there are bytes for, and nothing is read nor stepped over.    *)
ReadArray(s, type, len) ==
  LET len1 == Read(s, "uint32", FALSE).value
      n == SizeOf[type]
      t == pop(s, SizeOf["uint32"])
  IN  IF len1 <= len /\ canRead(s, len1 * n + SizeOf["uint32"])
      THEN [s |-> pop(t, len1 * n),
            values |-> [k \in 1 .. len1 |-> ValueOf(Peek(pop(t, (k - 1) * n), n))]]
      ELSE [s |-> s, values |-> << >>]

(* ReadString: an empty one is not stepped over. *)
ReadString(s) ==
  IF Read(s, "uint32", FALSE).value > 0 THEN ReadArray(s, "int8", nSize(s))
  ELSE [s |-> s, values |-> << >>]

-----------------------------------------------------------------------------
(* CELLWriteStream keeps room for the length of the message in front;      *)
(* setNetCmd follows.                                                      *)
NewWriteStream(n) == Write(NewStream(n), "uint16", 0).s

setNetCmd(s, cmd) == Write(s, "uint16", cmd).s

(* finsh writes it. *)
finsh(s) == setWritePos(Write(setWritePos(s, 0), "uint16", s.write).s, s.write)

(* What a message is when it arrives, and CELLReadStream, which takes its  *)
(* size from the length in front.                                          *)
Message(s) == SubSeq(s.buff, 1, s.write)

NewReadStream(message) ==
  LET dataLength == ValueOf(SubSeq(message, 1, 2))
  IN  [buff |-> SubSeq(message, 1, dataLength), write |-> dataLength, read |-> 0]

getNetCmd(s) == Read(s, "uint16", TRUE)
=============================================================================
