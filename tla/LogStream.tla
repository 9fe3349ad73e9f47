------------------------------- MODULE LogStream -------------------------------
(***************************************************************************)
(* depends/include/CELLFixedBuffer.h, CELLLogStream.cpp and CELLLogging.*: *)
(* how a log line is put together.  A Logger lives for one statement: its  *)
(* constructor writes the time and the level, the statement its pieces,    *)
(* and its destructor the file, the line number and the end of the line.   *)
(* A piece that does not fit is left out, and a later one that does is     *)
(* written behind the hole.                                                *)
(*                                                                         *)
(* A buffer is the sequence of what has been appended to it, each with its *)
(* length; the texts themselves are not represented.                       *)
(***************************************************************************)
EXTENDS Integers, Sequences, SequencesExt

CONSTANTS SmallSize,    \* kSmallBuffer, the buffer of one line
          LargeSize,    \* kLargeBuffer, the buffers of the back end
          NumericSize   \* kMaxNumericSize, the room a number must find

ASSUME LineFitsLargeBuffer ==
  /\ SmallSize \in Nat /\ LargeSize \in Nat /\ NumericSize \in Nat
  /\ 1 < NumericSize /\ NumericSize < SmallSize /\ SmallSize <= LargeSize

length(buf) == FoldLeft(LAMBDA n, part : n + part.len, 0, buf)

(* MUTANT: the end is taken to be one behind the last byte. *)
availOffByOne(buf, size) == size + 1 - length(buf)

avail(buf, size) == size - length(buf)

(* FixedBuffer::append: one byte must stay free. *)
append(buf, part, size) == IF avail(buf, size) > part.len THEN Append(buf, part) ELSE buf

-----------------------------------------------------------------------------
(* What a statement may shift into the stream: a text of some length, or a *)
(* number, which takes one unit but must find room for the longest one.    *)
Piece == [kind : {"text"}, len : 1 .. SmallSize] \cup [kind : {"integer", "double"}, len : {1}]

text(n) == [kind |-> "text", len |-> n]

(* formatInteger writes the digits from the last one on, with the sign, in *)
(* place, and turns them round.                                            *)
formatInteger(buf, part) ==
  IF avail(buf, SmallSize) >= NumericSize THEN Append(buf, part) ELSE buf

(* operator<< of the character types and strings, of the integers (shorter *)
(* ones become int or unsigned int first), and of double and float.        *)
Shift(buf, part) ==
  IF part.kind = "text" THEN append(buf, part, SmallSize) ELSE formatInteger(buf, part)

(* operator<<(double) returns nothing when there is no room: whatever is   *)
(* shifted next then goes anywhere.                                        *)
ReturnsStream(buf, part) == part.kind = "double" => avail(buf, SmallSize) >= NumericSize

(* Logger::Impl::Impl and formatTime. *)
Header == << text(1) >>

(* Logger::Impl::finish *)
finish == << text(1), [kind |-> "integer", len |-> 1], text(1) >>

Stream(pieces) == FoldLeft(Shift, << >>, pieces)

(* All the pieces of one statement, and whether it is well defined. *)
Pieces(content) == Header \o content \o finish

WellDefined(content) ==
  LET all == Pieces(content)
  IN  \A k \in DOMAIN all : ReturnsStream(Stream(SubSeq(all, 1, k - 1)), all[k])

LineLength(content) == length(Stream(Pieces(content)))

-----------------------------------------------------------------------------
(* enum LogLevel *)
LogLevel == <<"TRACE", "DEBUG", "INFO", "WARN", "ERROR", "FATAL">>

Rank(level) == CHOOSE k \in DOMAIN LogLevel : LogLevel[k] = level

(* The macros: two of them look at g_logLevel, which initLogLevel makes    *)
(* INFO; there is none for TRACE.                                          *)
g_logLevel == "INFO"

Logged(level) ==
  CASE level \in {"DEBUG", "INFO"} -> Rank(g_logLevel) <= Rank(level)
    [] level \in {"WARN", "ERROR", "FATAL"} -> TRUE
    [] OTHER -> FALSE
=============================================================================
