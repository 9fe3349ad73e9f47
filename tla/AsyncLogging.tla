----------------------------- MODULE AsyncLogging -----------------------------
(***************************************************************************)
(* depends/include/CELLAsyncLogging.*: threads append their lines to a     *)
(* buffer in memory, and the back end's thread exchanges buffers with them *)
(* and writes what it has got to the log files.  Two editions of it are in *)
(* the repository: "depends", which the server uses, and "HelloLogger",    *)
(* which throws buffers away when it gets too many at once.                *)
(*                                                                         *)
(* A std::unique_ptr to a buffer is a sequence with the buffer in it, or   *)
(* an empty one.  Each section under mutex_ is one step; wait_for has no   *)
(* predicate, so that notify_one and its timeout have the same effect.     *)
(***************************************************************************)
EXTENDS LogFile, FiniteSets

CONSTANTS Contents,    \* what the statements of the program shift in
          MaxLines,    \* lines logged
          MaxBuffers,  \* kBuffersToWriteMaxSize
          MaxTime      \* seconds that pass

ASSUME AsyncLimits ==
  MaxLines \in Nat /\ MaxBuffers \in Nat /\ 2 <= MaxBuffers /\ MaxTime \in Nat \ {0}

ASSUME ContentsArePieces == Contents \subseteq Seq(Piece)

VARIABLES
  edition,        \* which of the two classes
  running,        \* running_
  currentBuffer, nextBuffer, buffers,        \* under mutex_
  newBuffer1, newBuffer2, buffersToWrite,    \* the thread's own
  written,        \* how many of buffersToWrite the loop has written
  output,         \* the LogFile
  pc,             \* where the thread is
  proc,           \* what has become of the logger and the program
  now,            \* the clock, in seconds
  room,           \* whether the disk has room
  appended,       \* history: the lines appended, in order
  dropped         \* history: the lines that were thrown away

frontVars == <<currentBuffer, nextBuffer, buffers>>
backVars == <<newBuffer1, newBuffer2, buffersToWrite, written, output>>
vars == <<edition, running, frontVars, backVars, pc, proc, now, room, appended, dropped>>

Line == [id : 0 .. MaxLines, len : 1 .. SmallSize]
Pointer(T) == {p \in Seq(T) : Len(p) <= 1}

LogTypeOK ==
  /\ edition \in {"depends", "HelloLogger"}
  /\ running \in BOOLEAN /\ room \in BOOLEAN
  /\ \A p \in {currentBuffer, nextBuffer, newBuffer1, newBuffer2} :
       Len(p) <= 1 /\ p \in Seq(Seq(Line))
  /\ \A bs \in {currentBuffer, nextBuffer, buffers, newBuffer1, newBuffer2, buffersToWrite} :
       \A k \in DOMAIN bs : bs[k] \in Seq(Line) /\ length(bs[k]) < LargeSize
  /\ written \in 0 .. MaxLines + 1
  /\ pc \in {"none", "open", "test", "enter", "waiting", "write", "giveBack", "ended"}
  /\ proc \in {"up", "destroyed", "exited", "aborted", "undefined"}
  /\ now \in 1 .. MaxTime
  /\ \A f \in {output} : f.lastRoll <= now /\ f.startOfPeriod <= f.lastRoll
  /\ appended \in Seq(Line) /\ dropped \subseteq Line

(* The constructor.  The thread's variables have values when it starts.    *)
Init ==
  /\ edition \in {"depends", "HelloLogger"}
  /\ running = FALSE
  /\ currentBuffer = << << >> >> /\ nextBuffer = << << >> >> /\ buffers = << >>
  /\ newBuffer1 = << >> /\ newBuffer2 = << >> /\ buffersToWrite = << >> /\ written = 0
  /\ now = 1 /\ output = NewLogFile(1)
  /\ pc = "none" /\ proc = "up" /\ room = TRUE
  /\ appended = << >> /\ dropped = {}

-----------------------------------------------------------------------------
(* MUTANT: the full buffer is not handed over. *)
AppendToLosesFull(line) ==
  IF avail(currentBuffer[1], LargeSize) > line.len
  THEN /\ currentBuffer' = << append(currentBuffer[1], line, LargeSize) >>
       /\ UNCHANGED <<nextBuffer, buffers>>
  ELSE /\ currentBuffer' =
            << append(IF nextBuffer = << >> THEN << >> ELSE nextBuffer[1], line, LargeSize) >>
       /\ nextBuffer' = << >>
       /\ UNCHANGED buffers

(* append: into the current buffer; when that is full, into the next one,  *)
(* or a new one when there is none.                                        *)
AppendTo(line) ==
  IF avail(currentBuffer[1], LargeSize) > line.len
  THEN /\ currentBuffer' = << append(currentBuffer[1], line, LargeSize) >>
       /\ UNCHANGED <<nextBuffer, buffers>>
  ELSE /\ buffers' = buffers \o currentBuffer
       /\ currentBuffer' =
            << append(IF nextBuffer = << >> THEN << >> ELSE nextBuffer[1], line, LargeSize) >>
       /\ nextBuffer' = << >>

(* ~Logger sends its line to the output function, which appends it to the  *)
(* logger.  After a FATAL line it flushes the standard output and aborts:  *)
(* of what the files' buffers hold an arbitrary part has been written.     *)
Log(level, content) ==
  /\ proc = "up" /\ pc # "none"
  /\ Len(appended) < MaxLines /\ Logged(level)
  /\ IF WellDefined(content)
     THEN LET line == [id |-> Len(appended) + 1, len |-> LineLength(content)]
          IN  /\ AppendTo(line)
              /\ appended' = Append(appended, line)
              /\ IF level = "FATAL"
                 THEN /\ proc' = "aborted"
                      /\ \E n \in 0 .. Len(output.held) :
                           output' = [output EXCEPT !.disk = @ \o SubSeq(output.held, 1, n),
                                                    !.held = << >>]
                 ELSE UNCHANGED <<proc, output>>
     ELSE /\ proc' = "undefined"
          /\ UNCHANGED <<frontVars, output, appended>>
  /\ UNCHANGED <<edition, running, newBuffer1, newBuffer2, buffersToWrite, written, pc, now,
                 room, dropped>>

start ==
  /\ proc = "up" /\ pc = "none"
  /\ running' = TRUE
  /\ pc' = "open"
  /\ UNCHANGED <<edition, frontVars, backVars, proc, now, room, appended, dropped>>

(* stop clears the flag and does not wait for the thread. *)
stop ==
  /\ proc = "up" /\ running
  /\ running' = FALSE
  /\ UNCHANGED <<edition, frontVars, backVars, pc, proc, now, room, appended, dropped>>

(* The logger is a local variable of main: main returns, then the program  *)
(* exits, which closes its files.                                          *)
Destroy ==
  /\ proc = "up" /\ ~running /\ pc # "none"
  /\ proc' = "destroyed"
  /\ UNCHANGED <<edition, running, frontVars, backVars, pc, now, room, appended, dropped>>

Exit ==
  /\ proc = "destroyed"
  /\ proc' = "exited"
  /\ output' = flush(output)
  /\ UNCHANGED <<edition, running, frontVars, newBuffer1, newBuffer2, buffersToWrite, written,
                 pc, now, room, appended, dropped>>

-----------------------------------------------------------------------------
(* threadFunc *)

Thread(from, to) ==
  /\ proc \in {"up", "destroyed"}
  /\ pc = from /\ pc' = to
  /\ UNCHANGED <<edition, running, now, room, appended>>

(* A destroyed logger is used. *)
UsesDestroyed ==
  /\ proc = "destroyed" /\ pc \in {"open", "test", "enter", "waiting"}
  /\ proc' = "undefined"
  /\ UNCHANGED <<edition, running, frontVars, backVars, pc, now, room, appended, dropped>>

Open ==
  /\ Thread("open", "test") /\ proc = "up"
  /\ output' = NewLogFile(now)
  /\ newBuffer1' = << << >> >> /\ newBuffer2' = << << >> >>
  /\ UNCHANGED <<frontVars, buffersToWrite, written, proc, dropped>>

TestRunning ==
  /\ Thread("test", IF running THEN "enter" ELSE "ended") /\ proc = "up"
  /\ output' = IF running THEN output ELSE flush(output)
  /\ UNCHANGED <<frontVars, newBuffer1, newBuffer2, buffersToWrite, written, proc, dropped>>

(* MUTANT: the next buffer is replaced whether or not it is gone. *)
ExchangeAlways ==
  /\ buffersToWrite' = buffers \o currentBuffer
  /\ buffers' = buffersToWrite
  /\ currentBuffer' = newBuffer1 /\ newBuffer1' = << >>
  /\ nextBuffer' = newBuffer2 /\ newBuffer2' = << >>

(* The current buffer, full or not, and the full ones change places with   *)
(* the spare one and the empty vector; a missing next buffer is replaced.  *)
Exchange ==
  /\ buffersToWrite' = buffers \o currentBuffer
  /\ buffers' = buffersToWrite
  /\ currentBuffer' = newBuffer1 /\ newBuffer1' = << >>
  /\ IF nextBuffer = << >> THEN nextBuffer' = newBuffer2 /\ newBuffer2' = << >>
     ELSE UNCHANGED <<nextBuffer, newBuffer2>>

EnterEmpty ==
  /\ Thread("enter", "waiting") /\ proc = "up"
  /\ buffers = << >>
  /\ UNCHANGED <<frontVars, backVars, proc, dropped>>

EnterFull ==
  /\ Thread("enter", "write") /\ proc = "up"
  /\ buffers # << >>
  /\ Exchange
  /\ UNCHANGED <<written, output, proc, dropped>>

(* MUTANT: the wait is for a full buffer, without a timeout. *)
WakeWhenFull ==
  /\ Thread("waiting", "write") /\ proc = "up"
  /\ buffers # << >>
  /\ Exchange
  /\ UNCHANGED <<written, output, proc, dropped>>

(* Notified, timed out or for no reason. *)
Wake ==
  /\ Thread("waiting", "write") /\ proc = "up"
  /\ Exchange
  /\ UNCHANGED <<written, output, proc, dropped>>

TooMany == edition = "HelloLogger" /\ Len(buffersToWrite) > MaxBuffers

(* The other edition keeps only the first two of too many buffers and      *)
(* writes a line about it instead, which takes room as any line.           *)
Drop ==
  /\ Thread("write", "write") /\ TooMany /\ written = 0 /\ room
  /\ output' = appendInLock(output, << [id |-> 0, len |-> 1] >>, now)
  /\ buffersToWrite' = SubSeq(buffersToWrite, 1, 2)
  /\ dropped' = dropped \cup
       UNION {ToSet(buffersToWrite[k]) : k \in 3 .. Len(buffersToWrite)}
  /\ UNCHANGED <<frontVars, newBuffer1, newBuffer2, written, proc>>

(* FileUtil::append tries for ever: while the disk is full it does not     *)
(* return.                                                                 *)
WriteBuffer ==
  /\ Thread("write", "write") /\ ~TooMany /\ room
  /\ written < Len(buffersToWrite)
  /\ output' = appendInLock(output, buffersToWrite[written + 1], now)
  /\ written' = written + 1
  /\ UNCHANGED <<frontVars, newBuffer1, newBuffer2, buffersToWrite, proc, dropped>>

AllWritten ==
  /\ Thread("write", "giveBack")
  /\ written = Len(buffersToWrite)
  /\ UNCHANGED <<frontVars, backVars, proc, dropped>>

(* Of the written buffers at most two are kept; the last of them become    *)
(* the spare ones that are missing, emptied.  back() of an empty vector is *)
(* undefined.                                                              *)
GiveBack ==
  LET kept == SubSeq(buffersToWrite, 1, IF Len(buffersToWrite) > 2 THEN 2 ELSE Len(buffersToWrite))
      missing == (1 - Len(newBuffer1)) + (1 - Len(newBuffer2))
  IN  /\ Thread("giveBack", "test")
      /\ IF Len(kept) < missing
         THEN /\ proc' = "undefined"
              /\ UNCHANGED <<newBuffer1, newBuffer2>>
         ELSE /\ newBuffer1' = IF newBuffer1 = << >> THEN << << >> >> ELSE newBuffer1
              /\ newBuffer2' = IF newBuffer2 = << >> THEN << << >> >> ELSE newBuffer2
              /\ UNCHANGED proc
      /\ buffersToWrite' = << >>
      /\ written' = 0
      /\ output' = flush(output)
      /\ UNCHANGED <<frontVars, dropped>>

-----------------------------------------------------------------------------
(* The clock goes on, and the disk may run out of room for a while. *)
Tick ==
  /\ now < MaxTime /\ proc = "up"
  /\ now' = now + 1
  /\ UNCHANGED <<edition, running, frontVars, backVars, pc, proc, room, appended, dropped>>

DiskRoom ==
  /\ proc = "up" /\ pc = "write"
  /\ room' = ~room
  /\ UNCHANGED <<edition, running, frontVars, backVars, pc, proc, now, appended, dropped>>

BackEnd ==
  \/ UsesDestroyed \/ Open \/ TestRunning \/ EnterEmpty \/ EnterFull \/ Wake
  \/ Drop \/ WriteBuffer \/ AllWritten \/ GiveBack

Next ==
  \/ \E level \in ToSet(LogLevel), content \in Contents : Log(level, content)
  \/ start \/ stop \/ Destroy \/ Exit
  \/ BackEnd
  \/ Tick \/ DiskRoom

Spec == Init /\ [][Next]_vars
FairSpec == Spec /\ WF_vars(BackEnd)

-----------------------------------------------------------------------------
Flat(bs) == FlattenSeq(bs)

(* The lines in s that nobody has thrown away and that somebody logged.    *)
Kept(s) ==
  FoldLeft(LAMBDA kept, line : IF line.id = 0 \/ line \in dropped THEN kept
                               ELSE Append(kept, line),
           << >>, s)

(* Every line appended is, in the order of the appends, exactly once in    *)
(* the files, among the buffers being written, among the full ones or in   *)
(* the current one, whatever the threads exchange; only the other edition  *)
(* throws lines away.  So the files of a program that ends early have the  *)
(* first lines of its log, without a gap (AsyncLogging::append,            *)
(* threadFunc, LogFile::appendInLock, Logger::~Logger).                    *)
LinesInOrder ==
  /\ edition = "depends" => dropped = {}
  /\ proc # "undefined" =>
       LET inFiles == Kept(output.disk \o output.held)
           inMemory == Flat(SubSeq(buffersToWrite, written + 1, Len(buffersToWrite)))
                         \o Flat(buffers) \o Flat(currentBuffer)
       IN  IF proc = "aborted" THEN IsPrefix(inFiles, Kept(appended))
           ELSE inFiles \o Kept(inMemory) = Kept(appended)

(* The thread begins every round with two empty spare buffers, as the      *)
(* assertions of the other edition say, callers always find a current      *)
(* buffer, and when a spare one is missing there is a written buffer to    *)
(* take its place: also the second spare is only used when an append has   *)
(* filled a buffer (AsyncLogging::threadFunc).                             *)
SparesComeBack ==
  /\ Len(currentBuffer) = 1
  /\ pc \in {"test", "enter", "waiting"} /\ proc # "undefined" =>
       newBuffer1 = << << >> >> /\ newBuffer2 = << << >> >> /\ buffersToWrite = << >>
  /\ pc = "giveBack" =>
       Len(newBuffer1) + Len(newBuffer2) + Len(buffersToWrite) >= 2

(* Unless the logger is stopped, the program aborts or a statement was     *)
(* undefined, or the other edition throws it away, a line that has been    *)
(* appended is written to a file and flushed, also when nobody logs        *)
(* another one; provided the disk does not stay full (wait_for's timeout,  *)
(* FileUtil::append).                                                      *)
LinesReachFile ==
  <>[]room =>
    \A k \in 1 .. MaxLines :
      Len(appended) >= k ~>
        \/ \E line \in ToSet(output.disk) \cup dropped : line.id = k
        \/ ~running \/ proc # "up"
=============================================================================
