-------------------------------- MODULE LogFile --------------------------------
(***************************************************************************)
(* depends/include/CELLLogFile.cpp and CELLFileUtil.cpp: the log files.    *)
(* What has been written to a file waits in the buffer of the C library    *)
(* until it is flushed or the file is closed.  A new file is begun when    *)
(* the present one is over rollSize_, or when every checkEveryN_ buffers   *)
(* the day is found to have changed, unless it would get the name of the   *)
(* present one: the name has the time in seconds.                          *)
(***************************************************************************)
EXTENDS LogStream

CONSTANTS rollSize,       \* units after which a file is left
          checkEveryN,    \* buffers between two looks at the clock
          flushInterval,  \* AsyncLogging passes false, that is 0, for it
          RollPerSeconds  \* kRollPerSeconds_, a day

ASSUME LogFileLimits ==
  /\ rollSize \in Nat /\ checkEveryN \in Nat /\ flushInterval \in Nat
  /\ RollPerSeconds \in Nat \ {0}

(* FileUtil::flush, and closing a file. *)
flush(f) == [f EXCEPT !.disk = @ \o f.held, !.held = << >>]

(* FileUtil::append, when write has taken all of it. *)
append2file(f, lines) ==
  [f EXCEPT !.held = @ \o lines, !.writtenBytes = @ + length(lines)]

Period(now) == (now \div RollPerSeconds) * RollPerSeconds

rollFile(f, now) ==
  IF now > f.lastRoll
  THEN [flush(f) EXCEPT !.lastRoll = now, !.lastFlush = now, !.startOfPeriod = Period(now),
                        !.writtenBytes = 0]
  ELSE f

(* The constructor rolls to its first file. *)
NewLogFile(now) ==
  rollFile([disk |-> << >>, held |-> << >>, writtenBytes |-> 0, count |-> 0,
            startOfPeriod |-> 0, lastRoll |-> 0, lastFlush |-> 0], now)

appendInLock(f, lines, now) ==
  LET file == append2file(f, lines)
      counted == [file EXCEPT !.count = 0]
  IN  IF file.writtenBytes > rollSize THEN rollFile(file, now)
      ELSE IF file.count + 1 < checkEveryN THEN [file EXCEPT !.count = @ + 1]
      ELSE IF Period(now) # file.startOfPeriod THEN rollFile(counted, now)
      ELSE IF now - file.lastFlush > flushInterval THEN [flush(counted) EXCEPT !.lastFlush = now]
      ELSE counted
=============================================================================
