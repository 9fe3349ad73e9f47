------------------------- MODULE AsyncLogging_proofs -------------------------
(***************************************************************************)
(* Proofs about AsyncLogging, for any sizes of lines, buffers and files,   *)
(* any number of lines and any statements.                                 *)
(*                                                                         *)
(* First part: the two spare buffers of the back end always come back, and *)
(* back() is never taken of an empty vector.  This needs only the lengths  *)
(* of the buffers' vectors.                                                *)
(*                                                                         *)
(* Second part: the order of the lines, and that lines and buffers keep    *)
(* their sizes.  What is in the files followed by what is in memory is the *)
(* log, so every step is an equation of sequences; the lemmas before it    *)
(* say what the folds the model is written with (length, Stream, Kept,     *)
(* FlattenSeq) give for a longer sequence.                                 *)
(***************************************************************************)
EXTENDS AsyncLogging, SequenceTheorems, WellFoundedInduction, TLAPS

Sequence(s) == s \in Seq(Range(s))

Empty == << << >> >>

(* Callers always find a current buffer, and the next one is missing only  *)
(* when the current one has been handed over full.                         *)
FrontInv ==
  /\ Sequence(buffers)
  /\ Sequence(currentBuffer) /\ Len(currentBuffer) = 1
  /\ nextBuffer = << >> \/ (Sequence(nextBuffer) /\ Len(nextBuffer) = 1)
  /\ nextBuffer = << >> => Len(buffers) > 0

(* What the thread has: before it has opened its file nothing, between two *)
(* rounds two empty spare buffers, and within a round enough buffers to    *)
(* make two spare ones of.                                                 *)
BackInv ==
  /\ Sequence(buffersToWrite)
  /\ pc \in {"none", "open"} => buffersToWrite = << >>
  /\ pc \in {"test", "enter", "waiting"} =>
       newBuffer1 = Empty /\ newBuffer2 = Empty /\ buffersToWrite = << >>
  /\ pc \in {"write", "giveBack"} =>
       /\ newBuffer1 = << >> /\ newBuffer2 \in {<< >>, Empty}
       /\ Len(newBuffer2) + Len(buffersToWrite) >= 2
  /\ pc = "ended" => buffersToWrite = << >>

SpareInv == FrontInv /\ BackInv

-----------------------------------------------------------------------------
LEMMA EmptyIsSequence == Sequence(<< >>) /\ Len(<< >>) = 0
BY EmptySeq DEF Sequence

LEMMA OneIsSequence ==
  ASSUME NEW b PROVE Sequence(<< b >>) /\ Len(<< b >>) = 1
<1>1. << b >> \in Seq({b})  OBVIOUS
<1>2. QED  BY <1>1, SeqOfRange DEF Sequence

LEMMA JoinedSequence ==
  ASSUME NEW s, NEW t, Sequence(s), Sequence(t)
  PROVE  Sequence(s \o t) /\ Len(s \o t) = Len(s) + Len(t) /\ Len(s) \in Nat /\ Len(t) \in Nat
<1> DEFINE S == Range(s) \cup Range(t)
<1>1. s \in Seq(S) /\ t \in Seq(S)  BY SeqMonotonic DEF Sequence
<1>2. s \o t \in Seq(S) /\ Len(s \o t) = Len(s) + Len(t)  BY <1>1, ConcatProperties
<1>3. QED  BY <1>1, <1>2, SeqOfRange, LenProperties DEF Sequence

LEMMA FirstTwo ==
  ASSUME NEW s, Sequence(s), Len(s) >= 2
  PROVE  Sequence(SubSeq(s, 1, 2)) /\ Len(SubSeq(s, 1, 2)) = 2
<1>1. s \in Seq(Range(s)) /\ Len(s) \in Nat  BY LenProperties DEF Sequence
<1>2. SubSeq(s, 1, 2) \in Seq(Range(s)) /\ Len(SubSeq(s, 1, 2)) = 2
  BY <1>1, SubSeqProperties
<1>3. QED  BY <1>2, SeqOfRange DEF Sequence

LEMMA SparesInitially == Init => SpareInv
BY EmptyIsSequence, OneIsSequence DEF Init, SpareInv, FrontInv, BackInv

(* Who calls append: the front's buffers change, the thread's do not. *)
LEMMA AppendStep ==
  ASSUME FrontInv, NEW line, AppendTo(line)
  PROVE  FrontInv'
<1> USE DEF FrontInv, AppendTo
<1>1. CASE avail(currentBuffer[1], LargeSize) > line.len  BY <1>1, OneIsSequence
<1>2. CASE ~(avail(currentBuffer[1], LargeSize) > line.len)
  <2>1. Sequence(buffers \o currentBuffer) /\ Len(buffers \o currentBuffer) > 0
    BY JoinedSequence
  <2>2. Sequence(currentBuffer') /\ Len(currentBuffer') = 1  BY <1>2, OneIsSequence
  <2>3. QED  BY <1>2, <2>1, <2>2
<1>3. QED  BY <1>1, <1>2

LEMMA LogStep ==
  ASSUME SpareInv, NEW level, NEW content, Log(level, content)
  PROVE  SpareInv'
<1> USE DEF SpareInv
<1>1. BackInv'  BY DEF Log, BackInv
<1>2. FrontInv'
  <2>1. CASE WellDefined(content)
    <3>1. PICK line : AppendTo(line)  BY <2>1 DEF Log
    <3>2. QED  BY <3>1, AppendStep
  <2>2. CASE ~WellDefined(content)  BY <2>2 DEF Log, frontVars, FrontInv
  <2>3. QED  BY <2>1, <2>2
<1>3. QED  BY <1>1, <1>2

(* The exchange leaves the callers a current buffer, and the thread two    *)
(* buffers to make spare ones of.                                          *)
LEMMA ExchangeStep ==
  ASSUME SpareInv, Exchange, pc \in {"enter", "waiting"}, pc' = "write"
  PROVE  SpareInv'
<1> USE DEF SpareInv, FrontInv, BackInv, Exchange
<1>1. /\ Sequence(buffersToWrite')
      /\ Len(buffersToWrite') = Len(buffers) + 1 /\ Len(buffers) \in Nat
  BY JoinedSequence
<1>2. newBuffer1 = Empty /\ newBuffer2 = Empty /\ buffersToWrite = << >>  OBVIOUS
<1>3. Sequence(Empty) /\ Len(Empty) = 1 /\ Sequence(<< >>) /\ Len(<< >>) = 0 /\ Empty # << >>
  BY OneIsSequence, EmptyIsSequence DEF Empty
<1>4. CASE nextBuffer = << >>
  <2>1. newBuffer2' = << >> /\ nextBuffer' = Empty /\ Len(buffersToWrite') >= 2
    BY <1>1, <1>2, <1>4
  <2>2. FrontInv'  BY <1>2, <1>3, <2>1
  <2>3. BackInv'  BY <1>1, <1>3, <2>1
  <2>4. QED  BY <2>2, <2>3
<1>5. CASE nextBuffer # << >>
  <2>1. newBuffer2' = Empty /\ nextBuffer' = nextBuffer /\ Len(buffersToWrite') >= 1
    BY <1>1, <1>2, <1>5
  <2>2. FrontInv'  BY <1>2, <1>3, <1>5, <2>1
  <2>3. BackInv'  BY <1>1, <1>3, <2>1
  <2>4. QED  BY <2>2, <2>3
<1>6. QED  BY <1>4, <1>5

(* A round that throws buffers away keeps two. *)
LEMMA DropStep ==
  ASSUME SpareInv, Drop
  PROVE  SpareInv'
<1> USE DEF SpareInv, BackInv
<1>1. Len(buffersToWrite) \in Nat
  BY LenProperties DEF Sequence
<1>2. Len(buffersToWrite) >= 2
  BY <1>1, AsyncLimits DEF Drop, TooMany
<1>3. buffersToWrite' = SubSeq(buffersToWrite, 1, 2)  BY DEF Drop
<1>4. Sequence(buffersToWrite') /\ Len(buffersToWrite') = 2  BY <1>2, <1>3, FirstTwo
<1>5. pc = "write" /\ pc' = "write" /\ newBuffer1' = newBuffer1 /\ newBuffer2' = newBuffer2
  BY DEF Drop, Thread
<1>6. Len(newBuffer2) \in Nat  BY <1>5, OneIsSequence, EmptyIsSequence DEF Empty
<1>7. BackInv'  BY <1>4, <1>5, <1>6
<1>8. FrontInv'  BY DEF Drop, frontVars, FrontInv
<1>9. QED  BY <1>7, <1>8

(* At the end of a round both back() have a buffer to give. *)
LEMMA EnoughWritten ==
  ASSUME BackInv, pc = "giveBack",
         NEW kept, kept = SubSeq(buffersToWrite, 1,
                            IF Len(buffersToWrite) > 2 THEN 2 ELSE Len(buffersToWrite))
  PROVE  ~(Len(kept) < (1 - Len(newBuffer1)) + (1 - Len(newBuffer2)))
<1> USE DEF BackInv
<1>1. buffersToWrite \in Seq(Range(buffersToWrite)) /\ Len(buffersToWrite) \in Nat
  BY LenProperties DEF Sequence
<1>2. Len(newBuffer1) = 0 /\ Len(newBuffer2) \in {0, 1}
  BY OneIsSequence, EmptyIsSequence DEF Empty
<1>3. Len(kept) = IF Len(buffersToWrite) > 2 THEN 2 ELSE Len(buffersToWrite)
  <2> DEFINE n == IF Len(buffersToWrite) > 2 THEN 2 ELSE Len(buffersToWrite)
  <2>1. n \in 0 .. Len(buffersToWrite)  BY <1>1
  <2>2. \A i \in 1 .. n : buffersToWrite[i] \in Range(buffersToWrite)
    BY <1>1, <2>1, ElementOfSeq
  <2>3. Len(SubSeq(buffersToWrite, 1, n)) = IF 1 <= n THEN n - 1 + 1 ELSE 0
    <3> HIDE DEF n
    <3>1. QED  BY <2>1, <2>2, SubSeqProperties
  <2>4. QED  BY <2>1, <2>3
<1>4. QED  BY <1>1, <1>2, <1>3

LEMMA GiveBackStep ==
  ASSUME SpareInv, GiveBack
  PROVE  SpareInv' /\ proc' = proc
<1> USE DEF SpareInv, BackInv
<1>1. pc = "giveBack" /\ pc' = "test" /\ buffersToWrite' = << >>  BY DEF GiveBack, Thread
<1>2. ~(Len(SubSeq(buffersToWrite, 1,
                   IF Len(buffersToWrite) > 2 THEN 2 ELSE Len(buffersToWrite)))
          < (1 - Len(newBuffer1)) + (1 - Len(newBuffer2)))
  BY <1>1, EnoughWritten
<1>3. /\ newBuffer1' = IF newBuffer1 = << >> THEN << << >> >> ELSE newBuffer1
      /\ newBuffer2' = IF newBuffer2 = << >> THEN << << >> >> ELSE newBuffer2
      /\ proc' = proc
  BY <1>2 DEF GiveBack
<1>4. newBuffer1' = Empty /\ newBuffer2' = Empty  BY <1>1, <1>3 DEF Empty
<1>5. BackInv'  BY <1>1, <1>4, EmptyIsSequence
<1>6. FrontInv'  BY DEF GiveBack, frontVars, FrontInv
<1>7. QED  BY <1>3, <1>5, <1>6

LEMMA BackEndStep ==
  ASSUME SpareInv, BackEnd
  PROVE  SpareInv'
<1> USE DEF SpareInv
<1>1. CASE UsesDestroyed
  BY <1>1 DEF UsesDestroyed, frontVars, backVars, FrontInv, BackInv
<1>2. CASE Open
  <2>1. FrontInv'  BY <1>2 DEF Open, frontVars, FrontInv
  <2>2. BackInv'  BY <1>2 DEF Open, Thread, BackInv, Empty
  <2>3. QED  BY <2>1, <2>2
<1>3. CASE TestRunning
  <2>1. FrontInv'  BY <1>3 DEF TestRunning, frontVars, FrontInv
  <2>2. BackInv'  BY <1>3 DEF TestRunning, Thread, BackInv
  <2>3. QED  BY <2>1, <2>2
<1>4. CASE EnterEmpty
  <2>1. FrontInv'  BY <1>4 DEF EnterEmpty, frontVars, FrontInv
  <2>2. BackInv'  BY <1>4 DEF EnterEmpty, Thread, backVars, BackInv
  <2>3. QED  BY <2>1, <2>2
<1>5. CASE EnterFull  BY <1>5, ExchangeStep DEF EnterFull, Thread
<1>6. CASE Wake  BY <1>6, ExchangeStep DEF Wake, Thread
<1>7. CASE Drop  BY <1>7, DropStep
<1>8. CASE WriteBuffer
  <2>1. FrontInv'  BY <1>8 DEF WriteBuffer, frontVars, FrontInv
  <2>2. BackInv'  BY <1>8 DEF WriteBuffer, Thread, BackInv
  <2>3. QED  BY <2>1, <2>2
<1>9. CASE AllWritten
  <2>1. FrontInv'  BY <1>9 DEF AllWritten, frontVars, FrontInv
  <2>2. BackInv'  BY <1>9 DEF AllWritten, Thread, backVars, BackInv
  <2>3. QED  BY <2>1, <2>2
<1>10. CASE GiveBack  BY <1>10, GiveBackStep
<1>11. QED
  BY <1>1, <1>2, <1>3, <1>4, <1>5, <1>6, <1>7, <1>8, <1>9, <1>10 DEF BackEnd

LEMMA SparesStep == SpareInv /\ [Next]_vars => SpareInv'
<1> SUFFICES ASSUME SpareInv, [Next]_vars PROVE SpareInv'  OBVIOUS
<1> USE DEF SpareInv
<1>1. ASSUME NEW level, NEW content, Log(level, content)
      PROVE  SpareInv'
  BY <1>1, LogStep
<1>2. CASE start
  BY <1>2, EmptyIsSequence DEF start, frontVars, backVars, FrontInv, BackInv
<1>3. CASE stop  BY <1>3 DEF stop, frontVars, backVars, FrontInv, BackInv
<1>4. CASE Destroy  BY <1>4 DEF Destroy, frontVars, backVars, FrontInv, BackInv
<1>5. CASE Exit  BY <1>5 DEF Exit, frontVars, FrontInv, BackInv
<1>6. CASE BackEnd  BY <1>6, BackEndStep
<1>7. CASE Tick  BY <1>7 DEF Tick, frontVars, backVars, FrontInv, BackInv
<1>8. CASE DiskRoom  BY <1>8 DEF DiskRoom, frontVars, backVars, FrontInv, BackInv
<1>9. CASE UNCHANGED vars  BY <1>9 DEF vars, frontVars, backVars, FrontInv, BackInv
<1>10. QED
  BY <1>1, <1>2, <1>3, <1>4, <1>5, <1>6, <1>7, <1>8, <1>9 DEF Next

-----------------------------------------------------------------------------
(* The two spare buffers are there at the beginning of every round, with a *)
(* current buffer for the callers, and before they are given back there    *)
(* are buffers to make them of (AsyncLogging::threadFunc).                 *)
THEOREM SparesAlwaysComeBack == Spec => []SparesComeBack
<1>1. SpareInv => SparesComeBack
  <2> SUFFICES ASSUME SpareInv PROVE SparesComeBack  OBVIOUS
  <2> USE DEF SpareInv, FrontInv, BackInv
  <2>1. Len(buffersToWrite) \in Nat  BY LenProperties DEF Sequence
  <2>2. pc = "giveBack" => Len(newBuffer1) = 0 /\ Len(newBuffer2) \in {0, 1}
    BY OneIsSequence, EmptyIsSequence DEF Empty
  <2>3. pc = "giveBack" => Len(newBuffer1) + Len(newBuffer2) + Len(buffersToWrite) >= 2
    BY <2>1, <2>2
  <2>4. QED  BY <2>3 DEF SparesComeBack, Empty
<1>2. QED  BY <1>1, SparesInitially, SparesStep, PTL DEF Spec

(* At the end of a round neither back() is called on an empty vector: the  *)
(* step is never the undefined one (AsyncLogging::threadFunc).             *)
THEOREM BackIsNeverOfEmpty == Spec => [][GiveBack => proc' = proc]_vars
<1>1. SpareInv /\ [Next]_vars => [GiveBack => proc' = proc]_vars  BY GiveBackStep
<1>2. QED  BY <1>1, SparesInitially, SparesStep, PTL DEF Spec

-----------------------------------------------------------------------------
(* The second part: what the buffers, the thread and the files are, and    *)
(* the order of the lines.                                                 *)

(* A buffer of the back end: the last byte of it stays free. *)
Buffer == {b \in Seq(Line) : length(b) < LargeSize}

LogFileType ==
  [disk : Seq(Line), held : Seq(Line), writtenBytes : Nat, count : Nat,
   startOfPeriod : Nat, lastRoll : Nat, lastFlush : Nat]

(* The buffers and lines everywhere; each line appended fills one buffer   *)
(* at most.                                                                *)
StoreInv ==
  /\ currentBuffer \in Seq(Buffer) /\ nextBuffer \in {<< >>, Empty}
  /\ buffers \in Seq(Buffer) /\ Len(buffers) <= Len(appended)
  /\ newBuffer1 \in {<< >>, Empty} /\ newBuffer2 \in {<< >>, Empty}
  /\ buffersToWrite \in Seq(Buffer) /\ Len(buffersToWrite) <= MaxLines + 1
  /\ appended \in Seq(Line) /\ Len(appended) <= MaxLines
  /\ dropped \subseteq Line
  /\ edition = "depends" => dropped = {}

(* How far the thread is with the buffers it writes. *)
ThreadInv ==
  /\ edition \in {"depends", "HelloLogger"}
  /\ running \in BOOLEAN /\ room \in BOOLEAN
  /\ pc \in {"none", "open", "test", "enter", "waiting", "write", "giveBack", "ended"}
  /\ proc \in {"up", "destroyed", "exited", "aborted", "undefined"}
  /\ written \in 0 .. Len(buffersToWrite)
  /\ pc = "giveBack" => written = Len(buffersToWrite)

(* The files: when they were begun, and that nothing is in one before the  *)
(* thread has opened it.                                                   *)
FileOK(f, time) ==
  f \in LogFileType /\ f.lastRoll <= time /\ f.startOfPeriod <= f.lastRoll

FileInv ==
  /\ now \in 1 .. MaxTime
  /\ FileOK(output, now)
  /\ pc \in {"none", "open"} => output.disk = << >> /\ output.held = << >>

LinesOf(f) == f.disk \o f.held

InFiles == LinesOf(output)
ToWrite == SubSeq(buffersToWrite, written + 1, Len(buffersToWrite))
InMemory == Flat(ToWrite) \o Flat(buffers) \o Flat(currentBuffer)
Stored == InFiles \o InMemory

(* Kept, for any set of lines that were thrown away. *)
Keep(kept, line, D) == IF line.id = 0 \/ line \in D THEN kept ELSE Append(kept, line)

KeptOf(lines, D) == FoldLeft(LAMBDA kept, line : Keep(kept, line, D), << >>, lines)

(* What is in the files and then in memory is what was appended, without   *)
(* the lines that were thrown away; an abort leaves the beginning of it.   *)
OrderInv ==
  IF proc = "aborted"
  THEN IsPrefix(KeptOf(InFiles, dropped), KeptOf(appended, dropped))
  ELSE KeptOf(Stored, dropped) = KeptOf(appended, dropped)

LinesInv == StoreInv /\ ThreadInv /\ FileInv /\ OrderInv

LogInv == SpareInv /\ LinesInv

-----------------------------------------------------------------------------
(* Recursion along a sequence, without an operator parameter.              *)

(* A set of numbers with 0 and with the successor of each of its members   *)
(* has them all.                                                           *)
LEMMA AllNumbers ==
  ASSUME NEW T, 0 \in T, \A k \in Nat : k \in T => k + 1 \in T
  PROVE  \A n \in Nat : n \in T
<1> SUFFICES ASSUME Nat \ T # {} PROVE FALSE  OBVIOUS
<1>1. PICK x \in Nat \ T : \A y \in Nat \ T : <<y, x>> \notin OpToRel(<, Nat)
  <2>1. Nat \ T \in SUBSET Nat  OBVIOUS
  <2>2. QED  BY <2>1, NatLessThanWellFounded, WFMin
<1>2. x # 0 /\ x - 1 \in Nat /\ x - 1 < x  OBVIOUS
<1>3. x - 1 \in T  BY <1>1, <1>2 DEF OpToRel
<1>4. (x - 1) + 1 \in T  BY <1>2, <1>3
<1>5. QED  BY <1>4

(* Two functions that begin alike and go on alike are alike. *)
BeginAlike(f, g, n) ==
  /\ f[0] = g[0]
  /\ \A k \in 1 .. n : f[k - 1] = g[k - 1] => f[k] = g[k]

LEMMA SameRecursion ==
  ASSUME NEW n \in Nat, NEW f, NEW g, BeginAlike(f, g, n)
  PROVE  f[n] = g[n]
<1> DEFINE T == {k \in Nat : k <= n => f[k] = g[k]}
<1> USE DEF BeginAlike
<1>1. 0 \in T  OBVIOUS
<1>2. ASSUME NEW k \in Nat, k \in T PROVE k + 1 \in T
  <2>1. CASE k + 1 <= n
    <3>1. k + 1 \in 1 .. n /\ (k + 1) - 1 = k /\ k <= n  BY <2>1
    <3>2. f[k] = g[k]  BY <1>2, <3>1
    <3>3. f[k + 1] = g[k + 1]  BY <3>1, <3>2
    <3>4. QED  BY <3>3
  <2>2. CASE ~(k + 1 <= n)  BY <2>2
  <2>3. QED  BY <2>1, <2>2
<1>3. \A k \in Nat : k \in T
  <2> HIDE DEF T
  <2>1. QED  BY <1>1, <1>2, AllNumbers
<1>4. QED  BY <1>3

LEMMA Segment ==
  ASSUME NEW n \in Nat
  PROVE  /\ 1 .. 0 = {}
         /\ \A k \in 1 .. n : 1 .. k # {} /\ Max(1 .. k) = k /\ (1 .. k) \ {k} = 1 .. (k - 1)
         /\ \A k \in 0 .. n : 1 .. k \in SUBSET (1 .. n)
<1>1. ASSUME NEW k \in 1 .. n PROVE Max(1 .. k) = k
  <2>1. k \in 1 .. k /\ \A y \in 1 .. k : k >= y  OBVIOUS
  <2>2. \A x \in 1 .. k : (\A y \in 1 .. k : x >= y) => x = k
    <3> SUFFICES ASSUME NEW x \in 1 .. k, \A y \in 1 .. k : x >= y PROVE x = k  OBVIOUS
    <3>1. x >= k  BY <2>1
    <3>2. QED  BY <3>1
  <2>3. QED  BY <2>1, <2>2 DEF Max
<1>2. QED  BY <1>1

(* Every set of positions has a greatest one. *)
LEMMA Greatest ==
  ASSUME NEW n \in Nat
  PROVE  \A s \in SUBSET (1 .. n) : s # {} => Max(s) \in s /\ \A y \in s : Max(s) >= y
<1> DEFINE T == {k \in Nat : \A s \in SUBSET (1 .. k) : s # {} => \E x \in s : \A y \in s : x >= y}
<1>1. 0 \in T
  <2>1. \A s \in SUBSET (1 .. 0) : s = {}  OBVIOUS
  <2>2. QED  BY <2>1
<1>2. ASSUME NEW k \in Nat, k \in T PROVE k + 1 \in T
  <2> SUFFICES ASSUME NEW s \in SUBSET (1 .. k + 1), s # {}
               PROVE  \E x \in s : \A y \in s : x >= y
    OBVIOUS
  <2>1. CASE k + 1 \in s
    <3>1. \A y \in s : k + 1 >= y  OBVIOUS
    <3>2. QED  BY <2>1, <3>1
  <2>2. CASE k + 1 \notin s
    <3>1. s \in SUBSET (1 .. k)
      <4>1. ASSUME NEW y \in s PROVE y \in 1 .. k  BY <2>2
      <4>2. QED  BY <4>1
    <3>2. \A r \in SUBSET (1 .. k) : r # {} => \E x \in r : \A y \in r : x >= y
      BY <1>2
    <3>3. QED  BY <3>1, <3>2
  <2>3. QED  BY <2>1, <2>2
<1>3. \A k \in Nat : k \in T
  <2> HIDE DEF T
  <2>1. QED  BY <1>1, <1>2, AllNumbers
<1>4. \A s \in SUBSET (1 .. n) : s # {} => \E x \in s : \A y \in s : x >= y  BY <1>3
<1>5. QED  BY <1>4 DEF Max

(* The function by which the library defines a fold: step says how the     *)
(* value for the positions before one and that position give the next.     *)
IsFold(it, n, base, step) ==
  \A s \in SUBSET (1 .. n) :
    it[s] = IF s = {} THEN base ELSE step[<<it[s \ {Max(s)}], Max(s)>>]

(* It exists. *)
LEMMA FoldExists ==
  ASSUME NEW V, NEW base \in V, NEW n \in Nat, NEW step \in [V \X (1 .. n) -> V]
  PROVE  \E it \in [SUBSET (1 .. n) -> V] : IsFold(it, n, base, step)
<1> DEFINE Good(k, it) ==
             /\ it \in [SUBSET (1 .. k) -> V]
             /\ \A s \in SUBSET (1 .. k) :
                  it[s] = IF s = {} THEN base ELSE step[<<it[s \ {Max(s)}], Max(s)>>]
<1> DEFINE T == {k \in Nat : k <= n => \E it : Good(k, it)}
<1>1. 0 \in T
  <2> DEFINE it == [s \in SUBSET (1 .. 0) |-> base]
  <2>1. \A s \in SUBSET (1 .. 0) : s = {}  OBVIOUS
  <2>2. it \in [SUBSET (1 .. 0) -> V]  OBVIOUS
  <2>3. Good(0, it)  BY <2>1, <2>2
  <2>4. QED  BY <2>3
<1>2. ASSUME NEW k \in Nat, k \in T PROVE k + 1 \in T
  <2> HIDE DEF Good
  <2> SUFFICES ASSUME k + 1 <= n PROVE \E it : Good(k + 1, it)  OBVIOUS
  <2>1. PICK f : Good(k, f)  BY <1>2
  <2> USE DEF Good
  <2>2. f \in [SUBSET (1 .. k) -> V] /\ k + 1 \in 1 .. n  BY <2>1
  <2> DEFINE g == [s \in SUBSET (1 .. k + 1) |->
                    IF k + 1 \in s THEN step[<<f[s \ {k + 1}], k + 1>>] ELSE f[s]]
  <2>3. ASSUME NEW s \in SUBSET (1 .. k + 1)
        PROVE  /\ k + 1 \notin s => s \in SUBSET (1 .. k) /\ s \ {Max(s)} \in SUBSET (1 .. k)
               /\ k + 1 \in s => s \ {k + 1} \in SUBSET (1 .. k) /\ Max(s) = k + 1
    <3>1. s \ {k + 1} \in SUBSET (1 .. k)
      <4>1. ASSUME NEW y \in s \ {k + 1} PROVE y \in 1 .. k  OBVIOUS
      <4>2. QED  BY <4>1
    <3>2. CASE k + 1 \notin s
      <4>1. s \ {k + 1} = s  BY <3>2
      <4>2. QED  BY <3>1, <3>2, <4>1
    <3>3. CASE k + 1 \in s
      <4>1. k + 1 \in Nat  OBVIOUS
      <4>2. s # {}  BY <3>3
      <4>3. Max(s) \in s /\ \A y \in s : Max(s) >= y  BY <4>1, <4>2, Greatest
      <4>4. Max(s) >= k + 1 /\ Max(s) \in 1 .. k + 1  BY <3>3, <4>3
      <4>5. Max(s) = k + 1  BY <4>4
      <4>6. QED  BY <3>1, <3>3, <4>5
    <3>4. QED  BY <3>2, <3>3
  <2>4. ASSUME NEW s \in SUBSET (1 .. k + 1) PROVE g[s] \in V
    <3>1. CASE k + 1 \in s
      <4>1. f[s \ {k + 1}] \in V  BY <2>2, <2>3, <3>1
      <4>2. <<f[s \ {k + 1}], k + 1>> \in V \X (1 .. n)  BY <2>2, <4>1
      <4>3. QED  BY <3>1, <4>2
    <3>2. CASE k + 1 \notin s  BY <2>2, <2>3, <3>2
    <3>3. QED  BY <3>1, <3>2
  <2>5. g \in [SUBSET (1 .. k + 1) -> V]  BY <2>4
  <2>6. ASSUME NEW s \in SUBSET (1 .. k + 1)
        PROVE  g[s] = IF s = {} THEN base ELSE step[<<g[s \ {Max(s)}], Max(s)>>]
    <3>1. CASE k + 1 \in s
      <4>1. Max(s) = k + 1 /\ s \ {k + 1} \in SUBSET (1 .. k + 1)  BY <2>3, <3>1
      <4>2. g[s \ {k + 1}] = f[s \ {k + 1}]  BY <4>1
      <4>3. g[s] = step[<<f[s \ {k + 1}], k + 1>>]  BY <3>1
      <4>4. QED  BY <3>1, <4>1, <4>2, <4>3
    <3>2. CASE k + 1 \notin s
      <4>1. s \in SUBSET (1 .. k) /\ g[s] = f[s]  BY <2>3, <3>2
      <4>2. f[s] = IF s = {} THEN base ELSE step[<<f[s \ {Max(s)}], Max(s)>>]
        BY <2>1, <4>1
      <4>3. s \ {Max(s)} \in SUBSET (1 .. k + 1) /\ k + 1 \notin s \ {Max(s)}  BY <3>2
      <4>4. g[s \ {Max(s)}] = f[s \ {Max(s)}]  BY <4>3
      <4>5. QED  BY <4>1, <4>2, <4>4
    <3>3. QED  BY <3>1, <3>2
  <2>7. Good(k + 1, g)
    <3> HIDE DEF g
    <3>1. QED  BY <2>5, <2>6
  <2>8. QED
    <3> HIDE DEF Good, g
    <3>1. QED  BY <2>7
<1>3. \A k \in Nat : k \in T
  <2> HIDE DEF T
  <2>1. QED  BY <1>1, <1>2, AllNumbers
<1>4. PICK it : Good(n, it)
  <2>1. n \in T  BY <1>3
  <2> HIDE DEF Good
  <2>2. QED  BY <2>1
<1>5. QED  BY <1>4 DEF IsFold

(* The values it has for the first positions, one by one. *)
Along(f, n, V, base, step) ==
  /\ f \in [0 .. n -> V] /\ f[0] = base
  /\ \A k \in 1 .. n : f[k] = step[<<f[k - 1], k>>]

GoesBy(g, n, V, base, step) ==
  /\ g[{}] = base
  /\ \A s \in SUBSET (1 .. n) :
       s # {} /\ Max(s) \in s /\ g[s \ {Max(s)}] \in V
         => g[s] = step[<<g[s \ {Max(s)}], Max(s)>>]

Folded(g, n, V, base, step) ==
  \E f : Along(f, n, V, base, step) /\ g[1 .. n] = f[n]

LEMMA FoldAlong ==
  ASSUME NEW V, NEW base \in V, NEW n \in Nat, NEW step \in [V \X (1 .. n) -> V],
         NEW g, GoesBy(g, n, V, base, step)
  PROVE  Folded(g, n, V, base, step)
<1> DEFINE T == {k \in Nat : k <= n => g[1 .. k] \in V}
<1>1. ASSUME NEW k \in 1 .. n, g[1 .. (k - 1)] \in V
      PROVE  g[1 .. k] = step[<<g[1 .. (k - 1)], k>>] /\ g[1 .. k] \in V
  <2>1. 1 .. k \in SUBSET (1 .. n) /\ 1 .. k # {} /\ Max(1 .. k) = k
        /\ (1 .. k) \ {k} = 1 .. (k - 1) /\ k \in 1 .. k
    BY Segment
  <2>2. g[1 .. k] = step[<<g[1 .. (k - 1)], k>>]  BY <1>1, <2>1 DEF GoesBy
  <2>3. <<g[1 .. (k - 1)], k>> \in V \X (1 .. n)  BY <1>1
  <2>4. QED  BY <2>2, <2>3
<1>2. 1 .. 0 = {}  OBVIOUS
<1>3. 0 \in T  BY <1>2 DEF GoesBy
<1>4. ASSUME NEW k \in Nat, k \in T PROVE k + 1 \in T
  <2> SUFFICES ASSUME k + 1 <= n PROVE g[1 .. (k + 1)] \in V  OBVIOUS
  <2>1. k + 1 \in 1 .. n /\ (k + 1) - 1 = k /\ g[1 .. k] \in V  BY <1>4
  <2>2. QED  BY <1>1, <2>1
<1>5. \A k \in Nat : k \in T
  <2> HIDE DEF T
  <2>1. QED  BY <1>3, <1>4, AllNumbers
<1>6. \A k \in 0 .. n : g[1 .. k] \in V  BY <1>5
<1> DEFINE f == [k \in 0 .. n |-> g[1 .. k]]
<1>7. f \in [0 .. n -> V]  BY <1>6
<1>8. f[0] = base  BY <1>2 DEF GoesBy
<1>9. ASSUME NEW k \in 1 .. n PROVE f[k] = step[<<f[k - 1], k>>]
  <2>1. k - 1 \in 0 .. n /\ k \in 0 .. n  OBVIOUS
  <2>2. g[1 .. (k - 1)] \in V  BY <1>6, <2>1
  <2>3. g[1 .. k] = step[<<g[1 .. (k - 1)], k>>]  BY <1>1, <2>2
  <2>4. QED  BY <2>1, <2>3
<1>10. f[n] = g[1 .. n]  OBVIOUS
<1>11. Along(f, n, V, base, step)
  <2> HIDE DEF f
  <2>1. QED  BY <1>7, <1>8, <1>9 DEF Along
<1>12. QED
  <2> HIDE DEF f
  <2>1. QED  BY <1>10, <1>11 DEF Folded

(* What length, Stream and Kept compute, position by position. *)
LengthSteps(f, buf, n) ==
  /\ f \in [0 .. n -> Nat] /\ f[0] = 0
  /\ \A k \in 1 .. n : f[k] = f[k - 1] + buf[k].len
  /\ length(buf) = f[n]

LEMMA LengthFold ==
  ASSUME NEW buf, NEW n \in Nat, DOMAIN buf = 1 .. n, \A k \in 1 .. n : buf[k].len \in Nat
  PROVE  \E f : LengthSteps(f, buf, n)
<1> DEFINE step == [p \in Nat \X (1 .. n) |-> p[1] + buf[p[2]].len]
<1> DEFINE Body(it) == [s \in SUBSET DOMAIN buf |->
                         IF s = {} THEN 0 ELSE it[s \ {Max(s)}] + buf[Max(s)].len]
<1> DEFINE g == CHOOSE h : h = Body(h)
<1>1. ASSUME NEW v \in Nat, NEW k \in 1 .. n
      PROVE  /\ <<v, k>> \in Nat \X (1 .. n) /\ v + buf[k].len \in Nat
             /\ step[<<v, k>>] = v + buf[k].len
  <2>1. <<v, k>> \in Nat \X (1 .. n)  OBVIOUS
  <2>2. buf[k].len \in Nat  OBVIOUS
  <2>3. QED  BY <2>1, <2>2
<1>2. step \in [Nat \X (1 .. n) -> Nat]
  <2>1. ASSUME NEW p \in Nat \X (1 .. n) PROVE p[1] + buf[p[2]].len \in Nat
    <3>1. p[1] \in Nat /\ p[2] \in 1 .. n  OBVIOUS
    <3>2. QED  BY <1>1, <3>1
  <2>2. QED  BY <2>1
<1>3. \E it : it = Body(it)
  <2>1. PICK it \in [SUBSET (1 .. n) -> Nat] : IsFold(it, n, 0, step)
    <3> HIDE DEF step
    <3>1. 0 \in Nat  OBVIOUS
    <3>2. QED  BY <1>2, <3>1, FoldExists
  <2>2. ASSUME NEW s \in SUBSET (1 .. n)
        PROVE  it[s] = IF s = {} THEN 0 ELSE it[s \ {Max(s)}] + buf[Max(s)].len
    <3>1. CASE s = {}  BY <2>1, <3>1 DEF IsFold
    <3>2. CASE s # {}
      <4> HIDE DEF step
      <4>1. Max(s) \in 1 .. n /\ s \ {Max(s)} \in SUBSET (1 .. n)  BY <3>2, Greatest
      <4>2. it[s \ {Max(s)}] \in Nat  BY <2>1, <4>1
      <4>3. step[<<it[s \ {Max(s)}], Max(s)>>] = it[s \ {Max(s)}] + buf[Max(s)].len
        BY <1>1, <4>1, <4>2
      <4>4. QED  BY <2>1, <3>2, <4>3 DEF IsFold
    <3>3. QED  BY <3>1, <3>2
  <2>3. it = [s \in SUBSET (1 .. n) |-> it[s]]  BY <2>1
  <2>4. it = Body(it)  BY <2>2, <2>3
  <2>5. QED  BY <2>4
<1>4. g = Body(g)
  <2> HIDE DEF Body
  <2>1. QED  BY <1>3
<1>5. length(buf) = g[1 .. n]
  <2>1. length(buf) = g[DOMAIN buf]  BY DEF length, FoldLeft, MapThenFoldSet
  <2>2. QED  BY <2>1
<1>6. PICK f : Along(f, n, Nat, 0, step) /\ g[1 .. n] = f[n]
  <2> HIDE DEF g
  <2>1. g[{}] = 0  BY <1>4
  <2>2. ASSUME NEW s \in SUBSET (1 .. n), s # {}, Max(s) \in s, g[s \ {Max(s)}] \in Nat
        PROVE  g[s] = step[<<g[s \ {Max(s)}], Max(s)>>]
    <3>1. g[s] = g[s \ {Max(s)}] + buf[Max(s)].len  BY <1>4, <2>2
    <3>2. Max(s) \in 1 .. n  BY <2>2
    <3> HIDE DEF step
    <3>3. QED  BY <1>1, <2>2, <3>1, <3>2
  <2> HIDE DEF step
  <2>3. GoesBy(g, n, Nat, 0, step)  BY <2>1, <2>2 DEF GoesBy
  <2>4. 0 \in Nat  OBVIOUS
  <2>5. Folded(g, n, Nat, 0, step)  BY <1>2, <2>3, <2>4, FoldAlong
  <2>6. QED  BY <2>5 DEF Folded
<1>7. f \in [0 .. n -> Nat] /\ f[0] = 0  BY <1>6 DEF Along
<1>8. ASSUME NEW k \in 1 .. n PROVE f[k] = f[k - 1] + buf[k].len
  <2> HIDE DEF step
  <2>1. f[k - 1] \in Nat  BY <1>7
  <2>2. f[k] = step[<<f[k - 1], k>>]  BY <1>6 DEF Along
  <2>3. QED  BY <1>1, <2>1, <2>2
<1>9. QED  BY <1>5, <1>6, <1>7, <1>8 DEF LengthSteps

StreamSteps(f, pieces, n) ==
  /\ f \in [0 .. n -> Seq(Piece)] /\ f[0] = << >>
  /\ \A k \in 1 .. n : f[k] = Shift(f[k - 1], pieces[k])
  /\ Stream(pieces) = f[n]

LEMMA StreamFold ==
  ASSUME NEW pieces, NEW n \in Nat, DOMAIN pieces = 1 .. n, \A k \in 1 .. n : pieces[k] \in Piece
  PROVE  \E f : StreamSteps(f, pieces, n)
<1> DEFINE step == [p \in Seq(Piece) \X (1 .. n) |-> Shift(p[1], pieces[p[2]])]
<1> DEFINE Body(it) == [s \in SUBSET DOMAIN pieces |->
                         IF s = {} THEN << >> ELSE Shift(it[s \ {Max(s)}], pieces[Max(s)])]
<1> DEFINE g == CHOOSE h : h = Body(h)
<1>1. ASSUME NEW v \in Seq(Piece), NEW k \in 1 .. n
      PROVE  /\ <<v, k>> \in Seq(Piece) \X (1 .. n) /\ Shift(v, pieces[k]) \in Seq(Piece)
             /\ step[<<v, k>>] = Shift(v, pieces[k])
  <2>1. <<v, k>> \in Seq(Piece) \X (1 .. n)  OBVIOUS
  <2>2. Shift(v, pieces[k]) \in Seq(Piece)  BY AppendProperties DEF Shift, append, formatInteger
  <2>3. QED  BY <2>1, <2>2
<1>2. step \in [Seq(Piece) \X (1 .. n) -> Seq(Piece)]
  <2>1. ASSUME NEW p \in Seq(Piece) \X (1 .. n) PROVE Shift(p[1], pieces[p[2]]) \in Seq(Piece)
    <3>1. p[1] \in Seq(Piece) /\ p[2] \in 1 .. n  OBVIOUS
    <3>2. QED  BY <1>1, <3>1
  <2>2. QED  BY <2>1
<1>3. \E it : it = Body(it)
  <2>1. PICK it \in [SUBSET (1 .. n) -> Seq(Piece)] : IsFold(it, n, << >>, step)
    <3> HIDE DEF step
    <3>1. << >> \in Seq(Piece)  BY EmptySeq
    <3>2. QED  BY <1>2, <3>1, FoldExists
  <2>2. ASSUME NEW s \in SUBSET (1 .. n)
        PROVE  it[s] = IF s = {} THEN << >> ELSE Shift(it[s \ {Max(s)}], pieces[Max(s)])
    <3>1. CASE s = {}  BY <2>1, <3>1 DEF IsFold
    <3>2. CASE s # {}
      <4> HIDE DEF step
      <4>1. Max(s) \in 1 .. n /\ s \ {Max(s)} \in SUBSET (1 .. n)  BY <3>2, Greatest
      <4>2. it[s \ {Max(s)}] \in Seq(Piece)  BY <2>1, <4>1
      <4>3. step[<<it[s \ {Max(s)}], Max(s)>>] = Shift(it[s \ {Max(s)}], pieces[Max(s)])
        BY <1>1, <4>1, <4>2
      <4>4. QED  BY <2>1, <3>2, <4>3 DEF IsFold
    <3>3. QED  BY <3>1, <3>2
  <2>3. it = [s \in SUBSET (1 .. n) |-> it[s]]  BY <2>1
  <2>4. it = Body(it)  BY <2>2, <2>3
  <2>5. QED  BY <2>4
<1>4. g = Body(g)
  <2> HIDE DEF Body
  <2>1. QED  BY <1>3
<1>5. Stream(pieces) = g[1 .. n]
  <2>1. Stream(pieces) = g[DOMAIN pieces]  BY DEF Stream, FoldLeft, MapThenFoldSet
  <2>2. QED  BY <2>1
<1>6. PICK f : Along(f, n, Seq(Piece), << >>, step) /\ g[1 .. n] = f[n]
  <2> HIDE DEF g
  <2>1. g[{}] = << >>  BY <1>4
  <2>2. ASSUME NEW s \in SUBSET (1 .. n), s # {}, Max(s) \in s, g[s \ {Max(s)}] \in Seq(Piece)
        PROVE  g[s] = step[<<g[s \ {Max(s)}], Max(s)>>]
    <3>1. g[s] = Shift(g[s \ {Max(s)}], pieces[Max(s)])  BY <1>4, <2>2
    <3>2. Max(s) \in 1 .. n  BY <2>2
    <3> HIDE DEF step
    <3>3. QED  BY <1>1, <2>2, <3>1, <3>2
  <2> HIDE DEF step
  <2>3. GoesBy(g, n, Seq(Piece), << >>, step)  BY <2>1, <2>2 DEF GoesBy
  <2>4. << >> \in Seq(Piece)  BY EmptySeq
  <2>5. Folded(g, n, Seq(Piece), << >>, step)  BY <1>2, <2>3, <2>4, FoldAlong
  <2>6. QED  BY <2>5 DEF Folded
<1>7. f \in [0 .. n -> Seq(Piece)] /\ f[0] = << >>  BY <1>6 DEF Along
<1>8. ASSUME NEW k \in 1 .. n PROVE f[k] = Shift(f[k - 1], pieces[k])
  <2> HIDE DEF step
  <2>1. f[k - 1] \in Seq(Piece)  BY <1>7
  <2>2. f[k] = step[<<f[k - 1], k>>]  BY <1>6 DEF Along
  <2>3. QED  BY <1>1, <2>1, <2>2
<1>9. QED  BY <1>5, <1>6, <1>7, <1>8 DEF StreamSteps

KeptSteps(f, lines, n, D) ==
  /\ f \in [0 .. n -> Seq(Line)] /\ f[0] = << >>
  /\ \A k \in 1 .. n : f[k] = Keep(f[k - 1], lines[k], D)
  /\ KeptOf(lines, D) = f[n]

LEMMA KeptFold ==
  ASSUME NEW D, NEW lines, NEW n \in Nat, DOMAIN lines = 1 .. n,
         \A k \in 1 .. n : lines[k] \in Line
  PROVE  \E f : KeptSteps(f, lines, n, D)
<1> DEFINE step == [p \in Seq(Line) \X (1 .. n) |-> Keep(p[1], lines[p[2]], D)]
<1> DEFINE Body(it) == [s \in SUBSET DOMAIN lines |->
                         IF s = {} THEN << >> ELSE Keep(it[s \ {Max(s)}], lines[Max(s)], D)]
<1> DEFINE g == CHOOSE h : h = Body(h)
<1>1. ASSUME NEW v \in Seq(Line), NEW k \in 1 .. n
      PROVE  /\ <<v, k>> \in Seq(Line) \X (1 .. n) /\ Keep(v, lines[k], D) \in Seq(Line)
             /\ step[<<v, k>>] = Keep(v, lines[k], D)
  <2>1. <<v, k>> \in Seq(Line) \X (1 .. n)  OBVIOUS
  <2>2. Keep(v, lines[k], D) \in Seq(Line)  BY AppendProperties DEF Keep
  <2>3. QED  BY <2>1, <2>2
<1>2. step \in [Seq(Line) \X (1 .. n) -> Seq(Line)]
  <2>1. ASSUME NEW p \in Seq(Line) \X (1 .. n) PROVE Keep(p[1], lines[p[2]], D) \in Seq(Line)
    <3>1. p[1] \in Seq(Line) /\ p[2] \in 1 .. n  OBVIOUS
    <3>2. QED  BY <1>1, <3>1
  <2>2. QED  BY <2>1
<1>3. \E it : it = Body(it)
  <2>1. PICK it \in [SUBSET (1 .. n) -> Seq(Line)] : IsFold(it, n, << >>, step)
    <3> HIDE DEF step
    <3>1. << >> \in Seq(Line)  BY EmptySeq
    <3>2. QED  BY <1>2, <3>1, FoldExists
  <2>2. ASSUME NEW s \in SUBSET (1 .. n)
        PROVE  it[s] = IF s = {} THEN << >> ELSE Keep(it[s \ {Max(s)}], lines[Max(s)], D)
    <3>1. CASE s = {}  BY <2>1, <3>1 DEF IsFold
    <3>2. CASE s # {}
      <4> HIDE DEF step
      <4>1. Max(s) \in 1 .. n /\ s \ {Max(s)} \in SUBSET (1 .. n)  BY <3>2, Greatest
      <4>2. it[s \ {Max(s)}] \in Seq(Line)  BY <2>1, <4>1
      <4>3. step[<<it[s \ {Max(s)}], Max(s)>>] = Keep(it[s \ {Max(s)}], lines[Max(s)], D)
        BY <1>1, <4>1, <4>2
      <4>4. QED  BY <2>1, <3>2, <4>3 DEF IsFold
    <3>3. QED  BY <3>1, <3>2
  <2>3. it = [s \in SUBSET (1 .. n) |-> it[s]]  BY <2>1
  <2>4. it = Body(it)  BY <2>2, <2>3
  <2>5. QED  BY <2>4
<1>4. g = Body(g)
  <2> HIDE DEF Body
  <2>1. QED  BY <1>3
<1>5. KeptOf(lines, D) = g[1 .. n]
  <2>1. KeptOf(lines, D) = g[DOMAIN lines]  BY DEF KeptOf, Keep, FoldLeft, MapThenFoldSet
  <2>2. QED  BY <2>1
<1>6. PICK f : Along(f, n, Seq(Line), << >>, step) /\ g[1 .. n] = f[n]
  <2> HIDE DEF g
  <2>1. g[{}] = << >>  BY <1>4
  <2>2. ASSUME NEW s \in SUBSET (1 .. n), s # {}, Max(s) \in s, g[s \ {Max(s)}] \in Seq(Line)
        PROVE  g[s] = step[<<g[s \ {Max(s)}], Max(s)>>]
    <3>1. g[s] = Keep(g[s \ {Max(s)}], lines[Max(s)], D)  BY <1>4, <2>2
    <3>2. Max(s) \in 1 .. n  BY <2>2
    <3> HIDE DEF step
    <3>3. QED  BY <1>1, <2>2, <3>1, <3>2
  <2> HIDE DEF step
  <2>3. GoesBy(g, n, Seq(Line), << >>, step)  BY <2>1, <2>2 DEF GoesBy
  <2>4. << >> \in Seq(Line)  BY EmptySeq
  <2>5. Folded(g, n, Seq(Line), << >>, step)  BY <1>2, <2>3, <2>4, FoldAlong
  <2>6. QED  BY <2>5 DEF Folded
<1>7. f \in [0 .. n -> Seq(Line)] /\ f[0] = << >>  BY <1>6 DEF Along
<1>8. ASSUME NEW k \in 1 .. n PROVE f[k] = Keep(f[k - 1], lines[k], D)
  <2> HIDE DEF step
  <2>1. f[k - 1] \in Seq(Line)  BY <1>7
  <2>2. f[k] = step[<<f[k - 1], k>>]  BY <1>6 DEF Along
  <2>3. QED  BY <1>1, <2>1, <2>2
<1>9. QED  BY <1>5, <1>6, <1>7, <1>8 DEF KeptSteps

(* FlattenSeq *)
FlatSteps(f, bs, T) ==
  /\ f \in [0 .. Len(bs) -> Seq(T)] /\ f[0] = << >>
  /\ \A k \in 1 .. Len(bs) : f[k] = f[k - 1] \o bs[k]
  /\ Flat(bs) = f[Len(bs)]

LEMMA FlatFold ==
  ASSUME NEW T, NEW bs \in Seq(Seq(T))
  PROVE  \E f : FlatSteps(f, bs, T)
<1> DEFINE n == Len(bs)
           S == Seq(T)
           step == [p \in S \X (1 .. n) |-> p[1] \o bs[p[2]]]
           Body(w) == [i \in 1 .. n |-> IF i = 1 THEN bs[i] ELSE w[i - 1] \o bs[i]]
           w == CHOOSE h : h = Body(h)
<1>1. n \in Nat /\ DOMAIN bs = 1 .. n /\ \A k \in 1 .. n : bs[k] \in S
  BY LenProperties, ElementOfSeq
<1>2. ASSUME NEW v \in S, NEW k \in 1 .. n
      PROVE  /\ <<v, k>> \in S \X (1 .. n) /\ v \o bs[k] \in S
             /\ step[<<v, k>>] = v \o bs[k]
  <2>1. <<v, k>> \in S \X (1 .. n)  OBVIOUS
  <2>2. v \o bs[k] \in S  BY <1>1, ConcatProperties
  <2>3. QED  BY <2>1, <2>2
<1>3. step \in [S \X (1 .. n) -> S]
  <2>1. ASSUME NEW p \in S \X (1 .. n) PROVE p[1] \o bs[p[2]] \in S
    <3>1. p[1] \in S /\ p[2] \in 1 .. n  OBVIOUS
    <3>2. QED  BY <1>2, <3>1
  <2>2. QED  BY <2>1
<1>4. << >> \in S  BY EmptySeq
<1>5. PICK it \in [SUBSET (1 .. n) -> S] : IsFold(it, n, << >>, step)
  <2> HIDE DEF step, S, n
  <2>1. QED  BY <1>1, <1>3, <1>4, FoldExists
<1>6. GoesBy(it, n, S, << >>, step)
  <2> HIDE DEF step, S, n
  <2>1. QED  BY <1>5 DEF IsFold, GoesBy
<1>7. PICK f : Along(f, n, S, << >>, step)
  <2> HIDE DEF step, S, n
  <2>1. Folded(it, n, S, << >>, step)  BY <1>1, <1>3, <1>4, <1>6, FoldAlong
  <2>2. QED  BY <2>1 DEF Folded
<1>8. f \in [0 .. n -> S] /\ f[0] = << >>  BY <1>7 DEF Along
<1>9. ASSUME NEW k \in 1 .. n PROVE f[k] = f[k - 1] \o bs[k]
  <2> HIDE DEF step, S, n
  <2>1. f[k - 1] \in S
    <3>1. k - 1 \in 0 .. n  BY <1>1
    <3>2. QED  BY <1>8, <3>1
  <2>2. f[k] = step[<<f[k - 1], k>>]  BY <1>7 DEF Along
  <2>3. QED  BY <1>2, <2>1, <2>2
<1>10. Flat(bs) = f[n]
  <2>1. CASE n = 0
    <3>1. bs = << >>  BY <2>1, EmptySeq
    <3>2. QED  BY <1>8, <2>1, <3>1 DEF Flat, FlattenSeq
  <2>2. CASE n # 0
    <3>1. n \in 1 .. n /\ 1 \in 1 .. n  BY <1>1, <2>2
    <3>2. f[1] = bs[1]
      <4> HIDE DEF n
      <4>1. f[1] = << >> \o bs[1]
        <5>1. 1 - 1 = 0  OBVIOUS
        <5>2. QED  BY <1>8, <1>9, <3>1, <5>1
      <4>2. bs[1] \in Seq(T)  BY <1>1, <3>1
      <4>3. QED  BY <4>1, <4>2, ConcatEmptySeq
    <3> DEFINE v == [i \in 1 .. n |-> f[i]]
    <3>3. v = Body(v)
      <4>1. ASSUME NEW i \in 1 .. n PROVE v[i] = IF i = 1 THEN bs[i] ELSE v[i - 1] \o bs[i]
        <5>1. CASE i = 1  BY <3>2, <5>1
        <5>2. CASE i # 1
          <6>1. i - 1 \in 1 .. n  BY <1>1, <5>2
          <6>2. f[i] = f[i - 1] \o bs[i]  BY <1>9
          <6>3. QED  BY <5>2, <6>1, <6>2
        <5>3. QED  BY <5>1, <5>2
      <4>2. QED  BY <4>1
    <3>4. w = Body(w)
      <4> HIDE DEF Body, v
      <4>1. QED  BY <3>3
    <3>5. Flat(bs) = w[n]  BY <2>2 DEF Flat, FlattenSeq
    <3> DEFINE g == [k \in 0 .. n |-> IF k = 0 THEN << >> ELSE w[k]]
    <3>6. \A k \in 1 .. n : f[k - 1] = g[k - 1] => f[k] = g[k]
      <4> HIDE DEF w, n
      <4> SUFFICES ASSUME NEW k \in 1 .. n, f[k - 1] = g[k - 1] PROVE f[k] = g[k]
        OBVIOUS
      <4>1. w[k] = IF k = 1 THEN bs[k] ELSE w[k - 1] \o bs[k]  BY <3>4
      <4>2. k \in 0 .. n /\ k # 0 /\ k - 1 \in 0 .. n  BY <1>1
      <4>3. g[k] = w[k]  BY <4>2
      <4>4. CASE k = 1  BY <3>2, <4>1, <4>3, <4>4
      <4>5. CASE k # 1
        <5>1. k - 1 # 0  BY <1>1, <4>5
        <5>2. g[k - 1] = w[k - 1]  BY <4>2, <5>1
        <5>3. f[k] = f[k - 1] \o bs[k]  BY <1>9
        <5>4. QED  BY <4>1, <4>3, <4>5, <5>2, <5>3
      <4>6. QED  BY <4>4, <4>5
    <3>7. f[n] = g[n]
      <4>1. f[0] = g[0]  BY <1>1, <1>8
      <4> HIDE DEF g, n
      <4>2. BeginAlike(f, g, n)  BY <3>6, <4>1 DEF BeginAlike
      <4>3. QED  BY <1>1, <4>2, SameRecursion
    <3>8. g[n] = w[n]
      <4> HIDE DEF w
      <4>1. n \in 0 .. n  BY <1>1
      <4>2. QED  BY <2>2, <4>1
    <3>9. QED  BY <3>5, <3>7, <3>8
  <2>3. QED  BY <2>1, <2>2
<1>11. QED  BY <1>8, <1>9, <1>10 DEF FlatSteps

-----------------------------------------------------------------------------
(* What appending does to the three of them. *)

LEMMA LengthAppended ==
  ASSUME NEW P, \A p \in P : p.len \in Nat, NEW buf \in Seq(P), NEW part \in P
  PROVE  length(buf) \in Nat /\ length(Append(buf, part)) = length(buf) + part.len
<1> DEFINE n == Len(buf)
           longer == Append(buf, part)
<1>1. n \in Nat /\ DOMAIN buf = 1 .. n /\ \A k \in 1 .. n : buf[k] \in P
  BY LenProperties, ElementOfSeq
<1>2. longer \in Seq(P) /\ Len(longer) = n + 1 /\ longer[n + 1] = part
      /\ \A k \in 1 .. n : longer[k] = buf[k]
  BY AppendProperties
<1>3. DOMAIN longer = 1 .. n + 1 /\ \A k \in 1 .. n + 1 : longer[k] \in P
  BY <1>2, LenProperties, ElementOfSeq
<1> HIDE DEF n, longer
<1>4. PICK f : LengthSteps(f, buf, n)
  BY <1>1, LengthFold
<1>5. PICK g : LengthSteps(g, longer, n + 1)
  <2>1. n + 1 \in Nat /\ \A k \in 1 .. n + 1 : longer[k].len \in Nat  BY <1>1, <1>3
  <2>2. QED  BY <1>3, <2>1, LengthFold
<1>6. BeginAlike(f, g, n)
  <2>1. ASSUME NEW k \in 1 .. n, f[k - 1] = g[k - 1] PROVE f[k] = g[k]
    <3>1. k \in 1 .. n + 1  BY <1>1
    <3>2. QED  BY <1>2, <1>4, <1>5, <2>1, <3>1 DEF LengthSteps
  <2>2. QED  BY <1>4, <1>5, <2>1 DEF BeginAlike, LengthSteps
<1>7. f[n] = g[n]  BY <1>1, <1>6, SameRecursion
<1>8. n + 1 \in 1 .. n + 1 /\ (n + 1) - 1 = n /\ n \in 0 .. n  BY <1>1
<1>9. g[n + 1] = g[n] + part.len  BY <1>2, <1>5, <1>8 DEF LengthSteps
<1>10. QED  BY <1>4, <1>5, <1>7, <1>8, <1>9 DEF longer, LengthSteps

LEMMA LengthOfEmpty == length(<< >>) = 0
<1>1. DOMAIN << >> = 1 .. 0 /\ 0 \in Nat  OBVIOUS
<1>2. \A k \in 1 .. 0 : << >>[k].len \in Nat  OBVIOUS
<1>3. PICK f : LengthSteps(f, << >>, 0)  BY <1>1, <1>2, LengthFold
<1>4. QED  BY <1>3 DEF LengthSteps

LEMMA KeptAppended ==
  ASSUME NEW D, NEW lines \in Seq(Line), NEW line \in Line
  PROVE  /\ KeptOf(lines, D) \in Seq(Line)
         /\ KeptOf(Append(lines, line), D) = Keep(KeptOf(lines, D), line, D)
<1> DEFINE n == Len(lines)
           longer == Append(lines, line)
<1>1. n \in Nat /\ DOMAIN lines = 1 .. n /\ \A k \in 1 .. n : lines[k] \in Line
  BY LenProperties, ElementOfSeq
<1>2. longer \in Seq(Line) /\ Len(longer) = n + 1 /\ longer[n + 1] = line
      /\ \A k \in 1 .. n : longer[k] = lines[k]
  BY AppendProperties
<1>3. DOMAIN longer = 1 .. n + 1 /\ \A k \in 1 .. n + 1 : longer[k] \in Line
  BY <1>2, LenProperties, ElementOfSeq
<1> HIDE DEF n, longer
<1>4. PICK f : KeptSteps(f, lines, n, D)
  BY <1>1, KeptFold
<1>5. PICK g : KeptSteps(g, longer, n + 1, D)
  <2>1. n + 1 \in Nat  BY <1>1
  <2>2. QED  BY <1>3, <2>1, KeptFold
<1>6. BeginAlike(f, g, n)
  <2>1. ASSUME NEW k \in 1 .. n, f[k - 1] = g[k - 1] PROVE f[k] = g[k]
    <3>1. k \in 1 .. n + 1  BY <1>1
    <3>2. QED  BY <1>2, <1>4, <1>5, <2>1, <3>1 DEF KeptSteps
  <2>2. QED  BY <1>4, <1>5, <2>1 DEF BeginAlike, KeptSteps
<1>7. f[n] = g[n]  BY <1>1, <1>6, SameRecursion
<1>8. n + 1 \in 1 .. n + 1 /\ (n + 1) - 1 = n /\ n \in 0 .. n  BY <1>1
<1>9. g[n + 1] = Keep(g[n], line, D)  BY <1>2, <1>5, <1>8 DEF KeptSteps
<1>10. QED  BY <1>4, <1>5, <1>7, <1>8, <1>9 DEF longer, KeptSteps

LEMMA KeptOfEmpty == ASSUME NEW D PROVE KeptOf(<< >>, D) = << >>
<1>1. DOMAIN << >> = 1 .. 0 /\ 0 \in Nat  OBVIOUS
<1>2. \A k \in 1 .. 0 : << >>[k] \in Line  OBVIOUS
<1>3. PICK f : KeptSteps(f, << >>, 0, D)  BY <1>1, <1>2, KeptFold
<1>4. QED  BY <1>3 DEF KeptSteps

LEMMA FlatAppended ==
  ASSUME NEW T, NEW bs \in Seq(Seq(T)), NEW b \in Seq(T)
  PROVE  Flat(bs) \in Seq(T) /\ Flat(Append(bs, b)) = Flat(bs) \o b
<1> DEFINE n == Len(bs)
           longer == Append(bs, b)
<1>1. n \in Nat  BY LenProperties
<1>2. longer \in Seq(Seq(T)) /\ Len(longer) = n + 1 /\ longer[n + 1] = b
      /\ \A k \in 1 .. n : longer[k] = bs[k]
  BY AppendProperties
<1>3. PICK f : FlatSteps(f, bs, T)
  BY FlatFold
<1>4. PICK g : FlatSteps(g, longer, T)
  <2> HIDE DEF longer, n
  <2>1. QED  BY <1>2, FlatFold
<1> HIDE DEF n, longer
<1>5. BeginAlike(f, g, n)
  <2>1. ASSUME NEW k \in 1 .. n, f[k - 1] = g[k - 1] PROVE f[k] = g[k]
    <3>1. k \in 1 .. n + 1  BY <1>1
    <3>2. QED  BY <1>2, <1>3, <1>4, <2>1, <3>1 DEF FlatSteps, n
  <2>2. QED  BY <1>3, <1>4, <2>1 DEF BeginAlike, FlatSteps
<1>6. f[n] = g[n]  BY <1>1, <1>5, SameRecursion
<1>7. n + 1 \in 1 .. n + 1 /\ (n + 1) - 1 = n /\ n \in 0 .. n  BY <1>1
<1>8. g[n + 1] = g[n] \o b  BY <1>2, <1>4, <1>7 DEF FlatSteps
<1>9. QED  BY <1>3, <1>4, <1>6, <1>7, <1>8 DEF longer, n, FlatSteps

LEMMA FlatOfEmpty == Flat(<< >>) = << >>
BY EmptySeq DEF Flat, FlattenSeq

LEMMA Associative == ASSUME NEW S PROVE \A r, s, t \in Seq(S) : r \o (s \o t) = (r \o s) \o t
BY ConcatAssociative

Regroups(r, s, t) == r \o (s \o t) = (r \o s) \o t

LEMMA LinesRegroup == \A r, s, t \in Seq(Line) : Regroups(r, s, t)
BY Associative DEF Regroups

(* A set of sequences with the empty one, and with any longer one of each  *)
(* of its members, has them all.                                           *)
LEMMA AllSequences ==
  ASSUME NEW S, NEW G, << >> \in G,
         \A s \in Seq(S), e \in S : s \in G => Append(s, e) \in G
  PROVE  \A s \in Seq(S) : s \in G
<1> DEFINE T == {n \in Nat : \A s \in Seq(S) : Len(s) = n => s \in G}
<1>1. 0 \in T  BY EmptySeq
<1>2. ASSUME NEW n \in Nat, n \in T PROVE n + 1 \in T
  <2> SUFFICES ASSUME NEW s \in Seq(S), Len(s) = n + 1 PROVE s \in G  OBVIOUS
  <2>1. s # << >>  BY EmptySeq
  <2>2. PICK r \in Seq(S), e \in S : s = Append(r, e)  BY <2>1, SequenceEmptyOrAppend
  <2>3. Len(s) = Len(r) + 1 /\ Len(r) \in Nat  BY <2>2, AppendProperties, LenProperties
  <2>4. Len(r) = n  BY <2>3
  <2>5. r \in G  BY <1>2, <2>4
  <2>6. QED  BY <2>2, <2>5
<1>3. \A n \in Nat : n \in T
  <2> HIDE DEF T
  <2>1. QED  BY <1>1, <1>2, AllNumbers
<1>4. QED  BY <1>3, LenProperties

LEMMA AppendToConcat ==
  ASSUME NEW S, NEW s \in Seq(S), NEW t \in Seq(S), NEW e \in S
  PROVE  s \o Append(t, e) = Append(s \o t, e)
<1>1. << e >> \in Seq(S)  OBVIOUS
<1>2. Append(t, e) = t \o << e >>  BY AppendIsConcat
<1>3. s \o t \in Seq(S)  BY ConcatProperties
<1>4. Append(s \o t, e) = (s \o t) \o << e >>  BY <1>3, AppendIsConcat
<1>5. QED  BY <1>1, <1>2, <1>4, ConcatAssociative

LEMMA KeptOfConcat ==
  ASSUME NEW D, NEW s \in Seq(Line), NEW t \in Seq(Line)
  PROVE  /\ KeptOf(s, D) \in Seq(Line) /\ KeptOf(t, D) \in Seq(Line)
         /\ KeptOf(s \o t, D) = KeptOf(s, D) \o KeptOf(t, D)
<1> DEFINE G == {u \in Seq(Line) : KeptOf(s \o u, D) = KeptOf(s, D) \o KeptOf(u, D)}
<1>1. ASSUME NEW u \in Seq(Line) PROVE KeptOf(u, D) \in Seq(Line)
  <2>1. CASE u = << >>  BY <2>1, KeptOfEmpty, EmptySeq
  <2>2. CASE u # << >>
    <3>1. u[1] \in Line
      <4>1. Len(u) \in Nat \ {0}  BY <2>2, EmptySeq
      <4>2. QED  BY <4>1, ElementOfSeq
    <3>2. QED  BY <3>1, KeptAppended
  <2>3. QED  BY <2>1, <2>2
<1>2. << >> \in G
  <2>1. s \o << >> = s /\ KeptOf(s, D) \o << >> = KeptOf(s, D)  BY <1>1, ConcatEmptySeq
  <2>2. QED  BY <2>1, KeptOfEmpty, EmptySeq
<1>3. ASSUME NEW u \in Seq(Line), NEW e \in Line, u \in G PROVE Append(u, e) \in G
  <2>1. Append(u, e) \in Seq(Line) /\ s \o u \in Seq(Line)
    BY AppendProperties, ConcatProperties
  <2>2. s \o Append(u, e) = Append(s \o u, e)  BY AppendToConcat
  <2>3. KeptOf(s \o Append(u, e), D) = Keep(KeptOf(s \o u, D), e, D)
    BY <2>1, <2>2, KeptAppended
  <2>4. KeptOf(Append(u, e), D) = Keep(KeptOf(u, D), e, D)  BY KeptAppended
  <2>5. KeptOf(s \o u, D) = KeptOf(s, D) \o KeptOf(u, D)  BY <1>3
  <2>6. KeptOf(s, D) \o Append(KeptOf(u, D), e) = Append(KeptOf(s, D) \o KeptOf(u, D), e)
    BY <1>1, AppendToConcat
  <2>7. KeptOf(s \o Append(u, e), D) = KeptOf(s, D) \o KeptOf(Append(u, e), D)
    BY <2>3, <2>4, <2>5, <2>6 DEF Keep
  <2>8. QED  BY <2>1, <2>7
<1>4. t \in G
  <2> HIDE DEF G
  <2>1. QED  BY <1>2, <1>3, AllSequences
<1>5. QED  BY <1>1, <1>4

(* Throwing away more lines after some is throwing them all away. *)
LEMMA KeptTwice ==
  ASSUME NEW D, NEW E, D \subseteq E, NEW s \in Seq(Line)
  PROVE  KeptOf(KeptOf(s, D), E) = KeptOf(s, E)
<1> DEFINE G == {u \in Seq(Line) : KeptOf(KeptOf(u, D), E) = KeptOf(u, E)}
<1>1. << >> \in G  BY KeptOfEmpty, EmptySeq
<1>2. ASSUME NEW u \in Seq(Line), NEW e \in Line, u \in G PROVE Append(u, e) \in G
  <2>1. Append(u, e) \in Seq(Line) /\ KeptOf(u, D) \in Seq(Line)
    BY AppendProperties, KeptAppended
  <2>2. KeptOf(Append(u, e), D) = Keep(KeptOf(u, D), e, D)  BY KeptAppended
  <2>3. KeptOf(Append(u, e), E) = Keep(KeptOf(u, E), e, E)  BY KeptAppended
  <2>4. KeptOf(KeptOf(u, D), E) = KeptOf(u, E)  BY <1>2
  <2>5. KeptOf(Append(KeptOf(u, D), e), E) = Keep(KeptOf(u, E), e, E)
    BY <2>1, <2>4, KeptAppended
  <2>6. KeptOf(KeptOf(Append(u, e), D), E) = KeptOf(Append(u, e), E)
    BY <2>2, <2>3, <2>4, <2>5 DEF Keep
  <2>7. QED  BY <2>1, <2>6
<1>3. s \in G
  <2> HIDE DEF G
  <2>1. QED  BY <1>1, <1>2, AllSequences
<1>4. QED  BY <1>3

LEMMA NothingKept ==
  ASSUME NEW D, NEW s \in Seq(D \cap Line)
  PROVE  KeptOf(s, D) = << >>
<1> DEFINE G == {u \in Seq(Line) : KeptOf(u, D) = << >>}
<1>1. << >> \in G  BY KeptOfEmpty, EmptySeq
<1>2. ASSUME NEW u \in Seq(D \cap Line), NEW e \in D \cap Line, u \in G
      PROVE  Append(u, e) \in G
  <2>1. u \in Seq(Line)  BY <1>2
  <2>2. Append(u, e) \in Seq(Line)  BY <2>1, AppendProperties
  <2>3. KeptOf(Append(u, e), D) = Keep(KeptOf(u, D), e, D)  BY <2>1, KeptAppended
  <2>4. KeptOf(Append(u, e), D) = << >>  BY <1>2, <2>3 DEF Keep
  <2>5. QED  BY <2>2, <2>4
<1>3. s \in G
  <2> DEFINE S == D \cap Line
  <2> HIDE DEF G, S
  <2>1. ASSUME NEW u \in Seq(S), NEW e \in S, u \in G PROVE Append(u, e) \in G
    <3>1. u \in Seq(D \cap Line) /\ e \in D \cap Line  BY DEF S
    <3>2. QED  BY <1>2, <2>1, <3>1
  <2>2. s \in Seq(S)  BY DEF S
  <2>3. QED  BY <1>1, <2>1, <2>2, AllSequences
<1>4. QED  BY <1>3

LEMMA FlatOfConcat ==
  ASSUME NEW T, NEW a \in Seq(Seq(T)), NEW b \in Seq(Seq(T))
  PROVE  /\ Flat(a) \in Seq(T) /\ Flat(b) \in Seq(T)
         /\ Flat(a \o b) = Flat(a) \o Flat(b)
<1> DEFINE S == Seq(T)
           G == {u \in Seq(S) : Flat(a \o u) = Flat(a) \o Flat(u)}
<1>1. \A u \in Seq(S) : Flat(u) \in Seq(T)
  <2>1. << >> \in Seq(T)  BY EmptySeq
  <2>2. QED  BY <2>1, FlatAppended
<1>2. << >> \in G
  <2>1. a \o << >> = a /\ Flat(a) \o << >> = Flat(a)  BY <1>1, ConcatEmptySeq
  <2>2. << >> \in Seq(S)  BY EmptySeq
  <2>3. QED  BY <2>1, <2>2, FlatOfEmpty
<1>3. ASSUME NEW u \in Seq(S), NEW e \in S, u \in G PROVE Append(u, e) \in G
  <2>1. Append(u, e) \in Seq(S) /\ a \o u \in Seq(S)  BY AppendProperties, ConcatProperties
  <2>2. a \o Append(u, e) = Append(a \o u, e)  BY AppendToConcat
  <2>3. Flat(a \o Append(u, e)) = Flat(a \o u) \o e  BY <2>1, <2>2, FlatAppended
  <2>4. Flat(Append(u, e)) = Flat(u) \o e  BY FlatAppended
  <2>5. Flat(a \o u) = Flat(a) \o Flat(u)  BY <1>3
  <2>6. (Flat(a) \o Flat(u)) \o e = Flat(a) \o (Flat(u) \o e)
    <3>1. Flat(a) \in Seq(T) /\ Flat(u) \in Seq(T) /\ e \in Seq(T)  BY <1>1
    <3>2. QED  BY <3>1, ConcatAssociative
  <2>7. Flat(a \o Append(u, e)) = Flat(a) \o Flat(Append(u, e))  BY <2>3, <2>4, <2>5, <2>6
  <2>8. QED  BY <2>1, <2>7
<1>4. b \in G
  <2> HIDE DEF G, S
  <2>1. b \in Seq(S)  BY DEF S
  <2>2. QED  BY <1>2, <1>3, <2>1, AllSequences
<1>5. QED  BY <1>1, <1>4

LEMMA FlatOfOne ==
  ASSUME NEW T, NEW b \in Seq(T)
  PROVE  Flat(<< b >>) = b
<1>1. << >> \in Seq(Seq(T))  BY EmptySeq
<1>2. Append(<< >>, b) = << b >>  OBVIOUS
<1>3. Flat(<< b >>) = << >> \o b  BY <1>1, <1>2, FlatAppended, FlatOfEmpty
<1>4. QED  BY <1>3, ConcatEmptySeq

-----------------------------------------------------------------------------
(* A line is never empty, and shorter than the buffer of one line: a piece *)
(* is only written when it leaves a byte free.                             *)
LEMMA ShiftFits ==
  ASSUME NEW buf \in Seq(Piece), length(buf) < SmallSize, NEW part \in Piece
  PROVE  /\ length(buf) \in Nat /\ length(Shift(buf, part)) \in Nat
         /\ length(Shift(buf, part)) < SmallSize
         /\ length(buf) <= length(Shift(buf, part))
         /\ buf = << >> /\ part = text(1) => length(Shift(buf, part)) = 1
<1>1. SmallSize \in Nat /\ NumericSize \in Nat /\ 1 < NumericSize /\ NumericSize < SmallSize
  BY LineFitsLargeBuffer
<1>2. \A p \in Piece : p.len \in 1 .. SmallSize /\ (p.kind # "text" => p.len = 1)
  BY <1>1 DEF Piece
<1>3. \A p \in Piece : p.len \in Nat  BY <1>1, <1>2
<1>4. length(buf) \in Nat /\ length(Append(buf, part)) = length(buf) + part.len
  BY <1>3, LengthAppended
<1>5. CASE part.kind = "text"
  <2>1. Shift(buf, part) = IF SmallSize - length(buf) > part.len THEN Append(buf, part) ELSE buf
    BY <1>5 DEF Shift, append, avail
  <2>2. /\ length(Shift(buf, part)) \in Nat /\ length(Shift(buf, part)) < SmallSize
        /\ length(buf) <= length(Shift(buf, part))
    BY <1>1, <1>2, <1>4, <2>1
  <2>3. ASSUME buf = << >>, part = text(1) PROVE length(Shift(buf, part)) = 1
    <3>1. part.len = 1 /\ length(buf) = 0  BY <2>3, LengthOfEmpty DEF text
    <3>2. QED  BY <1>1, <1>4, <2>1, <3>1
  <2>4. QED  BY <1>4, <2>2, <2>3
<1>6. CASE part.kind # "text"
  <2>1. Shift(buf, part) = IF SmallSize - length(buf) >= NumericSize THEN Append(buf, part) ELSE buf
    BY <1>6 DEF Shift, formatInteger, avail
  <2>2. part # text(1)  BY <1>6 DEF text
  <2>3. part.len = 1  BY <1>2, <1>6
  <2>4. /\ length(Shift(buf, part)) \in Nat /\ length(Shift(buf, part)) < SmallSize
        /\ length(buf) <= length(Shift(buf, part))
    BY <1>1, <1>4, <2>1, <2>3
  <2>5. QED  BY <1>4, <2>2, <2>4
<1>7. QED  BY <1>5, <1>6

LEMMA PiecesOfLine ==
  ASSUME NEW content \in Contents
  PROVE  /\ Pieces(content) \in Seq(Piece) /\ Len(Pieces(content)) >= 1
         /\ Pieces(content)[1] = text(1)
<1>1. 1 \in 1 .. SmallSize /\ content \in Seq(Piece)
  BY LineFitsLargeBuffer, ContentsArePieces
<1>2. text(1) \in Piece /\ [kind |-> "integer", len |-> 1] \in Piece
  BY <1>1 DEF Piece, text
<1>3. Header \in Seq(Piece) /\ Len(Header) = 1 /\ Header[1] = text(1) /\ finish \in Seq(Piece)
  BY <1>2 DEF Header, finish
<1>4. /\ Header \o content \in Seq(Piece) /\ Len(Header \o content) = 1 + Len(content)
      /\ (Header \o content)[1] = text(1) /\ Len(content) \in Nat
  <2>1. Len(content) \in Nat  BY <1>1, LenProperties
  <2>2. /\ Header \o content \in Seq(Piece)
        /\ Len(Header \o content) = Len(Header) + Len(content)
        /\ \A i \in 1 .. Len(Header) + Len(content) :
             (Header \o content)[i] = IF i <= Len(Header) THEN Header[i]
                                      ELSE content[i - Len(Header)]
    BY <1>1, <1>3, ConcatProperties
  <2>3. 1 \in 1 .. Len(Header) + Len(content) /\ 1 <= Len(Header)  BY <1>3, <2>1
  <2>4. (Header \o content)[1] = Header[1]  BY <2>2, <2>3
  <2>5. QED  BY <1>3, <2>1, <2>2, <2>4
<1>5. Len(finish) \in Nat  BY <1>3, LenProperties
<1>6. QED
  <2> DEFINE h == Header \o content
  <2>1. h \in Seq(Piece) /\ Len(h) \in Nat /\ Len(h) >= 1 /\ h[1] = text(1)  BY <1>4
  <2> HIDE DEF h
  <2>2. /\ h \o finish \in Seq(Piece)
        /\ Len(h \o finish) = Len(h) + Len(finish)
        /\ \A i \in 1 .. Len(h) + Len(finish) :
             (h \o finish)[i] = IF i <= Len(h) THEN h[i] ELSE finish[i - Len(h)]
    BY <1>3, <2>1, ConcatProperties
  <2>3. 1 \in 1 .. Len(h) + Len(finish)  BY <1>5, <2>1
  <2>4. (h \o finish)[1] = h[1]  BY <2>1, <2>2, <2>3
  <2>5. Pieces(content) = h \o finish  BY DEF Pieces, h
  <2>6. QED  BY <1>5, <2>1, <2>2, <2>4, <2>5

LEMMA LineFits ==
  ASSUME NEW content \in Contents
  PROVE  LineLength(content) \in 1 .. SmallSize /\ LineLength(content) < SmallSize
<1> DEFINE all == Pieces(content)
           n == Len(all)
<1>1. /\ all \in Seq(Piece) /\ n \in Nat /\ n >= 1 /\ DOMAIN all = 1 .. n
      /\ all[1] = text(1) /\ \A k \in 1 .. n : all[k] \in Piece
  BY PiecesOfLine, LenProperties, ElementOfSeq
<1> HIDE DEF all, n
<1>2. PICK f : StreamSteps(f, all, n)  BY <1>1, StreamFold
<1> DEFINE Fits(k) == /\ f[k] \in Seq(Piece) /\ length(f[k]) < SmallSize
                      /\ length(f[k]) \in Nat
                      /\ k = 0 \/ length(f[k]) >= 1
           T == {k \in Nat : k <= n => Fits(k)}
<1>3. SmallSize \in Nat /\ 1 < SmallSize  BY LineFitsLargeBuffer
<1>4. Fits(0)
  <2>1. f[0] = << >>  BY <1>2 DEF StreamSteps
  <2>2. << >> \in Seq(Piece) /\ length(<< >>) = 0  BY EmptySeq, LengthOfEmpty
  <2>3. QED  BY <1>3, <2>1, <2>2
<1>5. ASSUME NEW k \in Nat, k \in T PROVE k + 1 \in T
  <2> HIDE DEF Fits
  <2> SUFFICES ASSUME k + 1 <= n PROVE Fits(k + 1)  OBVIOUS
  <2>1. k + 1 \in 1 .. n /\ (k + 1) - 1 = k /\ k + 1 \in 0 .. n  BY <1>1
  <2>2. Fits(k)  BY <1>1, <1>5, <2>1
  <2> USE DEF Fits
  <2>3. f[k + 1] = Shift(f[k], all[k + 1]) /\ f[k + 1] \in Seq(Piece)
    BY <1>2, <2>1 DEF StreamSteps
  <2>4. all[k + 1] \in Piece  BY <1>1, <2>1
  <2>5. /\ length(f[k]) \in Nat /\ length(f[k + 1]) \in Nat /\ length(f[k + 1]) < SmallSize
        /\ length(f[k]) <= length(f[k + 1])
        /\ f[k] = << >> /\ all[k + 1] = text(1) => length(f[k + 1]) = 1
    BY <2>2, <2>3, <2>4, ShiftFits
  <2>6. CASE k = 0
    <3>1. f[k] = << >> /\ all[k + 1] = text(1)  BY <1>1, <1>2, <2>6 DEF StreamSteps
    <3>2. QED  BY <2>3, <2>5, <3>1
  <2>7. CASE k > 0  BY <2>2, <2>3, <2>5, <2>7
  <2>8. QED  BY <2>6, <2>7
<1>6. \A k \in Nat : k \in T
  <2> HIDE DEF Fits
  <2>1. 0 \in T  BY <1>4
  <2> HIDE DEF T
  <2>2. QED  BY <1>5, <2>1, AllNumbers
<1>7. Fits(n)
  <2> HIDE DEF Fits
  <2>1. QED  BY <1>1, <1>6
<1>8. LineLength(content) = length(f[n])  BY <1>2 DEF StreamSteps, LineLength, all
<1>9. QED  BY <1>1, <1>3, <1>7, <1>8

-----------------------------------------------------------------------------
(* The files *)

LEMMA FlushKeeps ==
  ASSUME NEW f, NEW time, FileOK(f, time)
  PROVE  /\ FileOK(flush(f), time) /\ LinesOf(flush(f)) = LinesOf(f)
         /\ flush(f).held = << >> /\ flush(f).disk = LinesOf(f)
<1>1. f \in LogFileType  BY DEF FileOK
<1>2. f.disk \in Seq(Line) /\ f.held \in Seq(Line)  BY <1>1 DEF LogFileType
<1>3. f.disk \o f.held \in Seq(Line) /\ << >> \in Seq(Line)
  BY <1>2, ConcatProperties, EmptySeq
<1>4. flush(f) \in LogFileType  BY <1>1, <1>3 DEF flush, LogFileType
<1>5. /\ flush(f).disk = f.disk \o f.held /\ flush(f).held = << >>
      /\ flush(f).lastRoll = f.lastRoll /\ flush(f).startOfPeriod = f.startOfPeriod
  BY <1>1 DEF flush, LogFileType
<1>6. LinesOf(flush(f)) = LinesOf(f)  BY <1>3, <1>5, ConcatEmptySeq DEF LinesOf
<1>7. QED  BY <1>4, <1>5, <1>6 DEF FileOK, LinesOf

LEMMA PeriodBefore ==
  ASSUME NEW time \in Nat
  PROVE  Period(time) \in Nat /\ Period(time) <= time
BY LogFileLimits DEF Period

LEMMA RollKeeps ==
  ASSUME NEW f, NEW time \in Nat, FileOK(f, time)
  PROVE  FileOK(rollFile(f, time), time) /\ LinesOf(rollFile(f, time)) = LinesOf(f)
<1>1. CASE time > f.lastRoll
  <2> DEFINE h == flush(f)
             r == [h EXCEPT !.lastRoll = time, !.lastFlush = time, !.startOfPeriod = Period(time),
                            !.writtenBytes = 0]
  <2>1. h \in LogFileType /\ LinesOf(h) = LinesOf(f)  BY FlushKeeps DEF FileOK
  <2>2. rollFile(f, time) = r  BY <1>1 DEF rollFile
  <2> HIDE DEF h
  <2>3. Period(time) \in Nat /\ Period(time) <= time  BY PeriodBefore
  <2>4. /\ r \in LogFileType /\ r.disk = h.disk /\ r.held = h.held
        /\ r.lastRoll = time /\ r.startOfPeriod = Period(time)
    BY <2>1, <2>3 DEF LogFileType
  <2> HIDE DEF r
  <2>5. FileOK(r, time)  BY <2>3, <2>4 DEF FileOK
  <2>6. LinesOf(r) = LinesOf(f)  BY <2>1, <2>4 DEF LinesOf
  <2>7. QED  BY <2>2, <2>5, <2>6
<1>2. CASE ~(time > f.lastRoll)  BY <1>2 DEF rollFile
<1>3. QED  BY <1>1, <1>2

LEMMA NewFileIsEmpty ==
  ASSUME NEW time \in Nat \ {0}
  PROVE  FileOK(NewLogFile(time), time) /\ LinesOf(NewLogFile(time)) = << >>
<1> DEFINE f == [disk |-> << >>, held |-> << >>, writtenBytes |-> 0, count |-> 0,
                 startOfPeriod |-> 0, lastRoll |-> 0, lastFlush |-> 0]
<1>1. << >> \in Seq(Line)  BY EmptySeq
<1>2. f \in LogFileType  BY <1>1 DEF LogFileType
<1>3. FileOK(f, time)  BY <1>2 DEF FileOK
<1>4. LinesOf(f) = << >>  BY <1>1, ConcatEmptySeq DEF LinesOf
<1>5. NewLogFile(time) = rollFile(f, time)  BY DEF NewLogFile
<1> HIDE DEF f
<1>6. QED  BY <1>3, <1>4, <1>5, RollKeeps

(* Whatever the file does about its size and the time of day, the lines    *)
(* follow those it has.                                                    *)
LEMMA FileTakes ==
  ASSUME NEW f, NEW time \in Nat, FileOK(f, time), NEW lines \in Seq(Line)
  PROVE  /\ FileOK(appendInLock(f, lines, time), time)
         /\ LinesOf(appendInLock(f, lines, time)) = LinesOf(f) \o lines
<1> DEFINE file == append2file(f, lines)
           counted == [file EXCEPT !.count = 0]
           more == [file EXCEPT !.count = @ + 1]
           flushed == [flush(counted) EXCEPT !.lastFlush = time]
<1>1. f \in LogFileType /\ f.lastRoll <= time /\ f.startOfPeriod <= f.lastRoll  BY DEF FileOK
<1>2. length(lines) \in Nat
  <2>1. \A p \in Line : p.len \in Nat  BY DEF Line
  <2>2. CASE lines = << >>  BY <2>2, LengthOfEmpty
  <2>3. CASE lines # << >>
    <3>1. Len(lines) \in Nat \ {0}  BY <2>3, EmptySeq
    <3>2. lines[1] \in Line  BY <3>1, ElementOfSeq
    <3>3. QED  BY <2>1, <3>2, LengthAppended
  <2>4. QED  BY <2>2, <2>3
<1>3. FileOK(file, time) /\ LinesOf(file) = LinesOf(f) \o lines
  <2>1. f.disk \in Seq(Line) /\ f.held \in Seq(Line) /\ f.writtenBytes \in Nat
    BY <1>1 DEF LogFileType
  <2>2. f.held \o lines \in Seq(Line)  BY <2>1, ConcatProperties
  <2>3. f.writtenBytes + length(lines) \in Nat  BY <1>2, <2>1
  <2>4. file \in LogFileType  BY <1>1, <2>2, <2>3 DEF append2file, LogFileType
  <2>5. /\ file.disk = f.disk /\ file.held = f.held \o lines
        /\ file.lastRoll = f.lastRoll /\ file.startOfPeriod = f.startOfPeriod
    BY <1>1 DEF append2file, LogFileType
  <2>6. f.disk \o (f.held \o lines) = (f.disk \o f.held) \o lines
    <3>1. Regroups(f.disk, f.held, lines)  BY <2>1, LinesRegroup
    <3>2. QED  BY <3>1 DEF Regroups
  <2>7. QED  BY <1>1, <2>4, <2>5, <2>6 DEF FileOK, LinesOf
<1> HIDE DEF file
<1>4. file \in LogFileType /\ file.lastRoll <= time /\ file.startOfPeriod <= file.lastRoll
  BY <1>3 DEF FileOK
<1>5. FileOK(counted, time) /\ LinesOf(counted) = LinesOf(file)
  <2>1. /\ counted \in LogFileType /\ counted.disk = file.disk /\ counted.held = file.held
        /\ counted.lastRoll = file.lastRoll /\ counted.startOfPeriod = file.startOfPeriod
    BY <1>4 DEF LogFileType
  <2>2. QED  BY <1>4, <2>1 DEF FileOK, LinesOf
<1>6. FileOK(more, time) /\ LinesOf(more) = LinesOf(file)
  <2>1. file.count + 1 \in Nat  BY <1>4 DEF LogFileType
  <2>2. /\ more \in LogFileType /\ more.disk = file.disk /\ more.held = file.held
        /\ more.lastRoll = file.lastRoll /\ more.startOfPeriod = file.startOfPeriod
    BY <1>4, <2>1 DEF LogFileType
  <2>3. QED  BY <1>4, <2>2 DEF FileOK, LinesOf
<1>7. FileOK(flushed, time) /\ LinesOf(flushed) = LinesOf(file)
  <2> DEFINE h == flush(counted)
  <2>1. FileOK(h, time) /\ LinesOf(h) = LinesOf(file)  BY <1>5, FlushKeeps
  <2> HIDE DEF h
  <2>2. /\ flushed \in LogFileType /\ flushed.disk = h.disk /\ flushed.held = h.held
        /\ flushed.lastRoll = h.lastRoll /\ flushed.startOfPeriod = h.startOfPeriod
    BY <2>1 DEF FileOK, LogFileType, h
  <2>3. QED  BY <2>1, <2>2 DEF FileOK, LinesOf
<1>8. FileOK(rollFile(file, time), time) /\ LinesOf(rollFile(file, time)) = LinesOf(file)
  BY <1>3, RollKeeps
<1>9. FileOK(rollFile(counted, time), time) /\ LinesOf(rollFile(counted, time)) = LinesOf(file)
  BY <1>5, RollKeeps
<1>10. appendInLock(f, lines, time) \in
         {rollFile(file, time), more, rollFile(counted, time), flushed, counted}
  BY DEF appendInLock, file
<1>11. QED
  <2> HIDE DEF counted, more, flushed
  <2>1. QED  BY <1>3, <1>5, <1>6, <1>7, <1>8, <1>9, <1>10

-----------------------------------------------------------------------------
(* The buffers and what they hold *)

LEMMA EmptyBuffer ==
  /\ << >> \in Buffer /\ Empty \in Seq(Buffer) /\ << >> \in Seq(Buffer)
  /\ Flat(Empty) = << >> /\ << >> \in Seq(Line)
<1>1. << >> \in Seq(Line) /\ 0 < LargeSize  BY EmptySeq, LineFitsLargeBuffer
<1>2. << >> \in Buffer  BY <1>1, LengthOfEmpty DEF Buffer
<1>3. Empty \in Seq(Buffer)  BY <1>2 DEF Empty
<1>4. Flat(Empty) = << >>  BY <1>1, FlatOfOne DEF Empty
<1>5. QED  BY <1>1, <1>2, <1>3, <1>4, EmptySeq

LEMMA FlatOfBuffers ==
  ASSUME NEW bs \in Seq(Buffer)
  PROVE  bs \in Seq(Seq(Line)) /\ Flat(bs) \in Seq(Line)
<1>1. Buffer \subseteq Seq(Line)  BY DEF Buffer
<1>2. bs \in Seq(Seq(Line))  BY <1>1, SeqMonotonic
<1>3. << >> \in Seq(Seq(Line))  BY EmptySeq
<1>4. QED  BY <1>2, <1>3, FlatOfConcat

LEMMA OneBuffer ==
  ASSUME NEW bs \in Seq(Buffer), Len(bs) = 1
  PROVE  bs[1] \in Buffer /\ bs[1] \in Seq(Line) /\ bs = << bs[1] >> /\ Flat(bs) = bs[1]
<1>1. bs[1] \in Buffer  BY ElementOfSeq
<1>2. bs[1] \in Seq(Line)  BY <1>1 DEF Buffer
<1>3. << bs[1] >> \in Seq(Buffer) /\ Len(<< bs[1] >>) = 1 /\ << bs[1] >>[1] = bs[1]  BY <1>1
<1>4. bs = << bs[1] >>  BY <1>3, SeqEqual
<1>5. QED  BY <1>1, <1>2, <1>4, FlatOfOne

(* A line that leaves a byte free is taken, and one always is by an empty  *)
(* buffer.                                                                 *)
LEMMA BufferTakes ==
  ASSUME NEW b \in Buffer, NEW line \in Line, avail(b, LargeSize) > line.len
  PROVE  append(b, line, LargeSize) = Append(b, line) /\ Append(b, line) \in Buffer
<1>1. append(b, line, LargeSize) = Append(b, line)  BY DEF append
<1>2. b \in Seq(Line) /\ line.len \in Nat /\ LargeSize \in Nat
      /\ \A p \in Line : p.len \in Nat
  BY LineFitsLargeBuffer DEF Buffer, Line
<1>3. length(b) \in Nat /\ length(Append(b, line)) = length(b) + line.len
  BY <1>2, LengthAppended
<1>4. length(Append(b, line)) < LargeSize  BY <1>2, <1>3 DEF avail
<1>5. Append(b, line) \in Seq(Line)  BY <1>2, AppendProperties
<1>6. QED  BY <1>1, <1>4, <1>5 DEF Buffer

LEMMA EmptyBufferTakes ==
  ASSUME NEW line \in Line, line.len < LargeSize
  PROVE  append(<< >>, line, LargeSize) = << line >> /\ << line >> \in Buffer
<1>1. line.len \in Nat /\ LargeSize \in Nat  BY LineFitsLargeBuffer DEF Line
<1>2. avail(<< >>, LargeSize) > line.len  BY <1>1, LengthOfEmpty DEF avail
<1>3. Append(<< >>, line) = << line >>  OBVIOUS
<1>4. QED  BY <1>2, <1>3, BufferTakes, EmptyBuffer

Typed ==
  /\ InFiles \in Seq(Line) /\ ToWrite \in Seq(Buffer)
  /\ Flat(ToWrite) \in Seq(Line) /\ Flat(buffers) \in Seq(Line)
  /\ Flat(currentBuffer) \in Seq(Line)
  /\ InMemory \in Seq(Line) /\ Stored \in Seq(Line)

LEMMA EverythingIsLines ==
  ASSUME StoreInv, ThreadInv, FileInv
  PROVE  Typed
<1>1. InFiles \in Seq(Line)
  <2>1. output.disk \in Seq(Line) /\ output.held \in Seq(Line)
    BY DEF FileInv, FileOK, LogFileType
  <2>2. QED  BY <2>1, ConcatProperties DEF InFiles, LinesOf
<1>2. ToWrite \in Seq(Buffer)
  <2>1. buffersToWrite \in Seq(Buffer) /\ written \in 0 .. Len(buffersToWrite)
    BY DEF StoreInv, ThreadInv
  <2>2. Len(buffersToWrite) \in Nat  BY <2>1, LenProperties
  <2>3. \A i \in written + 1 .. Len(buffersToWrite) : buffersToWrite[i] \in Buffer
    BY <2>1, <2>2, ElementOfSeq
  <2>4. written + 1 \in Int /\ Len(buffersToWrite) \in Int  BY <2>1, <2>2
  <2>5. QED  BY <2>3, <2>4, SubSeqProperties DEF ToWrite
<1>3. Flat(ToWrite) \in Seq(Line)  BY <1>2, FlatOfBuffers
<1>4. Flat(buffers) \in Seq(Line)  BY FlatOfBuffers DEF StoreInv
<1>5. Flat(currentBuffer) \in Seq(Line)  BY FlatOfBuffers DEF StoreInv
<1>6. InMemory \in Seq(Line)  BY <1>3, <1>4, <1>5, ConcatProperties DEF InMemory
<1>7. Stored \in Seq(Line)  BY <1>1, <1>6, ConcatProperties DEF Stored
<1>8. QED  BY <1>1, <1>2, <1>3, <1>4, <1>5, <1>6, <1>7 DEF Typed

(* Who appends adds his line behind all others. *)
LEMMA AppendKeepsOrder ==
  ASSUME StoreInv, FrontInv, NEW line \in Line, line.len < LargeSize, AppendTo(line)
  PROVE  /\ currentBuffer' \in Seq(Buffer) /\ nextBuffer' \in {<< >>, Empty}
         /\ buffers' \in Seq(Buffer) /\ Len(buffers') <= Len(buffers) + 1
         /\ Flat(buffers') \o Flat(currentBuffer')
              = (Flat(buffers) \o Flat(currentBuffer)) \o << line >>
<1> DEFINE b == currentBuffer[1]
<1>1. /\ currentBuffer \in Seq(Buffer) /\ nextBuffer \in {<< >>, Empty}
      /\ buffers \in Seq(Buffer) /\ Len(currentBuffer) = 1
  BY DEF StoreInv, FrontInv
<1>2. b \in Buffer /\ b \in Seq(Line) /\ currentBuffer = << b >> /\ Flat(currentBuffer) = b
  BY <1>1, OneBuffer
<1>3. buffers \in Seq(Seq(Line)) /\ Flat(buffers) \in Seq(Line) /\ Len(buffers) \in Nat
  BY <1>1, FlatOfBuffers, LenProperties
<1>4. << line >> \in Seq(Line)  OBVIOUS
<1> HIDE DEF b
<1>5. CASE avail(b, LargeSize) > line.len
  <2>1. append(b, line, LargeSize) = Append(b, line) /\ Append(b, line) \in Buffer
    BY <1>2, <1>5, BufferTakes
  <2>2. currentBuffer' = << Append(b, line) >> /\ nextBuffer' = nextBuffer /\ buffers' = buffers
    BY <1>5, <2>1 DEF AppendTo, b
  <2>3. Append(b, line) \in Seq(Line) /\ Append(b, line) = b \o << line >>
    BY <1>2, AppendProperties, AppendIsConcat
  <2>4. Flat(currentBuffer') = b \o << line >>  BY <2>2, <2>3, FlatOfOne
  <2>5. Flat(buffers) \o (b \o << line >>) = (Flat(buffers) \o b) \o << line >>
    BY <1>2, <1>3, <1>4, ConcatAssociative
  <2>6. currentBuffer' \in Seq(Buffer)  BY <2>1, <2>2
  <2>7. Flat(buffers') = Flat(buffers) /\ Len(buffers') <= Len(buffers) + 1  BY <1>3, <2>2
  <2>8. Flat(buffers') \o Flat(currentBuffer')
          = (Flat(buffers) \o Flat(currentBuffer)) \o << line >>
    BY <1>2, <2>4, <2>5, <2>7
  <2>9. QED  BY <1>1, <2>2, <2>6, <2>7, <2>8
<1>6. CASE ~(avail(b, LargeSize) > line.len)
  <2> DEFINE fresh == IF nextBuffer = << >> THEN << >> ELSE nextBuffer[1]
  <2>1. fresh = << >>
    <3>1. Empty[1] = << >>  BY DEF Empty
    <3>2. QED  BY <1>1, <3>1
  <2>2. append(fresh, line, LargeSize) = << line >> /\ << line >> \in Buffer
    BY <2>1, EmptyBufferTakes
  <2>3. /\ currentBuffer' = << << line >> >> /\ nextBuffer' = << >>
        /\ buffers' = buffers \o currentBuffer
    BY <1>6, <2>2 DEF AppendTo, b
  <2>4. << << line >> >> \in Seq(Buffer) /\ Flat(<< << line >> >>) = << line >>
    <3> DEFINE c == << line >>
    <3>1. c \in Buffer /\ c \in Seq(Line)  BY <1>4, <2>2
    <3> HIDE DEF c
    <3>2. << c >> \in Seq(Buffer) /\ Flat(<< c >>) = c  BY <3>1, FlatOfOne
    <3>3. QED  BY <3>2 DEF c
  <2>5. currentBuffer' \in Seq(Buffer) /\ Flat(currentBuffer') = << line >>  BY <2>3, <2>4
  <2>6. buffers \o currentBuffer \in Seq(Buffer)
        /\ Len(buffers \o currentBuffer) = Len(buffers) + 1
    <3>1. Len(buffers \o currentBuffer) = Len(buffers) + Len(currentBuffer)
      BY <1>1, ConcatProperties
    <3>2. QED  BY <1>1, <3>1, ConcatProperties
  <2>7. buffers' \in Seq(Buffer) /\ Len(buffers') <= Len(buffers) + 1  BY <1>3, <2>3, <2>6
  <2>8. currentBuffer \in Seq(Seq(Line))  BY <1>1, FlatOfBuffers
  <2>9. Flat(buffers') = Flat(buffers) \o b  BY <1>2, <1>3, <2>3, <2>8, FlatOfConcat
  <2>10. Flat(buffers') \o Flat(currentBuffer')
           = (Flat(buffers) \o Flat(currentBuffer)) \o << line >>
    BY <1>2, <2>5, <2>9
  <2>11. nextBuffer' \in {<< >>, Empty}  BY <2>3
  <2>12. QED  BY <2>5, <2>7, <2>10, <2>11
<1>7. QED  BY <1>5, <1>6

LEMMA PrefixOfConcat ==
  ASSUME NEW S, NEW s \in Seq(S), NEW t \in Seq(S)
  PROVE  IsPrefix(s, s \o t)
<1>1. /\ s \o t \in Seq(S) /\ Len(s \o t) = Len(s) + Len(t) /\ Len(s) \in Nat /\ Len(t) \in Nat
      /\ \A i \in 1 .. Len(s) : (s \o t)[i] = s[i]
  BY ConcatProperties, LenProperties
<1>2. SubSeq(s, 1, Len(s)) = s  BY SubSeqFull
<1>3. SubSeq(s \o t, 1, Len(s)) \in Seq(S) /\ Len(SubSeq(s \o t, 1, Len(s))) = Len(s)
      /\ \A i \in 1 .. Len(s) : SubSeq(s \o t, 1, Len(s))[i] = s[i]
  <2> DEFINE u == s \o t
             n == Len(s)
  <2>1. u \in Seq(S) /\ n \in Nat /\ n <= Len(u) /\ Len(u) \in Nat
        /\ \A i \in 1 .. n : u[i] = s[i]
    BY <1>1
  <2> HIDE DEF u, n
  <2>2. \A i \in 1 .. n : u[i] \in S  BY <2>1, ElementOfSeq
  <2>3. /\ SubSeq(u, 1, n) \in Seq(S) /\ Len(SubSeq(u, 1, n)) = IF 1 <= n THEN n - 1 + 1 ELSE 0
        /\ \A i \in 1 .. n - 1 + 1 : SubSeq(u, 1, n)[i] = u[1 + i - 1]
    BY <2>1, <2>2, SubSeqProperties
  <2>4. ASSUME NEW i \in 1 .. n PROVE SubSeq(u, 1, n)[i] = s[i]
    <3>1. i \in 1 .. n - 1 + 1 /\ 1 + i - 1 = i  BY <2>1
    <3>2. QED  BY <2>1, <2>3, <3>1
  <2>5. Len(SubSeq(u, 1, n)) = n  BY <2>1, <2>3
  <2>6. QED  BY <2>3, <2>4, <2>5 DEF u, n
<1>4. SubSeq(s \o t, 1, Len(s)) = s  BY <1>3, SeqEqual
<1>5. QED  BY <1>1, <1>2, <1>4 DEF IsPrefix

-----------------------------------------------------------------------------
(* The steps *)

LEMMA StoreSame ==
  ASSUME StoreInv,
         UNCHANGED <<edition, frontVars, newBuffer1, newBuffer2, buffersToWrite, appended, dropped>>
  PROVE  StoreInv'
BY DEF StoreInv, frontVars

LEMMA StoredSame ==
  ASSUME UNCHANGED <<frontVars, buffersToWrite, written>>, LinesOf(output') = LinesOf(output)
  PROVE  Stored' = Stored
<1>1. InFiles' = InFiles  BY DEF InFiles
<1>2. InMemory' = InMemory  BY DEF InMemory, ToWrite, frontVars
<1>3. QED  BY <1>1, <1>2 DEF Stored

LEMMA OrderSame ==
  ASSUME OrderInv, Stored' = Stored, appended' = appended, dropped' = dropped,
         proc # "aborted", proc' # "aborted"
  PROVE  OrderInv'
BY DEF OrderInv

LEMMA LinesInitially == Init => LinesInv
<1> SUFFICES ASSUME Init PROVE LinesInv  OBVIOUS
<1> USE DEF Init
<1>1. << >> \in Seq(Buffer) /\ Empty \in Seq(Buffer) /\ << >> \in Seq(Line) /\ Flat(Empty) = << >>
  BY EmptyBuffer
<1>2. MaxLines \in Nat /\ MaxTime \in Nat \ {0}  BY AsyncLimits
<1>3. StoreInv  BY <1>1, <1>2 DEF StoreInv, Empty
<1>4. ThreadInv
  <2>1. Len(<< >>) = 0  OBVIOUS
  <2>2. written \in 0 .. Len(buffersToWrite)  BY <2>1
  <2>3. QED  BY <2>2 DEF ThreadInv
<1>5. FileOK(output, now) /\ LinesOf(output) = << >>  BY NewFileIsEmpty
<1>6. output.disk = << >> /\ output.held = << >>
  <2>1. output.disk \in Seq(Line) /\ output.held \in Seq(Line)
    BY <1>5 DEF FileOK, LogFileType
  <2>2. output.disk \o output.held = << >>  BY <1>5 DEF LinesOf
  <2>3. QED  BY <2>1, <2>2, ConcatSimplifications
<1>7. FileInv  BY <1>2, <1>5, <1>6 DEF FileInv
<1>8. Stored = << >>
  <2>1. ToWrite = << >>  BY SubSeqEmpty DEF ToWrite
  <2>2. InMemory = << >> \o << >> \o << >>  BY <1>1, <2>1, FlatOfEmpty DEF InMemory, Empty
  <2>3. << >> \o << >> = << >>  BY <1>1, ConcatEmptySeq
  <2>4. InFiles = << >>  BY <1>5 DEF InFiles
  <2>5. QED  BY <2>2, <2>3, <2>4 DEF Stored
<1>9. OrderInv  BY <1>8 DEF OrderInv
<1>10. QED  BY <1>3, <1>4, <1>7, <1>9 DEF LinesInv

(* A line that is logged is the last one everywhere; an abort leaves some  *)
(* of the lines of the file.                                               *)
LEMMA LogLinesStep ==
  ASSUME LogInv, NEW level, NEW content \in Contents, Log(level, content)
  PROVE  LinesInv'
<1> USE DEF LogInv, LinesInv, SpareInv
<1>1. Typed  BY EverythingIsLines
<1>2. /\ proc = "up" /\ pc # "none" /\ Len(appended) < MaxLines
      /\ UNCHANGED <<edition, running, newBuffer1, newBuffer2, buffersToWrite, written, pc, now,
                     room, dropped>>
  BY DEF Log
<1>3. KeptOf(Stored, dropped) = KeptOf(appended, dropped)  BY <1>2 DEF OrderInv
<1>4. CASE ~WellDefined(content)
  <2>1. UNCHANGED <<frontVars, output, appended>> /\ proc' = "undefined"  BY <1>4 DEF Log
  <2>2. StoreInv'  BY <1>2, <2>1, StoreSame
  <2>3. ThreadInv'  BY <1>2, <2>1 DEF ThreadInv
  <2>4. FileInv'  BY <1>2, <2>1 DEF FileInv
  <2>5. Stored' = Stored  BY <1>2, <2>1, StoredSame
  <2>6. OrderInv'  BY <1>2, <2>1, <2>5, OrderSame
  <2>7. QED  BY <2>2, <2>3, <2>4, <2>6
<1>5. CASE WellDefined(content)
  <2> DEFINE line == [id |-> Len(appended) + 1, len |-> LineLength(content)]
             one == << line >>
  <2>1. AppendTo(line) /\ appended' = Append(appended, line)  BY <1>5 DEF Log
  <2>2. appended \in Seq(Line) /\ Len(appended) \in Nat /\ MaxLines \in Nat
    BY LenProperties, AsyncLimits DEF StoreInv
  <2>3. line \in Line /\ line.len < LargeSize
    <3>1. LineLength(content) \in 1 .. SmallSize /\ LineLength(content) < SmallSize
      BY LineFits
    <3>2. SmallSize <= LargeSize /\ SmallSize \in Nat /\ LargeSize \in Nat
      BY LineFitsLargeBuffer
    <3>3. Len(appended) + 1 \in 0 .. MaxLines  BY <1>2, <2>2
    <3>4. QED  BY <3>1, <3>2, <3>3 DEF Line
  <2> HIDE DEF line
  <2>4. one \in Seq(Line) /\ Append(appended, line) = appended \o one
    BY <2>2, <2>3, AppendIsConcat
  <2>5. /\ currentBuffer' \in Seq(Buffer) /\ nextBuffer' \in {<< >>, Empty}
        /\ buffers' \in Seq(Buffer) /\ Len(buffers') <= Len(buffers) + 1
        /\ Flat(buffers') \o Flat(currentBuffer')
             = (Flat(buffers) \o Flat(currentBuffer)) \o one
    BY <2>1, <2>3, AppendKeepsOrder
  <2> HIDE DEF one
  <2>6. /\ appended' \in Seq(Line) /\ Len(appended') = Len(appended) + 1
        /\ appended' = appended \o one
    BY <2>1, <2>2, <2>3, <2>4, AppendProperties
  <2>7. StoreInv'
    <3>1. Len(buffers') <= Len(appended') /\ Len(appended') <= MaxLines
      <4>1. Len(buffers) <= Len(appended) /\ Len(buffers) \in Nat /\ Len(buffers') \in Nat
        BY <2>5, LenProperties DEF StoreInv
      <4>2. QED  BY <1>2, <2>2, <2>5, <2>6, <4>1
    <3>2. QED  BY <1>2, <2>5, <2>6, <3>1 DEF StoreInv
  <2>8. ToWrite' = ToWrite  BY <1>2 DEF ToWrite
  <2>9. InMemory' = InMemory \o one
    <3> DEFINE w == Flat(ToWrite)
               f == Flat(buffers)
               c == Flat(currentBuffer)
               g == Flat(buffers')
               d == Flat(currentBuffer')
    <3>1. w \in Seq(Line) /\ f \in Seq(Line) /\ c \in Seq(Line)  BY <1>1 DEF Typed
    <3>2. g \in Seq(Line) /\ d \in Seq(Line) /\ g \o d = (f \o c) \o one
      BY <2>5, FlatOfBuffers
    <3>3. InMemory = w \o f \o c /\ InMemory' = w \o g \o d  BY <2>8 DEF InMemory
    <3> HIDE DEF w, f, c, g, d
    <3>4. Regroups(w, g, d)  BY <3>1, <3>2, LinesRegroup
    <3>5. PICK h \in Seq(Line) : h = f \o c  BY <3>1, ConcatProperties
    <3>6. Regroups(w, h, one)  BY <2>4, <3>1, LinesRegroup
    <3>7. Regroups(w, f, c)  BY <3>1, LinesRegroup
    <3>8. QED  BY <3>2, <3>3, <3>4, <3>5, <3>6, <3>7 DEF Regroups
  <2>10. KeptOf(Stored \o one, dropped) = KeptOf(appended', dropped)
    <3>1. KeptOf(Stored \o one, dropped) = KeptOf(Stored, dropped) \o KeptOf(one, dropped)
      BY <1>1, <2>4, KeptOfConcat DEF Typed
    <3>2. KeptOf(appended \o one, dropped) = KeptOf(appended, dropped) \o KeptOf(one, dropped)
      BY <2>2, <2>4, KeptOfConcat
    <3>3. QED  BY <1>3, <2>6, <3>1, <3>2
  <2>11. Stored \o one = InFiles \o InMemory'
    <3>1. InFiles \in Seq(Line) /\ InMemory \in Seq(Line)  BY <1>1 DEF Typed
    <3>2. Regroups(InFiles, InMemory, one)  BY <2>4, <3>1, LinesRegroup
    <3>3. QED  BY <2>9, <3>2 DEF Stored, Regroups
  <2>12. CASE level # "FATAL"
    <3>1. UNCHANGED <<proc, output>>  BY <1>5, <2>12 DEF Log
    <3>2. ThreadInv'  BY <1>2, <3>1 DEF ThreadInv
    <3>3. FileInv'  BY <1>2, <3>1 DEF FileInv
    <3>4. Stored' = InFiles \o InMemory'  BY <3>1 DEF Stored, InFiles
    <3>5. OrderInv'  BY <1>2, <2>10, <2>11, <3>1, <3>4 DEF OrderInv
    <3>6. QED  BY <2>7, <3>2, <3>3, <3>5
  <2>13. CASE level = "FATAL"
    <3>1. proc' = "aborted"  BY <1>5, <2>13 DEF Log
    <3>2. PICK n \in 0 .. Len(output.held) :
            output' = [output EXCEPT !.disk = @ \o SubSeq(output.held, 1, n), !.held = << >>]
      BY <1>5, <2>13 DEF Log
    <3> DEFINE some == SubSeq(output.held, 1, n)
               others == SubSeq(output.held, n + 1, Len(output.held))
    <3>3. /\ output \in LogFileType /\ output.disk \in Seq(Line) /\ output.held \in Seq(Line)
          /\ Len(output.held) \in Nat
      BY LenProperties DEF FileInv, FileOK, LogFileType
    <3>4. some \in Seq(Line) /\ others \in Seq(Line) /\ output.held = some \o others
      <4> DEFINE h == output.held
      <4>1. h \in Seq(Line) /\ Len(h) \in Nat /\ n \in 0 .. Len(h)  BY <3>3
      <4> HIDE DEF h
      <4>2. \A i \in 1 .. Len(h) : h[i] \in Line  BY <4>1, ElementOfSeq
      <4>3. \A i \in 1 .. n : h[i] \in Line  BY <4>1, <4>2
      <4>4. \A i \in n + 1 .. Len(h) : h[i] \in Line  BY <4>1, <4>2
      <4>5. SubSeq(h, 1, n) \in Seq(Line)  BY <4>1, <4>3, SubSeqProperties
      <4>6. SubSeq(h, n + 1, Len(h)) \in Seq(Line)
        <5>1. n + 1 \in Int /\ Len(h) \in Int  BY <4>1
        <5>2. QED  BY <4>4, <5>1, SubSeqProperties
      <4>7. SubSeq(h, 1, n) \o SubSeq(h, n + 1, Len(h)) = SubSeq(h, 1, Len(h))
        <5>1. 1 \in 1 .. Len(h) + 1 /\ n \in 1 - 1 .. Len(h) /\ Len(h) \in n .. Len(h)
          BY <4>1
        <5>2. QED  BY <4>1, <5>1, ConcatAdjacentSubSeq
      <4>8. SubSeq(h, 1, Len(h)) = h  BY <4>1, SubSeqFull
      <4>9. QED  BY <4>5, <4>6, <4>7, <4>8 DEF h
    <3> HIDE DEF some, others
    <3>5. output.disk \o some \in Seq(Line) /\ << >> \in Seq(Line)
      BY <3>3, <3>4, ConcatProperties, EmptySeq
    <3>6. /\ output' \in LogFileType /\ output'.disk = output.disk \o some /\ output'.held = << >>
          /\ output'.lastRoll = output.lastRoll /\ output'.startOfPeriod = output.startOfPeriod
      BY <3>2, <3>3, <3>5 DEF LogFileType, some
    <3>7. InFiles' = output.disk \o some
      BY <3>5, <3>6, ConcatEmptySeq DEF InFiles, LinesOf
    <3>8. InFiles = (output.disk \o some) \o others
      <4>1. Regroups(output.disk, some, others)  BY <3>3, <3>4, LinesRegroup
      <4>2. QED  BY <3>4, <4>1 DEF InFiles, LinesOf, Regroups
    <3>9. Stored \o one = InFiles' \o (others \o InMemory')
      <4>1. InMemory' \in Seq(Line)  BY <1>1, <2>4, <2>9, ConcatProperties DEF Typed
      <4>2. InFiles' \in Seq(Line) /\ InFiles = InFiles' \o others  BY <3>5, <3>7, <3>8
      <4>3. Regroups(InFiles', others, InMemory')  BY <3>4, <4>1, <4>2, LinesRegroup
      <4>4. QED  BY <2>11, <4>2, <4>3 DEF Regroups
    <3>10. InMemory' \in Seq(Line) /\ others \o InMemory' \in Seq(Line)
      <4>1. InMemory' \in Seq(Line)  BY <1>1, <2>4, <2>9, ConcatProperties DEF Typed
      <4>2. QED  BY <3>4, <4>1, ConcatProperties
    <3>11. /\ KeptOf(InFiles', dropped) \in Seq(Line)
           /\ KeptOf(others \o InMemory', dropped) \in Seq(Line)
           /\ KeptOf(appended', dropped)
                = KeptOf(InFiles', dropped) \o KeptOf(others \o InMemory', dropped)
      <4> DEFINE s == InFiles'
                 t == others \o InMemory'
      <4>1. s \in Seq(Line) /\ t \in Seq(Line)  BY <3>5, <3>7, <3>10
      <4>2. KeptOf(appended', dropped) = KeptOf(s \o t, dropped)  BY <2>10, <3>9
      <4> HIDE DEF s, t
      <4>3. /\ KeptOf(s, dropped) \in Seq(Line) /\ KeptOf(t, dropped) \in Seq(Line)
            /\ KeptOf(s \o t, dropped) = KeptOf(s, dropped) \o KeptOf(t, dropped)
        BY <4>1, KeptOfConcat
      <4>4. QED  BY <4>2, <4>3 DEF s, t
    <3>12. IsPrefix(KeptOf(InFiles', dropped), KeptOf(appended', dropped))
      BY <3>11, PrefixOfConcat
    <3>13. OrderInv'  BY <1>2, <3>1, <3>12 DEF OrderInv
    <3>14. ThreadInv'  BY <1>2, <3>1 DEF ThreadInv
    <3>15. FileInv'
      <4>1. pc \in {"none", "open"} => output'.disk = << >>
        <5>1. ASSUME pc \in {"none", "open"} PROVE output'.disk = << >>
          <6>1. output.disk = << >> /\ output.held = << >>  BY <5>1 DEF FileInv
          <6>2. some = << >>  BY <3>4, <6>1, ConcatSimplifications
          <6>3. << >> \o << >> = << >>  BY <3>5, ConcatEmptySeq
          <6>4. QED  BY <3>6, <6>1, <6>2, <6>3
        <5>2. QED  BY <5>1
      <4>2. QED  BY <1>2, <3>6, <4>1 DEF FileInv, FileOK
    <3>16. QED  BY <2>7, <3>13, <3>14, <3>15
  <2>14. QED  BY <2>12, <2>13
<1>6. QED  BY <1>4, <1>5

(* Flushing or closing the file, and everything that leaves the lines      *)
(* where they are.                                                         *)
Quiet ==
  /\ edition' = edition /\ buffersToWrite' = buffersToWrite /\ written' = written
  /\ currentBuffer' = currentBuffer /\ nextBuffer' = nextBuffer /\ buffers' = buffers
  /\ appended' = appended /\ dropped' = dropped
  /\ newBuffer1' \in {<< >>, Empty} /\ newBuffer2' \in {<< >>, Empty}
  /\ output' \in {output, flush(output)}
  /\ running' \in BOOLEAN /\ room' \in BOOLEAN
  /\ now' \in now .. MaxTime
  /\ pc' \in {"none", "open", "test", "enter", "waiting", "write", "giveBack", "ended"}
  /\ pc' \in {"none", "open"} => pc \in {"none", "open"}
  /\ pc' = "giveBack" => written = Len(buffersToWrite)
  /\ proc # "aborted" /\ proc' \in {"up", "destroyed", "exited", "undefined"}

LEMMA QuietStep ==
  ASSUME LinesInv, Quiet
  PROVE  LinesInv'
<1> USE DEF LinesInv, Quiet
<1>1. StoreInv'  BY DEF StoreInv, frontVars
<1>2. ThreadInv'  BY DEF ThreadInv
<1>3. MaxTime \in Nat /\ now \in 1 .. MaxTime /\ FileOK(output, now)
  BY AsyncLimits DEF FileInv
<1>4. FileOK(flush(output), now) /\ LinesOf(flush(output)) = LinesOf(output)
      /\ flush(output).held = << >> /\ flush(output).disk = LinesOf(output)
  BY <1>3, FlushKeeps
<1>5. FileOK(output', now) /\ LinesOf(output') = LinesOf(output)  BY <1>3, <1>4
<1>6. FileOK(output', now')
  <2>1. output'.lastRoll \in Nat  BY <1>5 DEF FileOK, LogFileType
  <2>2. output' \in LogFileType /\ output'.lastRoll <= now
        /\ output'.startOfPeriod <= output'.lastRoll
    BY <1>5 DEF FileOK
  <2>3. output'.lastRoll <= now'  BY <1>3, <2>1, <2>2
  <2>4. QED  BY <2>2, <2>3 DEF FileOK
<1>7. ASSUME pc' \in {"none", "open"}
      PROVE  output'.disk = << >> /\ output'.held = << >>
  <2>1. output.disk = << >> /\ output.held = << >>  BY <1>7 DEF FileInv
  <2>2. LinesOf(output) = << >>
    <3>1. << >> \in Seq(Line)  BY EmptySeq
    <3>2. << >> \o << >> = << >>  BY <3>1, ConcatEmptySeq
    <3>3. QED  BY <2>1, <3>2 DEF LinesOf
  <2>3. QED  BY <1>4, <2>1, <2>2
<1>8. FileInv'
  <2>1. now' \in 1 .. MaxTime  BY <1>3
  <2>2. QED  BY <1>6, <1>7, <2>1 DEF FileInv
<1>9. OrderInv'
  <2>1. Stored' = Stored  BY <1>5, StoredSame DEF frontVars
  <2>2. QED  BY <2>1, OrderSame
<1>10. QED  BY <1>1, <1>2, <1>8, <1>9

(* The buffers change hands. *)
Exchanging ==
  /\ pc \in {"enter", "waiting"} /\ pc' = "write" /\ proc = "up" /\ Exchange
  /\ UNCHANGED <<edition, running, now, room, appended, written, output, proc, dropped>>

LEMMA ExchangeLinesStep ==
  ASSUME LogInv, Exchanging
  PROVE  LinesInv'
<1> USE DEF LogInv, LinesInv, Exchanging
<1>1. newBuffer1 = Empty /\ newBuffer2 = Empty /\ buffersToWrite = << >>
  BY DEF SpareInv, BackInv
<1>2. /\ buffersToWrite' = buffers \o currentBuffer /\ buffers' = << >>
      /\ currentBuffer' = Empty /\ newBuffer1' = << >>
      /\ nextBuffer' \in {nextBuffer, Empty} /\ newBuffer2' \in {<< >>, Empty}
  BY <1>1 DEF Exchange
<1>3. Len(currentBuffer) = 1 /\ currentBuffer \in Seq(Buffer) /\ buffers \in Seq(Buffer)
      /\ Len(buffers) <= Len(appended) /\ appended \in Seq(Line) /\ Len(appended) <= MaxLines
  BY DEF SpareInv, FrontInv, StoreInv
<1>4. Len(buffers) \in Nat /\ Len(appended) \in Nat /\ MaxLines \in Nat /\ Len(<< >>) = 0
  BY <1>3, LenProperties, AsyncLimits
<1>5. buffersToWrite' \in Seq(Buffer) /\ Len(buffersToWrite') = Len(buffers) + 1
  <2>1. /\ buffers \o currentBuffer \in Seq(Buffer)
        /\ Len(buffers \o currentBuffer) = Len(buffers) + Len(currentBuffer)
    BY <1>3, ConcatProperties
  <2>2. QED  BY <1>2, <1>3, <2>1
<1>6. StoreInv'
  <2>1. << >> \in Seq(Buffer) /\ Empty \in Seq(Buffer)  BY EmptyBuffer
  <2>2. Len(buffersToWrite') <= MaxLines + 1 /\ Len(buffers') <= Len(appended)
    BY <1>2, <1>3, <1>4, <1>5
  <2>3. QED  BY <1>2, <1>3, <1>5, <2>1, <2>2 DEF StoreInv
<1>7. written = 0  BY <1>1, <1>4 DEF ThreadInv
<1>8. ThreadInv'
  <2>1. written' \in 0 .. Len(buffersToWrite')  BY <1>4, <1>5, <1>7
  <2>2. QED  BY <2>1 DEF ThreadInv
<1>9. FileInv'  BY DEF FileInv
<1>10. Stored' = Stored
  <2>1. ToWrite = << >>  BY <1>1, <1>4, <1>7, SubSeqEmpty DEF ToWrite
  <2>2. ToWrite' = buffers \o currentBuffer
    <3>1. ToWrite' = SubSeq(buffersToWrite', 1, Len(buffersToWrite'))  BY <1>7 DEF ToWrite
    <3>2. QED  BY <1>2, <1>5, <3>1, SubSeqFull
  <2> DEFINE f == Flat(buffers)
             c == Flat(currentBuffer)
  <2>3. f \in Seq(Line) /\ c \in Seq(Line) /\ Flat(buffers \o currentBuffer) = f \o c
    BY <1>3, FlatOfBuffers, FlatOfConcat
  <2>4. Flat(Empty) = << >> /\ Flat(<< >>) = << >>  BY EmptyBuffer, FlatOfEmpty
  <2>5. InMemory = << >> \o f \o c  BY <2>1, <2>4 DEF InMemory
  <2>6. InMemory' = (f \o c) \o << >> \o << >>  BY <1>2, <2>2, <2>3, <2>4 DEF InMemory
  <2> HIDE DEF f, c
  <2>7. << >> \o f = f  BY <2>3, ConcatEmptySeq
  <2>8. (f \o c) \o << >> = f \o c
    <3>1. f \o c \in Seq(Line)  BY <2>3, ConcatProperties
    <3>2. QED  BY <3>1, ConcatEmptySeq
  <2>9. InMemory' = InMemory  BY <2>5, <2>6, <2>7, <2>8
  <2>10. QED  BY <2>9 DEF Stored, InFiles
<1>11. OrderInv'  BY <1>10, OrderSame
<1>12. QED  BY <1>6, <1>8, <1>9, <1>11

LEMMA RestOfBuffers ==
  ASSUME NEW bs \in Seq(Buffer), NEW m \in Nat
  PROVE  SubSeq(bs, m, Len(bs)) \in Seq(Buffer) \/ m = 0
<1> SUFFICES ASSUME m # 0 PROVE SubSeq(bs, m, Len(bs)) \in Seq(Buffer)  OBVIOUS
<1>1. Len(bs) \in Nat  BY LenProperties
<1>2. \A i \in m .. Len(bs) : bs[i] \in Buffer  BY <1>1, ElementOfSeq
<1>3. m \in Int /\ Len(bs) \in Int  BY <1>1
<1>4. QED  BY <1>2, <1>3, SubSeqProperties

(* The first of the buffers to be written goes over to the file. *)
MovesOver(i, d, r, f, c) == i \o ((d \o r) \o f \o c) = (i \o d) \o (r \o f \o c)

LEMMA BufferIsWritten ==
  ASSUME NEW i \in Seq(Line), NEW d \in Seq(Line), NEW r \in Seq(Line), NEW f \in Seq(Line),
         NEW c \in Seq(Line)
  PROVE  MovesOver(i, d, r, f, c)
<1>1. PICK n \in Seq(Line) : n = r \o f  BY ConcatProperties
<1>2. PICK m \in Seq(Line) : m = n \o c  BY ConcatProperties
<1>3. Regroups(d, r, f) /\ Regroups(d, n, c) /\ Regroups(i, d, m)  BY LinesRegroup
<1>4. QED  BY <1>1, <1>2, <1>3 DEF Regroups, MovesOver

(* A buffer is written: the first of the lines in memory are then the last *)
(* ones in the files.                                                      *)
LEMMA WriteLinesStep ==
  ASSUME LogInv, WriteBuffer
  PROVE  LinesInv'
<1> USE DEF LogInv, LinesInv
<1> DEFINE b == buffersToWrite[written + 1]
<1>1. /\ pc = "write" /\ pc' = "write" /\ proc' = proc /\ proc # "aborted"
      /\ written < Len(buffersToWrite) /\ written' = written + 1
      /\ output' = appendInLock(output, b, now)
      /\ UNCHANGED <<edition, running, now, room, appended, frontVars, newBuffer1, newBuffer2,
                     buffersToWrite, dropped>>
  BY DEF WriteBuffer, Thread
<1>2. buffersToWrite \in Seq(Buffer) /\ written \in 0 .. Len(buffersToWrite)
      /\ Len(buffersToWrite) \in Nat
  BY LenProperties DEF StoreInv, ThreadInv
<1>3. written + 1 \in 1 .. Len(buffersToWrite)  BY <1>1, <1>2
<1>4. b \in Buffer /\ b \in Seq(Line)
  <2>1. b \in Buffer  BY <1>2, <1>3, ElementOfSeq
  <2>2. QED  BY <2>1 DEF Buffer
<1> HIDE DEF b
<1>5. StoreInv'  BY <1>1, StoreSame
<1>6. ThreadInv'
  <2>1. written' \in 0 .. Len(buffersToWrite')  BY <1>1, <1>2
  <2>2. QED  BY <1>1, <2>1 DEF ThreadInv
<1>7. now \in Nat /\ FileOK(output, now)  BY AsyncLimits DEF FileInv
<1>8. FileOK(output', now) /\ LinesOf(output') = LinesOf(output) \o b
  BY <1>1, <1>4, <1>7, FileTakes
<1>9. FileInv'  BY <1>1, <1>8 DEF FileInv
<1>10. Typed  BY EverythingIsLines
<1>11. ToWrite' \in Seq(Buffer) /\ ToWrite' \in Seq(Seq(Line)) /\ Flat(ToWrite') \in Seq(Line)
  <2>1. ToWrite' = SubSeq(buffersToWrite, written + 2, Len(buffersToWrite))
    <3>1. ToWrite' = SubSeq(buffersToWrite', written' + 1, Len(buffersToWrite'))  BY DEF ToWrite
    <3>2. written + 1 + 1 = written + 2  BY <1>2
    <3>3. QED  BY <1>1, <3>1, <3>2
  <2>2. written + 2 \in Nat /\ written + 2 # 0  BY <1>2
  <2>3. ToWrite' \in Seq(Buffer)  BY <1>2, <2>1, <2>2, RestOfBuffers
  <2>4. QED  BY <2>3, FlatOfBuffers
<1>12. Flat(ToWrite) = b \o Flat(ToWrite')
  <2> DEFINE w == written + 1
             n == Len(buffersToWrite)
  <2>1. w \in 1 .. n /\ n \in w .. n /\ w \in Nat /\ n \in Nat  BY <1>2, <1>3
  <2>2. ToWrite = SubSeq(buffersToWrite, w, n) /\ ToWrite' = SubSeq(buffersToWrite, w + 1, n)
    BY <1>1 DEF ToWrite
  <2>3. buffersToWrite[w] = b  BY DEF b
  <2> HIDE DEF w, n
  <2>4. ToWrite = << b >> \o ToWrite'
    BY <1>2, <2>1, <2>2, <2>3, SubSeqRecursiveFirst DEF n
  <2>5. << b >> \in Seq(Seq(Line)) /\ ToWrite' \in Seq(Seq(Line))
    BY <1>4, <1>11
  <2>6. Flat(<< b >> \o ToWrite') = Flat(<< b >>) \o Flat(ToWrite')  BY <2>5, FlatOfConcat
  <2>7. QED  BY <1>4, <2>4, <2>6, FlatOfOne
<1>13. Stored' = Stored
  <2>1. PICK i \in Seq(Line), r \in Seq(Line), f \in Seq(Line), c \in Seq(Line) :
          i = InFiles /\ r = Flat(ToWrite') /\ f = Flat(buffers) /\ c = Flat(currentBuffer)
    BY <1>10, <1>11 DEF Typed
  <2>2. PICK d \in Seq(Line) : d = b  BY <1>4
  <2>3. InFiles' = i \o d  BY <1>8, <2>1, <2>2 DEF InFiles
  <2>4. InMemory' = r \o f \o c  BY <1>1, <2>1 DEF InMemory, frontVars
  <2>5. InMemory = (d \o r) \o f \o c  BY <1>12, <2>1, <2>2 DEF InMemory
  <2>6. Stored' = (i \o d) \o (r \o f \o c)  BY <2>3, <2>4 DEF Stored
  <2>7. Stored = i \o ((d \o r) \o f \o c)  BY <2>1, <2>5 DEF Stored
  <2>8. MovesOver(i, d, r, f, c)  BY BufferIsWritten
  <2>9. QED  BY <2>6, <2>7, <2>8 DEF MovesOver
<1>14. OrderInv'  BY <1>1, <1>13, OrderSame
<1>15. QED  BY <1>5, <1>6, <1>9, <1>14

(* What was thrown away is not missed, and the line about it is nobody's. *)
LEMMA DroppedKeepOrder ==
  ASSUME NEW D, NEW E, D \subseteq E, NEW m \in Seq(Line), KeptOf(m, E) = << >>,
         NEW i \in Seq(Line), NEW t \in Seq(Line), NEW r \in Seq(E \cap Line),
         NEW f \in Seq(Line), NEW c \in Seq(Line), NEW a \in Seq(Line),
         KeptOf(i \o ((t \o r) \o f \o c), D) = KeptOf(a, D)
  PROVE  KeptOf((i \o m) \o (t \o f \o c), E) = KeptOf(a, E)
<1> DEFINE tr == t \o r
           trf == tr \o f
           trfc == trf \o c
           tf == t \o f
           tfc == tf \o c
           im == i \o m
           K(s) == KeptOf(s, E)
<1>1. r \in Seq(Line)  BY SeqMonotonic
<1>2. K(r) = << >>  BY NothingKept
<1>3. tr \in Seq(Line) /\ K(tr) = K(t) \o << >>
  <2>1. tr \in Seq(Line)  BY <1>1, ConcatProperties
  <2>2. KeptOf(t \o r, E) = KeptOf(t, E) \o KeptOf(r, E)  BY <1>1, KeptOfConcat
  <2>3. QED  BY <1>2, <2>1, <2>2
<1>4. K(t) \in Seq(Line) /\ K(i) \in Seq(Line)  BY KeptOfConcat
<1>5. K(tr) = K(t)
  <2>1. \A s \in Seq(Line) : s \o << >> = s  BY ConcatEmptySeq
  <2>2. QED  BY <1>3, <1>4, <2>1
<1>6. tf \in Seq(Line) /\ K(tf) = K(t) \o K(f)  BY ConcatProperties, KeptOfConcat
<1>7. im \in Seq(Line) /\ K(im) = K(i)
  <2>1. im \in Seq(Line)  BY ConcatProperties
  <2>2. K(im) = K(i) \o K(m)  BY KeptOfConcat
  <2>3. \A s \in Seq(Line) : s \o << >> = s  BY ConcatEmptySeq
  <2>4. QED  BY <1>4, <2>1, <2>2, <2>3
<1> HIDE DEF tr, tf, im
<1>8. trf \in Seq(Line) /\ K(trf) = K(tr) \o K(f)  BY <1>3, ConcatProperties, KeptOfConcat
<1>9. tfc \in Seq(Line) /\ K(tfc) = K(tf) \o K(c)  BY <1>6, ConcatProperties, KeptOfConcat
<1> HIDE DEF trf
<1>10. trfc \in Seq(Line) /\ K(trfc) = K(trf) \o K(c)  BY <1>8, ConcatProperties, KeptOfConcat
<1> HIDE DEF trfc, tfc
<1>11. K(i \o trfc) = K(i) \o K(trfc) /\ i \o trfc \in Seq(Line)
  BY <1>10, ConcatProperties, KeptOfConcat
<1>12. K(im \o tfc) = K(im) \o K(tfc)  BY <1>7, <1>9, KeptOfConcat
<1>13. K(i \o trfc) = K(im \o tfc)
  BY <1>5, <1>6, <1>7, <1>8, <1>9, <1>10, <1>11, <1>12
<1>14. K(i \o trfc) = K(a)
  <2>1. KeptOf(i \o trfc, D) = KeptOf(a, D)  BY DEF trfc, trf, tr
  <2>2. KeptOf(KeptOf(i \o trfc, D), E) = KeptOf(i \o trfc, E)  BY <1>11, KeptTwice
  <2>3. KeptOf(KeptOf(a, D), E) = KeptOf(a, E)  BY KeptTwice
  <2>4. QED  BY <2>1, <2>2, <2>3
<1>15. QED  BY <1>13, <1>14 DEF im, tfc, tf

LEMMA LinesAmong ==
  ASSUME NEW S, NEW s \in Seq(S), NEW E, ToSet(s) \subseteq E
  PROVE  s \in Seq(E \cap S)
<1>1. Len(s) \in Nat /\ DOMAIN s = 1 .. Len(s) /\ \A k \in 1 .. Len(s) : s[k] \in S
  BY LenProperties, ElementOfSeq
<1>2. \A k \in 1 .. Len(s) : s[k] \in E  BY <1>1 DEF ToSet
<1>3. s \in [1 .. Len(s) -> S]  BY LenProperties
<1>4. s \in [1 .. Len(s) -> E \cap S]  BY <1>1, <1>2, <1>3
<1>5. QED  BY <1>1, <1>4

(* The first buffers and the others make up all of them. *)
LEMMA SplitBuffers ==
  ASSUME NEW bs \in Seq(Buffer), NEW n \in Nat, n <= Len(bs)
  PROVE  /\ SubSeq(bs, 1, n) \in Seq(Buffer) /\ Len(SubSeq(bs, 1, n)) = n
         /\ SubSeq(bs, n + 1, Len(bs)) \in Seq(Buffer)
         /\ SubSeq(bs, 1, n) \o SubSeq(bs, n + 1, Len(bs)) = bs
         /\ \A k \in 1 .. Len(SubSeq(bs, n + 1, Len(bs))) :
              n + k \in n + 1 .. Len(bs) /\ SubSeq(bs, n + 1, Len(bs))[k] = bs[n + k]
<1>1. Len(bs) \in Nat /\ \A i \in 1 .. Len(bs) : bs[i] \in Buffer
  BY LenProperties, ElementOfSeq
<1>2. SubSeq(bs, 1, n) \in Seq(Buffer) /\ Len(SubSeq(bs, 1, n)) = n
  <2>1. \A i \in 1 .. n : bs[i] \in Buffer  BY <1>1
  <2>2. /\ SubSeq(bs, 1, n) \in Seq(Buffer)
        /\ Len(SubSeq(bs, 1, n)) = IF 1 <= n THEN n - 1 + 1 ELSE 0
    BY <2>1, SubSeqProperties
  <2>3. QED  BY <2>2
<1>3. /\ SubSeq(bs, n + 1, Len(bs)) \in Seq(Buffer)
      /\ \A k \in 1 .. Len(SubSeq(bs, n + 1, Len(bs))) :
           n + k \in n + 1 .. Len(bs) /\ SubSeq(bs, n + 1, Len(bs))[k] = bs[n + k]
  <2> DEFINE m == n + 1
             l == Len(bs)
  <2>1. m \in Int /\ l \in Int /\ \A i \in m .. l : bs[i] \in Buffer  BY <1>1
  <2>2. m = n + 1 /\ l = Len(bs)  OBVIOUS
  <2> HIDE DEF m, l
  <2>3. /\ SubSeq(bs, m, l) \in Seq(Buffer)
        /\ Len(SubSeq(bs, m, l)) = IF m <= l THEN l - m + 1 ELSE 0
        /\ \A k \in 1 .. l - m + 1 : SubSeq(bs, m, l)[k] = bs[m + k - 1]
    BY <2>1, SubSeqProperties
  <2>4. ASSUME NEW k \in 1 .. Len(SubSeq(bs, m, l))
        PROVE  n + k \in n + 1 .. l /\ SubSeq(bs, m, l)[k] = bs[n + k]
    <3>1. k \in 1 .. l - m + 1  BY <2>1, <2>3
    <3>2. m + k - 1 = n + k  BY <2>2, <3>1
    <3>3. n + k \in n + 1 .. l  BY <2>1, <2>2, <3>1
    <3>4. QED  BY <2>3, <3>1, <3>2, <3>3
  <2>5. QED  BY <2>2, <2>3, <2>4
<1>4. SubSeq(bs, 1, n) \o SubSeq(bs, n + 1, Len(bs)) = bs
  <2>1. 1 \in 1 .. Len(bs) + 1 /\ n \in 1 - 1 .. Len(bs) /\ Len(bs) \in n .. Len(bs)
    BY <1>1
  <2>2. SubSeq(bs, 1, n) \o SubSeq(bs, n + 1, Len(bs)) = SubSeq(bs, 1, Len(bs))
    BY <2>1, ConcatAdjacentSubSeq
  <2>3. QED  BY <2>2, SubSeqFull
<1>5. QED  BY <1>2, <1>3, <1>4

(* The other edition throws buffers away. *)
LEMMA DropLinesStep ==
  ASSUME LogInv, Drop
  PROVE  LinesInv'
<1> USE DEF LogInv, LinesInv
<1> DEFINE bs == buffersToWrite
           first == SubSeq(bs, 1, 2)
           others == SubSeq(bs, 3, Len(bs))
           marker == [id |-> 0, len |-> 1]
           gone == UNION {ToSet(bs[k]) : k \in 3 .. Len(bs)}
<1>1. /\ pc = "write" /\ pc' = "write" /\ proc' = proc /\ proc # "aborted"
      /\ edition = "HelloLogger" /\ Len(bs) > MaxBuffers /\ written = 0 /\ written' = 0
      /\ output' = appendInLock(output, << marker >>, now)
      /\ buffersToWrite' = first /\ dropped' = dropped \cup gone
      /\ UNCHANGED <<edition, running, now, room, appended, frontVars, newBuffer1, newBuffer2>>
  BY DEF Drop, Thread, TooMany
<1>2. bs \in Seq(Buffer) /\ Len(bs) \in Nat /\ Len(bs) > 2 /\ Len(bs) <= MaxLines + 1
      /\ MaxLines \in Nat
  BY <1>1, LenProperties, AsyncLimits DEF StoreInv
<1>3. /\ first \in Seq(Buffer) /\ Len(first) = 2 /\ others \in Seq(Buffer)
      /\ first \o others = bs
      /\ \A k \in 1 .. Len(others) : 2 + k \in 3 .. Len(bs) /\ others[k] = bs[2 + k]
  <2>1. 2 \in Nat /\ 2 <= Len(bs) /\ 2 + 1 = 3  BY <1>2
  <2> HIDE DEF bs
  <2>2. QED  BY <1>2, <2>1, SplitBuffers
<1>4. \A k \in 3 .. Len(bs) : bs[k] \in Seq(Line)
  <2>1. \A k \in 3 .. Len(bs) : bs[k] \in Buffer  BY <1>2, ElementOfSeq
  <2>2. QED  BY <2>1 DEF Buffer
<1>5. gone \subseteq Line
  <2>1. ASSUME NEW k \in 3 .. Len(bs) PROVE ToSet(bs[k]) \subseteq Line
    <3>1. bs[k] \in Seq(Line)  BY <1>4
    <3>2. QED  BY <3>1, LenProperties, ElementOfSeq DEF ToSet
  <2>2. QED  BY <2>1
<1>6. others \in Seq(Seq(gone \cap Line))
  <2>1. ASSUME NEW k \in 1 .. Len(others) PROVE others[k] \in Seq(gone \cap Line)
    <3>1. 2 + k \in 3 .. Len(bs) /\ others[k] = bs[2 + k]  BY <1>3
    <3>2. others[k] \in Seq(Line) /\ ToSet(others[k]) \subseteq gone  BY <1>4, <3>1
    <3> HIDE DEF others, gone
    <3>3. QED  BY <3>2, LinesAmong
  <2> HIDE DEF others, gone
  <2>2. others \in [1 .. Len(others) -> Buffer] /\ Len(others) \in Nat  BY <1>3, LenProperties
  <2>3. others \in [1 .. Len(others) -> Seq(gone \cap Line)]  BY <2>1, <2>2
  <2>4. QED  BY <2>2, <2>3
<1> HIDE DEF gone
<1>7. StoreInv'
  <2>1. Len(first) <= MaxLines + 1 /\ dropped' \subseteq Line
    BY <1>1, <1>2, <1>3, <1>5 DEF StoreInv
  <2>2. QED  BY <1>1, <1>3, <2>1 DEF StoreInv, frontVars
<1>8. ThreadInv'
  <2>1. written' \in 0 .. Len(buffersToWrite')  BY <1>1, <1>3
  <2>2. QED  BY <1>1, <2>1 DEF ThreadInv
<1>9. now \in Nat /\ FileOK(output, now)  BY AsyncLimits DEF FileInv
<1>10. marker \in Line /\ << marker >> \in Seq(Line)
  <2>1. 0 \in 0 .. MaxLines /\ 1 \in 1 .. SmallSize  BY <1>2, LineFitsLargeBuffer
  <2>2. marker \in Line  BY <2>1 DEF Line
  <2>3. QED  BY <2>2
<1>11. FileOK(output', now) /\ LinesOf(output') = LinesOf(output) \o << marker >>
  <2> DEFINE m == << marker >>
  <2>1. m \in Seq(Line)  BY <1>10
  <2>2. output' = appendInLock(output, m, now)  BY <1>1
  <2> HIDE DEF m
  <2>3. FileOK(output', now) /\ LinesOf(output') = LinesOf(output) \o m
    BY <1>9, <2>1, <2>2, FileTakes
  <2>4. QED  BY <2>3 DEF m
<1>12. FileInv'  BY <1>1, <1>11 DEF FileInv
<1>13. Typed  BY EverythingIsLines
<1>14. OrderInv'
  <2>1. PICK E : E = dropped'  OBVIOUS
  <2>2. PICK m \in Seq(Line) : m = << marker >>  BY <1>10
  <2>3. KeptOf(m, E) = << >>
    <3>1. << >> \in Seq(Line) /\ m = Append(<< >>, marker)  BY <2>2, EmptySeq
    <3>2. KeptOf(m, E) = Keep(KeptOf(<< >>, E), marker, E)  BY <1>10, <3>1, KeptAppended
    <3>3. marker.id = 0  OBVIOUS
    <3>4. QED  BY <3>2, <3>3, KeptOfEmpty DEF Keep
  <2>4. dropped \subseteq E /\ gone \subseteq E  BY <1>1, <2>1
  <2>5. Flat(others) \in Seq(E \cap Line)
    <3>1. gone \cap Line \subseteq E \cap Line  BY <2>4
    <3>2. Seq(gone \cap Line) \subseteq Seq(E \cap Line)  BY <3>1, SeqMonotonic
    <3>3. others \in Seq(Seq(E \cap Line))  BY <1>6, <3>2, SeqMonotonic
    <3>4. << >> \in Seq(Seq(E \cap Line))  BY EmptySeq
    <3> HIDE DEF others
    <3>5. QED  BY <3>3, <3>4, FlatOfConcat
  <2>6. PICK r \in Seq(E \cap Line) : r = Flat(others)  BY <2>5
  <2>7. first \in Seq(Seq(Line)) /\ others \in Seq(Seq(Line)) /\ Flat(first) \in Seq(Line)
    BY <1>3, FlatOfBuffers
  <2>8. PICK i \in Seq(Line), t \in Seq(Line), f \in Seq(Line), c \in Seq(Line), a \in Seq(Line) :
          /\ i = InFiles /\ t = Flat(first) /\ f = Flat(buffers) /\ c = Flat(currentBuffer)
          /\ a = appended
    BY <1>13, <2>7 DEF Typed, StoreInv
  <2>9. ToWrite = first \o others
    <3>1. ToWrite = SubSeq(bs, 1, Len(bs))  BY <1>1 DEF ToWrite
    <3>2. SubSeq(bs, 1, Len(bs)) = bs  BY <1>2, SubSeqFull
    <3>3. QED  BY <1>3, <3>1, <3>2
  <2>10. ToWrite' = first
    <3>1. ToWrite' = SubSeq(first, 1, Len(first))  BY <1>1 DEF ToWrite
    <3>2. QED  BY <1>3, <3>1, SubSeqFull
  <2> HIDE DEF first, others, bs
  <2>11. Flat(ToWrite) = t \o r  BY <2>6, <2>7, <2>8, <2>9, FlatOfConcat
  <2>12. Stored = i \o ((t \o r) \o f \o c)  BY <2>8, <2>11 DEF Stored, InMemory
  <2>13. InMemory' = t \o f \o c  BY <1>1, <2>8, <2>10 DEF InMemory, frontVars
  <2>14. InFiles' = i \o m  BY <1>11, <2>2, <2>8 DEF InFiles
  <2>15. Stored' = (i \o m) \o (t \o f \o c)  BY <2>13, <2>14 DEF Stored
  <2>16. KeptOf(i \o ((t \o r) \o f \o c), dropped) = KeptOf(a, dropped)
    BY <1>1, <2>8, <2>12 DEF OrderInv
  <2>17. KeptOf((i \o m) \o (t \o f \o c), E) = KeptOf(a, E)
    BY <2>3, <2>4, <2>16, DroppedKeepOrder
  <2>18. KeptOf(Stored', dropped') = KeptOf(appended', dropped')
    BY <1>1, <2>1, <2>8, <2>15, <2>17
  <2>19. QED  BY <1>1, <2>18 DEF OrderInv
<1>15. QED  BY <1>7, <1>8, <1>12, <1>14

LEMMA OpenLinesStep ==
  ASSUME LogInv, Open
  PROVE  LinesInv'
<1> USE DEF LogInv, LinesInv
<1>1. /\ pc = "open" /\ pc' = "test" /\ proc = "up" /\ proc' = proc /\ output' = NewLogFile(now)
      /\ newBuffer1' = Empty /\ newBuffer2' = Empty
      /\ UNCHANGED <<edition, running, now, room, appended, frontVars, buffersToWrite, written,
                     dropped>>
  BY DEF Open, Thread, Empty
<1>2. StoreInv'  BY <1>1 DEF StoreInv, frontVars
<1>3. ThreadInv'  BY <1>1 DEF ThreadInv
<1>4. now \in Nat \ {0}  BY AsyncLimits DEF FileInv
<1>5. FileOK(output', now) /\ LinesOf(output') = << >>  BY <1>1, <1>4, NewFileIsEmpty
<1>6. FileInv'  BY <1>1, <1>5 DEF FileInv
<1>7. LinesOf(output) = << >>
  <2>1. output.disk = << >> /\ output.held = << >>  BY <1>1 DEF FileInv
  <2>2. << >> \in Seq(Line)  BY EmptySeq
  <2>3. << >> \o << >> = << >>  BY <2>2, ConcatEmptySeq
  <2>4. QED  BY <2>1, <2>3 DEF LinesOf
<1>8. Stored' = Stored  BY <1>1, <1>5, <1>7, StoredSame
<1>9. OrderInv'  BY <1>1, <1>8, OrderSame
<1>10. QED  BY <1>2, <1>3, <1>6, <1>9

(* The round is over: all buffers have been written. *)
LEMMA GiveBackLinesStep ==
  ASSUME LogInv, GiveBack
  PROVE  LinesInv'
<1> USE DEF LogInv, LinesInv
<1>1. proc' = proc /\ SpareInv'  BY GiveBackStep
<1>2. /\ pc = "giveBack" /\ pc' = "test" /\ proc # "aborted"
      /\ buffersToWrite' = << >> /\ written' = 0 /\ output' = flush(output)
      /\ UNCHANGED <<edition, running, now, room, appended, frontVars, dropped>>
  BY DEF GiveBack, Thread
<1>3. newBuffer1' = Empty /\ newBuffer2' = Empty  BY <1>1, <1>2 DEF SpareInv, BackInv
<1>4. << >> \in Seq(Buffer) /\ Len(<< >>) = 0 /\ MaxLines \in Nat  BY EmptyBuffer, AsyncLimits
<1>5. StoreInv'  BY <1>2, <1>3, <1>4 DEF StoreInv, frontVars
<1>6. ThreadInv'
  <2>1. written' \in 0 .. Len(buffersToWrite')  BY <1>2, <1>4
  <2>2. QED  BY <1>1, <1>2, <2>1 DEF ThreadInv
<1>7. FileOK(output', now) /\ LinesOf(output') = LinesOf(output)
  BY <1>2, FlushKeeps DEF FileInv
<1>8. FileInv'  BY <1>2, <1>7 DEF FileInv
<1>9. ToWrite = << >> /\ ToWrite' = << >>
  <2>1. written = Len(buffersToWrite) /\ Len(buffersToWrite) \in Nat
    BY <1>2, LenProperties DEF ThreadInv, StoreInv
  <2>2. \A s : \A m, n \in Int : m > n => SubSeq(s, m, n) = << >>  BY SubSeqEmpty
  <2>3. ToWrite = << >>  BY <2>1, <2>2 DEF ToWrite
  <2>4. ToWrite' = SubSeq(<< >>, 1, 0)  BY <1>2, <1>4 DEF ToWrite
  <2>5. QED  BY <2>2, <2>3, <2>4
<1>10. InFiles' = InFiles /\ InMemory' = InMemory
  BY <1>2, <1>7, <1>9 DEF InFiles, InMemory, frontVars
<1>11. Stored' = Stored  BY <1>10 DEF Stored
<1>12. OrderInv'  BY <1>1, <1>2, <1>11, OrderSame
<1>13. QED  BY <1>5, <1>6, <1>8, <1>12

LEMMA ThreadLinesStep ==
  ASSUME LogInv, BackEnd
  PROVE  LinesInv'
<1> USE DEF LogInv
<1>1. LinesInv /\ StoreInv /\ ThreadInv /\ now \in now .. MaxTime
  <2>1. now \in 1 .. MaxTime /\ MaxTime \in Nat  BY AsyncLimits DEF LinesInv, FileInv
  <2>2. now \in now .. MaxTime  BY <2>1
  <2>3. QED  BY <2>2 DEF LinesInv
<1>2. CASE UsesDestroyed
  <2>1. Quiet
    BY <1>1, <1>2 DEF UsesDestroyed, frontVars, backVars, Quiet, StoreInv, ThreadInv
  <2>2. QED  BY <1>1, <2>1, QuietStep
<1>3. CASE Open  BY <1>3, OpenLinesStep
<1>4. CASE TestRunning
  <2>1. pc' \in {"enter", "ended"}  BY <1>4 DEF TestRunning, Thread
  <2>2. output' \in {output, flush(output)}  BY <1>4 DEF TestRunning
  <2>3. Quiet
    BY <1>1, <1>4, <2>1, <2>2 DEF TestRunning, Thread, frontVars, Quiet, StoreInv, ThreadInv
  <2>4. QED  BY <1>1, <2>3, QuietStep
<1>5. CASE EnterEmpty
  <2>1. Quiet
    BY <1>1, <1>5 DEF EnterEmpty, Thread, frontVars, backVars, Quiet, StoreInv, ThreadInv
  <2>2. QED  BY <1>1, <2>1, QuietStep
<1>6. CASE EnterFull
  <2>1. Exchanging  BY <1>6 DEF EnterFull, Thread, Exchanging
  <2>2. QED  BY <2>1, ExchangeLinesStep
<1>7. CASE Wake
  <2>1. Exchanging  BY <1>7 DEF Wake, Thread, Exchanging
  <2>2. QED  BY <2>1, ExchangeLinesStep
<1>8. CASE Drop  BY <1>8, DropLinesStep
<1>9. CASE WriteBuffer  BY <1>9, WriteLinesStep
<1>10. CASE AllWritten
  <2>1. Quiet
    BY <1>1, <1>10 DEF AllWritten, Thread, frontVars, backVars, Quiet, StoreInv, ThreadInv
  <2>2. QED  BY <1>1, <2>1, QuietStep
<1>11. CASE GiveBack  BY <1>11, GiveBackLinesStep
<1>12. QED
  BY <1>2, <1>3, <1>4, <1>5, <1>6, <1>7, <1>8, <1>9, <1>10, <1>11 DEF BackEnd

LEMMA LogLinesSame ==
  ASSUME LinesInv, UNCHANGED vars
  PROVE  LinesInv'
<1> USE DEF vars, frontVars, backVars
<1>1. StoreInv'  BY DEF LinesInv, StoreInv
<1>2. ThreadInv'  BY DEF LinesInv, ThreadInv
<1>3. FileInv'  BY DEF LinesInv, FileInv
<1>4. Stored' = Stored /\ InFiles' = InFiles
  BY DEF Stored, InFiles, InMemory, ToWrite
<1>5. OrderInv'  BY <1>4 DEF LinesInv, OrderInv
<1>6. QED  BY <1>1, <1>2, <1>3, <1>5 DEF LinesInv

LEMMA LogStepKeeps == LogInv /\ [Next]_vars => LogInv'
<1> SUFFICES ASSUME LogInv, [Next]_vars PROVE LogInv'  OBVIOUS
<1>1. SpareInv'  BY SparesStep DEF LogInv
<1>2. LinesInv /\ StoreInv /\ ThreadInv /\ now \in now .. MaxTime
  <2>1. now \in 1 .. MaxTime /\ MaxTime \in Nat  BY AsyncLimits DEF LogInv, LinesInv, FileInv
  <2>2. now \in now .. MaxTime  BY <2>1
  <2>3. QED  BY <2>2 DEF LogInv, LinesInv
<1> SUFFICES LinesInv'  BY <1>1 DEF LogInv
<1> USE DEF frontVars, backVars
<1>3. ASSUME NEW level, NEW content \in Contents, Log(level, content)
      PROVE  LinesInv'
  BY <1>3, LogLinesStep
<1>4. CASE start
  <2>1. Quiet  BY <1>2, <1>4 DEF start, Quiet, StoreInv, ThreadInv
  <2>2. QED  BY <1>2, <2>1, QuietStep
<1>5. CASE stop
  <2>1. Quiet  BY <1>2, <1>5 DEF stop, Quiet, StoreInv, ThreadInv
  <2>2. QED  BY <1>2, <2>1, QuietStep
<1>6. CASE Destroy
  <2>1. Quiet  BY <1>2, <1>6 DEF Destroy, Quiet, StoreInv, ThreadInv
  <2>2. QED  BY <1>2, <2>1, QuietStep
<1>7. CASE Exit
  <2>1. output' \in {output, flush(output)}  BY <1>7 DEF Exit
  <2>2. Quiet  BY <1>2, <1>7, <2>1 DEF Exit, Quiet, StoreInv, ThreadInv
  <2>3. QED  BY <1>2, <2>2, QuietStep
<1>8. CASE BackEnd  BY <1>8, ThreadLinesStep
<1>9. CASE Tick
  <2>1. now' \in now .. MaxTime
    <3>1. now \in Nat /\ MaxTime \in Nat /\ now < MaxTime /\ now' = now + 1
      BY <1>9, AsyncLimits DEF Tick, LogInv, LinesInv, FileInv
    <3>2. QED  BY <3>1
  <2>2. Quiet  BY <1>2, <1>9, <2>1 DEF Tick, Quiet, StoreInv, ThreadInv
  <2>3. QED  BY <1>2, <2>2, QuietStep
<1>10. CASE DiskRoom
  <2>1. room' \in BOOLEAN  BY <1>10 DEF DiskRoom
  <2>2. Quiet  BY <1>2, <1>10, <2>1 DEF DiskRoom, Quiet, StoreInv, ThreadInv
  <2>3. QED  BY <1>2, <2>2, QuietStep
<1>11. CASE UNCHANGED vars  BY <1>2, <1>11, LogLinesSame
<1>12. QED
  BY <1>3, <1>4, <1>5, <1>6, <1>7, <1>8, <1>9, <1>10, <1>11 DEF Next

LEMMA LogInitially == Init => LogInv
BY SparesInitially, LinesInitially DEF LogInv

-----------------------------------------------------------------------------
(* Through every order of appends, exchanges, rounds that throw buffers    *)
(* away, full disks, aborts and the end of the program the buffers and     *)
(* files have what LogInv says.                                            *)
THEOREM LoggerInvariant == Spec => []LogInv
BY LogInitially, LogStepKeeps, PTL DEF Spec

(* The buffers have room for a byte more and there are never more of them  *)
(* than lines, the pointers are those of at most one buffer, and the files *)
(* were begun in the past.                                                 *)
THEOREM LogTypes == Spec => []LogTypeOK
<1>1. LogInv => LogTypeOK
  <2> SUFFICES ASSUME LogInv PROVE LogTypeOK  OBVIOUS
  <2> USE DEF LogInv, LinesInv, SpareInv
  <2>1. Empty \in Seq(Buffer) /\ << >> \in Seq(Buffer) /\ Len(Empty) = 1 /\ Len(<< >>) = 0
    BY EmptyBuffer, OneIsSequence DEF Empty
  <2>2. \A p \in {currentBuffer, nextBuffer, newBuffer1, newBuffer2} :
          Len(p) <= 1 /\ p \in Seq(Buffer)
    <3>1. currentBuffer \in Seq(Buffer) /\ Len(currentBuffer) = 1
      BY DEF StoreInv, FrontInv
    <3>2. \A p \in {nextBuffer, newBuffer1, newBuffer2} : p \in {<< >>, Empty}
      BY DEF StoreInv
    <3>3. \A p \in {<< >>, Empty} : Len(p) \in {0, 1} /\ p \in Seq(Buffer)  BY <2>1
    <3>4. \A p \in {currentBuffer, nextBuffer, newBuffer1, newBuffer2} :
            Len(p) \in {0, 1} /\ p \in Seq(Buffer)
      BY <3>1, <3>2, <3>3
    <3>5. \A n \in {0, 1} : n <= 1  OBVIOUS
    <3>6. QED  BY <3>4, <3>5
  <2>3. \A p \in {currentBuffer, nextBuffer, newBuffer1, newBuffer2} : p \in Seq(Seq(Line))
    BY <2>2, FlatOfBuffers
  <2>4. \A bs \in {currentBuffer, nextBuffer, buffers, newBuffer1, newBuffer2, buffersToWrite} :
          bs \in Seq(Buffer)
    BY <2>2 DEF StoreInv
  <2>5. \A bs \in {currentBuffer, nextBuffer, buffers, newBuffer1, newBuffer2, buffersToWrite} :
          \A k \in DOMAIN bs : bs[k] \in Seq(Line) /\ length(bs[k]) < LargeSize
    <3>1. ASSUME NEW bs \in Seq(Buffer), NEW k \in DOMAIN bs
          PROVE  bs[k] \in Seq(Line) /\ length(bs[k]) < LargeSize
      <4>1. bs[k] \in Buffer  BY <3>1, LenProperties, ElementOfSeq
      <4>2. QED  BY <4>1 DEF Buffer
    <3>2. QED  BY <2>4, <3>1
  <2>6. written \in 0 .. MaxLines + 1
    <3>1. /\ buffersToWrite \in Seq(Buffer) /\ written \in 0 .. Len(buffersToWrite)
          /\ Len(buffersToWrite) <= MaxLines + 1 /\ MaxLines \in Nat
      BY AsyncLimits DEF StoreInv, ThreadInv
    <3>2. Len(buffersToWrite) \in Nat  BY <3>1, LenProperties
    <3>3. QED  BY <3>1, <3>2
  <2>7. \A f \in {output} : f.lastRoll <= now /\ f.startOfPeriod <= f.lastRoll
    BY DEF FileInv, FileOK
  <2>8. QED
    BY <2>2, <2>3, <2>5, <2>6, <2>7 DEF LogTypeOK, StoreInv, ThreadInv, FileInv
<1>2. QED  BY <1>1, LoggerInvariant, PTL

LEMMA KeptIsKeptOf == \A s : Kept(s) = KeptOf(s, dropped)
BY DEF Kept, KeptOf, Keep

(* What has been logged is, in its order and once, in the files and then   *)
(* among the buffers, whatever the threads exchange; only the edition that *)
(* says so throws lines away, and a program that ends early has the first  *)
(* lines of its log in its files.                                          *)
THEOREM LinesKeepOrder == Spec => []LinesInOrder
<1>1. LogInv => LinesInOrder
  <2> SUFFICES ASSUME LogInv PROVE LinesInOrder  OBVIOUS
  <2> USE DEF LogInv, LinesInv
  <2>1. Typed  BY EverythingIsLines
  <2>2. edition = "depends" => dropped = {}  BY DEF StoreInv
  <2>3. KeptOf(InFiles \o InMemory, dropped)
          = KeptOf(InFiles, dropped) \o KeptOf(InMemory, dropped)
    BY <2>1, KeptOfConcat DEF Typed
  <2>4. \A s : Kept(s) = KeptOf(s, dropped)  BY KeptIsKeptOf
  <2>5. proc = "aborted" => IsPrefix(Kept(InFiles), Kept(appended))  BY <2>4 DEF OrderInv
  <2>6. proc # "aborted" => Kept(InFiles) \o Kept(InMemory) = Kept(appended)
    BY <2>3, <2>4 DEF OrderInv, Stored
  <2>7. QED  BY <2>2, <2>5, <2>6 DEF LinesInOrder, InFiles, InMemory, LinesOf, ToWrite
<1>2. QED  BY <1>1, LoggerInvariant, PTL
=============================================================================
