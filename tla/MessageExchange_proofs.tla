------------------------ MODULE MessageExchange_proofs ------------------------
(***************************************************************************)
(* Proofs about MessageExchange, for any sizes of the buffers that hold a  *)
(* message, any capacity of the network, any builds of the two programs    *)
(* and any number of logins and heartbeats: the types, the order of the    *)
(* messages, that outstanding requests find their memory in place, that    *)
(* the flags say what is outstanding, and that an overdue client is only   *)
(* deleted when nothing is.                                                *)
(***************************************************************************)
EXTENDS MessageExchange, FiniteSetTheorems, FunctionTheorems, SequenceTheorems, TLAPS

Bytes == Seq(Unit(Int))

(* The connection is not lost, and nothing has collided yet. *)
Sound == ~raced /\ net # "down"

Logins == {"LOGIN", "LOGIN_RESULT"}

(* What each program sends. *)
Commands(e) == IF e = "client" THEN {"LOGIN", "C2S_HEART"} ELSE {"LOGIN_RESULT", "S2C_HEART"}

(* The end of s is the end of a message. *)
Whole(s) == s # << >> => s[Len(s)].at = dataLength(s[Len(s)].cmd)

(* There is no complete message in a receive buffer. *)
NoMessage(buf) == buf # << >> => Len(buf) < dataLength(buf[1].cmd)

(* An end that has no client in use has done nothing.  *)
LifeInv ==
  /\ life["client"] \in {"none", "live"}
  /\ life["server"] \in {"none", "buffered", "live"}
  /\ \A e \in Ends : life[e] # "live" =>
       obj[e] = NewClient /\ io[e] = << >> /\ stage[e] = "test"

(* Where the thread of an end can be.  Only IOCP has requests, and only a  *)
(* blocked send has taken a part of the buffer.                            *)
StageInv(e) ==
  /\ build[e] = "iocp" => stage[e] \in {"test", "net", "drain", "msg"}
  /\ build[e] # "iocp" =>
       /\ stage[e] \in {"test", "net", "write", "sending", "msg"}
       /\ io[e] = << >> /\ ~obj[e].isPostRecv /\ ~obj[e].isPostSend
  /\ sent[e].taken <= sent[e].of /\ sent[e].of <= Len(obj[e].send)
  /\ stage[e] # "sending" => sent[e] = [taken |-> 0, of |-> 0]

(* There is at most one request of a kind, the flag says whether there is  *)
(* one, and its memory is where it was.  A receive finds room because a    *)
(* round leaves no complete message in the buffer.                         *)
RequestInv(e) ==
  /\ \A i, j \in DOMAIN io[e] : io[e][i].iotype = io[e][j].iotype => i = j
  /\ obj[e].isPostRecv <=> \E i \in DOMAIN io[e] : io[e][i].iotype = "RECV"
  /\ obj[e].isPostSend <=> \E i \in DOMAIN io[e] : io[e][i].iotype = "SEND"
  /\ \A i \in DOMAIN io[e] :
       /\ io[e][i].iotype = "RECV" => io[e][i].at = Len(obj[e].recv)
       /\ io[e][i].iotype = "SEND" => IsPrefix(io[e][i].data, obj[e].send)
  /\ build[e] = "iocp" /\ (stage[e] \in {"test", "net"} \/ obj[e].isPostRecv) =>
       NoMessage(obj[e].recv)

(* What may be on its way from a sender with the commands C, which has     *)
(* counted its logins to nSend, to a peer that has counted them to nRecv:  *)
(* whole messages in order, and the logins between the two counts.         *)
Orderly(s, C, nSend, nRecv) ==
  /\ Messages(s, nRecv)
  /\ Whole(s)
  /\ \A k \in DOMAIN s : s[k].cmd \in C
  /\ nSend = nRecv + LoginsIn(s)

StreamInv(e) ==
  Orderly(Stream(e), Commands(e), obj[e].nSendMsgID, obj[Peer(e)].nRecvMsgID)

UpInv == LifeInv /\ \A e \in Ends : StageInv(e) /\ RequestInv(e) /\ StreamInv(e)

ExchangeInv == ConnTypeOK /\ (Sound => UpInv)
-----------------------------------------------------------------------------
(* Sequences. *)
LEMMA Take ==
  ASSUME NEW S, NEW s \in Seq(S), NEW m \in Nat \ {0}, NEW n \in Nat, n <= Len(s)
  PROVE  /\ SubSeq(s, m, n) \in Seq(S)
         /\ Len(SubSeq(s, m, n)) = IF m <= n THEN n - m + 1 ELSE 0
         /\ \A i \in 1 .. n - m + 1 : SubSeq(s, m, n)[i] = s[m + i - 1]
<1>1. \A i \in m .. n : s[i] \in S
  <2> TAKE i \in m .. n
  <2>1. i \in 1 .. Len(s)  BY LenProperties
  <2>2. QED  BY <2>1, ElementOfSeq
<1>2. QED  BY <1>1, SubSeqProperties

LEMMA Popped ==
  ASSUME NEW S, NEW s \in Seq(S), NEW n \in Nat, n <= Len(s)
  PROVE  /\ pop(s, n) \in Seq(S)
         /\ Len(pop(s, n)) = Len(s) - n
         /\ \A i \in 1 .. Len(s) - n : pop(s, n)[i] = s[n + i]
<1>1. Len(s) \in Nat  BY LenProperties
<1>2. /\ SubSeq(s, n + 1, Len(s)) \in Seq(S)
      /\ Len(SubSeq(s, n + 1, Len(s))) = IF n + 1 <= Len(s) THEN Len(s) - (n + 1) + 1 ELSE 0
      /\ \A i \in 1 .. Len(s) - (n + 1) + 1 : SubSeq(s, n + 1, Len(s))[i] = s[n + 1 + i - 1]
  BY <1>1, Take
<1>3. QED  BY <1>1, <1>2 DEF pop

LEMMA PoppedType ==
  ASSUME NEW S, NEW s \in Seq(S), NEW n \in Nat
  PROVE  pop(s, n) \in Seq(S) /\ Len(pop(s, n)) <= Len(s)
<1>1. Len(s) \in Nat  BY LenProperties
<1>2. CASE n <= Len(s)  BY <1>1, <1>2, Popped
<1>3. CASE ~(n <= Len(s))
  <2>1. pop(s, n) = << >>  BY <1>1, <1>3, SubSeqEmpty DEF pop
  <2>2. QED  BY <1>1, <2>1, EmptySeq
<1>4. QED  BY <1>2, <1>3

(* What is taken from the front and what is left make up the whole. *)
LEMMA Split ==
  ASSUME NEW S, NEW s \in Seq(S), NEW m \in Nat, NEW n \in Nat, m <= n, n <= Len(s)
  PROVE  SubSeq(s, m + 1, n) \o pop(s, n) = pop(s, m)
<1>1. Len(s) \in Nat  BY LenProperties
<1>2. m + 1 \in 1 .. Len(s) + 1 /\ n \in (m + 1) - 1 .. Len(s) /\ Len(s) \in n .. Len(s)
  BY <1>1
<1>3. QED  BY <1>2, ConcatAdjacentSubSeq DEF pop

LEMMA PopNothing ==
  ASSUME NEW S, NEW s \in Seq(S)
  PROVE  pop(s, 0) = s
BY SubSeqFull DEF pop

LEMMA PopConcat ==
  ASSUME NEW S, NEW s \in Seq(S), NEW t \in Seq(S), NEW n \in Nat, n <= Len(s)
  PROVE  pop(s \o t, n) = pop(s, n) \o t
<1>1. Len(s) \in Nat /\ Len(t) \in Nat  BY LenProperties
<1>2. s \o t \in Seq(S) /\ Len(s \o t) = Len(s) + Len(t)  BY ConcatProperties
<1>3. /\ pop(s \o t, n) \in Seq(S)
      /\ Len(pop(s \o t, n)) = Len(s) + Len(t) - n
      /\ \A i \in 1 .. Len(s) + Len(t) - n : pop(s \o t, n)[i] = (s \o t)[n + i]
  <2> DEFINE u == s \o t
  <2>1. u \in Seq(S) /\ Len(u) = Len(s) + Len(t) /\ n <= Len(u)  BY <1>1, <1>2
  <2> HIDE DEF u
  <2>2. /\ pop(u, n) \in Seq(S) /\ Len(pop(u, n)) = Len(u) - n
        /\ \A i \in 1 .. Len(u) - n : pop(u, n)[i] = u[n + i]
    BY <2>1, Popped
  <2>3. QED  BY <2>1, <2>2 DEF u
<1>4. /\ pop(s, n) \in Seq(S) /\ Len(pop(s, n)) = Len(s) - n
      /\ \A i \in 1 .. Len(s) - n : pop(s, n)[i] = s[n + i]
  BY Popped
<1>5. /\ pop(s, n) \o t \in Seq(S)
      /\ Len(pop(s, n) \o t) = Len(s) - n + Len(t)
      /\ \A i \in 1 .. Len(s) - n + Len(t) : (pop(s, n) \o t)[i] =
           IF i <= Len(s) - n THEN pop(s, n)[i] ELSE t[i - (Len(s) - n)]
  <2> DEFINE p == pop(s, n)
  <2>1. p \in Seq(S) /\ Len(p) = Len(s) - n  BY <1>4
  <2> HIDE DEF p
  <2>2. /\ p \o t \in Seq(S) /\ Len(p \o t) = Len(p) + Len(t)
        /\ \A i \in 1 .. Len(p) + Len(t) : (p \o t)[i] = IF i <= Len(p) THEN p[i] ELSE t[i - Len(p)]
    BY <2>1, ConcatProperties
  <2>3. QED  BY <2>1, <2>2 DEF p
<1>6. \A i \in 1 .. Len(s) + Len(t) - n : pop(s \o t, n)[i] = (pop(s, n) \o t)[i]
  <2> TAKE i \in 1 .. Len(s) + Len(t) - n
  <2>1. n + i \in 1 .. Len(s) + Len(t)  BY <1>1
  <2>2. (s \o t)[n + i] = IF n + i <= Len(s) THEN s[n + i] ELSE t[n + i - Len(s)]
    BY <2>1, ConcatProperties
  <2>3. CASE n + i <= Len(s)
    <3>1. i \in 1 .. Len(s) - n  BY <1>1, <2>3
    <3>2. QED  BY <1>1, <1>3, <1>4, <1>5, <2>2, <2>3, <3>1
  <2>4. CASE ~(n + i <= Len(s))
    <3>1. ~(i <= Len(s) - n) /\ i - (Len(s) - n) = n + i - Len(s)  BY <1>1, <2>4
    <3>2. QED  BY <1>1, <1>3, <1>5, <2>2, <2>4, <3>1
  <2>5. QED  BY <2>3, <2>4
<1>7. Len(pop(s \o t, n)) = Len(pop(s, n) \o t)  BY <1>1, <1>3, <1>5
<1>8. \A i \in 1 .. Len(pop(s \o t, n)) : pop(s \o t, n)[i] = (pop(s, n) \o t)[i]
  BY <1>3, <1>6
<1>9. QED  BY <1>3, <1>5, <1>7, <1>8, SeqEqual

(* A prefix, by its elements. *)
LEMMA Prefix ==
  ASSUME NEW S, NEW s \in Seq(S), NEW t \in Seq(S)
  PROVE  IsPrefix(s, t) <=> Len(s) <= Len(t) /\ \A i \in 1 .. Len(s) : s[i] = t[i]
<1>1. Len(s) \in Nat /\ Len(t) \in Nat  BY LenProperties
<1>2. SubSeq(s, 1, Len(s)) = s  BY SubSeqFull
<1>3. ASSUME Len(s) <= Len(t)
      PROVE  s = SubSeq(t, 1, Len(s)) <=> \A i \in 1 .. Len(s) : s[i] = t[i]
  <2>1. /\ SubSeq(t, 1, Len(s)) \in Seq(S)
        /\ Len(SubSeq(t, 1, Len(s))) = IF 1 <= Len(s) THEN Len(s) - 1 + 1 ELSE 0
        /\ \A i \in 1 .. Len(s) - 1 + 1 : SubSeq(t, 1, Len(s))[i] = t[1 + i - 1]
    BY <1>1, <1>3, Take
  <2>2. \A i \in 1 .. Len(s) : SubSeq(t, 1, Len(s))[i] = t[i]  BY <1>1, <2>1
  <2>3. Len(SubSeq(t, 1, Len(s))) = Len(s)  BY <1>1, <2>1
  <2>4. QED  BY <2>1, <2>2, <2>3, SeqEqual
<1>4. QED  BY <1>2, <1>3 DEF IsPrefix

LEMMA PrefixOfLonger ==
  ASSUME NEW S, NEW s \in Seq(S), NEW t \in Seq(S), NEW u \in Seq(S), IsPrefix(s, t)
  PROVE  IsPrefix(s, t \o u)
<1>1. Len(s) \in Nat /\ Len(t) \in Nat /\ Len(u) \in Nat  BY LenProperties
<1>2. /\ t \o u \in Seq(S) /\ Len(t \o u) = Len(t) + Len(u)
      /\ \A i \in 1 .. Len(t) + Len(u) : (t \o u)[i] = IF i <= Len(t) THEN t[i] ELSE u[i - Len(t)]
  BY ConcatProperties
<1>3. Len(s) <= Len(t) /\ \A i \in 1 .. Len(s) : s[i] = t[i]  BY Prefix
<1>4. Len(s) <= Len(t \o u) /\ \A i \in 1 .. Len(s) : s[i] = (t \o u)[i]  BY <1>1, <1>2, <1>3
<1>5. QED  BY <1>2, <1>4, Prefix

LEMMA PrefixOfItself ==
  ASSUME NEW S, NEW s \in Seq(S)
  PROVE  IsPrefix(s, s)
<1>1. Len(s) \in Nat  BY LenProperties
<1>2. QED  BY <1>1 DEF IsPrefix

-----------------------------------------------------------------------------
(* Messages and the logins among them. *)
Begins(s) == {k \in DOMAIN s : s[k].at = 1 /\ s[k].cmd \in Logins}

LEMMA LoginsCounted ==
  ASSUME NEW s \in Bytes
  PROVE  /\ LoginsIn(s) = Cardinality(Begins(s))
         /\ IsFiniteSet(Begins(s)) /\ LoginsIn(s) \in Nat
<1>1. Len(s) \in Nat /\ DOMAIN s = 1 .. Len(s)  BY LenProperties DEF Bytes
<1>2. IsFiniteSet(1 .. Len(s))  BY <1>1, FS_Interval
<1>3. Begins(s) \in SUBSET (1 .. Len(s))  BY <1>1 DEF Begins
<1>4. IsFiniteSet(Begins(s))  BY <1>2, <1>3, FS_Subset
<1>5. QED  BY <1>4, FS_CardinalityType DEF LoginsIn, Begins, Logins

LEMMA NoLoginsInNothing == LoginsIn(<< >>) = 0
<1>1. << >> \in Bytes /\ DOMAIN << >> = {}  BY EmptySeq, LenProperties DEF Bytes
<1>2. Begins(<< >>) = {}  BY <1>1 DEF Begins
<1>3. QED  BY <1>1, <1>2, LoginsCounted, FS_EmptySet

(* Logins add up. *)
LEMMA LoginsAdd ==
  ASSUME NEW s \in Bytes, NEW t \in Bytes
  PROVE  LoginsIn(s \o t) = LoginsIn(s) + LoginsIn(t)
<1> DEFINE n == Len(s)
           u == s \o t
           Later == {k \in Begins(u) : k > n}
           shift == [k \in Begins(t) |-> n + k]
<1>1. n \in Nat /\ Len(t) \in Nat /\ DOMAIN s = 1 .. n /\ DOMAIN t = 1 .. Len(t)
  BY LenProperties DEF Bytes
<1>2. /\ u \in Bytes /\ Len(u) = n + Len(t) /\ DOMAIN u = 1 .. n + Len(t)
      /\ \A i \in 1 .. n + Len(t) : u[i] = IF i <= n THEN s[i] ELSE t[i - n]
  BY ConcatProperties, LenProperties DEF Bytes
<1> HIDE DEF n, u
<1>3. Begins(u) = Begins(s) \cup Later /\ Begins(s) \cap Later = {}
  BY <1>1, <1>2 DEF Begins
<1>4. shift \in Bijection(Begins(t), Later)
  <2>1. shift \in [Begins(t) -> Later]
    BY <1>1, <1>2 DEF Begins
  <2>2. \A a, b \in Begins(t) : shift[a] = shift[b] => a = b  BY <1>1 DEF Begins
  <2>3. \A c \in Later : c - n \in Begins(t) /\ n + (c - n) = c  BY <1>1, <1>2 DEF Begins
  <2>4. \A c \in Later : \E a \in Begins(t) : shift[a] = c  BY <2>3
  <2>5. QED  BY <2>1, <2>2, <2>4, Fun_IsBij
<1>5. IsFiniteSet(Later) /\ Cardinality(Later) = Cardinality(Begins(t))
  BY <1>4, LoginsCounted, FS_Bijection DEF ExistsBijection
<1>6. Cardinality(Begins(u)) = Cardinality(Begins(s)) + Cardinality(Later) - Cardinality({})
  BY <1>3, <1>5, LoginsCounted, FS_Union
<1>7. LoginsIn(u) = LoginsIn(s) + LoginsIn(t)
  BY <1>2, <1>5, <1>6, LoginsCounted, FS_EmptySet
<1>8. QED  BY <1>7 DEF u

LEMMA OneMessage ==
  ASSUME NEW cmd \in CMD, NEW id \in Int
  PROVE  /\ Message(cmd, id) \in Bytes
         /\ Len(Message(cmd, id)) = dataLength(cmd)
         /\ \A k \in 1 .. dataLength(cmd) : Message(cmd, id)[k] = [cmd |-> cmd, id |-> id, at |-> k]
         /\ LoginsIn(Message(cmd, id)) = IF cmd \in Logins THEN 1 ELSE 0
         /\ dataLength(cmd) \in 1 .. 2
<1> DEFINE m == Message(cmd, id)
           n == dataLength(cmd)
<1>1. n \in 1 .. 2  BY DEF dataLength
<1>2. \A k \in 1 .. n : [cmd |-> cmd, id |-> id, at |-> k] \in Unit(Int)  BY <1>1 DEF Unit
<1>3. m \in [1 .. n -> Unit(Int)] /\ \A k \in 1 .. n : m[k] = [cmd |-> cmd, id |-> id, at |-> k]
  BY <1>2 DEF Message
<1>4. m \in Bytes  BY <1>1, <1>3, SeqDef DEF Bytes
<1>5. Len(m) = n /\ DOMAIN m = 1 .. n
  <2>1. DOMAIN m = 1 .. Len(m) /\ Len(m) \in Nat  BY <1>4, LenProperties DEF Bytes
  <2>2. DOMAIN m = 1 .. n  BY <1>3
  <2>3. QED  BY <1>1, <2>1, <2>2
<1>6. Begins(m) = IF cmd \in Logins THEN {1} ELSE {}  BY <1>1, <1>3, <1>5 DEF Begins
<1>7. LoginsIn(m) = IF cmd \in Logins THEN 1 ELSE 0
  BY <1>4, <1>6, LoginsCounted, FS_EmptySet, FS_Singleton
<1>8. QED  BY <1>1, <1>3, <1>4, <1>5, <1>7

(* The unit that comes after another one of the same message. *)
Follower(unit) == [unit EXCEPT !.at = @ + 1]

Continues(s, k, first) ==
  IF k = 1 \/ s[k - 1].at = dataLength(s[k - 1].cmd)
  THEN /\ s[k].at = 1
       /\ s[k].cmd \in Logins => s[k].id = first + LoginsIn(SubSeq(s, 1, k - 1))
  ELSE s[k] = Follower(s[k - 1])

LEMMA MessagesContinue ==
  ASSUME NEW s, NEW first
  PROVE  Messages(s, first) <=> \A k \in DOMAIN s : Continues(s, k, first)
BY DEF Messages, Continues, Follower, Logins

(* The beginning of a concatenation. *)
LEMMA FrontOfFirst ==
  ASSUME NEW S, NEW s \in Seq(S), NEW t \in Seq(S), NEW n \in Nat, n <= Len(s)
  PROVE  SubSeq(s \o t, 1, n) = SubSeq(s, 1, n)
<1>1. Len(s) \in Nat  BY LenProperties
<1>2. CASE n = 0  BY <1>2, SubSeqEmpty
<1>3. CASE n # 0
  <2>1. 1 \in 1 .. Len(s) /\ n \in 1 .. Len(s)  BY <1>1, <1>3
  <2>2. QED  BY <2>1, SubSeqOfConcat1
<1>4. QED  BY <1>2, <1>3

LEMMA FrontOfBoth ==
  ASSUME NEW S, NEW s \in Seq(S), NEW t \in Seq(S), NEW n \in Nat, n <= Len(t)
  PROVE  SubSeq(s \o t, 1, Len(s) + n) = s \o SubSeq(t, 1, n)
<1> DEFINE u == s \o t
           f == SubSeq(t, 1, n)
           a == SubSeq(u, 1, Len(s) + n)
           b == s \o f
<1>1. Len(s) \in Nat /\ Len(t) \in Nat  BY LenProperties
<1>2. /\ u \in Seq(S) /\ Len(u) = Len(s) + Len(t)
      /\ \A i \in 1 .. Len(s) + Len(t) : u[i] = IF i <= Len(s) THEN s[i] ELSE t[i - Len(s)]
  BY ConcatProperties
<1>3. f \in Seq(S) /\ Len(f) = n /\ \A i \in 1 .. n : f[i] = t[i]
  <2>1. /\ f \in Seq(S) /\ Len(f) = IF 1 <= n THEN n - 1 + 1 ELSE 0
        /\ \A i \in 1 .. n - 1 + 1 : f[i] = t[1 + i - 1]
    BY <1>1, Take
  <2> HIDE DEF f
  <2>2. QED  BY <1>1, <2>1
<1> HIDE DEF u, f
<1>4. a \in Seq(S) /\ Len(a) = Len(s) + n /\ \A i \in 1 .. Len(s) + n : a[i] = u[i]
  <2> DEFINE k == Len(s) + n
  <2>1. k \in Nat /\ k <= Len(u)  BY <1>1, <1>2
  <2> HIDE DEF k
  <2>2. /\ SubSeq(u, 1, k) \in Seq(S) /\ Len(SubSeq(u, 1, k)) = IF 1 <= k THEN k - 1 + 1 ELSE 0
        /\ \A i \in 1 .. k - 1 + 1 : SubSeq(u, 1, k)[i] = u[1 + i - 1]
    BY <1>2, <2>1, Take
  <2>3. /\ SubSeq(u, 1, k) \in Seq(S) /\ Len(SubSeq(u, 1, k)) = k
        /\ \A i \in 1 .. k : SubSeq(u, 1, k)[i] = u[i]
    BY <2>1, <2>2
  <2>4. QED  BY <2>3 DEF k
<1>5. /\ b \in Seq(S) /\ Len(b) = Len(s) + n
      /\ \A i \in 1 .. Len(s) + n : b[i] = IF i <= Len(s) THEN s[i] ELSE f[i - Len(s)]
  BY <1>3, ConcatProperties
<1> HIDE DEF a, b
<1>6. ASSUME NEW i \in 1 .. Len(s) + n PROVE a[i] = b[i]
  <2>1. i \in 1 .. Len(s) + Len(t)  BY <1>1
  <2>2. CASE i <= Len(s)  BY <1>2, <1>4, <1>5, <2>1, <2>2
  <2>3. CASE ~(i <= Len(s))
    <3>1. i - Len(s) \in 1 .. n  BY <1>1, <2>3
    <3>2. QED  BY <1>2, <1>3, <1>4, <1>5, <2>1, <2>3, <3>1
  <2>4. QED  BY <2>2, <2>3
<1>7. a = b  BY <1>4, <1>5, <1>6, SeqEqual
<1>8. QED  BY <1>7 DEF a, b, u, f

LEMMA NothingIsOrderly ==
  ASSUME NEW C, NEW n \in Int
  PROVE  Orderly(<< >>, C, n, n)
<1>1. << >> \in Bytes /\ DOMAIN << >> = {}  BY EmptySeq, LenProperties DEF Bytes
<1>2. QED  BY <1>1, NoLoginsInNothing DEF Orderly, Messages, Whole

(* One more message. *)
LEMMA AppendOrderly ==
  ASSUME NEW s \in Bytes, NEW C, NEW nSend \in Int, NEW nRecv \in Int,
         Orderly(s, C, nSend, nRecv), NEW cmd \in CMD, cmd \in C
  PROVE  Orderly(s \o Message(cmd, IF cmd \in Logins THEN nSend ELSE 0), C,
                 IF cmd \in Logins THEN nSend + 1 ELSE nSend, nRecv)
<1> DEFINE id == IF cmd \in Logins THEN nSend ELSE 0
           m == Message(cmd, id)
           d == dataLength(cmd)
           n == Len(s)
           u == s \o m
<1>1. n \in Nat /\ DOMAIN s = 1 .. n  BY LenProperties DEF Bytes
<1>2. /\ m \in Bytes /\ Len(m) = d /\ d \in 1 .. 2
      /\ \A k \in 1 .. d : m[k] = [cmd |-> cmd, id |-> id, at |-> k]
      /\ LoginsIn(m) = IF cmd \in Logins THEN 1 ELSE 0
  BY OneMessage
<1> HIDE DEF n
<1>3. /\ u \in Bytes /\ Len(u) = n + d /\ DOMAIN u = 1 .. n + d
      /\ \A i \in 1 .. n + d : u[i] = IF i <= n THEN s[i] ELSE m[i - n]
  <2> HIDE DEF m, d
  <2>1. QED  BY <1>2, ConcatProperties, LenProperties DEF n, Bytes
<1>4. LoginsIn(u) = LoginsIn(s) + (IF cmd \in Logins THEN 1 ELSE 0) /\ LoginsIn(s) \in Nat
  BY <1>2, LoginsAdd, LoginsCounted
<1>5. \A j \in Nat : j <= n => SubSeq(u, 1, j) = SubSeq(s, 1, j)
  <2> HIDE DEF m
  <2>1. QED  BY <1>2, FrontOfFirst DEF n, Bytes
<1>6. SubSeq(u, 1, n) = s
  BY <1>1, <1>5, SubSeqFull DEF n, Bytes
<1> HIDE DEF u, m, d, id
<1>7. ASSUME NEW k \in 1 .. n + d
      PROVE  Continues(u, k, nRecv)
  <2>1. CASE k <= n
    <3>1. u[k] = s[k] /\ (k # 1 => u[k - 1] = s[k - 1])
      <4>1. k # 1 => k - 1 \in 1 .. n + d /\ k - 1 <= n  BY <1>1, <1>2, <2>1
      <4>2. QED  BY <1>3, <2>1, <4>1
    <3>2. SubSeq(u, 1, k - 1) = SubSeq(s, 1, k - 1)
      <4>1. k - 1 \in Nat /\ k - 1 <= n  BY <1>1, <2>1
      <4>2. QED  BY <4>1, <1>5
    <3>3. Continues(s, k, nRecv)
      <4>1. k \in DOMAIN s  BY <1>1, <2>1
      <4>2. QED  BY <4>1, MessagesContinue DEF Orderly
    <3>4. CASE k = 1  BY <3>1, <3>2, <3>3, <3>4 DEF Continues
    <3>5. CASE k # 1
      <4>1. u[k] = s[k] /\ u[k - 1] = s[k - 1]  BY <3>1, <3>5
      <4>2. QED  BY <3>2, <3>3, <3>5, <4>1 DEF Continues
    <3>6. QED  BY <3>4, <3>5
  <2>2. CASE k = n + 1
    <3>1. u[k] = [cmd |-> cmd, id |-> id, at |-> 1]
      <4>1. ~(k <= n) /\ k - n = 1 /\ 1 \in 1 .. d  BY <1>1, <1>2, <2>2
      <4>2. QED  BY <1>2, <1>3, <4>1
    <3>2. k # 1 => u[k - 1].at = dataLength(u[k - 1].cmd)
      <4>1. ASSUME k # 1 PROVE s # << >> /\ u[k - 1] = s[n]
        <5>1. n # 0 /\ k - 1 = n /\ n \in 1 .. n + d  BY <1>1, <1>2, <2>2, <4>1
        <5>2. s # << >>  BY <5>1, EmptySeq DEF n
        <5>3. u[n] = s[n]  BY <1>1, <1>3, <5>1
        <5>4. QED  BY <5>1, <5>2, <5>3
      <4>2. QED  BY <4>1 DEF Orderly, Whole, n
    <3>3. SubSeq(u, 1, k - 1) = s
      <4>1. k - 1 = n  BY <1>1, <2>2
      <4>2. QED  BY <4>1, <1>6
    <3>4. cmd \in Logins => id = nRecv + LoginsIn(s)  BY DEF Orderly, id
    <3>5. u[k].at = 1 /\ u[k].cmd = cmd /\ u[k].id = id  BY <3>1
    <3>6. u[k].cmd \in Logins => u[k].id = nRecv + LoginsIn(SubSeq(u, 1, k - 1))
      BY <3>3, <3>4, <3>5
    <3>7. k = 1 \/ u[k - 1].at = dataLength(u[k - 1].cmd)  BY <3>2
    <3>8. QED  BY <3>5, <3>6, <3>7 DEF Continues
  <2>3. CASE k = n + 2
    <3>1. d = 2  BY <1>1, <1>2, <2>3
    <3>2. u[k] = [cmd |-> cmd, id |-> id, at |-> 2]
      <4>1. ~(k <= n) /\ k - n = 2 /\ 2 \in 1 .. d  BY <1>1, <3>1, <2>3
      <4>2. QED  BY <1>2, <1>3, <4>1
    <3>3. u[k - 1] = [cmd |-> cmd, id |-> id, at |-> 1]
      <4>1. k - 1 \in 1 .. n + d /\ ~(k - 1 <= n) /\ (k - 1) - n = 1 /\ 1 \in 1 .. d
        BY <1>1, <3>1, <2>3
      <4>2. QED  BY <1>2, <1>3, <4>1
    <3>4. k # 1 /\ dataLength(cmd) = 2  BY <1>1, <2>3, <3>1 DEF d
    <3>5. u[k] = Follower(u[k - 1])  BY <3>2, <3>3 DEF Follower
    <3>6. QED  BY <3>3, <3>4, <3>5 DEF Continues
  <2>4. QED  BY <1>1, <1>2, <2>1, <2>2, <2>3
<1>8. Messages(u, nRecv)  BY <1>3, <1>7, MessagesContinue
<1>9. Whole(u)
  <2>1. u[n + d] = [cmd |-> cmd, id |-> id, at |-> d]
    <3>1. n + d \in 1 .. n + d /\ ~(n + d <= n) /\ (n + d) - n = d /\ d \in 1 .. d
      BY <1>1, <1>2
    <3>2. QED  BY <1>2, <1>3, <3>1
  <2>2. QED  BY <2>1, <1>3 DEF Whole, d
<1>10. \A k \in DOMAIN u : u[k].cmd \in C
  <2>1. ASSUME NEW k \in 1 .. n + d PROVE u[k].cmd \in C
    <3>1. CASE k <= n  BY <1>1, <1>3, <3>1 DEF Orderly
    <3>2. CASE ~(k <= n)
      <4>1. k - n \in 1 .. d  BY <1>1, <1>2, <3>2
      <4>2. QED  BY <1>2, <1>3, <3>2, <4>1
    <3>3. QED  BY <3>1, <3>2
  <2>2. QED  BY <1>3, <2>1
<1>11. (IF cmd \in Logins THEN nSend + 1 ELSE nSend) = nRecv + LoginsIn(u)
  BY <1>4 DEF Orderly
<1>12. QED  BY <1>8, <1>9, <1>10, <1>11 DEF Orderly, u, m, id

(* One message less: the first one has its header first, and its length is *)
(* that of its command.                                                    *)
LEMMA PopOrderly ==
  ASSUME NEW s \in Bytes, NEW C, NEW nSend \in Int, NEW nRecv \in Int,
         Orderly(s, C, nSend, nRecv), s # << >>
  PROVE  /\ s[1].at = 1 /\ s[1] \in Unit(Int)
         /\ dataLength(s[1].cmd) <= Len(s) =>
              Orderly(pop(s, dataLength(s[1].cmd)), C, nSend,
                      IF s[1].cmd \in Logins THEN nRecv + 1 ELSE nRecv)
<1> DEFINE cmd == s[1].cmd
           d == dataLength(cmd)
           n == Len(s)
           m == Message(cmd, s[1].id)
           t == pop(s, d)
           first == IF cmd \in Logins THEN nRecv + 1 ELSE nRecv
<1>1. n \in Nat /\ DOMAIN s = 1 .. n /\ 1 \in 1 .. n
  <2>1. n \in Nat \ {0} /\ DOMAIN s = 1 .. n  BY EmptySeq, LenProperties DEF Bytes
  <2>2. QED  BY <2>1
<1>2. s[1] \in Unit(Int) /\ s[1].at = 1
  <2>1. s[1] \in Unit(Int)  BY <1>1, ElementOfSeq DEF Bytes
  <2>2. s[1].at = 1  BY <1>1 DEF Orderly, Messages
  <2>3. QED  BY <2>1, <2>2
<1>3. cmd \in CMD /\ s[1].id \in Int /\ s[1] = [cmd |-> cmd, id |-> s[1].id, at |-> 1]
  BY <1>2 DEF Unit
<1> SUFFICES ASSUME d <= n PROVE Orderly(t, C, nSend, first)
  BY <1>2
<1>4. /\ m \in Bytes /\ Len(m) = d /\ d \in 1 .. 2
      /\ \A k \in 1 .. d : m[k] = [cmd |-> cmd, id |-> s[1].id, at |-> k]
      /\ LoginsIn(m) = IF cmd \in Logins THEN 1 ELSE 0
  BY <1>3, OneMessage
<1>5. ASSUME d = 2 PROVE s[2] = [cmd |-> cmd, id |-> s[1].id, at |-> 2]
  <2>1. 2 \in DOMAIN s  BY <1>1, <1>5
  <2>2. Continues(s, 2, nRecv)  BY <2>1, MessagesContinue DEF Orderly
  <2>3. 2 # 1 /\ 2 - 1 = 1  OBVIOUS
  <2>4. s[2] = Follower(s[1])  BY <1>2, <1>5, <2>2, <2>3 DEF Continues
  <2>5. QED  BY <1>3, <2>4 DEF Follower
<1>6. /\ t \in Bytes /\ Len(t) = n - d /\ DOMAIN t = 1 .. n - d
      /\ \A i \in 1 .. n - d : t[i] = s[d + i]
  <2>1. d \in Nat /\ s \in Seq(Unit(Int))  BY <1>4 DEF Bytes
  <2>2. /\ t \in Seq(Unit(Int)) /\ Len(t) = n - d
        /\ \A i \in 1 .. n - d : t[i] = s[d + i]
    <3> HIDE DEF d
    <3>1. QED  BY <2>1, Popped
  <2>3. DOMAIN t = 1 .. Len(t)  BY <2>2, LenProperties
  <2>4. QED  BY <2>2, <2>3 DEF Bytes
<1>7. SubSeq(s, 1, d) = m
  <2>1. /\ SubSeq(s, 1, d) \in Seq(Unit(Int)) /\ Len(SubSeq(s, 1, d)) = IF 1 <= d THEN d - 1 + 1 ELSE 0
        /\ \A i \in 1 .. d - 1 + 1 : SubSeq(s, 1, d)[i] = s[1 + i - 1]
    <3>1. d \in Nat /\ s \in Seq(Unit(Int)) /\ 1 \in Nat \ {0}  BY <1>4 DEF Bytes
    <3> HIDE DEF d
    <3>2. QED  BY <3>1, Take
  <2>2. Len(SubSeq(s, 1, d)) = d /\ \A i \in 1 .. d : SubSeq(s, 1, d)[i] = s[i]  BY <1>4, <2>1
  <2>3. \A i \in 1 .. d : s[i] = m[i]
    <3> TAKE i \in 1 .. d
    <3>1. CASE i = 1  BY <1>3, <1>4, <3>1
    <3>2. CASE i # 1
      <4>1. d = 2 /\ i = 2  BY <1>4, <3>2
      <4>2. QED  BY <1>4, <1>5, <4>1
    <3>3. QED  BY <3>1, <3>2
  <2> HIDE DEF m, d
  <2>4. QED  BY <1>4, <2>1, <2>2, <2>3, SeqEqual DEF Bytes
<1>8. s = m \o t
  <2>1. d \in Nat /\ 0 <= d /\ s \in Seq(Unit(Int))  BY <1>4 DEF Bytes
  <2> HIDE DEF m, t, d
  <2>2. SubSeq(s, 0 + 1, d) \o pop(s, d) = pop(s, 0)  BY <2>1, Split
  <2>3. pop(s, 0) = s  BY <2>1, PopNothing
  <2>4. 0 + 1 = 1  OBVIOUS
  <2>5. QED  BY <1>7, <2>2, <2>3, <2>4 DEF t
<1>9. \A j \in Nat : j <= n - d => SubSeq(s, 1, d + j) = m \o SubSeq(t, 1, j)
  <2> HIDE DEF m, t, d
  <2>1. ASSUME NEW j \in Nat, j <= n - d PROVE SubSeq(m \o t, 1, Len(m) + j) = m \o SubSeq(t, 1, j)
    BY <1>4, <1>6, <2>1, FrontOfBoth DEF Bytes
  <2>2. QED  BY <1>4, <1>8, <2>1
<1>10. s[d].at = dataLength(s[d].cmd)
  <2>1. s[d] = [cmd |-> cmd, id |-> s[1].id, at |-> d]
    <3>1. CASE d = 1  BY <1>3, <3>1
    <3>2. CASE d = 2  BY <1>5, <3>2
    <3>3. QED  BY <1>4, <3>1, <3>2
  <2>2. QED  BY <2>1
<1> HIDE DEF m, t, d, n
<1>11. ASSUME NEW k \in 1 .. n - d
       PROVE  Continues(t, k, first)
  <2> DEFINE j == d + k
             before == LoginsIn(SubSeq(t, 1, k - 1))
             loginsTo == LoginsIn(SubSeq(s, 1, j - 1))
  <2>1. /\ j \in DOMAIN s /\ j \in Int /\ j # 1 /\ j - 1 = d + (k - 1)
        /\ k - 1 \in Nat /\ k - 1 <= n - d
    BY <1>1, <1>4
  <2>2. t[k] = s[j]  BY <1>6
  <2>3. k = 1 => j - 1 = d  BY <1>4, <2>1
  <2>4. k # 1 => t[k - 1] = s[j - 1]
    <3>1. ASSUME k # 1 PROVE k - 1 \in 1 .. n - d  BY <1>1, <1>4, <3>1
    <3>2. QED  BY <1>6, <2>1, <3>1
  <2>5. nRecv + loginsTo = first + before
    <3>1. SubSeq(t, 1, k - 1) \in Bytes
      <4>1. k - 1 <= Len(t) /\ 1 \in Nat \ {0}  BY <1>6, <2>1
      <4>2. QED  BY <1>6, <2>1, <4>1, Take DEF Bytes
    <3>2. SubSeq(s, 1, j - 1) = m \o SubSeq(t, 1, k - 1)  BY <1>9, <2>1
    <3>3. loginsTo = LoginsIn(m) + before /\ before \in Nat
      BY <1>4, <3>1, <3>2, LoginsAdd, LoginsCounted
    <3> HIDE DEF before, loginsTo
    <3>4. QED  BY <1>4, <3>3
  <2> HIDE DEF j
  <2>6. Continues(s, j, nRecv)  BY <2>1, MessagesContinue DEF Orderly
  <2>7. CASE k = 1 \/ t[k - 1].at = dataLength(t[k - 1].cmd)
    <3>1. s[j - 1].at = dataLength(s[j - 1].cmd)  BY <1>10, <2>3, <2>4, <2>7
    <3>2. s[j].at = 1 /\ (s[j].cmd \in Logins => s[j].id = nRecv + loginsTo)
      BY <2>6, <3>1 DEF Continues
    <3>3. QED  BY <2>2, <2>5, <2>7, <3>2 DEF Continues
  <2>8. CASE ~(k = 1 \/ t[k - 1].at = dataLength(t[k - 1].cmd))
    <3>1. s[j] = Follower(s[j - 1])  BY <2>1, <2>4, <2>6, <2>8 DEF Continues
    <3>2. QED  BY <2>2, <2>4, <2>8, <3>1 DEF Continues
  <2>9. QED  BY <2>7, <2>8
<1>12. Messages(t, first)  BY <1>6, <1>11, MessagesContinue
<1>13. Whole(t)
  <2>1. SUFFICES ASSUME t # << >> PROVE t[Len(t)].at = dataLength(t[Len(t)].cmd)
    BY DEF Whole
  <2>2. n - d \in 1 .. n - d
    <3>1. Len(t) # 0  BY <1>6, <2>1, EmptySeq DEF Bytes
    <3>2. QED  BY <1>1, <1>4, <1>6, <3>1
  <2>3. t[n - d] = s[d + (n - d)] /\ d + (n - d) = n  BY <1>1, <1>4, <1>6, <2>2
  <2>4. QED  BY <1>6, <2>3 DEF Orderly, Whole, n
<1>14. \A k \in DOMAIN t : t[k].cmd \in C
  <2>1. ASSUME NEW k \in 1 .. n - d PROVE t[k] = s[d + k] /\ d + k \in DOMAIN s
    BY <1>1, <1>4, <1>6
  <2>2. QED  BY <1>6, <2>1 DEF Orderly
<1>15. nSend = first + LoginsIn(t)
  <2>1. LoginsIn(s) = LoginsIn(m) + LoginsIn(t) /\ LoginsIn(t) \in Nat
    BY <1>4, <1>6, <1>8, LoginsAdd, LoginsCounted
  <2>2. QED  BY <1>4, <2>1 DEF Orderly
<1>16. QED  BY <1>12, <1>13, <1>14, <1>15 DEF Orderly, t, d

-----------------------------------------------------------------------------
(* The types of a client object, and what its methods do to it. *)
ClientObject == [send : Bytes, recv : Bytes, isPostSend : BOOLEAN, isPostRecv : BOOLEAN,
                 nSendMsgID : Nat, nRecvMsgID : Nat]

Fits(c) == Len(c.send) <= SendSize /\ Len(c.recv) <= RecvSize

LEMMA JunkType ==
  ASSUME NEW n \in Nat
  PROVE  Junk(n) \in Bytes /\ Len(Junk(n)) = n /\ Junk(1)[1] \in Unit(Int)
<1>1. [cmd |-> "LOGIN", id |-> 0, at |-> 0] \in Unit(Int)  BY DEF Unit, CMD
<1>2. Junk(n) \in [1 .. n -> Unit(Int)]  BY <1>1 DEF Junk
<1>3. Junk(n) \in Bytes  BY <1>2, SeqDef DEF Bytes
<1>4. DOMAIN Junk(n) = 1 .. n /\ DOMAIN Junk(n) = 1 .. Len(Junk(n)) /\ Len(Junk(n)) \in Nat
  BY <1>2, <1>3, LenProperties DEF Bytes
<1>5. Len(Junk(n)) = n  BY <1>4
<1>6. Junk(1)[1] \in Unit(Int)  BY <1>1 DEF Junk
<1>7. QED  BY <1>3, <1>5, <1>6

LEMMA NewObject == NewClient \in ClientObject /\ Fits(NewClient)
<1>1. << >> \in Bytes /\ Len(<< >>) = 0  BY EmptySeq DEF Bytes
<1>2. QED  BY <1>1, BuffersHoldMessages DEF NewClient, ClientObject, Fits

(* SendData: the message whole, and counted if it is a login, or nothing. *)
LEMMA SendDataObject ==
  ASSUME NEW c \in ClientObject, Fits(c), NEW cmd \in CMD
  PROVE  LET d == SendData(c, cmd)
             m == Message(cmd, IF cmd \in Logins THEN c.nSendMsgID ELSE 0)
         IN  /\ d \in ClientObject /\ Fits(d)
             /\ d.recv = c.recv /\ d.nRecvMsgID = c.nRecvMsgID
             /\ d.isPostSend = c.isPostSend /\ d.isPostRecv = c.isPostRecv
             /\ \/ d.send = c.send /\ d.nSendMsgID = c.nSendMsgID
                \/ /\ d.send = c.send \o m
                   /\ d.nSendMsgID = IF cmd \in Logins THEN c.nSendMsgID + 1 ELSE c.nSendMsgID
<1> DEFINE id == IF cmd \in Logins THEN c.nSendMsgID ELSE 0
           m == Message(cmd, id)
           buf == push(c.send, m, SendSize)
<1>1. c.send \in Bytes /\ c.nSendMsgID \in Nat /\ id \in Int  BY DEF ClientObject
<1>2. m \in Bytes /\ Len(m) = dataLength(cmd) /\ dataLength(cmd) \in 1 .. 2  BY <1>1, OneMessage
<1> HIDE DEF m
<1>3. c.send \o m \in Bytes /\ Len(c.send \o m) = Len(c.send) + Len(m) /\ c.send \o m # c.send
  <2>1. m # << >>  BY <1>2, EmptySeq
  <2>2. QED  BY <1>1, <1>2, <2>1, ConcatProperties, ConcatEqualIffEmpty DEF Bytes
<1>4. \/ buf = c.send
      \/ buf = c.send \o m /\ Len(buf) <= SendSize
  BY <1>3 DEF push
<1>5. SendData(c, cmd) = [c EXCEPT !.send = buf,
                            !.nSendMsgID = IF cmd \in Logins /\ buf # c.send THEN @ + 1 ELSE @]
  BY DEF SendData, Logins, m
<1> HIDE DEF buf
<1>6. SendData(c, cmd) = [c EXCEPT !.send = buf, !.nSendMsgID =
                            IF cmd \in Logins /\ buf # c.send THEN c.nSendMsgID + 1 ELSE c.nSendMsgID]
  BY <1>5
<1>7. CASE buf = c.send
  <2>1. SendData(c, cmd) = [c EXCEPT !.send = c.send, !.nSendMsgID = c.nSendMsgID]  BY <1>6, <1>7
  <2>2. QED  BY <1>1, <2>1 DEF ClientObject, Fits
<1>8. CASE buf = c.send \o m /\ Len(buf) <= SendSize
  <2> DEFINE count == IF cmd \in Logins THEN c.nSendMsgID + 1 ELSE c.nSendMsgID
  <2>1. count \in Nat  BY <1>1
  <2>2. SendData(c, cmd) = [c EXCEPT !.send = buf, !.nSendMsgID = count]  BY <1>3, <1>6, <1>8
  <2>3. buf \in Bytes /\ Len(buf) <= SendSize /\ buf = c.send \o m  BY <1>3, <1>8
  <2> HIDE DEF count
  <2>4. /\ SendData(c, cmd) \in ClientObject /\ Fits(SendData(c, cmd))
        /\ SendData(c, cmd).send = buf /\ SendData(c, cmd).nSendMsgID = count
        /\ SendData(c, cmd).recv = c.recv /\ SendData(c, cmd).nRecvMsgID = c.nRecvMsgID
        /\ SendData(c, cmd).isPostSend = c.isPostSend /\ SendData(c, cmd).isPostRecv = c.isPostRecv
    BY <2>1, <2>2, <2>3 DEF ClientObject, Fits
  <2>5. QED  BY <2>3, <2>4 DEF count, m, id
<1>9. QED  BY <1>4, <1>7, <1>8

LEMMA MarkObject ==
  ASSUME NEW c \in ClientObject, Fits(c)
  PROVE  /\ MarkRecv(c) \in ClientObject /\ Fits(MarkRecv(c))
         /\ MarkSend(c) \in ClientObject /\ Fits(MarkSend(c))
         /\ MarkRecv(MarkSend(c)) \in ClientObject /\ Fits(MarkRecv(MarkSend(c)))
BY DEF ClientObject, Fits, MarkRecv, MarkSend

LEMMA PopObject ==
  ASSUME NEW c \in ClientObject, Fits(c), NEW n \in Nat
  PROVE  /\ pop_front_msg(c, n) \in ClientObject /\ Fits(pop_front_msg(c, n))
         /\ SendDataReal(c, n) \in ClientObject /\ Fits(SendDataReal(c, n))
         /\ send2iocp(c, n) \in ClientObject /\ Fits(send2iocp(c, n))
<1>1. c.send \in Seq(Unit(Int)) /\ c.recv \in Seq(Unit(Int)) /\ Len(c.send) \in Nat /\ Len(c.recv) \in Nat
  BY LenProperties DEF ClientObject, Bytes
<1>2. /\ pop(c.send, n) \in Bytes /\ Len(pop(c.send, n)) <= Len(c.send) /\ Len(pop(c.send, n)) \in Nat
      /\ pop(c.recv, n) \in Bytes /\ Len(pop(c.recv, n)) <= Len(c.recv) /\ Len(pop(c.recv, n)) \in Nat
  BY <1>1, PoppedType, LenProperties DEF Bytes
<1>3. SendSize \in Nat /\ RecvSize \in Nat  BY BuffersHoldMessages
<1>4. pop_front_msg(c, n) \in ClientObject /\ Fits(pop_front_msg(c, n))
  BY <1>1, <1>2, <1>3 DEF ClientObject, Fits, pop_front_msg
<1>5. SendDataReal(c, n) \in ClientObject /\ Fits(SendDataReal(c, n))
  BY <1>1, <1>2, <1>3 DEF ClientObject, Fits, SendDataReal, write2socket
<1>6. send2iocp(c, n) \in ClientObject /\ Fits(send2iocp(c, n))
  <2> DEFINE buf == write2iocp(c.send, n)
  <2>1. buf \in Bytes /\ Len(buf) <= SendSize
    <3>1. CASE Len(c.send) < n  BY <1>1, <3>1 DEF write2iocp, Fits, Bytes
    <3>2. CASE ~(Len(c.send) < n)  BY <1>1, <1>2, <1>3, <3>2 DEF write2iocp, Fits
    <3>3. QED  BY <3>1, <3>2
  <2>2. send2iocp(c, n) = [c EXCEPT !.isPostSend = FALSE, !.send = buf]  BY DEF send2iocp
  <2> HIDE DEF buf
  <2>3. QED  BY <2>1, <2>2 DEF ClientObject, Fits
<1>7. QED  BY <1>4, <1>5, <1>6

LEMMA RecvObject ==
  ASSUME NEW c \in ClientObject, Fits(c), NEW units \in Bytes
  PROVE  /\ Len(units) <= RecvSize - Len(c.recv) =>
              RecvData(c, units) \in ClientObject /\ Fits(RecvData(c, units))
         /\ \A request : recv4iocp(c, request, units) \in ClientObject
                           /\ Fits(recv4iocp(c, request, units))
<1>1. /\ c.recv \in Bytes /\ Len(c.recv) \in Nat /\ Len(units) \in Nat
      /\ RecvSize \in Nat /\ Len(c.recv) <= RecvSize
  BY LenProperties, BuffersHoldMessages DEF ClientObject, Fits, Bytes
<1>2. \A t \in Bytes : c.recv \o t \in Bytes /\ Len(c.recv \o t) = Len(c.recv) + Len(t)
  BY <1>1, ConcatProperties DEF Bytes
<1>3. Junk(Len(units)) \in Bytes /\ Len(Junk(Len(units))) = Len(units)  BY <1>1, JunkType
<1>4. ASSUME Len(units) <= RecvSize - Len(c.recv)
      PROVE  RecvData(c, units) \in ClientObject /\ Fits(RecvData(c, units))
  <2>1. Len(c.recv \o units) <= RecvSize /\ c.recv \o units \in Bytes  BY <1>1, <1>2, <1>4
  <2>2. QED  BY <2>1 DEF ClientObject, Fits, RecvData, read4socket
<1>5. ASSUME NEW request
      PROVE  recv4iocp(c, request, units) \in ClientObject /\ Fits(recv4iocp(c, request, units))
  <2> DEFINE buf == read4iocp(c.recv, request, units, RecvSize)
  <2>1. buf \in Bytes /\ Len(buf) <= RecvSize
    <3>1. CASE Len(c.recv) + Len(units) > RecvSize  BY <1>1, <3>1 DEF read4iocp
    <3>2. CASE ~(Len(c.recv) + Len(units) > RecvSize)
      <4> DEFINE t == IF request.at = Len(c.recv) THEN units ELSE Junk(Len(units))
      <4>1. buf = c.recv \o t  BY <3>2 DEF read4iocp
      <4>2. t \in Bytes /\ Len(t) = Len(units)  BY <1>3
      <4> HIDE DEF t
      <4>3. QED  BY <1>1, <1>2, <3>2, <4>1, <4>2
    <3>3. QED  BY <3>1, <3>2
  <2>2. recv4iocp(c, request, units) = [c EXCEPT !.isPostRecv = FALSE, !.recv = buf]
    BY DEF recv4iocp
  <2> HIDE DEF buf
  <2>3. QED  BY <2>1, <2>2 DEF ClientObject, Fits
<1>6. QED  BY <1>4, <1>5


-----------------------------------------------------------------------------
(* Requests. *)
LEMMA Removed ==
  ASSUME NEW S, NEW s \in Seq(S), NEW i \in DOMAIN s
  PROVE  /\ RemoveAt(s, i) \in Seq(S)
         /\ Len(RemoveAt(s, i)) = Len(s) - 1
         /\ DOMAIN RemoveAt(s, i) = 1 .. Len(s) - 1
         /\ \A j \in 1 .. Len(s) - 1 :
              RemoveAt(s, i)[j] = IF j < i THEN s[j] ELSE s[j + 1]
<1> DEFINE n == Len(s)
           front == SubSeq(s, 1, i - 1)
           back == SubSeq(s, i + 1, n)
           r == front \o back
<1>1. n \in Nat /\ DOMAIN s = 1 .. n /\ i \in 1 .. n  BY LenProperties
<1>2. front \in Seq(S) /\ Len(front) = i - 1 /\ \A j \in 1 .. i - 1 : front[j] = s[j]
  <2> DEFINE m == i - 1
  <2>1. m \in Nat /\ m <= n  BY <1>1
  <2> HIDE DEF m
  <2>2. /\ SubSeq(s, 1, m) \in Seq(S) /\ Len(SubSeq(s, 1, m)) = IF 1 <= m THEN m - 1 + 1 ELSE 0
        /\ \A j \in 1 .. m - 1 + 1 : SubSeq(s, 1, m)[j] = s[1 + j - 1]
    BY <2>1, Take
  <2>3. /\ SubSeq(s, 1, m) \in Seq(S) /\ Len(SubSeq(s, 1, m)) = m
        /\ \A j \in 1 .. m : SubSeq(s, 1, m)[j] = s[j]
    BY <2>1, <2>2
  <2>4. QED  BY <2>3 DEF m
<1>3. back \in Seq(S) /\ Len(back) = n - i /\ \A j \in 1 .. n - i : back[j] = s[i + j]
  <2>1. i \in Nat /\ i <= Len(s)  BY <1>1
  <2>2. /\ pop(s, i) \in Seq(S) /\ Len(pop(s, i)) = Len(s) - i
        /\ \A j \in 1 .. Len(s) - i : pop(s, i)[j] = s[i + j]
    BY <2>1, Popped
  <2>3. QED  BY <2>2 DEF pop
<1> HIDE DEF front, back
<1>4. /\ r \in Seq(S) /\ Len(r) = (i - 1) + (n - i) /\ DOMAIN r = 1 .. Len(r)
      /\ \A j \in 1 .. (i - 1) + (n - i) : r[j] = IF j <= i - 1 THEN front[j] ELSE back[j - (i - 1)]
  <2>1. /\ r \in Seq(S) /\ Len(r) = Len(front) + Len(back)
        /\ \A j \in 1 .. Len(front) + Len(back) :
             r[j] = IF j <= Len(front) THEN front[j] ELSE back[j - Len(front)]
    BY <1>2, <1>3, ConcatProperties
  <2> HIDE DEF r
  <2>2. DOMAIN r = 1 .. Len(r)  BY <2>1, LenProperties
  <2>3. QED  BY <1>2, <1>3, <2>1, <2>2
<1> HIDE DEF r
<1>5. Len(r) = n - 1 /\ DOMAIN r = 1 .. n - 1  BY <1>1, <1>4
<1>6. ASSUME NEW j \in 1 .. n - 1
      PROVE  r[j] = IF j < i THEN s[j] ELSE s[j + 1]
  <2>1. j \in 1 .. (i - 1) + (n - i)  BY <1>1
  <2>2. CASE j < i
    <3>1. j \in 1 .. i - 1 /\ j <= i - 1  BY <1>1, <2>2
    <3>2. QED  BY <1>2, <1>4, <2>1, <2>2, <3>1
  <2>3. CASE ~(j < i)
    <3>1. j - (i - 1) \in 1 .. n - i /\ i + (j - (i - 1)) = j + 1 /\ ~(j <= i - 1)  BY <1>1, <2>3
    <3>2. QED  BY <1>3, <1>4, <2>1, <2>3, <3>1
  <2>4. QED  BY <2>2, <2>3
<1>7. r = RemoveAt(s, i)  BY DEF r, front, back, RemoveAt
<1>8. QED  BY <1>4, <1>5, <1>6, <1>7

LEMMA SetToSeqOfOne ==
  /\ SetToSeq({}) = << >>
  /\ \A x : SetToSeq({x}) = <<x>>
<1>1. SetToSeq({}) = << >>
  <2>1. Cardinality({}) = 0 /\ 1 .. 0 = {}  BY FS_EmptySet
  <2>2. \A f \in [1 .. 0 -> {}] : f = << >>
    <3> TAKE f \in [1 .. 0 -> {}]
    <3>1. f \in Seq({}) /\ Len(f) = 0
      <4>1. 0 \in Nat /\ f \in [1 .. 0 -> {}]  OBVIOUS
      <4>2. f \in Seq({})  BY <4>1, SeqDef
      <4>3. DOMAIN f = 1 .. Len(f) /\ DOMAIN f = {} /\ Len(f) \in Nat  BY <2>1, <4>2, LenProperties
      <4>4. QED  BY <4>2, <4>3
    <3>2. QED  BY <3>1, EmptySeq
  <2>3. \E f \in [1 .. 0 -> {}] : IsInjective(f)
    <3>1. [x \in 1 .. 0 |-> x] \in [1 .. 0 -> {}]  BY <2>1
    <3>2. IsInjective([x \in 1 .. 0 |-> x])  BY <2>1 DEF IsInjective
    <3>3. QED  BY <3>1, <3>2
  <2>4. SetToSeq({}) \in [1 .. 0 -> {}]  BY <2>1, <2>3 DEF SetToSeq
  <2>5. QED  BY <2>2, <2>4
<1>2. ASSUME NEW x PROVE SetToSeq({x}) = <<x>>
  <2>1. Cardinality({x}) = 1 /\ 1 .. 1 = {1}  BY FS_Singleton
  <2>2. \E f \in [1 .. 1 -> {x}] : IsInjective(f)
    <3>1. [k \in 1 .. 1 |-> x] \in [1 .. 1 -> {x}]  OBVIOUS
    <3>2. IsInjective([k \in 1 .. 1 |-> x])  BY <2>1 DEF IsInjective
    <3>3. QED  BY <3>1, <3>2
  <2>3. SetToSeq({x}) \in [1 .. 1 -> {x}]  BY <2>1, <2>2 DEF SetToSeq
  <2> HIDE DEF SetToSeq
  <2>4. SetToSeq({x}) \in Seq({x}) /\ SetToSeq({x})[1] = x
    <3>1. 1 \in Nat /\ 1 \in 1 .. 1  OBVIOUS
    <3>2. SetToSeq({x}) \in Seq({x})  BY <2>3, <3>1, SeqDef
    <3>3. SetToSeq({x})[1] \in {x}  BY <2>3, <3>1
    <3>4. QED  BY <3>2, <3>3
  <2>5. Len(SetToSeq({x})) = 1
    <3>1. DOMAIN SetToSeq({x}) = 1 .. Len(SetToSeq({x})) /\ Len(SetToSeq({x})) \in Nat
      BY <2>4, LenProperties
    <3>2. DOMAIN SetToSeq({x}) = 1 .. 1  BY <2>3
    <3>3. QED  BY <3>1, <3>2
  <2>6. <<x>> \in Seq({x}) /\ Len(<<x>>) = 1 /\ <<x>>[1] = x  OBVIOUS
  <2>7. \A i \in 1 .. Len(SetToSeq({x})) : SetToSeq({x})[i] = <<x>>[i]
    BY <2>1, <2>4, <2>5, <2>6
  <2>8. QED  BY <2>4, <2>5, <2>6, <2>7, SeqEqual
<1>3. QED  BY <1>1, <1>2

(* The requests of a round: one of a kind, and only a kind of which none   *)
(* is outstanding.                                                         *)
LEMMA RoundsRequests ==
  ASSUME NEW c \in ClientObject, Fits(c)
  PROVE  LET R == SetToSeq(PostSend(c)) \o SetToSeq(PostRecv(c))
         IN  /\ R \in Seq(Request)
             /\ \A i \in DOMAIN R : R[i] \in PostSend(c) \cup PostRecv(c)
             /\ \A x \in PostSend(c) \cup PostRecv(c) : \E i \in DOMAIN R : R[i] = x
             /\ \A i, j \in DOMAIN R : R[i].iotype = R[j].iotype => i = j
             /\ \A x \in PostSend(c) : x = [iotype |-> "SEND", at |-> 0, data |-> c.send]
             /\ \A x \in PostRecv(c) : x = [iotype |-> "RECV", at |-> Len(c.recv), data |-> << >>]
<1> DEFINE a == [iotype |-> "SEND", at |-> 0, data |-> c.send]
           b == [iotype |-> "RECV", at |-> Len(c.recv), data |-> << >>]
           R == SetToSeq(PostSend(c)) \o SetToSeq(PostRecv(c))
<1>1. a \in Request /\ b \in Request
  <2>1. c.send \in Seq(Unit(Int)) /\ << >> \in Seq(Unit(Int))  BY EmptySeq DEF ClientObject, Bytes
  <2>2. Len(c.recv) \in 0 .. RecvSize
    BY LenProperties, BuffersHoldMessages DEF ClientObject, Bytes, Fits
  <2>3. 0 \in 0 .. RecvSize  BY BuffersHoldMessages
  <2>4. QED  BY <2>1, <2>2, <2>3 DEF Request
<1>2. PostSend(c) \in {{}, {a}} /\ PostRecv(c) \in {{}, {b}}
  BY DEF PostSend, PostRecv, makeSendIoData, makeRecvIoData
<1>3. a.iotype = "SEND" /\ b.iotype = "RECV"  OBVIOUS
<1>4. PostSend(c) \cap PostRecv(c) = {}  BY <1>2, <1>3
<1>5. \A x \in PostSend(c) : x = a  BY <1>2
<1>6. \A x \in PostRecv(c) : x = b  BY <1>2
<1> HIDE DEF a, b
<1>7. << >> \in Seq(Request) /\ <<a>> \in Seq(Request) /\ <<b>> \in Seq(Request)  BY <1>1
<1>8. /\ << >> \o << >> = << >> /\ <<a>> \o << >> = <<a>> /\ << >> \o <<b>> = <<b>>
      /\ <<a>> \o <<b>> = <<a, b>>
  <2>1. << >> \o << >> = << >>  BY <1>7, ConcatEmptySeq
  <2>2. <<a>> \o << >> = <<a>>  BY <1>7, ConcatEmptySeq
  <2>3. << >> \o <<b>> = <<b>>  BY <1>7, ConcatEmptySeq
  <2>4. <<a>> \o <<b>> = <<a, b>>
    <3> DEFINE t == <<a>> \o <<b>>
    <3>1. /\ t \in Seq(Request) /\ Len(t) = Len(<<a>>) + Len(<<b>>)
          /\ \A i \in 1 .. Len(<<a>>) + Len(<<b>>) :
               t[i] = IF i <= Len(<<a>>) THEN <<a>>[i] ELSE <<b>>[i - Len(<<a>>)]
      BY <1>7, ConcatProperties
    <3> HIDE DEF t
    <3>2. Len(t) = 2 /\ t[1] = a /\ t[2] = b  BY <3>1
    <3>3. <<a, b>> \in Seq(Request) /\ Len(<<a, b>>) = 2 /\ <<a, b>>[1] = a /\ <<a, b>>[2] = b
      BY <1>1
    <3>4. \A i \in 1 .. Len(t) : t[i] = <<a, b>>[i]  BY <3>2, <3>3
    <3>5. t = <<a, b>>  BY <3>1, <3>2, <3>3, <3>4, SeqEqual
    <3>6. QED  BY <3>5 DEF t
  <2>5. QED  BY <2>1, <2>2, <2>3, <2>4
<1>9. \/ PostSend(c) = {} /\ PostRecv(c) = {} /\ R = << >>
      \/ PostSend(c) = {a} /\ PostRecv(c) = {} /\ R = <<a>>
      \/ PostSend(c) = {} /\ PostRecv(c) = {b} /\ R = <<b>>
      \/ PostSend(c) = {a} /\ PostRecv(c) = {b} /\ R = <<a, b>>
  <2>1. SetToSeq({}) = << >> /\ SetToSeq({a}) = <<a>> /\ SetToSeq({b}) = <<b>>  BY SetToSeqOfOne
  <2> HIDE DEF SetToSeq
  <2>2. R = SetToSeq(PostSend(c)) \o SetToSeq(PostRecv(c))  OBVIOUS
  <2> HIDE DEF R
  <2>3. CASE PostSend(c) = {} /\ PostRecv(c) = {}  BY <1>8, <2>1, <2>2, <2>3
  <2>4. CASE PostSend(c) = {a} /\ PostRecv(c) = {}  BY <1>8, <2>1, <2>2, <2>4
  <2>5. CASE PostSend(c) = {} /\ PostRecv(c) = {b}  BY <1>8, <2>1, <2>2, <2>5
  <2>6. CASE PostSend(c) = {a} /\ PostRecv(c) = {b}  BY <1>8, <2>1, <2>2, <2>6
  <2>7. QED  BY <1>2, <2>3, <2>4, <2>5, <2>6 DEF a, b
<1> HIDE DEF R
<1>10. /\ R \in Seq(Request)
       /\ \A i \in DOMAIN R : R[i] \in PostSend(c) \cup PostRecv(c)
       /\ \A x \in PostSend(c) \cup PostRecv(c) : \E i \in DOMAIN R : R[i] = x
       /\ \A i, j \in DOMAIN R : R[i].iotype = R[j].iotype => i = j
  <2>1. CASE R = << >> /\ PostSend(c) = {} /\ PostRecv(c) = {}  BY <1>7, <2>1
  <2>2. CASE R = <<a>> /\ PostSend(c) = {a} /\ PostRecv(c) = {}
    <3>1. DOMAIN <<a>> = {1} /\ <<a>>[1] = a  OBVIOUS
    <3>2. QED  BY <1>7, <2>2, <3>1
  <2>3. CASE R = <<b>> /\ PostSend(c) = {} /\ PostRecv(c) = {b}
    <3>1. DOMAIN <<b>> = {1} /\ <<b>>[1] = b  OBVIOUS
    <3>2. QED  BY <1>7, <2>3, <3>1
  <2>4. CASE R = <<a, b>> /\ PostSend(c) = {a} /\ PostRecv(c) = {b}
    <3>1. DOMAIN <<a, b>> = {1, 2} /\ <<a, b>>[1] = a /\ <<a, b>>[2] = b  OBVIOUS
    <3>2. <<a, b>> \in Seq(Request)  BY <1>1
    <3>3. QED  BY <1>3, <2>4, <3>1, <3>2
  <2>5. QED  BY <1>9, <2>1, <2>2, <2>3, <2>4
<1>11. QED  BY <1>5, <1>6, <1>10 DEF R, a, b

(* The request of a client that joins. *)
LEMMA JoinsRequest ==
  ASSUME NEW c \in ClientObject, Fits(c)
  PROVE  LET R == SetToSeq(PostRecv(c))
         IN  /\ R \in Seq(Request)
             /\ c.isPostRecv => R = << >>
             /\ R = << >> \/ R = <<[iotype |-> "RECV", at |-> Len(c.recv), data |-> << >>]>>
             /\ ~c.isPostRecv /\ Len(c.recv) < RecvSize => R # << >>
<1> DEFINE b == [iotype |-> "RECV", at |-> Len(c.recv), data |-> << >>]
<1>1. \A i \in {1} : b \in Request
  <2>1. << >> \in Seq(Unit(Int))  BY EmptySeq
  <2>2. Len(c.recv) \in 0 .. RecvSize
    BY LenProperties, BuffersHoldMessages DEF ClientObject, Bytes, Fits
  <2>3. QED  BY <2>1, <2>2 DEF Request
<1>2. \/ PostRecv(c) = {} /\ (c.isPostRecv \/ ~(Len(c.recv) < RecvSize))
      \/ PostRecv(c) = {b} /\ ~c.isPostRecv
  BY DEF PostRecv, makeRecvIoData
<1> HIDE DEF b
<1>3. SetToSeq({}) = << >> /\ SetToSeq({b}) = <<b>>  BY SetToSeqOfOne
<1> HIDE DEF SetToSeq
<1>4. << >> \in Seq(Request) /\ <<b>> \in Seq(Request) /\ <<b>> # << >>  BY <1>1
<1>5. QED  BY <1>2, <1>3, <1>4 DEF b

-----------------------------------------------------------------------------
(* Types, one part at a time. *)
ObjOK == obj \in [Ends -> ClientObject] /\ \A e \in Ends : Fits(obj[e])
IoOK == io \in [Ends -> Seq(Request)]
WireOK == wire \in [Ends -> Bytes] /\ \A e \in Ends : Len(wire[e]) <= NetCap
LifeOK == life \in [Ends -> Life]
StageOK == stage \in [Ends -> Stage]
SentOK == sent \in [Ends -> [taken : 0 .. SendSize, of : 0 .. SendSize]]
NetOK == net \in {"idle", "up", "down"}
BeatOK == beat \in {"off", "idle", "callback"} /\ seen \in Bytes /\ hearts \in 0 .. MaxHearts

Types ==
  /\ build \in Builds
  /\ ObjOK /\ IoOK /\ WireOK /\ LifeOK /\ StageOK /\ SentOK /\ NetOK /\ BeatOK
  /\ raced \in BOOLEAN

LEMMA TypeParts == ConnTypeOK <=> Types
BY DEF ConnTypeOK, ConnectionTypeOK, Types, ObjOK, IoOK, WireOK, LifeOK, StageOK, SentOK,
       NetOK, BeatOK, ClientObject, Fits, Bytes

LEMMA InitTypes == Init => Types
<1> SUFFICES ASSUME Init PROVE Types
  OBVIOUS
<1>1. << >> \in Bytes /\ Len(<< >>) = 0 /\ << >> \in Seq(Request)  BY EmptySeq DEF Bytes
<1>2. ObjOK  BY NewObject DEF Init, ObjOK
<1>3. IoOK /\ WireOK  BY <1>1, NetCapPositive DEF Init, IoOK, WireOK
<1>4. LifeOK /\ StageOK /\ NetOK  BY DEF Init, LifeOK, Life, StageOK, Stage, NetOK
<1>5. SentOK  BY BuffersHoldMessages DEF Init, SentOK
<1>6. BeatOK  BY <1>1, LimitsAreNat DEF Init, BeatOK
<1>7. QED  BY <1>2, <1>3, <1>4, <1>5, <1>6 DEF Init, Types

LEMMA OneObject ==
  ASSUME ObjOK, NEW e \in Ends, NEW c \in ClientObject, Fits(c), obj' = [obj EXCEPT ![e] = c]
  PROVE  ObjOK'
BY DEF ObjOK

LEMMA GotoType ==
  ASSUME StageOK, NEW e \in Ends, NEW label \in Stage, Goto(e, label)
  PROVE  StageOK'
BY DEF StageOK, Goto

LEMMA ForgetTypes ==
  ASSUME Types, NEW e \in Ends, NEW what \in Life, NEW requests \in Seq(Request),
         Forget(e, what, requests)
  PROVE  ObjOK' /\ IoOK' /\ WireOK' /\ LifeOK' /\ NetOK'
<1>1. ObjOK'  BY NewObject, OneObject DEF Types, Forget
<1>2. IoOK'
  <2> DEFINE r == [i \in DOMAIN requests |-> [requests[i] EXCEPT !.at = 0, !.data = << >>]]
  <2>1. Len(requests) \in Nat /\ DOMAIN requests = 1 .. Len(requests)  BY LenProperties
  <2>2. \A i \in DOMAIN requests : requests[i] \in Request  BY <2>1, ElementOfSeq
  <2>3. << >> \in Seq(Unit(Int)) /\ 0 \in 0 .. RecvSize  BY EmptySeq, BuffersHoldMessages
  <2>4. \A i \in DOMAIN requests : [requests[i] EXCEPT !.at = 0, !.data = << >>] \in Request
    BY <2>2, <2>3 DEF Request
  <2>5. r \in [1 .. Len(requests) -> Request]  BY <2>1, <2>4
  <2>6. r \in Seq(Request)  BY <2>1, <2>5, SeqDef
  <2>7. io' = [io EXCEPT ![e] = r]  BY DEF Forget
  <2> HIDE DEF r
  <2>8. QED  BY <2>6, <2>7 DEF Types, IoOK
<1>3. WireOK'
  <2>1. << >> \in Bytes /\ Len(<< >>) = 0  BY EmptySeq DEF Bytes
  <2>2. wire' = [wire EXCEPT ![e] = << >>]  BY DEF Forget
  <2>3. QED  BY <2>1, <2>2, NetCapPositive DEF Types, WireOK
<1>4. LifeOK' /\ NetOK'  BY DEF Types, LifeOK, NetOK, Forget
<1>5. QED  BY <1>1, <1>2, <1>3, <1>4

LEMMA DeleteTypes ==
  ASSUME Types, NEW e \in Ends, NEW requests \in Seq(Request), Delete(e, requests)
  PROVE  ObjOK' /\ IoOK' /\ WireOK' /\ LifeOK' /\ NetOK'
<1>1. "deleted" \in Life  BY DEF Life
<1>2. << >> \in Seq(Request)  BY EmptySeq
<1>3. CASE e = "client"  BY <1>1, <1>2, <1>3, ForgetTypes DEF Delete
<1>4. CASE e # "client"  BY <1>1, <1>4, ForgetTypes DEF Delete
<1>5. QED  BY <1>3, <1>4

LEMMA TheRequests ==
  ASSUME Types, NEW e \in Ends
  PROVE  /\ obj[e] \in ClientObject /\ Fits(obj[e])
         /\ io[e] \in Seq(Request) /\ io[e] \o NewRequests(e) \in Seq(Request)
         /\ \A i \in DOMAIN io[e] : RemoveAt(io[e], i) \in Seq(Request) /\ io[e][i] \in Request
         /\ PostFailures(e) \subseteq Seq(Request)
         /\ FailedCompletions(e) \subseteq Seq(Request)
<1>1. obj[e] \in ClientObject /\ Fits(obj[e]) /\ io[e] \in Seq(Request)  BY DEF Types, ObjOK, IoOK
<1>2. NewRequests(e) \in Seq(Request)  BY <1>1, RoundsRequests DEF NewRequests
<1>3. io[e] \o NewRequests(e) \in Seq(Request)  BY <1>1, <1>2, ConcatProperties
<1>4. \A i \in DOMAIN io[e] : RemoveAt(io[e], i) \in Seq(Request)  BY <1>1, Removed
<1>5. PostFailures(e) \subseteq Seq(Request)
  <2> DEFINE R == NewRequests(e)
  <2> HIDE DEF R
  <2>1. R \in Seq(Request) /\ Len(R) \in Nat  BY <1>2, LenProperties DEF R
  <2>2. ASSUME NEW n \in 0 .. Len(R) - 1
        PROVE  io[e] \o SubSeq(R, 1, n) \in Seq(Request)
    <3>1. 1 \in Nat \ {0} /\ n \in Nat /\ n <= Len(R)  BY <2>1
    <3>2. SubSeq(R, 1, n) \in Seq(Request)  BY <2>1, <3>1, Take
    <3>3. QED  BY <1>1, <3>2, ConcatProperties
  <2>3. PostFailures(e) \subseteq {io[e] \o SubSeq(R, 1, n) : n \in 0 .. Len(R) - 1}
    BY DEF PostFailures, R
  <2>4. QED  BY <2>2, <2>3
<1>6. FailedCompletions(e) \subseteq Seq(Request)  BY <1>4 DEF FailedCompletions
<1>7. \A i \in DOMAIN io[e] : io[e][i] \in Request
  <2>1. DOMAIN io[e] = 1 .. Len(io[e])  BY <1>1, LenProperties
  <2>2. QED  BY <1>1, <2>1, ElementOfSeq
<1>8. QED  BY <1>1, <1>3, <1>4, <1>5, <1>6, <1>7

LEMMA PostTypes ==
  ASSUME Types, NEW e \in Ends, PostRequests(e)
  PROVE  ObjOK' /\ IoOK' /\ WireOK' /\ LifeOK' /\ NetOK' /\ StageOK'
<1>1. ObjOK'
  <2>1. MarkRecv(MarkSend(obj[e])) \in ClientObject /\ Fits(MarkRecv(MarkSend(obj[e])))
    BY TheRequests, MarkObject
  <2>2. obj' = [obj EXCEPT ![e] = MarkRecv(MarkSend(obj[e]))]  BY DEF PostRequests
  <2>3. QED  BY <2>1, <2>2, OneObject DEF Types
<1>2. IoOK'
  <2>1. io' = [io EXCEPT ![e] = io[e] \o NewRequests(e)]  BY DEF PostRequests
  <2>2. QED  BY <2>1, TheRequests DEF Types, IoOK
<1>3. StageOK'
  <2>1. "drain" \in Stage  BY DEF Stage
  <2>2. QED  BY <2>1, GotoType DEF PostRequests, Types
<1>4. WireOK' /\ LifeOK' /\ NetOK'  BY DEF PostRequests, Types, WireOK, LifeOK, NetOK
<1>5. QED  BY <1>1, <1>2, <1>3, <1>4

(* What arrives is taken from the front of what is under way. *)
LEMMA Arrives ==
  ASSUME WireOK, NEW e \in Ends, NEW n \in 1 .. Len(wire[e])
  PROVE  /\ wire[e] \in Bytes /\ n \in Nat /\ n <= Len(wire[e])
         /\ SubSeq(wire[e], 1, n) \in Bytes /\ Len(SubSeq(wire[e], 1, n)) = n
         /\ pop(wire[e], n) \in Bytes
         /\ wire' = [wire EXCEPT ![e] = pop(wire[e], n)] => WireOK'
<1>1. wire[e] \in Bytes /\ Len(wire[e]) \in Nat  BY LenProperties DEF WireOK, Bytes
<1>2. n \in Nat /\ n <= Len(wire[e]) /\ 1 \in Nat \ {0}  BY <1>1
<1>3. SubSeq(wire[e], 1, n) \in Bytes /\ Len(SubSeq(wire[e], 1, n)) = n
  <2>1. /\ SubSeq(wire[e], 1, n) \in Seq(Unit(Int))
        /\ Len(SubSeq(wire[e], 1, n)) = IF 1 <= n THEN n - 1 + 1 ELSE 0
    BY <1>1, <1>2, Take DEF Bytes
  <2>2. QED  BY <2>1 DEF Bytes
<1>4. pop(wire[e], n) \in Bytes /\ Len(pop(wire[e], n)) = Len(wire[e]) - n
  BY <1>1, <1>2, Popped DEF Bytes
<1>5. Len(pop(wire[e], n)) <= NetCap  BY <1>1, <1>2, <1>4, NetCapPositive DEF WireOK
<1>6. wire' = [wire EXCEPT ![e] = pop(wire[e], n)] => WireOK'  BY <1>4, <1>5 DEF WireOK
<1>7. QED  BY <1>1, <1>2, <1>3, <1>4, <1>6

(* What is sent is added at its end. *)
LEMMA Leaves ==
  ASSUME WireOK, NEW e \in Ends, NEW units \in Bytes, Len(units) <= Room(e),
         wire' = [wire EXCEPT ![Peer(e)] = wire[Peer(e)] \o units]
  PROVE  WireOK'
<1>1. Peer(e) \in Ends  BY DEF Ends, Peer
<1>2. wire[Peer(e)] \in Bytes /\ Len(wire[Peer(e)]) \in Nat /\ Len(units) \in Nat
  BY <1>1, LenProperties DEF WireOK, Bytes
<1>3. /\ wire[Peer(e)] \o units \in Bytes
      /\ Len(wire[Peer(e)] \o units) = Len(wire[Peer(e)]) + Len(units)
  BY <1>2, ConcatProperties DEF Bytes
<1>4. Len(wire[Peer(e)] \o units) <= NetCap  BY <1>2, <1>3, NetCapPositive DEF Room
<1>5. QED  BY <1>1, <1>3, <1>4 DEF WireOK

LEMMA CompletionTypes ==
  ASSUME Types, NEW e \in Ends, NEW i \in DOMAIN io[e], Completion(e, i)
  PROVE  ObjOK' /\ IoOK' /\ WireOK'
<1>1. obj[e] \in ClientObject /\ Fits(obj[e]) /\ io[e][i] \in Request /\ ObjOK /\ WireOK
  BY TheRequests DEF Types
<1>2. IoOK'
  <2>1. io' = [io EXCEPT ![e] = RemoveAt(io[e], i)]  BY DEF Completion, RecvDone, SendDone
  <2>2. QED  BY <2>1, TheRequests DEF Types, IoOK
<1>3. CASE RecvDone(e, i)
  <2>1. PICK n \in 1 .. Len(wire[e]) :
          /\ obj' = [obj EXCEPT ![e] = recv4iocp(obj[e], io[e][i], SubSeq(wire[e], 1, n))]
          /\ wire' = [wire EXCEPT ![e] = pop(wire[e], n)]
    BY <1>3 DEF RecvDone
  <2>2. SubSeq(wire[e], 1, n) \in Bytes /\ WireOK'  BY <1>1, <2>1, Arrives
  <2> DEFINE c == recv4iocp(obj[e], io[e][i], SubSeq(wire[e], 1, n))
  <2>3. c \in ClientObject /\ Fits(c)  BY <1>1, <2>2, RecvObject
  <2>4. obj' = [obj EXCEPT ![e] = c]  BY <2>1
  <2> HIDE DEF c
  <2>5. ObjOK'  BY <1>1, <2>3, <2>4, OneObject
  <2>6. QED  BY <1>2, <2>2, <2>5
<1>4. CASE SendDone(e, i)
  <2> DEFINE data == io[e][i].data
  <2>1. PICK n \in 1 .. Len(data) :
          /\ n <= Room(e)
          /\ obj' = [obj EXCEPT ![e] = send2iocp(obj[e], n)]
          /\ wire' = [wire EXCEPT ![Peer(e)] = wire[Peer(e)] \o SubSeq(data, 1, n)]
    BY <1>4 DEF SendDone
  <2>2. data \in Bytes /\ Len(data) \in Nat /\ n \in Nat
    BY <1>1, LenProperties DEF Request, Bytes
  <2>3. send2iocp(obj[e], n) \in ClientObject /\ Fits(send2iocp(obj[e], n))
    BY <1>1, <2>2, PopObject
  <2>4. ObjOK'  BY <1>1, <2>1, <2>3, OneObject
  <2> HIDE DEF data
  <2>5. SubSeq(data, 1, n) \in Bytes /\ Len(SubSeq(data, 1, n)) = n
    <3>1. n <= Len(data) /\ 1 \in Nat \ {0} /\ 1 <= n  BY <2>1, <2>2
    <3>2. /\ SubSeq(data, 1, n) \in Seq(Unit(Int))
          /\ Len(SubSeq(data, 1, n)) = IF 1 <= n THEN n - 1 + 1 ELSE 0
      BY <2>2, <3>1, Take DEF Bytes
    <3>3. QED  BY <2>2, <3>1, <3>2 DEF Bytes
  <2>6. WireOK'
    <3>1. Len(SubSeq(data, 1, n)) <= Room(e)  BY <2>1, <2>5
    <3>2. wire' = [wire EXCEPT ![Peer(e)] = wire[Peer(e)] \o SubSeq(data, 1, n)]  BY <2>1
    <3>3. QED  BY <1>1, <2>5, <3>1, <3>2, Leaves
  <2>7. QED  BY <1>2, <2>4, <2>6
<1>5. QED  BY <1>3, <1>4 DEF Completion

LEMMA FrontLength ==
  ASSUME NEW buf \in Bytes, NEW n \in frontLengths(buf, RecvSize)
  PROVE  n \in Nat
<1>1. \A cmd : dataLength(cmd) \in 1 .. 2  BY DEF dataLength
<1>2. QED  BY <1>1, BuffersHoldMessages DEF frontLengths

LEMMA HandleTypes ==
  ASSUME Types, NEW e \in Ends, NEW next \in Stage,
         NEW handled \in ClientObject, Fits(handled), HandleMessage(e, next, handled)
  PROVE  ObjOK' /\ StageOK'
<1>1. ObjOK /\ StageOK /\ obj[e].recv \in Bytes  BY TheRequests DEF Types, ClientObject
<1>2. PICK n \in frontLengths(obj[e].recv, RecvSize) :
        \/ /\ obj' = [obj EXCEPT ![e] = pop_front_msg(handled, n)]
           /\ UNCHANGED stage
        \/ Goto(e, next) /\ UNCHANGED obj
  BY DEF HandleMessage
<1>3. pop_front_msg(handled, n) \in ClientObject /\ Fits(pop_front_msg(handled, n))
  BY <1>1, FrontLength, PopObject
<1>4. CASE obj' = [obj EXCEPT ![e] = pop_front_msg(handled, n)] /\ UNCHANGED stage
  BY <1>1, <1>3, <1>4, OneObject DEF StageOK
<1>5. CASE Goto(e, next) /\ UNCHANGED obj  BY <1>1, <1>5, GotoType DEF ObjOK
<1>6. QED  BY <1>2, <1>4, <1>5

LEMMA ReadTypes ==
  ASSUME Types, NEW e \in Ends, NEW next \in Stage, ReadSocket(e, next)
  PROVE  ObjOK' /\ IoOK' /\ WireOK' /\ LifeOK' /\ NetOK' /\ StageOK'
<1>1. ObjOK /\ WireOK /\ obj[e] \in ClientObject /\ Fits(obj[e])  BY TheRequests DEF Types
<1>2. StageOK'  BY GotoType DEF ReadSocket, Types
<1>3. LifeOK' /\ NetOK' /\ IoOK'  BY DEF ReadSocket, Types, LifeOK, NetOK, IoOK
<1>4. CASE UNCHANGED <<obj, wire>>  BY <1>1, <1>2, <1>3, <1>4 DEF ObjOK, WireOK
<1>5. ASSUME NEW n \in 1 .. Len(wire[e]), n <= RecvSize - Len(obj[e].recv),
             obj' = [obj EXCEPT ![e] = RecvData(@, SubSeq(wire[e], 1, n))],
             wire' = [wire EXCEPT ![e] = pop(@, n)]
      PROVE  ObjOK' /\ WireOK'
  <2>1. /\ SubSeq(wire[e], 1, n) \in Bytes /\ Len(SubSeq(wire[e], 1, n)) = n
        /\ WireOK'
    BY <1>1, <1>5, Arrives
  <2> DEFINE c == RecvData(obj[e], SubSeq(wire[e], 1, n))
  <2>2. c \in ClientObject /\ Fits(c)  BY <1>1, <1>5, <2>1, RecvObject
  <2>3. obj' = [obj EXCEPT ![e] = c]  BY <1>5
  <2> HIDE DEF c
  <2>4. QED  BY <1>1, <2>1, <2>2, <2>3, OneObject
<1>6. QED  BY <1>2, <1>3, <1>4, <1>5 DEF ReadSocket

LEMMA TheMemory ==
  ASSUME Types, NEW e \in Ends
  PROVE  /\ obj[e].send \in Bytes /\ Len(obj[e].send) \in 0 .. SendSize
         /\ Memory(e) \in Bytes /\ Len(Memory(e)) = SendSize
<1>1. obj[e].send \in Bytes /\ Len(obj[e].send) \in Nat /\ Len(obj[e].send) <= SendSize
  BY TheRequests, LenProperties DEF ClientObject, Fits, Bytes
<1>2. SendSize - Len(obj[e].send) \in Nat  BY <1>1, BuffersHoldMessages
<1>3. /\ Junk(SendSize - Len(obj[e].send)) \in Bytes
      /\ Len(Junk(SendSize - Len(obj[e].send))) = SendSize - Len(obj[e].send)
  BY <1>2, JunkType
<1>4. Memory(e) \in Bytes /\ Len(Memory(e)) = Len(obj[e].send) + (SendSize - Len(obj[e].send))
  <2> DEFINE rest == Junk(SendSize - Len(obj[e].send))
  <2> HIDE DEF rest
  <2>1. obj[e].send \o rest \in Bytes /\ Len(obj[e].send \o rest) = Len(obj[e].send) + Len(rest)
    BY <1>1, <1>3, ConcatProperties DEF rest, Bytes
  <2>2. QED  BY <1>3, <2>1 DEF Memory, rest
<1>5. QED  BY <1>1, <1>4, BuffersHoldMessages

LEMMA TakenTypes ==
  ASSUME Types, NEW e \in Ends, NEW next \in Stage, NEW n \in 0 .. SendSize, NEW of \in 0 .. SendSize,
         Taken(e, n, of, next)
  PROVE  ObjOK' /\ SentOK' /\ StageOK'
<1>1. ObjOK /\ SentOK /\ StageOK /\ obj[e] \in ClientObject /\ Fits(obj[e])
  BY TheRequests DEF Types
<1>2. "sending" \in Stage /\ "undefined" \in Stage  BY DEF Stage
<1>3. CASE n < of
  <2>1. /\ sent' = [sent EXCEPT ![e] = [taken |-> n, of |-> of]]
        /\ Goto(e, "sending") /\ UNCHANGED obj
    BY <1>3 DEF Taken
  <2>2. SentOK'  BY <1>1, <2>1 DEF SentOK
  <2>3. StageOK'  BY <1>1, <1>2, <2>1, GotoType
  <2>4. ObjOK'  BY <1>1, <2>1 DEF ObjOK
  <2>5. QED  BY <2>2, <2>3, <2>4
<1>4. CASE ~(n < of)
  <2> DEFINE label == IF n <= Len(obj[e].send) THEN next ELSE "undefined"
  <2>1. /\ obj' = [obj EXCEPT ![e] = SendDataReal(obj[e], n)]
        /\ sent' = [sent EXCEPT ![e] = [taken |-> 0, of |-> 0]]
        /\ Goto(e, label)
    BY <1>4 DEF Taken
  <2>2. label \in Stage  BY <1>2
  <2> HIDE DEF label
  <2>3. StageOK'  BY <1>1, <2>1, <2>2, GotoType
  <2>4. SentOK'  BY <1>1, <2>1, BuffersHoldMessages DEF SentOK
  <2>5. n \in Nat  BY BuffersHoldMessages
  <2>6. SendDataReal(obj[e], n) \in ClientObject /\ Fits(SendDataReal(obj[e], n))
    BY <1>1, <2>5, PopObject
  <2>7. ObjOK'  BY <1>1, <2>1, <2>6, OneObject
  <2>8. QED  BY <2>3, <2>4, <2>7
<1>5. QED  BY <1>3, <1>4

LEMMA SendTypes ==
  ASSUME Types, NEW e \in Ends, NEW next \in Stage, NEW of \in 0 .. SendSize, Send(e, of, next)
  PROVE  ObjOK' /\ SentOK' /\ StageOK' /\ WireOK'
<1> DEFINE taken == sent[e].taken
           memory == Memory(e)
<1>1. taken \in Nat /\ WireOK  BY BuffersHoldMessages DEF Types, SentOK
<1>2. PICK n \in 1 .. of - taken :
        /\ n <= Room(e)
        /\ wire' = [wire EXCEPT ![Peer(e)] = wire[Peer(e)] \o SubSeq(memory, taken + 1, taken + n)]
        /\ Taken(e, taken + n, of, next)
  BY DEF Send
<1>3. memory \in Bytes /\ Len(memory) = SendSize  BY TheMemory
<1> HIDE DEF taken, memory
<1>4. taken + n \in 0 .. SendSize /\ taken + 1 \in Nat \ {0} /\ taken + n \in Nat
  BY <1>1, BuffersHoldMessages
<1>5. ObjOK' /\ SentOK' /\ StageOK'  BY <1>2, <1>4, TakenTypes
<1>6. /\ SubSeq(memory, taken + 1, taken + n) \in Bytes
      /\ Len(SubSeq(memory, taken + 1, taken + n)) = n
  <2> DEFINE a == taken + 1
             b == taken + n
  <2>1. a \in Nat \ {0} /\ b \in Nat /\ b <= Len(memory) /\ a <= b /\ b - a + 1 = n
    BY <1>1, <1>3, <1>4, BuffersHoldMessages
  <2> HIDE DEF a, b
  <2>2. /\ SubSeq(memory, a, b) \in Seq(Unit(Int))
        /\ Len(SubSeq(memory, a, b)) = IF a <= b THEN b - a + 1 ELSE 0
    BY <1>3, <2>1, Take DEF Bytes
  <2>3. QED  BY <2>1, <2>2 DEF a, b, Bytes
<1>7. Len(SubSeq(memory, taken + 1, taken + n)) <= Room(e)  BY <1>2, <1>6
<1>8. WireOK'  BY <1>1, <1>2, <1>6, <1>7, Leaves
<1>9. QED  BY <1>5, <1>8

LEMMA WriteTypes ==
  ASSUME Types, NEW e \in Ends, NEW next \in Stage, WriteSocket(e, next)
  PROVE  ObjOK' /\ IoOK' /\ WireOK' /\ LifeOK' /\ NetOK' /\ StageOK' /\ SentOK'
<1>1. LifeOK' /\ NetOK' /\ IoOK'  BY DEF WriteSocket, Types, LifeOK, NetOK, IoOK
<1>2. CASE Send(e, Len(obj[e].send), next)
  <2>1. Len(obj[e].send) \in 0 .. SendSize  BY TheMemory
  <2>2. QED  BY <1>1, <1>2, <2>1, SendTypes
<1>3. CASE Goto(e, next) /\ UNCHANGED <<obj, sent, wire>>
  <2>1. StageOK'  BY <1>3, GotoType DEF Types
  <2>2. QED  BY <1>1, <1>3, <2>1 DEF Types, ObjOK, SentOK, WireOK
<1>4. QED  BY <1>2, <1>3 DEF WriteSocket

LEMMA SendOnTypes ==
  ASSUME Types, NEW e \in Ends, NEW next \in Stage, SendOn(e, next)
  PROVE  ObjOK' /\ IoOK' /\ WireOK' /\ LifeOK' /\ NetOK' /\ StageOK' /\ SentOK'
<1>1. LifeOK' /\ NetOK' /\ IoOK'  BY DEF SendOn, Types, LifeOK, NetOK, IoOK
<1>2. sent[e].of \in 0 .. SendSize  BY DEF Types, SentOK
<1>3. QED  BY <1>1, <1>2, SendTypes DEF SendOn

LEMMA InterruptedTypes ==
  ASSUME Types, NEW e \in Ends, NEW next \in Stage, SendInterrupted(e, next)
  PROVE  ObjOK' /\ IoOK' /\ WireOK' /\ LifeOK' /\ NetOK' /\ StageOK' /\ SentOK'
<1>1. LifeOK' /\ NetOK' /\ IoOK' /\ WireOK'
  BY DEF SendInterrupted, Types, LifeOK, NetOK, IoOK, WireOK
<1>2. sent[e].taken \in 0 .. SendSize  BY DEF Types, SentOK
<1>3. QED  BY <1>1, <1>2, TakenTypes DEF SendInterrupted

LEMMA FailsTypes ==
  ASSUME Types, NEW e \in Ends, WriteFails(e) \/ SendFails(e)
  PROVE  SentOK'
<1>1. CASE WriteFails(e)  BY <1>1 DEF WriteFails, Types, SentOK
<1>2. CASE SendFails(e)  BY <1>2, BuffersHoldMessages DEF SendFails, Types, SentOK
<1>3. QED  BY <1>1, <1>2

LEMMA ServerFailTypes ==
  ASSUME Types, NEW requests \in Seq(Request), ServerFail(requests)
  PROVE  ObjOK' /\ IoOK' /\ WireOK' /\ LifeOK' /\ NetOK' /\ StageOK'
<1>1. "server" \in Ends  BY DEF Ends
<1>2. "drain" \in Stage /\ "test" \in Stage  BY DEF Stage
<1> DEFINE label == IF build["server"] = "iocp" THEN "drain" ELSE "test"
<1>3. label \in Stage /\ Goto("server", label)  BY <1>2 DEF ServerFail
<1> HIDE DEF label
<1>4. StageOK'  BY <1>1, <1>3, GotoType DEF Types
<1>5. QED  BY <1>1, <1>4, DeleteTypes DEF ServerFail

LEMMA ClientFailTypes ==
  ASSUME Types, NEW requests \in Seq(Request), ClientFail(requests)
  PROVE  ObjOK' /\ IoOK' /\ WireOK' /\ LifeOK' /\ NetOK' /\ StageOK'
<1>1. "client" \in Ends /\ "test" \in Stage  BY DEF Ends, Stage
<1>2. StageOK'  BY <1>1, GotoType DEF ClientFail, Types
<1>3. QED  BY <1>1, <1>2, DeleteTypes DEF ClientFail

LEMMA ServerHandles ==
  ASSUME NEW c \in ClientObject, Fits(c), NEW header
  PROVE  ServerOnNetMsg(c, header) \in ClientObject /\ Fits(ServerOnNetMsg(c, header))
<1> DEFINE d == [c EXCEPT !.nRecvMsgID = @ + 1]
<1>1. d \in ClientObject /\ Fits(d)  BY DEF ClientObject, Fits
<1>2. OnLogin(c) = SendData(d, "LOGIN_RESULT")  BY DEF OnLogin
<1> HIDE DEF d
<1>3. "LOGIN_RESULT" \in CMD /\ "S2C_HEART" \in CMD  BY DEF CMD
<1>4. OnLogin(c) \in ClientObject /\ Fits(OnLogin(c))  BY <1>1, <1>2, <1>3, SendDataObject
<1>5. SendData(c, "S2C_HEART") \in ClientObject /\ Fits(SendData(c, "S2C_HEART"))
  BY <1>3, SendDataObject
<1>6. QED  BY <1>4, <1>5 DEF ServerOnNetMsg

LEMMA ClientHandles ==
  ASSUME NEW c \in ClientObject, Fits(c), NEW header
  PROVE  ClientOnNetMsg(c, header) \in ClientObject /\ Fits(ClientOnNetMsg(c, header))
BY DEF ClientOnNetMsg, ClientObject, Fits

LEMMA RacedTypes ==
  ASSUME NEW cur \in Bytes, NEW old \in Bytes, NEW msg \in Bytes,
         NEW buf \in PushRaced(cur, old, msg)
  PROVE  buf \in Bytes /\ Len(buf) <= SendSize
<1> DEFINE o == Len(old)
           memory == [k \in 1 .. SendSize |->
                       IF k \in o + 1 .. o + Len(msg) THEN msg[k - o]
                       ELSE IF k <= Len(cur) THEN cur[k]
                       ELSE IF k <= o THEN old[k] ELSE Junk(1)[1]]
<1>1. Len(cur) \in Nat /\ o \in Nat /\ Len(msg) \in Nat /\ SendSize \in Nat
  BY LenProperties, BuffersHoldMessages DEF Bytes
<1>2. /\ \A k \in 1 .. Len(cur) : cur[k] \in Unit(Int)
      /\ \A k \in 1 .. o : old[k] \in Unit(Int)
      /\ \A k \in 1 .. Len(msg) : msg[k] \in Unit(Int)
      /\ Junk(1)[1] \in Unit(Int)
  BY ElementOfSeq, JunkType DEF Bytes
<1>3. ASSUME NEW k \in 1 .. SendSize
      PROVE  (IF k \in o + 1 .. o + Len(msg) THEN msg[k - o]
              ELSE IF k <= Len(cur) THEN cur[k]
              ELSE IF k <= o THEN old[k] ELSE Junk(1)[1]) \in Unit(Int)
  <2>1. CASE k \in o + 1 .. o + Len(msg)
    <3>1. k - o \in 1 .. Len(msg)  BY <1>1, <2>1
    <3>2. QED  BY <1>2, <2>1, <3>1
  <2>2. CASE k \notin o + 1 .. o + Len(msg) /\ k <= Len(cur)
    <3>1. k \in 1 .. Len(cur)  BY <1>1, <2>2
    <3>2. QED  BY <1>2, <2>2, <3>1
  <2>3. CASE k \notin o + 1 .. o + Len(msg) /\ ~(k <= Len(cur)) /\ k <= o
    <3>1. k \in 1 .. o  BY <1>1, <2>3
    <3>2. QED  BY <1>2, <2>3, <3>1
  <2>4. CASE k \notin o + 1 .. o + Len(msg) /\ ~(k <= Len(cur)) /\ ~(k <= o)
    BY <1>2, <2>4
  <2>5. QED  BY <2>1, <2>2, <2>3, <2>4
<1>4. memory \in [1 .. SendSize -> Unit(Int)]  BY <1>3
<1>5. PICK n \in 0 .. SendSize : buf = SubSeq(memory, 1, n)
  BY DEF PushRaced
<1> HIDE DEF memory
<1>6. memory \in Seq(Unit(Int))  BY <1>1, <1>4, SeqDef
<1>7. Len(memory) = SendSize
  <2>1. DOMAIN memory = 1 .. Len(memory) /\ Len(memory) \in Nat  BY <1>6, LenProperties
  <2>2. DOMAIN memory = 1 .. SendSize  BY <1>4
  <2> DEFINE l == Len(memory)
  <2>3. l \in Nat /\ SendSize \in Nat /\ 1 .. l = 1 .. SendSize  BY <1>1, <2>1, <2>2
  <2> HIDE DEF l
  <2>4. l = SendSize  BY <2>3
  <2>5. QED  BY <2>4 DEF l
<1>8. n \in Nat /\ n <= Len(memory) /\ n <= SendSize /\ 1 \in Nat \ {0}  BY <1>1, <1>7
<1>9. /\ SubSeq(memory, 1, n) \in Seq(Unit(Int))
      /\ Len(SubSeq(memory, 1, n)) = IF 1 <= n THEN n - 1 + 1 ELSE 0
  BY <1>6, <1>8, Take
<1>10. QED  BY <1>1, <1>5, <1>8, <1>9 DEF Bytes

LEMMA HeartTypes ==
  ASSUME Types, HeartBegin \/ HeartEnd
  PROVE  Types'
<1>1. "client" \in Ends /\ "C2S_HEART" \in CMD  BY DEF Ends, CMD
<1>2. obj["client"] \in ClientObject /\ Fits(obj["client"]) /\ obj["client"].send \in Bytes
  BY <1>1, TheRequests DEF ClientObject
<1>3. CASE HeartBegin
  <2>1. BeatOK'
    <3>1. hearts' \in 0 .. MaxHearts  BY <1>3, LimitsAreNat DEF HeartBegin, Types, BeatOK
    <3>2. beat' = "callback" /\ seen' = obj["client"].send  BY <1>3 DEF HeartBegin
    <3>3. QED  BY <1>2, <3>1, <3>2 DEF BeatOK
  <2>2. UNCHANGED connVars /\ UNCHANGED raced  BY <1>3 DEF HeartBegin
  <2>3. QED
    BY <2>1, <2>2 DEF Types, connVars, ObjOK, IoOK, WireOK, LifeOK, StageOK, SentOK, NetOK
<1>4. CASE HeartEnd
  <2> DEFINE msg == Message("C2S_HEART", 0)
             cur == obj["client"].send
  <2>1. msg \in Bytes  BY <1>1, OneMessage
  <2>2. /\ UNCHANGED <<build, life, io, stage, sent, net, wire, hearts>>
        /\ beat' = "idle" /\ seen' = << >>
        /\ \/ UNCHANGED <<obj, raced>>
           \/ /\ obj' = [obj EXCEPT !["client"] = [@ EXCEPT !.send = push(cur, msg, SendSize)]]
              /\ UNCHANGED raced
           \/ /\ \E buf \in PushRaced(cur, seen, msg) :
                   obj' = [obj EXCEPT !["client"] = [@ EXCEPT !.send = buf]]
              /\ raced' = TRUE
    BY <1>4 DEF HeartEnd
  <2> HIDE DEF msg
  <2>3. ASSUME NEW buf \in Bytes, Len(buf) <= SendSize,
               obj' = [obj EXCEPT !["client"] = [@ EXCEPT !.send = buf]]
        PROVE  ObjOK'
    <3> DEFINE c == [obj["client"] EXCEPT !.send = buf]
    <3>1. c \in ClientObject /\ Fits(c)  BY <1>2, <2>3 DEF ClientObject, Fits
    <3>2. obj' = [obj EXCEPT !["client"] = c]  BY <2>3
    <3> HIDE DEF c
    <3>3. QED  BY <1>1, <3>1, <3>2, OneObject DEF Types
  <2>4. push(cur, msg, SendSize) \in Bytes /\ Len(push(cur, msg, SendSize)) <= SendSize
    <3>1. cur \o msg \in Bytes /\ Len(cur \o msg) = Len(cur) + Len(msg)
      BY <1>2, <2>1, ConcatProperties DEF Bytes
    <3>2. QED  BY <1>2, <3>1 DEF push, Fits
  <2>5. \A buf \in PushRaced(cur, seen, msg) : buf \in Bytes /\ Len(buf) <= SendSize
    BY <1>2, <2>1, RacedTypes DEF Types, BeatOK
  <2> HIDE DEF cur
  <2>6. ObjOK' /\ raced' \in BOOLEAN
    <3>1. CASE UNCHANGED <<obj, raced>>  BY <3>1 DEF Types, ObjOK
    <3>2. CASE /\ obj' = [obj EXCEPT !["client"] = [@ EXCEPT !.send = push(cur, msg, SendSize)]]
               /\ UNCHANGED raced
      BY <2>3, <2>4, <3>2 DEF Types
    <3>3. CASE /\ \E buf \in PushRaced(cur, seen, msg) :
                    obj' = [obj EXCEPT !["client"] = [@ EXCEPT !.send = buf]]
               /\ raced' = TRUE
      BY <2>3, <2>5, <3>3
    <3>4. QED  BY <2>2, <3>1, <3>2, <3>3
  <2>7. BeatOK'
    <3>1. << >> \in Bytes  BY EmptySeq DEF Bytes
    <3>2. QED  BY <2>2, <3>1 DEF Types, BeatOK
  <2>8. QED
    BY <2>2, <2>6, <2>7 DEF Types, IoOK, WireOK, LifeOK, StageOK, SentOK, NetOK
<1>5. QED  BY <1>3, <1>4

LEMMA ServerTypes ==
  ASSUME Types, Accept \/ ServerThread \/ CheckTime \/ ServerStops \/ ServerWaitFails
                \/ ServerSendInterrupted \/ ServerCompletion \/ ServerLateCompletion
                \/ ServerFailedCompletion
  PROVE  Types'
<1> USE DEF Types
<1>1. "server" \in Ends /\ Stage = {"test", "net", "drain", "write", "sending", "msg", "stop",
                                    "ended", "undefined"}
  BY DEF Ends, Stage
<1>2. /\ obj["server"] \in ClientObject /\ Fits(obj["server"]) /\ io["server"] \in Seq(Request)
      /\ << >> \in Seq(Request)
      /\ \A i \in DOMAIN io["server"] : RemoveAt(io["server"], i) \in Seq(Request)
      /\ PostFailures("server") \subseteq Seq(Request)
      /\ FailedCompletions("server") \subseteq Seq(Request)
  BY <1>1, TheRequests, EmptySeq
<1>3. UNCHANGED appVars => BeatOK' /\ (raced \in BOOLEAN)'  BY DEF appVars, BeatOK
<1>4. /\ UNCHANGED obj => ObjOK' /\ (UNCHANGED io => IoOK') /\ (UNCHANGED wire => WireOK')
      /\ UNCHANGED io => IoOK'
      /\ UNCHANGED wire => WireOK'
      /\ UNCHANGED life => LifeOK'
      /\ UNCHANGED stage => StageOK'
      /\ UNCHANGED sent => SentOK'
      /\ UNCHANGED net => NetOK'
  BY DEF ObjOK, IoOK, WireOK, LifeOK, StageOK, SentOK, NetOK
<1>5. CASE Accept
  <2>1. CASE Delete("server", << >>)
    <3>1. ObjOK' /\ IoOK' /\ WireOK' /\ LifeOK' /\ NetOK'  BY <1>1, <1>2, <2>1, DeleteTypes
    <3>2. QED  BY <1>3, <1>4, <1>5, <3>1 DEF Accept
  <2>2. CASE /\ life' = [life EXCEPT !["server"] = "buffered"]
             /\ UNCHANGED <<obj, io, net, wire>>
    <3>1. LifeOK'  BY <2>2 DEF LifeOK, Life
    <3>2. QED  BY <1>3, <1>4, <1>5, <2>2, <3>1 DEF Accept
  <2>3. QED  BY <1>5, <2>1, <2>2 DEF Accept
<1>6. CASE ServerJoin
  <2>1. LifeOK'
    <3>1. life' = [life EXCEPT !["server"] = "live"]  BY <1>6 DEF ServerJoin
    <3>2. QED  BY <3>1 DEF LifeOK, Life
  <2>2. ObjOK' /\ IoOK'
    <3>1. CASE UNCHANGED <<obj, io>>  BY <1>4, <3>1
    <3>2. CASE /\ obj' = [obj EXCEPT !["server"] = MarkRecv(@)]
               /\ \/ io' = [io EXCEPT !["server"] = @ \o SetToSeq(PostRecv(obj["server"]))]
                  \/ UNCHANGED io
      <4>1. ObjOK'
        <5>1. MarkRecv(obj["server"]) \in ClientObject /\ Fits(MarkRecv(obj["server"]))
          BY <1>2, MarkObject
        <5>2. obj' = [obj EXCEPT !["server"] = MarkRecv(obj["server"])]  BY <3>2
        <5>3. QED  BY <1>1, <5>1, <5>2, OneObject
      <4>2. io["server"] \o SetToSeq(PostRecv(obj["server"])) \in Seq(Request)
        <5>1. SetToSeq(PostRecv(obj["server"])) \in Seq(Request)  BY <1>2, JoinsRequest
        <5>2. QED  BY <1>2, <5>1, ConcatProperties
      <4>3. IoOK'  BY <1>4, <3>2, <4>2 DEF IoOK
      <4>4. QED  BY <4>1, <4>3
    <3>3. QED  BY <1>6, <3>1, <3>2 DEF ServerJoin
  <2>3. QED  BY <1>3, <1>4, <1>6, <2>1, <2>2 DEF ServerJoin, ServerAt
<1>7. CASE ServerPollsOthers
  <2>1. StageOK'  BY <1>1, <1>7, GotoType DEF ServerPollsOthers
  <2>2. QED  BY <1>3, <1>4, <1>7, <2>1 DEF ServerPollsOthers, ServerAt
<1>8. ASSUME NEW requests \in Seq(Request), ServerFail(requests), UNCHANGED <<build, appVars>>, SentOK'
      PROVE  Types'
  BY <1>3, <1>8, ServerFailTypes
<1>9. CASE ServerPost
  <2>1. CASE PostRequests("server")  BY <1>1, <1>3, <1>4, <1>9, <2>1, PostTypes DEF ServerPost, ServerAt
  <2>2. CASE \E requests \in PostFailures("server") : ServerFail(requests)
    BY <1>2, <1>4, <1>8, <1>9, <2>2 DEF ServerPost, ServerAt
  <2>3. QED  BY <1>9, <2>1, <2>2 DEF ServerPost
<1>10. CASE ServerDrained
  <2>1. StageOK'
    <3>1. (IF InClients THEN "msg" ELSE "test") \in Stage  BY <1>1
    <3>2. QED  BY <1>1, <1>10, <3>1, GotoType DEF ServerDrained
  <2>2. QED  BY <1>3, <1>4, <1>10, <2>1 DEF ServerDrained, ServerAt
<1>11. CASE ServerRead
  <2>1. CASE ReadSocket("server", "write")
    BY <1>1, <1>3, <1>4, <1>11, <2>1, ReadTypes DEF ServerRead, ServerAt
  <2>2. CASE ServerFail(io["server"])
    BY <1>2, <1>4, <1>8, <1>11, <2>2 DEF ServerRead, ServerAt
  <2>3. QED  BY <1>11, <2>1, <2>2 DEF ServerRead
<1>12. CASE ServerWrite
  <2>1. CASE WriteSocket("server", "msg")
    BY <1>1, <1>3, <1>12, <2>1, WriteTypes DEF ServerWrite, ServerAt
  <2>2. CASE WriteFails("server") /\ ServerFail(io["server"])
    BY <1>1, <1>2, <1>8, <1>12, <2>2, FailsTypes DEF ServerWrite, ServerAt
  <2>3. QED  BY <1>12, <2>1, <2>2 DEF ServerWrite
<1>13. CASE ServerSendOn
  <2>1. CASE SendOn("server", "msg")
    BY <1>1, <1>3, <1>13, <2>1, SendOnTypes DEF ServerSendOn
  <2>2. CASE SendFails("server") /\ ServerFail(io["server"])
    BY <1>1, <1>2, <1>8, <1>13, <2>2, FailsTypes DEF ServerSendOn
  <2>3. QED  BY <1>13, <2>1, <2>2 DEF ServerSendOn
<1>14. CASE ServerDoMsg
  <2> DEFINE handled == ServerOnNetMsg(obj["server"], Head(obj["server"].recv))
  <2>1. handled \in ClientObject /\ Fits(handled)  BY <1>2, ServerHandles
  <2>2. HandleMessage("server", "test", handled)  BY <1>14 DEF ServerDoMsg
  <2> HIDE DEF handled
  <2>3. ObjOK' /\ StageOK'  BY <1>1, <2>1, <2>2, HandleTypes
  <2>4. QED  BY <1>3, <1>4, <1>14, <2>3 DEF ServerDoMsg, ServerAt
<1>15. CASE CheckTime
  <2>1. CASE /\ Forget("server", "closed", io["server"])
             /\ Goto("server", "drain")
    <3>1. "closed" \in Life  BY DEF Life
    <3>2. ObjOK' /\ IoOK' /\ WireOK' /\ LifeOK' /\ NetOK'  BY <1>1, <1>2, <2>1, <3>1, ForgetTypes
    <3>3. StageOK'  BY <1>1, <2>1, GotoType
    <3>4. QED  BY <1>3, <1>4, <1>15, <3>2, <3>3 DEF CheckTime, ServerAt
  <2>2. CASE ServerFail(io["server"])
    BY <1>2, <1>4, <1>8, <1>15, <2>2 DEF CheckTime, ServerAt
  <2>3. QED  BY <1>15, <2>1, <2>2 DEF CheckTime
<1>16. ASSUME ServerEnds, UNCHANGED <<build, appVars>>
       PROVE  Types'
  <2>1. StageOK'  BY <1>1, <1>16, GotoType DEF ServerEnds
  <2>2. ObjOK' /\ IoOK' /\ WireOK' /\ LifeOK' /\ NetOK'
    <3>1. CASE Delete("server", io["server"])  BY <1>1, <1>2, <3>1, DeleteTypes
    <3>2. CASE UNCHANGED <<obj, life, io, net, wire>>  BY <1>4, <3>2
    <3>3. QED  BY <1>16, <3>1, <3>2 DEF ServerEnds
  <2>3. QED  BY <1>3, <1>4, <1>16, <2>1, <2>2 DEF ServerEnds
<1>17. CASE ServerStops  BY <1>16, <1>17 DEF ServerStops, ServerAt
<1>18. CASE ServerWaitFails  BY <1>16, <1>18 DEF ServerWaitFails, ServerAt
<1>19. CASE ServerSendInterrupted
  BY <1>1, <1>3, <1>19, InterruptedTypes DEF ServerSendInterrupted, SendInterrupted
<1>20. CASE ServerCompletion
  BY <1>1, <1>3, <1>4, <1>20, CompletionTypes DEF ServerCompletion, ServerAt
<1>21. CASE ServerLateCompletion
  <2>1. IoOK'  BY <1>2, <1>21 DEF ServerLateCompletion, IoOK
  <2>2. StageOK'  BY <1>1, <1>4, <1>21, GotoType DEF ServerLateCompletion
  <2>3. QED  BY <1>3, <1>4, <1>21, <2>1, <2>2 DEF ServerLateCompletion, ServerAt
<1>22. CASE ServerFailedCompletion
  <2>1. CASE Goto("server", "undefined") /\ UNCHANGED <<obj, life, io, net, wire>>
    <3>1. StageOK'  BY <1>1, <2>1, GotoType
    <3>2. QED  BY <1>3, <1>4, <1>22, <2>1, <3>1 DEF ServerFailedCompletion, ServerAt
  <2>2. CASE \E requests \in FailedCompletions("server") : ServerFail(requests)
    BY <1>2, <1>4, <1>8, <1>22, <2>2 DEF ServerFailedCompletion, ServerAt
  <2>3. QED  BY <1>22, <2>1, <2>2 DEF ServerFailedCompletion
<1>23. QED
  BY <1>5, <1>6, <1>7, <1>9, <1>10, <1>11, <1>12, <1>13, <1>14, <1>15, <1>17, <1>18, <1>19,
     <1>20, <1>21, <1>22
  DEF ServerThread

LEMMA ClientTypes ==
  ASSUME Types, WorkThread \/ ClientWaitFails \/ EpollWaitFails \/ SelectFails
                \/ ClientSendInterrupted \/ Shutdown \/ ClientCompletion
                \/ ClientFailedCompletion \/ ConnectionLost
  PROVE  Types'
<1> USE DEF Types
<1>1. "client" \in Ends /\ "server" \in Ends
      /\ Stage = {"test", "net", "drain", "write", "sending", "msg", "stop", "ended", "undefined"}
  BY DEF Ends, Stage
<1>2. /\ obj["client"] \in ClientObject /\ Fits(obj["client"]) /\ io["client"] \in Seq(Request)
      /\ << >> \in Seq(Request)
      /\ \A i \in DOMAIN io["client"] : RemoveAt(io["client"], i) \in Seq(Request)
      /\ PostFailures("client") \subseteq Seq(Request)
      /\ FailedCompletions("client") \subseteq Seq(Request)
  BY <1>1, TheRequests, EmptySeq
<1>3. UNCHANGED <<beat, seen, hearts, raced>> => BeatOK' /\ (raced \in BOOLEAN)'  BY DEF BeatOK
<1>4. /\ UNCHANGED obj => ObjOK' /\ (UNCHANGED io => IoOK') /\ (UNCHANGED wire => WireOK')
      /\ UNCHANGED io => IoOK'
      /\ UNCHANGED wire => WireOK'
      /\ UNCHANGED life => LifeOK'
      /\ UNCHANGED stage => StageOK'
      /\ UNCHANGED sent => SentOK'
      /\ UNCHANGED net => NetOK'
  BY DEF ObjOK, IoOK, WireOK, LifeOK, StageOK, SentOK, NetOK
<1>5. CASE Connect
  <2>1. LifeOK' /\ NetOK'  BY <1>5 DEF Connect, Open, LifeOK, Life, NetOK
  <2>2. BeatOK' /\ raced' \in BOOLEAN  BY <1>5 DEF Connect, ClientAt, BeatOK
  <2>3. QED  BY <1>4, <1>5, <2>1, <2>2 DEF Connect, ClientAt
<1>6. CASE SendTest
  <2>1. ObjOK'
    <3>1. SendData(obj["client"], "LOGIN") \in ClientObject /\ Fits(SendData(obj["client"], "LOGIN"))
      BY <1>2, SendDataObject DEF CMD
    <3>2. obj' = [obj EXCEPT !["client"] = SendData(obj["client"], "LOGIN")]  BY <1>6 DEF SendTest
    <3>3. QED  BY <1>1, <3>1, <3>2, OneObject
  <2>2. StageOK'  BY <1>1, <1>6, GotoType DEF SendTest
  <2>3. QED  BY <1>3, <1>4, <1>6, <2>1, <2>2 DEF SendTest, ClientAt
<1>7. CASE NoneDue
  <2>1. StageOK'  BY <1>1, <1>7, GotoType DEF NoneDue
  <2>2. QED  BY <1>3, <1>4, <1>7, <2>1 DEF NoneDue, ClientAt
<1>8. ASSUME NEW requests \in Seq(Request), ClientFail(requests),
             UNCHANGED <<build, beat, seen, hearts, raced>>, SentOK'
      PROVE  Types'
  BY <1>3, <1>8, ClientFailTypes
<1>9. CASE ClientPost
  <2>1. CASE PostRequests("client")
    BY <1>1, <1>3, <1>4, <1>9, <2>1, PostTypes DEF ClientPost, ClientAt
  <2>2. CASE \E requests \in PostFailures("client") : ClientFail(requests)
    BY <1>2, <1>4, <1>8, <1>9, <2>2 DEF ClientPost, ClientAt
  <2>3. QED  BY <1>9, <2>1, <2>2 DEF ClientPost
<1>10. CASE ClientDrained
  <2>1. StageOK'  BY <1>1, <1>10, GotoType DEF ClientDrained
  <2>2. QED  BY <1>3, <1>4, <1>10, <2>1 DEF ClientDrained, ClientAt
<1>11. CASE ClientRead
  <2>1. CASE ReadSocket("client", "msg")
    BY <1>1, <1>3, <1>4, <1>11, <2>1, ReadTypes DEF ClientRead, ClientAt
  <2>2. CASE ClientFail(io["client"])
    BY <1>2, <1>4, <1>8, <1>11, <2>2 DEF ClientRead, ClientAt
  <2>3. QED  BY <1>11, <2>1, <2>2 DEF ClientRead
<1>12. CASE ClientWrite
  <2>1. CASE WriteSocket("client", "test")
    BY <1>1, <1>3, <1>12, <2>1, WriteTypes DEF ClientWrite, ClientAt
  <2>2. CASE WriteFails("client") /\ ClientFail(io["client"])
    BY <1>1, <1>2, <1>8, <1>12, <2>2, FailsTypes DEF ClientWrite, ClientAt
  <2>3. QED  BY <1>12, <2>1, <2>2 DEF ClientWrite
<1>13. CASE ClientSendOn
  <2>1. UNCHANGED <<build, beat, seen, hearts, raced>>  BY <1>13 DEF ClientSendOn, appVars
  <2>2. CASE SendOn("client", "test")
    BY <1>1, <1>3, <2>1, <2>2, SendOnTypes
  <2>3. CASE SendFails("client") /\ ClientFail(io["client"])
    BY <1>1, <1>2, <1>8, <2>1, <2>3, FailsTypes
  <2>4. QED  BY <1>13, <2>2, <2>3 DEF ClientSendOn
<1>14. CASE ClientDoMsg
  <2> DEFINE handled == ClientOnNetMsg(obj["client"], Head(obj["client"].recv))
             next == IF build["client"] = "iocp" THEN "test" ELSE "write"
  <2>1. handled \in ClientObject /\ Fits(handled)  BY <1>2, ClientHandles
  <2>2. HandleMessage("client", next, handled)  BY <1>14 DEF ClientDoMsg
  <2>3. next \in Stage  BY <1>1
  <2> HIDE DEF handled, next
  <2>4. ObjOK' /\ StageOK'  BY <1>1, <2>1, <2>2, <2>3, HandleTypes
  <2>5. QED  BY <1>3, <1>4, <1>14, <2>4 DEF ClientDoMsg, ClientAt
<1>15. CASE ClientWaitFails
  <2>1. IoOK'  BY <1>2, <1>15 DEF ClientWaitFails, IoOK
  <2>2. StageOK'  BY <1>1, <1>15, GotoType DEF ClientWaitFails
  <2>3. QED  BY <1>3, <1>4, <1>15, <2>1, <2>2 DEF ClientWaitFails, ClientAt
<1>16. CASE EpollWaitFails
  <2>1. StageOK'  BY <1>1, <1>16, GotoType DEF EpollWaitFails
  <2>2. QED  BY <1>3, <1>4, <1>16, <2>1 DEF EpollWaitFails, ClientAt
<1>17. CASE SelectFails
  BY <1>2, <1>4, <1>8, <1>17 DEF SelectFails, ClientAt
<1>18. CASE ClientSendInterrupted
  <2>1. UNCHANGED <<build, beat, seen, hearts, raced>>
    BY <1>18 DEF ClientSendInterrupted, SendInterrupted, appVars
  <2>2. SendInterrupted("client", "test")  BY <1>18 DEF ClientSendInterrupted
  <2>3. QED  BY <1>1, <1>3, <2>1, <2>2, InterruptedTypes
<1>19. CASE Shutdown
  <2>1. ObjOK' /\ IoOK' /\ WireOK' /\ LifeOK' /\ NetOK'
    BY <1>1, <1>2, <1>19, DeleteTypes DEF Shutdown
  <2>2. StageOK'  BY <1>1, <1>19, GotoType DEF Shutdown
  <2>3. BeatOK'  BY <1>19 DEF Shutdown, ClientAt, BeatOK
  <2>4. QED  BY <1>4, <1>19, <2>1, <2>2, <2>3 DEF Shutdown, ClientAt
<1>20. CASE ClientCompletion
  BY <1>1, <1>3, <1>4, <1>20, CompletionTypes DEF ClientCompletion, ClientAt
<1>21. CASE ClientFailedCompletion
  BY <1>2, <1>4, <1>8, <1>21 DEF ClientFailedCompletion, ClientAt
<1>22. CASE ConnectionLost
  <2>1. WireOK'
    <3>1. << >> \in Bytes /\ Len(<< >>) = 0  BY EmptySeq DEF Bytes
    <3>2. wire' = [e \in Ends |-> << >>]  BY <1>22 DEF ConnectionLost
    <3>3. QED  BY <3>1, <3>2, NetCapPositive DEF WireOK
  <2>2. NetOK'  BY <1>22 DEF ConnectionLost, NetOK
  <2>3. QED  BY <1>3, <1>4, <1>22, <2>1, <2>2 DEF ConnectionLost, appVars
<1>23. QED
  BY <1>5, <1>6, <1>7, <1>9, <1>10, <1>11, <1>12, <1>13, <1>14, <1>15, <1>16, <1>17, <1>18, <1>19,
     <1>20, <1>21, <1>22
  DEF WorkThread

(* No handler, no completion and no callback leaves the types.             *)
THEOREM ConnectionTypes == Spec => []ConnTypeOK
<1>1. Init => Types  BY InitTypes
<1>2. Types /\ [Next]_vars => Types'
  <2> SUFFICES ASSUME Types, [Next]_vars PROVE Types'
    OBVIOUS
  <2>1. CASE Next  BY <2>1, ServerTypes, ClientTypes, HeartTypes DEF Next, Ports, Faults
  <2>2. CASE UNCHANGED vars
    BY <2>2 DEF vars, connVars, appVars, Types, ObjOK, IoOK, WireOK, LifeOK, StageOK, SentOK,
                NetOK, BeatOK
  <2>3. QED  BY <2>1, <2>2
<1>3. QED  BY <1>1, <1>2, TypeParts, PTL DEF Spec

-----------------------------------------------------------------------------
(* While the connection is sound.  What a step at the end e leaves at the  *)
(* other end needs no attention.                                           *)
LEMMA TwoEnds ==
  ASSUME NEW e \in Ends
  PROVE  Peer(e) \in Ends /\ Peer(e) # e /\ Peer(Peer(e)) = e /\ \A x \in Ends : x = e \/ x = Peer(e)
BY DEF Ends, Peer

LEMMA UpAgain ==
  ASSUME UpInv, NEW e \in Ends, UNCHANGED build, life'[e] = "live",
         LET p == Peer(e)
         IN  /\ life'[p] = life[p] /\ obj'[p] = obj[p] /\ io'[p] = io[p]
             /\ stage'[p] = stage[p] /\ sent'[p] = sent[p],
         StageInv(e)', RequestInv(e)', StreamInv(e)', StreamInv(Peer(e))'
  PROVE  UpInv'
<1> DEFINE p == Peer(e)
<1>1. p \in Ends /\ p # e /\ \A x \in Ends : x = e \/ x = p  BY TwoEnds
<1>2. /\ life'[p] = life[p] /\ obj'[p] = obj[p] /\ io'[p] = io[p]
      /\ stage'[p] = stage[p] /\ sent'[p] = sent[p]
  OBVIOUS
<1> HIDE DEF p
<1>3. StageInv(p)' /\ RequestInv(p)'
  <2>1. StageInv(p) /\ RequestInv(p)  BY <1>1 DEF UpInv
  <2>2. build'[p] = build[p]  OBVIOUS
  <2>3. StageInv(p)'  BY <1>2, <2>1, <2>2 DEF StageInv
  <2>4. RequestInv(p)'  BY <1>2, <2>1, <2>2 DEF RequestInv
  <2>5. QED  BY <2>3, <2>4
<1>4. LifeInv'
  <2>1. LifeInv  BY DEF UpInv
  <2>2. life'["client"] \in {"none", "live"} /\ life'["server"] \in {"none", "buffered", "live"}
    <3>1. \A x \in Ends : life'[x] = life[x] \/ life'[x] = "live"  BY <1>1, <1>2
    <3>2. QED  BY <2>1, <3>1 DEF LifeInv, Ends
  <2>3. \A x \in Ends : life'[x] # "live" =>
          obj'[x] = NewClient /\ io'[x] = << >> /\ stage'[x] = "test"
    BY <1>1, <1>2, <2>1 DEF LifeInv
  <2>4. QED  BY <2>2, <2>3 DEF LifeInv
<1>5. \A x \in Ends : StageInv(x)' /\ RequestInv(x)' /\ StreamInv(x)'
  <2> TAKE x \in Ends
  <2>1. CASE x = e  BY <2>1
  <2>2. CASE x = p  BY <1>3, <2>2 DEF p
  <2>3. QED  BY <1>1, <2>1, <2>2
<1>6. QED  BY <1>4, <1>5 DEF UpInv

(* A step that leaves the network and the buffers leaves the streams.      *)
LEMMA SameStream ==
  ASSUME NEW e \in Ends, StreamInv(e), wire'[Peer(e)] = wire[Peer(e)],
         obj'[Peer(e)].recv = obj[Peer(e)].recv, obj'[Peer(e)].nRecvMsgID = obj[Peer(e)].nRecvMsgID,
         obj'[e].send = obj[e].send, obj'[e].nSendMsgID = obj[e].nSendMsgID,
         sent'[e].taken = sent[e].taken
  PROVE  StreamInv(e)'
<1>1. Stream(e)' = Stream(e)  BY DEF Stream
<1>2. QED  BY <1>1 DEF StreamInv

LEMMA EndTypes ==
  ASSUME Types, NEW e \in Ends
  PROVE  /\ obj[e] \in ClientObject /\ Fits(obj[e])
         /\ obj[e].send \in Bytes /\ Len(obj[e].send) \in Nat /\ Len(obj[e].send) <= SendSize
         /\ obj[e].recv \in Bytes /\ Len(obj[e].recv) \in Nat /\ Len(obj[e].recv) <= RecvSize
         /\ obj[e].nSendMsgID \in Nat /\ obj[e].nRecvMsgID \in Nat
         /\ obj[e].isPostRecv \in BOOLEAN /\ obj[e].isPostSend \in BOOLEAN
         /\ wire[e] \in Bytes
         /\ io[e] \in Seq(Request) /\ Len(io[e]) \in Nat /\ DOMAIN io[e] = 1 .. Len(io[e])
         /\ \A i \in DOMAIN io[e] : io[e][i] \in Request
         /\ sent[e].taken \in Nat /\ sent[e].of \in Nat
         /\ pop(obj[e].send, sent[e].taken) \in Bytes
<1>1. obj[e] \in ClientObject /\ Fits(obj[e]) /\ io[e] \in Seq(Request)
      /\ \A i \in DOMAIN io[e] : io[e][i] \in Request
  BY TheRequests
<1>2. /\ obj[e].send \in Bytes /\ obj[e].recv \in Bytes
      /\ Len(obj[e].send) <= SendSize /\ Len(obj[e].recv) <= RecvSize
      /\ obj[e].nSendMsgID \in Nat /\ obj[e].nRecvMsgID \in Nat
      /\ obj[e].isPostRecv \in BOOLEAN /\ obj[e].isPostSend \in BOOLEAN
  BY <1>1 DEF ClientObject, Fits
<1>3. Len(obj[e].send) \in Nat /\ Len(obj[e].recv) \in Nat  BY <1>2, LenProperties DEF Bytes
<1>4. wire[e] \in Bytes  BY DEF Types, WireOK
<1>5. Len(io[e]) \in Nat /\ DOMAIN io[e] = 1 .. Len(io[e])  BY <1>1, LenProperties
<1>6. sent[e].taken \in Nat /\ sent[e].of \in Nat  BY BuffersHoldMessages DEF Types, SentOK
<1>7. pop(obj[e].send, sent[e].taken) \in Bytes  BY <1>2, <1>6, PoppedType DEF Bytes
<1>8. QED  BY <1>1, <1>2, <1>3, <1>4, <1>5, <1>6, <1>7

LEMMA JoinedType ==
  ASSUME NEW a \in Bytes, NEW b \in Bytes
  PROVE  a \o b \in Bytes
BY ConcatProperties DEF Bytes

LEMMA Joined ==
  ASSUME NEW a \in Bytes, NEW b \in Bytes, NEW c \in Bytes
  PROVE  (a \o b) \o c = a \o (b \o c)
<1>1. \A S : \A x, y, z \in Seq(S) : (x \o y) \o z = x \o (y \o z)  BY ConcatAssociative
<1>2. QED  BY <1>1 DEF Bytes

LEMMA StreamType ==
  ASSUME Types, NEW e \in Ends
  PROVE  /\ Stream(e) \in Bytes
         /\ Stream(e) = obj[Peer(e)].recv \o (wire[Peer(e)] \o pop(obj[e].send, sent[e].taken))
         /\ wire[Peer(e)] \o pop(obj[e].send, sent[e].taken) \in Bytes
         /\ wire[Peer(e)] \in Bytes /\ obj[Peer(e)].recv \in Bytes
         /\ obj[Peer(e)].nRecvMsgID \in Nat
<1> DEFINE r == obj[Peer(e)].recv
           w == wire[Peer(e)]
           s == pop(obj[e].send, sent[e].taken)
<1>1. Peer(e) \in Ends  BY TwoEnds
<1>2. r \in Bytes /\ w \in Bytes /\ s \in Bytes /\ obj[Peer(e)].nRecvMsgID \in Nat
  BY <1>1, EndTypes
<1>3. Stream(e) = r \o w \o s  BY DEF Stream
<1> HIDE DEF r, w, s
<1>4. r \o w \in Bytes /\ w \o s \in Bytes  BY <1>2, ConcatProperties DEF Bytes
<1>5. (r \o w) \o s \in Bytes  BY <1>2, <1>4, ConcatProperties DEF Bytes
<1>6. (r \o w) \o s = r \o (w \o s)  BY <1>2, Joined
<1>7. QED  BY <1>2, <1>3, <1>4, <1>5, <1>6 DEF r, w, s

(* The thread of e goes on, and nothing else happens.  A round that begins *)
(* with a message in the receive buffer would make no request.             *)
LEMMA MoveOn ==
  ASSUME UpInv, Types, NEW e \in Ends, life[e] = "live", NEW label, Goto(e, label),
         UNCHANGED <<build, obj, life, io, sent, wire>>,
         stage[e] # "sending",
         label \in {"test", "net", "msg"} \/ (build[e] = "iocp" /\ label = "drain")
                                          \/ (build[e] # "iocp" /\ label = "write"),
         build[e] = "iocp" /\ label \in {"test", "net"} =>
           stage[e] \in {"test", "net"} \/ NoMessage(obj[e].recv)
  PROVE  UpInv'
<1> DEFINE p == Peer(e)
<1>1. p \in Ends /\ p # e /\ Peer(p) = e  BY TwoEnds
<1>2. stage'[e] = label /\ stage'[p] = stage[p]  BY <1>1 DEF Goto, Types, StageOK
<1>3. StageInv(e) /\ RequestInv(e) /\ StreamInv(e) /\ StreamInv(p)  BY <1>1 DEF UpInv
<1>4. StageInv(e)'  BY <1>2, <1>3 DEF StageInv
<1>5. RequestInv(e)'  BY <1>2, <1>3 DEF RequestInv
<1>6. StreamInv(e)'  BY <1>3, SameStream
<1>7. StreamInv(p)'  BY <1>1, <1>3, SameStream
<1>8. QED  BY <1>2, <1>4, <1>5, <1>6, <1>7, UpAgain

LEMMA RoomForMessage ==
  ASSUME NEW c \in ClientObject, Fits(c), NoMessage(c.recv)
  PROVE  Len(c.recv) < RecvSize
<1>1. CASE c.recv = << >>
  <2>1. "LOGIN" \in CMD /\ dataLength("LOGIN") = 2  BY DEF CMD, dataLength
  <2>2. QED  BY <1>1, <2>1, BuffersHoldMessages
<1>2. CASE c.recv # << >>
  <2>1. c.recv \in Seq(Unit(Int)) /\ Len(c.recv) \in Nat  BY LenProperties DEF ClientObject, Bytes
  <2>2. 1 \in 1 .. Len(c.recv)
    <3>1. Len(c.recv) # 0  BY <1>2, <2>1, EmptySeq
    <3>2. QED  BY <2>1, <3>1
  <2>3. c.recv[1] \in Unit(Int)  BY <2>1, <2>2, ElementOfSeq
  <2>4. c.recv[1].cmd \in CMD  BY <2>3 DEF Unit
  <2>5. Len(c.recv) < dataLength(c.recv[1].cmd)  BY <1>2 DEF NoMessage
  <2>6. dataLength(c.recv[1].cmd) \in Nat  BY DEF dataLength
  <2>7. QED  BY <2>1, <2>4, <2>5, <2>6, BuffersHoldMessages
<1>3. QED  BY <1>1, <1>2

(* A round makes the requests that are not outstanding.                    *)
LEMMA PostsOnce ==
  ASSUME UpInv, Types, NEW e \in Ends, life[e] = "live", build[e] = "iocp",
         stage[e] \in {"test", "net"}, PostRequests(e), UNCHANGED <<build, sent>>
  PROVE  UpInv'
<1> DEFINE p == Peer(e)
           c == obj[e]
           q == io[e]
           R == NewRequests(e)
           d == MarkRecv(MarkSend(c))
<1>1. p \in Ends /\ p # e /\ Peer(p) = e  BY TwoEnds
<1>2. StageInv(e) /\ RequestInv(e) /\ StreamInv(e) /\ StreamInv(p)  BY <1>1 DEF UpInv
<1>3. /\ obj'[e] = d /\ obj'[p] = obj[p]
      /\ io'[e] = q \o R /\ io'[p] = io[p]
      /\ stage'[e] = "drain" /\ stage'[p] = stage[p]
      /\ UNCHANGED <<life, net, wire>>
  BY <1>1 DEF PostRequests, Goto, Types, ObjOK, IoOK, StageOK
<1>4. c \in ClientObject /\ Fits(c) /\ q \in Seq(Request) /\ DOMAIN q = 1 .. Len(q)
      /\ Len(q) \in Nat /\ c.send \in Bytes
  BY EndTypes
<1>5. /\ R \in Seq(Request)
      /\ \A i \in DOMAIN R : R[i] \in PostSend(c) \cup PostRecv(c)
      /\ \A x \in PostSend(c) \cup PostRecv(c) : \E i \in DOMAIN R : R[i] = x
      /\ \A i, j \in DOMAIN R : R[i].iotype = R[j].iotype => i = j
      /\ \A x \in PostSend(c) : x = [iotype |-> "SEND", at |-> 0, data |-> c.send]
      /\ \A x \in PostRecv(c) : x = [iotype |-> "RECV", at |-> Len(c.recv), data |-> << >>]
  BY <1>4, RoundsRequests DEF NewRequests
<1>6. /\ d.send = c.send /\ d.recv = c.recv
      /\ d.nSendMsgID = c.nSendMsgID /\ d.nRecvMsgID = c.nRecvMsgID
      /\ d.isPostRecv = TRUE
      /\ d.isPostSend = (c.isPostSend \/ needWrite(c.send))
  <2>1. CASE needWrite(c.send)
    <3>1. d = [[c EXCEPT !.isPostSend = TRUE] EXCEPT !.isPostRecv = TRUE]
      BY <2>1 DEF MarkRecv, MarkSend
    <3>2. QED  BY <1>4, <2>1, <3>1 DEF ClientObject
  <2>2. CASE ~needWrite(c.send)
    <3>1. d = [c EXCEPT !.isPostRecv = TRUE]  BY <2>2 DEF MarkRecv, MarkSend
    <3>2. QED  BY <1>4, <2>2, <3>1 DEF ClientObject
  <2>3. QED  BY <2>1, <2>2
<1>7. /\ c.isPostSend => PostSend(c) = {}
      /\ c.isPostRecv => PostRecv(c) = {}
      /\ ~c.isPostSend /\ needWrite(c.send) => PostSend(c) # {}
      /\ ~needWrite(c.send) => PostSend(c) = {}
      /\ ~c.isPostRecv => PostRecv(c) # {}
  <2>1. ~c.isPostRecv => Len(c.recv) < RecvSize  BY <1>2, <1>4, RoomForMessage DEF RequestInv
  <2>2. QED  BY <2>1 DEF PostSend, PostRecv, makeSendIoData, makeRecvIoData
<1>8. /\ \A i, j \in DOMAIN q : q[i].iotype = q[j].iotype => i = j
      /\ c.isPostRecv <=> \E i \in DOMAIN q : q[i].iotype = "RECV"
      /\ c.isPostSend <=> \E i \in DOMAIN q : q[i].iotype = "SEND"
      /\ \A i \in DOMAIN q :
           /\ q[i].iotype = "RECV" => q[i].at = Len(c.recv)
           /\ q[i].iotype = "SEND" => IsPrefix(q[i].data, c.send)
      /\ NoMessage(c.recv)
  BY <1>2 DEF RequestInv
<1>9. IsPrefix(c.send, c.send)  BY <1>4, PrefixOfItself DEF Bytes
<1> DEFINE qq == q \o R
<1> HIDE DEF p, q, R, d, c
<1>10. Len(R) \in Nat /\ DOMAIN R = 1 .. Len(R)  BY <1>5, LenProperties
<1>11. /\ qq \in Seq(Request) /\ Len(qq) = Len(q) + Len(R) /\ DOMAIN qq = 1 .. Len(q) + Len(R)
       /\ \A i \in 1 .. Len(q) + Len(R) : qq[i] = IF i <= Len(q) THEN q[i] ELSE R[i - Len(q)]
  BY <1>4, <1>5, ConcatProperties, LenProperties
<1> HIDE DEF qq
<1>12. \A i \in DOMAIN R :
         \/ R[i].iotype = "SEND" /\ R[i] \in PostSend(c)
         \/ R[i].iotype = "RECV" /\ R[i] \in PostRecv(c)
  <2> TAKE i \in DOMAIN R
  <2>1. CASE R[i] \in PostSend(c)  BY <1>5, <2>1
  <2>2. CASE R[i] \in PostRecv(c)  BY <1>5, <2>2
  <2>3. QED  BY <1>5, <2>1, <2>2
<1>13. \A i \in DOMAIN qq : \/ i \in DOMAIN q /\ qq[i] = q[i]
                            \/ i - Len(q) \in DOMAIN R /\ ~(i \in DOMAIN q) /\ qq[i] = R[i - Len(q)]
  BY <1>4, <1>10, <1>11
<1>14. \A i \in DOMAIN q : i \in DOMAIN qq /\ qq[i] = q[i]
  BY <1>4, <1>10, <1>11
<1>15. \A i \in DOMAIN R : Len(q) + i \in DOMAIN qq /\ qq[Len(q) + i] = R[i]
  <2> TAKE i \in DOMAIN R
  <2>1. Len(q) + i \in 1 .. Len(q) + Len(R) /\ ~(Len(q) + i <= Len(q)) /\ (Len(q) + i) - Len(q) = i
    BY <1>4, <1>10
  <2>2. QED  BY <1>11, <2>1
<1>16. ASSUME NEW i \in DOMAIN q, NEW j \in DOMAIN R
       PROVE  q[i].iotype # R[j].iotype
  <2>1. CASE R[j].iotype = "SEND" /\ R[j] \in PostSend(c)  BY <1>7, <1>8, <2>1
  <2>2. CASE R[j].iotype = "RECV" /\ R[j] \in PostRecv(c)  BY <1>7, <1>8, <2>2
  <2>3. QED  BY <1>12, <2>1, <2>2
<1>17. \A i, j \in DOMAIN qq : qq[i].iotype = qq[j].iotype => i = j
  <2> SUFFICES ASSUME NEW i \in DOMAIN qq, NEW j \in DOMAIN qq, qq[i].iotype = qq[j].iotype
               PROVE  i = j
    OBVIOUS
  <2>1. CASE i \in DOMAIN q /\ j \in DOMAIN q  BY <1>8, <1>14, <2>1
  <2>2. CASE ~(i \in DOMAIN q) /\ ~(j \in DOMAIN q)
    <3>1. i - Len(q) = j - Len(q)  BY <1>5, <1>13, <2>2
    <3>2. i \in Int /\ j \in Int  BY <1>11
    <3>3. QED  BY <1>4, <3>1, <3>2
  <2>3. CASE i \in DOMAIN q /\ ~(j \in DOMAIN q)  BY <1>13, <1>16, <2>3
  <2>4. CASE ~(i \in DOMAIN q) /\ j \in DOMAIN q  BY <1>13, <1>16, <2>4
  <2>5. QED  BY <2>1, <2>2, <2>3, <2>4
<1>18. d.isPostRecv <=> \E i \in DOMAIN qq : qq[i].iotype = "RECV"
  <2>1. CASE c.isPostRecv  BY <1>6, <1>8, <1>14, <2>1
  <2>2. CASE ~c.isPostRecv
    <3>1. \E i \in DOMAIN R : R[i].iotype = "RECV"  BY <1>5, <1>7, <2>2
    <3>2. QED  BY <1>6, <1>15, <3>1
  <2>3. QED  BY <2>1, <2>2
<1>19. d.isPostSend <=> \E i \in DOMAIN qq : qq[i].iotype = "SEND"
  <2>1. CASE c.isPostSend  BY <1>6, <1>8, <1>14, <2>1
  <2>2. CASE ~c.isPostSend /\ needWrite(c.send)
    <3>1. \E i \in DOMAIN R : R[i].iotype = "SEND"  BY <1>5, <1>7, <2>2
    <3>2. QED  BY <1>6, <1>15, <2>2, <3>1
  <2>3. CASE ~c.isPostSend /\ ~needWrite(c.send)
    <3>1. \A i \in DOMAIN R : R[i].iotype # "SEND"  BY <1>7, <1>12, <2>3
    <3>2. \A i \in DOMAIN q : q[i].iotype # "SEND"  BY <1>8, <2>3
    <3>3. \A i \in DOMAIN qq : qq[i].iotype # "SEND"  BY <1>13, <3>1, <3>2
    <3>4. QED  BY <1>6, <2>3, <3>3
  <2>4. QED  BY <2>1, <2>2, <2>3
<1>20. \A i \in DOMAIN qq :
         /\ qq[i].iotype = "RECV" => qq[i].at = Len(c.recv)
         /\ qq[i].iotype = "SEND" => IsPrefix(qq[i].data, c.send)
  <2>1. ASSUME NEW i \in DOMAIN R
        PROVE  /\ R[i].iotype = "RECV" => R[i].at = Len(c.recv)
               /\ R[i].iotype = "SEND" => IsPrefix(R[i].data, c.send)
    <3>1. CASE R[i].iotype = "SEND" /\ R[i] \in PostSend(c)  BY <1>5, <1>9, <3>1
    <3>2. CASE R[i].iotype = "RECV" /\ R[i] \in PostRecv(c)  BY <1>5, <3>2
    <3>3. QED  BY <1>12, <3>1, <3>2
  <2>2. QED  BY <1>8, <1>13, <2>1
<1>21. RequestInv(e)'
  <2>1. obj'[e] = d /\ io'[e] = qq  BY <1>3 DEF qq
  <2>2. QED  BY <1>6, <1>8, <1>17, <1>18, <1>19, <1>20, <2>1 DEF RequestInv
<1>22. StageInv(e)'
  <2>1. Len(obj'[e].send) = Len(obj[e].send)  BY <1>3, <1>6 DEF c
  <2>2. QED  BY <1>2, <1>3, <2>1 DEF StageInv
<1>23. StreamInv(e)'  BY <1>2, <1>3, <1>6, SameStream DEF c, p
<1>24. StreamInv(p)'
  <2>1. Peer(p) = e  BY <1>1
  <2>2. QED  BY <1>1, <1>2, <1>3, <1>6, <2>1, SameStream DEF c
<1>25. QED  BY <1>3, <1>21, <1>22, <1>23, <1>24, UpAgain DEF p

(* The requests r are those of q without the one at i, which was the only  *)
(* one of its kind.                                                        *)
OneLess(q, i, r) ==
  /\ \A j, k \in DOMAIN r : r[j].iotype = r[k].iotype => j = k
  /\ \A j \in DOMAIN r : \E k \in DOMAIN q : r[j] = q[k]
  /\ \A j \in DOMAIN r : r[j].iotype # q[i].iotype
  /\ \A t : t # q[i].iotype =>
       ((\E j \in DOMAIN r : r[j].iotype = t) <=> \E k \in DOMAIN q : q[k].iotype = t)

LEMMA RequestEnds ==
  ASSUME Types, NEW e \in Ends, NEW i \in DOMAIN io[e],
         \A j, k \in DOMAIN io[e] : io[e][j].iotype = io[e][k].iotype => j = k,
         io' = [io EXCEPT ![e] = RemoveAt(io[e], i)]
  PROVE  OneLess(io[e], i, io'[e])
<1> DEFINE q == io[e]
           r == RemoveAt(q, i)
           at(j) == IF j < i THEN j ELSE j + 1
<1>1. /\ q \in Seq(Request) /\ DOMAIN q = 1 .. Len(q) /\ Len(q) \in Nat
      /\ i \in DOMAIN q /\ i \in Int
  BY EndTypes
<1>2. \A j, k \in DOMAIN q : q[j].iotype = q[k].iotype => j = k  OBVIOUS
<1>3. io'[e] = r  BY DEF Types, IoOK
<1> HIDE DEF q
<1>4. /\ r \in Seq(Request) /\ DOMAIN r = 1 .. Len(q) - 1
      /\ \A j \in 1 .. Len(q) - 1 : r[j] = IF j < i THEN q[j] ELSE q[j + 1]
  BY <1>1, Removed
<1> HIDE DEF r
<1>5. \A j \in DOMAIN r : at(j) \in DOMAIN q /\ at(j) # i /\ r[j] = q[at(j)]
  BY <1>1, <1>4
<1>6. \A k \in DOMAIN q \ {i} : \E j \in DOMAIN r : r[j] = q[k]
  <2> TAKE k \in DOMAIN q \ {i}
  <2>1. CASE k < i
    <3>1. k \in 1 .. Len(q) - 1  BY <1>1, <2>1
    <3>2. QED  BY <1>4, <2>1, <3>1
  <2>2. CASE ~(k < i)
    <3>1. k - 1 \in 1 .. Len(q) - 1 /\ ~(k - 1 < i) /\ (k - 1) + 1 = k  BY <1>1, <2>2
    <3>2. r[k - 1] = q[k]  BY <1>4, <3>1
    <3>3. QED  BY <1>4, <3>1, <3>2
  <2>3. QED  BY <2>1, <2>2
<1>7. \A j, k \in DOMAIN r : at(j) = at(k) => j = k  BY <1>1, <1>4
<1>8. \A j, k \in DOMAIN r : r[j].iotype = r[k].iotype => j = k  BY <1>2, <1>5, <1>7
<1>9. \A j \in DOMAIN r : r[j].iotype # q[i].iotype
  <2> TAKE j \in DOMAIN r
  <2>1. at(j) \in DOMAIN q /\ at(j) # i /\ r[j] = q[at(j)]  BY <1>5
  <2> HIDE DEF at
  <2>2. QED  BY <1>1, <1>2, <2>1
<1>10. \A t : t # q[i].iotype =>
        ((\E j \in DOMAIN r : r[j].iotype = t) <=> \E k \in DOMAIN q : q[k].iotype = t)
  <2> SUFFICES ASSUME NEW t, t # q[i].iotype
               PROVE  (\E j \in DOMAIN r : r[j].iotype = t) <=> \E k \in DOMAIN q : q[k].iotype = t
    OBVIOUS
  <2> HIDE DEF at
  <2>1. ASSUME NEW j \in DOMAIN r, r[j].iotype = t PROVE \E k \in DOMAIN q : q[k].iotype = t
    BY <1>5, <2>1
  <2>2. ASSUME NEW k \in DOMAIN q, q[k].iotype = t PROVE \E j \in DOMAIN r : r[j].iotype = t
    <3>1. k # i  BY <2>2
    <3>2. QED  BY <1>6, <2>2, <3>1
  <2>3. QED  BY <2>1, <2>2
<1>11. \A j \in DOMAIN r : \E k \in DOMAIN q : r[j] = q[k]  BY <1>5
<1>12. io'[e] = r /\ io[e] = q  BY <1>3 DEF r, q
<1>13. OneLess(q, i, r)  BY <1>8, <1>9, <1>10, <1>11 DEF OneLess
<1>14. QED  BY <1>12, <1>13

(* What e has received was the first thing under way to it. *)
LEMMA ArrivesInOrder ==
  ASSUME UpInv, Types, NEW e \in Ends, NEW n \in 1 .. Len(wire[e]),
         wire' = [wire EXCEPT ![e] = pop(wire[e], n)],
         obj'[Peer(e)] = obj[Peer(e)], UNCHANGED sent,
         obj'[e].recv = obj[e].recv \o SubSeq(wire[e], 1, n),
         obj'[e].send = obj[e].send, obj'[e].nSendMsgID = obj[e].nSendMsgID,
         obj'[e].nRecvMsgID = obj[e].nRecvMsgID
  PROVE  StreamInv(e)' /\ StreamInv(Peer(e))'
<1> DEFINE p == Peer(e)
<1>1. p \in Ends /\ p # e /\ Peer(p) = e  BY TwoEnds
<1>2. StreamInv(e) /\ StreamInv(p)  BY <1>1 DEF UpInv
<1>3. wire'[p] = wire[p] /\ wire'[e] = pop(wire[e], n)  BY <1>1 DEF Types, WireOK
<1>4. StreamInv(e)'  BY <1>2, <1>3, SameStream
<1>5. Stream(p)' = Stream(p)
  <2> DEFINE recv == obj[e].recv
             w == wire[e]
             rest == pop(obj[p].send, sent[p].taken)
             front == SubSeq(w, 1, n)
             back == pop(w, n)
  <2>1. Stream(p) = recv \o w \o rest  BY <1>1 DEF Stream
  <2>2. Stream(p)' = (recv \o front) \o back \o rest  BY <1>1, <1>3 DEF Stream
  <2>3. recv \in Bytes /\ w \in Bytes /\ rest \in Bytes
    BY <1>1, EndTypes
  <2>4. Len(w) \in Nat /\ n \in Nat /\ n <= Len(w) /\ 0 <= n  BY <2>3, LenProperties DEF Bytes
  <2>5. front \o back = w
    <3> HIDE DEF w
    <3>1. SubSeq(w, 0 + 1, n) \o pop(w, n) = pop(w, 0)  BY <2>3, <2>4, Split DEF Bytes
    <3>2. pop(w, 0) = w  BY <2>3, PopNothing DEF Bytes
    <3>3. QED  BY <3>1, <3>2
  <2>6. front \in Bytes /\ back \in Bytes  BY Arrives DEF Types
  <2> HIDE DEF recv, w, rest, front, back
  <2>7. (recv \o front) \o back = recv \o w
    <3>1. (recv \o front) \o back = recv \o (front \o back)  BY <2>3, <2>6, Joined
    <3>2. QED  BY <2>5, <3>1
  <2>8. QED  BY <2>1, <2>2, <2>7
<1>6. StreamInv(p)'
  <2>1. obj'[p] = obj[p] /\ obj'[Peer(p)].nRecvMsgID = obj[Peer(p)].nRecvMsgID  BY <1>1
  <2>2. QED  BY <1>2, <1>5, <2>1 DEF StreamInv
<1>7. QED  BY <1>4, <1>6

(* What e has sent comes behind what is under way to its peer. *)
LEMMA LeavesInOrder ==
  ASSUME UpInv, Types, NEW e \in Ends, NEW m \in Nat, sent[e].taken <= m, m <= Len(obj[e].send),
         wire' = [wire EXCEPT ![Peer(e)] = wire[Peer(e)] \o SubSeq(obj[e].send, sent[e].taken + 1, m)],
         obj'[Peer(e)] = obj[Peer(e)], sent'[Peer(e)] = sent[Peer(e)],
         obj'[e].recv = obj[e].recv, obj'[e].nRecvMsgID = obj[e].nRecvMsgID,
         pop(obj'[e].send, sent'[e].taken) = pop(obj[e].send, m),
         obj'[e].nSendMsgID = obj[e].nSendMsgID
  PROVE  StreamInv(e)' /\ StreamInv(Peer(e))'
<1> DEFINE p == Peer(e)
<1>1. p \in Ends /\ p # e /\ Peer(p) = e  BY TwoEnds
<1>2. StreamInv(e) /\ StreamInv(p)  BY <1>1 DEF UpInv
<1> DEFINE part == SubSeq(obj[e].send, sent[e].taken + 1, m)
<1>3. wire'[p] = wire[p] \o part /\ wire'[e] = wire[e]  BY <1>1 DEF Types, WireOK
<1>4. StreamInv(p)'
  <2>1. Peer(p) = e  BY <1>1
  <2>2. obj'[p] = obj[p] /\ sent'[p] = sent[p]  OBVIOUS
  <2> HIDE DEF p
  <2>3. QED  BY <1>1, <1>2, <1>3, <2>1, <2>2, SameStream
<1>5. Stream(e)' = Stream(e)
  <2> DEFINE recv == obj[p].recv
             w == wire[p]
             send == obj[e].send
             k == sent[e].taken
  <2>1. Stream(e) = recv \o w \o pop(send, k)  BY DEF Stream
  <2>2. Stream(e)' = recv \o (w \o part) \o pop(send, m)  BY <1>3 DEF Stream
  <2>3. /\ recv \in Seq(Unit(Int)) /\ w \in Seq(Unit(Int)) /\ send \in Seq(Unit(Int))
        /\ Len(send) \in Nat /\ k \in Nat
    BY <1>1, EndTypes DEF Bytes
  <2>4. part \o pop(send, m) = pop(send, k)  BY <2>3, Split
  <2>5. part \in Seq(Unit(Int)) /\ pop(send, m) \in Seq(Unit(Int))
    <3>1. k + 1 \in Nat \ {0} /\ m <= Len(send)  BY <2>3
    <3> HIDE DEF k, send
    <3>2. SubSeq(send, k + 1, m) \in Seq(Unit(Int))  BY <2>3, <3>1, Take
    <3>3. pop(send, m) \in Seq(Unit(Int))  BY <2>3, PoppedType
    <3>4. QED  BY <3>2, <3>3 DEF k, send
  <2> HIDE DEF recv, w, send, k, part
  <2> DEFINE back == pop(send, m)
  <2>6. back \in Seq(Unit(Int))  BY <2>5
  <2>7. part \o back = pop(send, k)  BY <2>4
  <2>8. Stream(e)' = recv \o (w \o part) \o back  BY <2>2
  <2> HIDE DEF back
  <2>9. recv \o (w \o part) \o back = recv \o w \o (part \o back)
    <3>1. recv \in Bytes /\ w \in Bytes /\ part \in Bytes /\ back \in Bytes
      BY <2>3, <2>5, <2>6 DEF Bytes
    <3>2. recv \o w \in Bytes  BY <3>1, JoinedType
    <3>3. (recv \o w) \o part = recv \o (w \o part)  BY <3>1, Joined
    <3>4. ((recv \o w) \o part) \o back = (recv \o w) \o (part \o back)  BY <3>1, <3>2, Joined
    <3>5. QED  BY <3>3, <3>4
  <2>10. QED  BY <2>1, <2>7, <2>8, <2>9
<1>6. StreamInv(e)'  BY <1>2, <1>5 DEF StreamInv
<1>7. QED  BY <1>4, <1>6

(* A completed receive: what was received is counted in where it was       *)
(* written.                                                                *)
LEMMA ReceiveCompletes ==
  ASSUME UpInv, Types, NEW e \in Ends, life[e] = "live", stage[e] = "drain",
         NEW i \in DOMAIN io[e], RecvDone(e, i), UNCHANGED <<build, life, stage, sent>>
  PROVE  UpInv'
<1> DEFINE p == Peer(e)
           c == obj[e]
           q == io[e]
           r == io'[e]
           w == wire[e]
<1>1. p \in Ends /\ p # e /\ Peer(p) = e  BY TwoEnds
<1>2. StageInv(e) /\ RequestInv(e)  BY <1>1 DEF UpInv
<1>3. PICK n \in 1 .. Len(w) :
        /\ n + q[i].at <= RecvSize
        /\ obj' = [obj EXCEPT ![e] = recv4iocp(c, q[i], SubSeq(w, 1, n))]
        /\ wire' = [wire EXCEPT ![e] = pop(w, n)]
  BY DEF RecvDone
<1>4. io' = [io EXCEPT ![e] = RemoveAt(q, i)] /\ q[i].iotype = "RECV"  BY DEF RecvDone
<1> DEFINE units == SubSeq(w, 1, n)
<1>5. /\ c \in ClientObject /\ c.recv \in Bytes /\ Len(c.recv) \in Nat
      /\ q[i].at = Len(c.recv) /\ units \in Bytes /\ Len(units) = n /\ n \in Nat
  BY <1>2, <1>4, EndTypes, Arrives DEF Types, RequestInv
<1>6. recv4iocp(c, q[i], units) = [c EXCEPT !.isPostRecv = FALSE, !.recv = c.recv \o units]
  <2> HIDE DEF units, q, c
  <2>1. ~(Len(c.recv) + Len(units) > RecvSize)  BY <1>3, <1>5, BuffersHoldMessages
  <2>2. read4iocp(c.recv, q[i], units, RecvSize) = c.recv \o units  BY <1>5, <2>1 DEF read4iocp
  <2>3. recv4iocp(c, q[i], units) =
          [c EXCEPT !.isPostRecv = FALSE, !.recv = read4iocp(c.recv, q[i], units, RecvSize)]
    BY DEF recv4iocp
  <2>4. QED  BY <2>2, <2>3
<1> DEFINE d == recv4iocp(c, q[i], units)
<1>7. /\ d.recv = c.recv \o units /\ d.send = c.send /\ d.isPostRecv = FALSE
      /\ d.isPostSend = c.isPostSend
      /\ d.nSendMsgID = c.nSendMsgID /\ d.nRecvMsgID = c.nRecvMsgID
  BY <1>5, <1>6 DEF ClientObject
<1>8. obj'[e] = d /\ obj'[p] = obj[p] /\ io'[p] = io[p]
  BY <1>1, <1>3, <1>4 DEF Types, ObjOK, IoOK
<1>9. /\ \A j, k \in DOMAIN r : r[j].iotype = r[k].iotype => j = k
      /\ \A j \in DOMAIN r : \E k \in DOMAIN q : r[j] = q[k]
      /\ \A j \in DOMAIN r : r[j].iotype # "RECV"
      /\ (\E j \in DOMAIN r : r[j].iotype = "SEND") <=> \E k \in DOMAIN q : q[k].iotype = "SEND"
  <2>1. OneLess(q, i, r)  BY <1>2, <1>4, RequestEnds DEF RequestInv
  <2> HIDE DEF q, r
  <2>2. QED  BY <1>4, <2>1 DEF OneLess
<1>10. stage'[e] = "drain" /\ UNCHANGED <<build, sent>>  OBVIOUS
<1>11. StageInv(e)'
  <2> HIDE DEF d
  <2>1. obj'[e].send = obj[e].send  BY <1>7, <1>8
  <2>2. QED  BY <1>2, <1>10, <2>1 DEF StageInv
<1>12. RequestInv(e)'
  <2>1. /\ c.isPostSend <=> \E k \in DOMAIN q : q[k].iotype = "SEND"
        /\ \A k \in DOMAIN q : q[k].iotype = "SEND" => IsPrefix(q[k].data, c.send)
    BY <1>2 DEF RequestInv
  <2> HIDE DEF d, q, r
  <2>2. \A j \in DOMAIN r : r[j].iotype = "SEND" => IsPrefix(r[j].data, d.send)
    BY <1>7, <1>9, <2>1
  <2>3. QED  BY <1>7, <1>8, <1>9, <1>10, <2>1, <2>2 DEF RequestInv, r
<1>13. StreamInv(e)' /\ StreamInv(p)'
  <2>1. /\ obj'[e].recv = obj[e].recv \o SubSeq(wire[e], 1, n)
        /\ obj'[e].send = obj[e].send /\ obj'[e].nSendMsgID = obj[e].nSendMsgID
        /\ obj'[e].nRecvMsgID = obj[e].nRecvMsgID
    <3> HIDE DEF d
    <3>1. QED  BY <1>7, <1>8
  <2>2. wire' = [wire EXCEPT ![e] = pop(wire[e], n)] /\ n \in 1 .. Len(wire[e])  BY <1>3
  <2>3. QED  BY <1>8, <1>10, <2>1, <2>2, ArrivesInOrder
<1>14. QED  BY <1>8, <1>10, <1>11, <1>12, <1>13, UpAgain

(* A completed send: what was sent is removed. *)
LEMMA SendCompletes ==
  ASSUME UpInv, Types, NEW e \in Ends, life[e] = "live", stage[e] = "drain",
         NEW i \in DOMAIN io[e], SendDone(e, i), UNCHANGED <<build, life, stage, sent>>
  PROVE  UpInv'
<1> DEFINE p == Peer(e)
           c == obj[e]
           q == io[e]
           r == io'[e]
           data == q[i].data
<1>1. p \in Ends /\ p # e /\ Peer(p) = e  BY TwoEnds
<1>2. StageInv(e) /\ RequestInv(e)  BY <1>1 DEF UpInv
<1>3. PICK n \in 1 .. Len(data) :
        /\ obj' = [obj EXCEPT ![e] = send2iocp(c, n)]
        /\ wire' = [wire EXCEPT ![p] = wire[p] \o SubSeq(data, 1, n)]
  BY DEF SendDone
<1>4. io' = [io EXCEPT ![e] = RemoveAt(q, i)] /\ q[i].iotype = "SEND"  BY DEF SendDone
<1>5. /\ c \in ClientObject /\ c.send \in Seq(Unit(Int)) /\ Len(c.send) \in Nat
      /\ data \in Seq(Unit(Int)) /\ IsPrefix(data, c.send)
  BY <1>2, <1>4, EndTypes DEF RequestInv, Request, Bytes
<1>6. Len(data) \in Nat /\ Len(data) <= Len(c.send) /\ \A k \in 1 .. Len(data) : data[k] = c.send[k]
  BY <1>5, Prefix, LenProperties
<1>7. n \in Nat /\ 1 <= n /\ n <= Len(data) /\ n <= Len(c.send)  BY <1>5, <1>6
<1>8. SubSeq(data, 1, n) = SubSeq(c.send, 1, n)
  <2> HIDE DEF data, c
  <2>1. /\ SubSeq(data, 1, n) \in Seq(Unit(Int)) /\ Len(SubSeq(data, 1, n)) = n
        /\ \A k \in 1 .. n : SubSeq(data, 1, n)[k] = data[k]
    <3>1. /\ SubSeq(data, 1, n) \in Seq(Unit(Int))
          /\ Len(SubSeq(data, 1, n)) = IF 1 <= n THEN n - 1 + 1 ELSE 0
          /\ \A k \in 1 .. n - 1 + 1 : SubSeq(data, 1, n)[k] = data[1 + k - 1]
      BY <1>5, <1>7, Take
    <3>2. QED  BY <1>7, <3>1
  <2>2. /\ SubSeq(c.send, 1, n) \in Seq(Unit(Int)) /\ Len(SubSeq(c.send, 1, n)) = n
        /\ \A k \in 1 .. n : SubSeq(c.send, 1, n)[k] = c.send[k]
    <3>1. /\ SubSeq(c.send, 1, n) \in Seq(Unit(Int))
          /\ Len(SubSeq(c.send, 1, n)) = IF 1 <= n THEN n - 1 + 1 ELSE 0
          /\ \A k \in 1 .. n - 1 + 1 : SubSeq(c.send, 1, n)[k] = c.send[1 + k - 1]
      BY <1>5, <1>7, Take
    <3>2. QED  BY <1>7, <3>1
  <2>3. \A k \in 1 .. n : SubSeq(data, 1, n)[k] = SubSeq(c.send, 1, n)[k]
    BY <1>6, <1>7, <2>1, <2>2
  <2>4. QED  BY <2>1, <2>2, <2>3, SeqEqual
<1> DEFINE d == send2iocp(c, n)
<1>9. /\ d.send = pop(c.send, n) /\ d.recv = c.recv /\ d.isPostSend = FALSE
      /\ d.isPostRecv = c.isPostRecv
      /\ d.nSendMsgID = c.nSendMsgID /\ d.nRecvMsgID = c.nRecvMsgID
  <2>1. write2iocp(c.send, n) = pop(c.send, n)
    <3>1. ~(Len(c.send) < n)  BY <1>5, <1>7
    <3>2. QED  BY <3>1 DEF write2iocp
  <2>2. d = [c EXCEPT !.isPostSend = FALSE, !.send = pop(c.send, n)]  BY <2>1 DEF send2iocp
  <2> HIDE DEF d, c
  <2>3. QED  BY <1>5, <2>2 DEF ClientObject
<1>10. obj'[e] = d /\ obj'[p] = obj[p] /\ io'[p] = io[p]
  BY <1>1, <1>3, <1>4 DEF Types, ObjOK, IoOK
<1>11. /\ \A j, k \in DOMAIN r : r[j].iotype = r[k].iotype => j = k
       /\ \A j \in DOMAIN r : \E k \in DOMAIN q : r[j] = q[k]
       /\ \A j \in DOMAIN r : r[j].iotype # "SEND"
       /\ (\E j \in DOMAIN r : r[j].iotype = "RECV") <=> \E k \in DOMAIN q : q[k].iotype = "RECV"
  <2>1. OneLess(q, i, r)  BY <1>2, <1>4, RequestEnds DEF RequestInv
  <2> HIDE DEF q, r
  <2>2. QED  BY <1>4, <2>1 DEF OneLess
<1>12. stage'[e] = "drain" /\ UNCHANGED <<build, sent>>  OBVIOUS
<1>13. sent[e].taken = 0 /\ sent[e].of = 0  BY <1>2 DEF StageInv
<1>14. pop(c.send, n) \in Seq(Unit(Int)) /\ Len(pop(c.send, n)) \in Nat
  BY <1>5, <1>7, PoppedType, LenProperties
<1>15. StageInv(e)'
  <2> HIDE DEF d
  <2>1. Len(obj'[e].send) \in Nat  BY <1>9, <1>10, <1>14
  <2>2. build[e] = "iocp"  BY <1>2 DEF StageInv
  <2>3. QED  BY <1>2, <1>12, <1>13, <2>1, <2>2 DEF StageInv
<1>16. RequestInv(e)'
  <2>1. /\ c.isPostRecv <=> \E k \in DOMAIN q : q[k].iotype = "RECV"
        /\ \A k \in DOMAIN q : q[k].iotype = "RECV" => q[k].at = Len(c.recv)
        /\ c.isPostRecv /\ build[e] = "iocp" => NoMessage(c.recv)
    BY <1>2 DEF RequestInv
  <2> HIDE DEF d, q, r
  <2>2. \A j \in DOMAIN r : r[j].iotype = "RECV" => r[j].at = Len(d.recv)
    BY <1>9, <1>11, <2>1
  <2>3. QED  BY <1>9, <1>10, <1>11, <1>12, <2>1, <2>2 DEF RequestInv, r
<1>17. StreamInv(e)' /\ StreamInv(p)'
  <2>1. /\ obj'[e].recv = obj[e].recv /\ obj'[e].send = pop(obj[e].send, n)
        /\ obj'[e].nSendMsgID = obj[e].nSendMsgID /\ obj'[e].nRecvMsgID = obj[e].nRecvMsgID
    <3> HIDE DEF d
    <3>1. QED  BY <1>9, <1>10
  <2>2. wire' = [wire EXCEPT ![p] = wire[p] \o SubSeq(obj[e].send, sent[e].taken + 1, n)]
    <3>1. sent[e].taken + 1 = 1  BY <1>13
    <3>2. QED  BY <1>3, <1>8, <3>1
  <2>3. pop(obj'[e].send, sent'[e].taken) = pop(obj[e].send, n)
    BY <1>12, <1>13, <1>14, <2>1, PopNothing
  <2>4. sent[e].taken <= n /\ n <= Len(obj[e].send) /\ n \in Nat  BY <1>7, <1>13
  <2>5. QED  BY <1>10, <1>12, <2>1, <2>2, <2>3, <2>4, LeavesInOrder
<1>18. QED  BY <1>10, <1>12, <1>15, <1>16, <1>17, UpAgain

(* A select or epoll round reads. *)
LEMMA ReadsInOrder ==
  ASSUME UpInv, Types, NEW e \in Ends, life[e] = "live", build[e] # "iocp",
         stage[e] \in {"test", "net"}, NEW next \in {"write", "msg"},
         ReadSocket(e, next), UNCHANGED <<build, sent>>
  PROVE  UpInv'
<1> DEFINE p == Peer(e)
<1>1. p \in Ends /\ p # e /\ Peer(p) = e  BY TwoEnds
<1>2. StageInv(e) /\ RequestInv(e)  BY <1>1 DEF UpInv
<1>3. Goto(e, next) /\ UNCHANGED <<build, life, io, sent>>  BY DEF ReadSocket
<1>4. CASE UNCHANGED <<obj, wire>>
  <2>1. UNCHANGED <<build, obj, life, io, sent, wire>> /\ stage[e] # "sending"  BY <1>3, <1>4
  <2>2. \/ next \in {"test", "net", "msg"} \/ (build[e] = "iocp" /\ next = "drain")
        \/ (build[e] # "iocp" /\ next = "write")
    OBVIOUS
  <2>3. ~(build[e] = "iocp")  OBVIOUS
  <2>4. QED  BY <1>3, <2>1, <2>2, <2>3, MoveOn
<1>5. ASSUME NEW n \in 1 .. Len(wire[e]),
             obj' = [obj EXCEPT ![e] = RecvData(@, SubSeq(wire[e], 1, n))],
             wire' = [wire EXCEPT ![e] = pop(@, n)]
      PROVE  UpInv'
  <2> DEFINE d == RecvData(obj[e], SubSeq(wire[e], 1, n))
  <2>1. d = [obj[e] EXCEPT !.recv = obj[e].recv \o SubSeq(wire[e], 1, n)]
    BY DEF RecvData, read4socket
  <2>2. obj[e] \in ClientObject  BY EndTypes
  <2> HIDE DEF d
  <2>3. /\ d.recv = obj[e].recv \o SubSeq(wire[e], 1, n) /\ d.send = obj[e].send
        /\ d.isPostRecv = obj[e].isPostRecv /\ d.isPostSend = obj[e].isPostSend
        /\ d.nSendMsgID = obj[e].nSendMsgID /\ d.nRecvMsgID = obj[e].nRecvMsgID
    BY <2>1, <2>2 DEF ClientObject
  <2>4. obj'[e] = d /\ obj'[p] = obj[p]  BY <1>1, <1>5 DEF Types, ObjOK, d
  <2>5. stage'[e] = next /\ stage'[p] = stage[p]  BY <1>1, <1>3 DEF Goto, Types, StageOK
  <2>6. StageInv(e)'
    <3>1. obj'[e].send = obj[e].send /\ ~obj'[e].isPostRecv /\ ~obj'[e].isPostSend
      BY <1>2, <2>3, <2>4 DEF StageInv
    <3>2. sent[e] = [taken |-> 0, of |-> 0] /\ io[e] = << >>  BY <1>2 DEF StageInv
    <3>3. QED  BY <1>2, <1>3, <2>5, <3>1, <3>2 DEF StageInv
  <2>7. RequestInv(e)'
    <3>1. ~obj'[e].isPostRecv /\ ~obj'[e].isPostSend /\ io'[e] = << >>
      BY <1>2, <1>3, <2>3, <2>4 DEF StageInv
    <3>2. DOMAIN << >> = {}  OBVIOUS
    <3>3. build'[e] # "iocp"  BY <1>3
    <3>4. QED  BY <3>1, <3>2, <3>3 DEF RequestInv
  <2>8. StreamInv(e)' /\ StreamInv(p)'
    <3>1. wire' = [wire EXCEPT ![e] = pop(wire[e], n)]  BY <1>5
    <3>2. UNCHANGED sent /\ obj'[Peer(e)] = obj[Peer(e)]  BY <2>4
    <3>3. /\ obj'[e].recv = obj[e].recv \o SubSeq(wire[e], 1, n) /\ obj'[e].send = obj[e].send
          /\ obj'[e].nSendMsgID = obj[e].nSendMsgID /\ obj'[e].nRecvMsgID = obj[e].nRecvMsgID
      BY <2>3, <2>4
    <3>4. QED  BY <3>1, <3>2, <3>3, ArrivesInOrder
  <2>9. QED  BY <1>3, <2>4, <2>5, <2>6, <2>7, <2>8, UpAgain
<1>6. QED  BY <1>4, <1>5 DEF ReadSocket

(* A blocking send that has come to m, of what the buffer held. *)
LEMMA TakesInOrder ==
  ASSUME UpInv, Types, NEW e \in Ends, build[e] # "iocp", NEW next \in {"test", "msg"},
         NEW m \in Nat, NEW of \in Nat, m <= of, of <= Len(obj[e].send),
         Taken(e, m, of, next), UNCHANGED <<build, io>>
  PROVE  /\ StageInv(e)' /\ RequestInv(e)'
         /\ obj'[Peer(e)] = obj[Peer(e)] /\ stage'[Peer(e)] = stage[Peer(e)]
         /\ sent'[Peer(e)] = sent[Peer(e)]
         /\ obj'[e].recv = obj[e].recv /\ obj'[e].nSendMsgID = obj[e].nSendMsgID
         /\ obj'[e].nRecvMsgID = obj[e].nRecvMsgID
         /\ pop(obj'[e].send, sent'[e].taken) = pop(obj[e].send, m)
<1> DEFINE p == Peer(e)
           c == obj[e]
<1>1. p \in Ends /\ p # e /\ Peer(p) = e  BY TwoEnds
<1>2. StageInv(e) /\ RequestInv(e)  BY <1>1 DEF UpInv
<1>3. c \in ClientObject /\ c.send \in Seq(Unit(Int)) /\ Len(c.send) \in Nat  BY EndTypes DEF Bytes
<1>4. io[e] = << >> /\ ~c.isPostRecv /\ ~c.isPostSend  BY <1>2 DEF StageInv
<1>5. ObjOK /\ StageOK /\ SentOK  BY DEF Types
<1> DEFINE Goal ==
       /\ obj'[p] = obj[p] /\ stage'[p] = stage[p] /\ sent'[p] = sent[p]
       /\ obj'[e].recv = c.recv /\ obj'[e].nSendMsgID = c.nSendMsgID
       /\ obj'[e].nRecvMsgID = c.nRecvMsgID
       /\ ~obj'[e].isPostRecv /\ ~obj'[e].isPostSend
       /\ pop(obj'[e].send, sent'[e].taken) = pop(c.send, m)
       /\ stage'[e] \in {"test", "msg", "sending"}
       /\ sent'[e].taken <= sent'[e].of /\ sent'[e].of <= Len(obj'[e].send)
       /\ stage'[e] # "sending" => sent'[e] = [taken |-> 0, of |-> 0]
<1>6. ASSUME m < of PROVE Goal
  <2>1. /\ sent' = [sent EXCEPT ![e] = [taken |-> m, of |-> of]]
        /\ stage' = [stage EXCEPT ![e] = "sending"]
        /\ obj' = obj
    BY <1>6 DEF Taken, Goto
  <2>2. sent'[e] = [taken |-> m, of |-> of] /\ sent'[p] = sent[p]  BY <1>1, <1>5, <2>1 DEF SentOK
  <2>3. stage'[e] = "sending" /\ stage'[p] = stage[p]  BY <1>1, <1>5, <2>1 DEF StageOK
  <2>4. sent'[e].taken = m /\ sent'[e].of = of  BY <2>2
  <2>5. obj'[e] = c /\ obj'[p] = obj[p]  BY <2>1
  <2>6. QED  BY <1>4, <2>2, <2>3, <2>4, <2>5
<1>7. ASSUME ~(m < of) PROVE Goal
  <2>1. m <= Len(c.send)  BY <1>3
  <2>2. /\ obj' = [obj EXCEPT ![e] = SendDataReal(c, m)]
        /\ sent' = [sent EXCEPT ![e] = [taken |-> 0, of |-> 0]]
        /\ stage' = [stage EXCEPT ![e] = next]
    BY <1>7, <2>1 DEF Taken, Goto
  <2>3. sent'[e] = [taken |-> 0, of |-> 0] /\ sent'[p] = sent[p]  BY <1>1, <1>5, <2>2 DEF SentOK
  <2>4. stage'[e] = next /\ stage'[p] = stage[p]  BY <1>1, <1>5, <2>2 DEF StageOK
  <2>5. obj'[e] = SendDataReal(c, m) /\ obj'[p] = obj[p]  BY <1>1, <1>5, <2>2 DEF ObjOK
  <2> DEFINE s == pop(c.send, m)
  <2>6. SendDataReal(c, m) = [c EXCEPT !.send = s]  BY DEF SendDataReal, write2socket
  <2>7. s \in Seq(Unit(Int)) /\ Len(s) \in Nat  BY <1>3, PoppedType, LenProperties
  <2>8. pop(s, 0) = s  BY <2>7, PopNothing
  <2> HIDE DEF s
  <2>9. /\ obj'[e].send = s /\ obj'[e].recv = c.recv
        /\ obj'[e].nSendMsgID = c.nSendMsgID /\ obj'[e].nRecvMsgID = c.nRecvMsgID
        /\ obj'[e].isPostRecv = c.isPostRecv /\ obj'[e].isPostSend = c.isPostSend
    <3> HIDE DEF c
    <3>1. QED  BY <1>3, <2>5, <2>6 DEF ClientObject
  <2>10. sent'[e].taken = 0 /\ sent'[e].of = 0  BY <2>3
  <2>11. QED  BY <1>4, <2>3, <2>4, <2>5, <2>7, <2>8, <2>9, <2>10 DEF s
<1>8. Goal  BY <1>6, <1>7
<1>9. StageInv(e)'  BY <1>4, <1>8 DEF StageInv
<1>10. RequestInv(e)'
  <2>1. DOMAIN << >> = {}  OBVIOUS
  <2>2. io'[e] = << >> /\ build'[e] # "iocp"  BY <1>4
  <2>3. ~obj'[e].isPostRecv /\ ~obj'[e].isPostSend  BY <1>8
  <2>4. QED  BY <2>1, <2>2, <2>3 DEF RequestInv
<1>11. QED  BY <1>8, <1>9, <1>10

LEMMA SendsInOrder ==
  ASSUME UpInv, Types, NEW e \in Ends, life[e] = "live", build[e] # "iocp",
         NEW next \in {"test", "msg"}, NEW of \in Nat, of <= Len(obj[e].send),
         Send(e, of, next), UNCHANGED <<build, life, io>>
  PROVE  UpInv'
<1> DEFINE p == Peer(e)
           t == sent[e].taken
           send == obj[e].send
<1>1. p \in Ends /\ p # e /\ Peer(p) = e  BY TwoEnds
<1>2. PICK n \in 1 .. of - t :
        /\ wire' = [wire EXCEPT ![p] = wire[p] \o SubSeq(Memory(e), t + 1, t + n)]
        /\ Taken(e, t + n, of, next)
  BY DEF Send
<1> DEFINE m == t + n
<1>3. /\ t \in Nat /\ m \in Nat /\ m <= of /\ t <= m
      /\ send \in Seq(Unit(Int)) /\ Len(send) \in Nat /\ m <= Len(send)
      /\ t + 1 \in 1 .. Len(send) /\ m \in 1 .. Len(send)
  <2>1. t \in Nat /\ send \in Seq(Unit(Int)) /\ Len(send) \in Nat  BY EndTypes DEF Bytes
  <2>2. n \in Nat /\ 1 <= n /\ n <= of - t  BY <2>1
  <2> HIDE DEF t, send
  <2>3. of <= Len(send)  BY DEF send
  <2>4. QED  BY <2>1, <2>2, <2>3
<1>4. SubSeq(Memory(e), t + 1, m) = SubSeq(send, t + 1, m)
  <2> DEFINE rest == Junk(SendSize - Len(send))
             a == t + 1
  <2>1. rest \in Seq(Unit(Int))
    <3>1. SendSize - Len(send) \in Nat  BY TheMemory, BuffersHoldMessages
    <3>2. QED  BY <3>1, JunkType DEF Bytes
  <2>2. Memory(e) = send \o rest  BY DEF Memory
  <2>3. a \in 1 .. Len(send) /\ m \in 1 .. Len(send) /\ send \in Seq(Unit(Int))  BY <1>3
  <2> HIDE DEF send, rest, m, a
  <2>4. SubSeq(send \o rest, a, m) = SubSeq(send, a, m)  BY <2>1, <2>3, SubSeqOfConcat1
  <2>5. QED  BY <2>2, <2>4 DEF a
<1>5. /\ StageInv(e)' /\ RequestInv(e)'
      /\ obj'[p] = obj[p] /\ stage'[p] = stage[p] /\ sent'[p] = sent[p]
      /\ obj'[e].recv = obj[e].recv /\ obj'[e].nSendMsgID = obj[e].nSendMsgID
      /\ obj'[e].nRecvMsgID = obj[e].nRecvMsgID
      /\ pop(obj'[e].send, sent'[e].taken) = pop(send, m)
  <2>1. Taken(e, m, of, next)  BY <1>2
  <2> HIDE DEF m
  <2>2. QED  BY <1>3, <2>1, TakesInOrder
<1>6. StreamInv(e)' /\ StreamInv(p)'
  <2>1. wire' = [wire EXCEPT ![Peer(e)] = wire[Peer(e)]
                                 \o SubSeq(obj[e].send, sent[e].taken + 1, m)]
    BY <1>2, <1>4
  <2>2. sent[e].taken <= m /\ m <= Len(obj[e].send) /\ m \in Nat  BY <1>3
  <2> HIDE DEF m
  <2>3. QED  BY <1>5, <2>1, <2>2, LeavesInOrder
<1>7. life'[e] = "live" /\ life'[p] = life[p] /\ io'[p] = io[p]  OBVIOUS
<1>8. QED  BY <1>5, <1>6, <1>7, UpAgain

LEMMA WritesInOrder ==
  ASSUME UpInv, Types, NEW e \in Ends, life[e] = "live", stage[e] = "write",
         NEW next \in {"test", "msg"}, WriteSocket(e, next), UNCHANGED build
  PROVE  UpInv'
<1>1. StageInv(e)  BY DEF UpInv
<1>2. build[e] # "iocp"  BY <1>1 DEF StageInv
<1>3. UNCHANGED <<life, io>>  BY DEF WriteSocket
<1>4. CASE Send(e, Len(obj[e].send), next)
  <2>1. Len(obj[e].send) \in Nat  BY EndTypes
  <2>2. QED  BY <1>2, <1>3, <1>4, <2>1, SendsInOrder
<1>5. CASE Goto(e, next) /\ UNCHANGED <<obj, sent, wire>>
  <2>1. next \in {"test", "net", "msg"} /\ ~(build[e] = "iocp")  BY <1>2
  <2>2. UNCHANGED <<build, obj, life, io, sent, wire>>  BY <1>3, <1>5
  <2>3. QED  BY <1>5, <2>1, <2>2, MoveOn
<1>6. QED  BY <1>4, <1>5 DEF WriteSocket

LEMMA SendsOnInOrder ==
  ASSUME UpInv, Types, NEW e \in Ends, NEW next \in {"test", "msg"},
         SendOn(e, next) \/ SendInterrupted(e, next), UNCHANGED build
  PROVE  UpInv'
<1> DEFINE p == Peer(e)
           t == sent[e].taken
<1>1. p \in Ends /\ p # e /\ Peer(p) = e  BY TwoEnds
<1>2. stage[e] = "sending" /\ UNCHANGED <<life, io>>  BY DEF SendOn, SendInterrupted
<1>3. LifeInv /\ StageInv(e) /\ StreamInv(e) /\ StreamInv(p)  BY <1>1 DEF UpInv
<1>4. life[e] = "live" /\ build[e] # "iocp"  BY <1>2, <1>3 DEF LifeInv, StageInv
<1>5. /\ sent[e].of \in Nat /\ sent[e].of <= Len(obj[e].send) /\ t \in Nat /\ t <= Len(obj[e].send)
  <2>1. sent[e].of \in Nat /\ t \in Nat /\ Len(obj[e].send) \in Nat  BY EndTypes
  <2>2. t <= sent[e].of /\ sent[e].of <= Len(obj[e].send)  BY <1>3 DEF StageInv
  <2>3. QED  BY <2>1, <2>2
<1>6. CASE SendOn(e, next)
  <2>1. Send(e, sent[e].of, next)  BY <1>6 DEF SendOn
  <2>2. QED  BY <1>2, <1>4, <1>5, <2>1, SendsInOrder
<1>7. CASE SendInterrupted(e, next)
  <2>1. Taken(e, t, t, next) /\ UNCHANGED wire  BY <1>7 DEF SendInterrupted
  <2>2. /\ StageInv(e)' /\ RequestInv(e)'
        /\ obj'[p] = obj[p] /\ stage'[p] = stage[p] /\ sent'[p] = sent[p]
        /\ obj'[e].recv = obj[e].recv /\ obj'[e].nSendMsgID = obj[e].nSendMsgID
        /\ obj'[e].nRecvMsgID = obj[e].nRecvMsgID
        /\ pop(obj'[e].send, sent'[e].taken) = pop(obj[e].send, t)
    <3>1. t <= t  BY <1>5
    <3> HIDE DEF t
    <3>2. QED  BY <1>2, <1>4, <1>5, <2>1, <3>1, TakesInOrder
  <2>3. Stream(e)' = Stream(e)  BY <2>1, <2>2 DEF Stream
  <2>4. StreamInv(e)'  BY <1>3, <2>2, <2>3 DEF StreamInv
  <2>5. StreamInv(p)'
    <3>1. Stream(p)' = Stream(p)  BY <1>1, <2>1, <2>2 DEF Stream
    <3>2. QED  BY <1>1, <1>3, <2>2, <3>1 DEF StreamInv
  <2>6. QED  BY <1>2, <1>4, <2>2, <2>4, <2>5, UpAgain
<1>8. QED  BY <1>6, <1>7

(* The object d is c with one more message to send, if there was room.     *)
Added(c, d, cmd) ==
  \/ d.send = c.send /\ d.nSendMsgID = c.nSendMsgID
  \/ /\ d.send = c.send \o Message(cmd, IF cmd \in Logins THEN c.nSendMsgID ELSE 0)
     /\ d.nSendMsgID = IF cmd \in Logins THEN c.nSendMsgID + 1 ELSE c.nSendMsgID

(* A message that is added does not disturb a request that is sending, and *)
(* comes last in the stream.                                               *)
LEMMA AddsInOrder ==
  ASSUME UpInv, Types, NEW e \in Ends, NEW cmd \in CMD, cmd \in Commands(e),
         NEW d, Added(obj[e], d, cmd),
         obj'[e].send = d.send, obj'[e].nSendMsgID = d.nSendMsgID,
         wire'[Peer(e)] = wire[Peer(e)], UNCHANGED sent,
         obj'[Peer(e)].recv = obj[Peer(e)].recv,
         obj'[Peer(e)].nRecvMsgID = obj[Peer(e)].nRecvMsgID
  PROVE  /\ StreamInv(e)'
         /\ Len(d.send) \in Nat /\ Len(obj[e].send) <= Len(d.send)
         /\ \A s \in Seq(Unit(Int)) : IsPrefix(s, obj[e].send) => IsPrefix(s, d.send)
<1> DEFINE c == obj[e]
           p == Peer(e)
           id == IF cmd \in Logins THEN c.nSendMsgID ELSE 0
           m == Message(cmd, id)
           t == sent[e].taken
<1>1. /\ c.send \in Bytes /\ Len(c.send) \in Nat /\ c.nSendMsgID \in Nat
      /\ t \in Nat /\ t <= Len(c.send)
  <2>1. t <= sent[e].of /\ sent[e].of <= Len(c.send)  BY DEF UpInv, StageInv
  <2>2. t \in Nat /\ sent[e].of \in Nat /\ Len(c.send) \in Nat  BY EndTypes
  <2>3. c.send \in Bytes /\ c.nSendMsgID \in Nat  BY EndTypes
  <2> HIDE DEF c, t
  <2>4. QED  BY <2>1, <2>2, <2>3
<1>2. m \in Bytes /\ Len(m) \in Nat
  <2>1. id \in Int  BY <1>1
  <2> HIDE DEF id
  <2>2. m \in Bytes  BY <2>1, OneMessage
  <2> HIDE DEF m
  <2>3. QED  BY <2>2, LenProperties DEF Bytes
<1>3. StreamInv(e)  BY DEF UpInv
<1>4. CASE d.send = c.send /\ d.nSendMsgID = c.nSendMsgID
  <2>1. StreamInv(e)'  BY <1>3, <1>4, SameStream
  <2>2. QED  BY <1>1, <1>4, <2>1
<1>5. CASE /\ d.send = c.send \o m
           /\ d.nSendMsgID = IF cmd \in Logins THEN c.nSendMsgID + 1 ELSE c.nSendMsgID
  <2>1. Len(d.send) \in Nat /\ Len(c.send) <= Len(d.send)
    <3> HIDE DEF m, c
    <3>1. Len(c.send \o m) = Len(c.send) + Len(m)  BY <1>1, <1>2, ConcatProperties DEF Bytes
    <3>2. QED  BY <1>1, <1>2, <1>5, <3>1
  <2>2. \A s \in Seq(Unit(Int)) : IsPrefix(s, c.send) => IsPrefix(s, d.send)
    <3> TAKE s \in Seq(Unit(Int))
    <3> HIDE DEF m, c
    <3>1. IsPrefix(s, c.send) => IsPrefix(s, c.send \o m)
      BY <1>1, <1>2, PrefixOfLonger DEF Bytes
    <3>2. QED  BY <1>5, <3>1
  <2>3. Stream(e)' = Stream(e) \o m
    <3> DEFINE a == obj[p].recv
               w == wire[p]
               b == pop(c.send, t)
    <3>1. pop(c.send \o m, t) = b \o m
      <4> HIDE DEF m, c, t
      <4>1. QED  BY <1>1, <1>2, PopConcat DEF Bytes
    <3>2. Stream(e)' = a \o w \o pop(c.send \o m, t)  BY <1>5 DEF Stream
    <3>3. Stream(e) = a \o w \o b  BY DEF Stream
    <3>4. a \in Bytes /\ w \in Bytes /\ b \in Bytes
      <4>1. p \in Ends  BY TwoEnds
      <4>2. QED  BY <4>1, EndTypes
    <3> HIDE DEF a, w, b, m
    <3>5. a \o w \in Bytes  BY <3>4, JoinedType
    <3>6. ((a \o w) \o b) \o m = (a \o w) \o (b \o m)  BY <1>2, <3>4, <3>5, Joined
    <3>7. QED  BY <3>1, <3>2, <3>3, <3>6
  <2>4. StreamInv(e)'
    <3>1. Stream(e) \in Bytes /\ obj[p].nRecvMsgID \in Nat  BY StreamType
    <3>2. Orderly(Stream(e), Commands(e), c.nSendMsgID, obj[p].nRecvMsgID)  BY <1>3 DEF StreamInv
    <3>3. c.nSendMsgID \in Int /\ obj[p].nRecvMsgID \in Int  BY <1>1, <3>1
    <3>4. Orderly(Stream(e) \o m, Commands(e),
                  IF cmd \in Logins THEN c.nSendMsgID + 1 ELSE c.nSendMsgID, obj[p].nRecvMsgID)
      <4> HIDE DEF p, c
      <4>1. QED  BY <3>1, <3>2, <3>3, AppendOrderly
    <3>5. obj'[e].nSendMsgID = IF cmd \in Logins THEN c.nSendMsgID + 1 ELSE c.nSendMsgID
      BY <1>5
    <3> HIDE DEF m
    <3>6. QED  BY <2>3, <3>4, <3>5 DEF StreamInv
  <2>5. QED  BY <2>1, <2>2, <2>4
<1>6. QED  BY <1>4, <1>5 DEF Added

(* The next message is whole, or the first part of one. *)
LEMMA NextMessage ==
  ASSUME UpInv, Types, NEW e \in Ends, obj[e].recv # << >>
  PROVE  LET r == obj[e].recv
             p == Peer(e)
             s == Stream(p)
             d == dataLength(r[1].cmd)
         IN  /\ Head(r) = r[1] /\ r[1].at = 1 /\ r[1].cmd \in Commands(p) /\ d \in 1 .. 2
             /\ d <= Len(r) =>
                  /\ pop(s, d) = pop(r, d) \o (wire[e] \o pop(obj[p].send, sent[p].taken))
                  /\ Orderly(pop(s, d), Commands(p), obj[p].nSendMsgID,
                             IF r[1].cmd \in Logins THEN obj[e].nRecvMsgID + 1
                             ELSE obj[e].nRecvMsgID)
<1> DEFINE r == obj[e].recv
           p == Peer(e)
           s == Stream(p)
           d == dataLength(r[1].cmd)
           rest == wire[e] \o pop(obj[p].send, sent[p].taken)
<1>1. p \in Ends /\ Peer(p) = e  BY TwoEnds
<1>2. s \in Bytes /\ s = r \o rest /\ rest \in Bytes /\ r \in Bytes  BY <1>1, StreamType
<1>3. r \in Seq(Unit(Int)) /\ Len(r) \in Nat /\ Len(r) # 0  BY <1>2, LenProperties, EmptySeq DEF Bytes
<1>4. Head(r) = r[1]  BY <1>3
<1>5. Orderly(s, Commands(p), obj[p].nSendMsgID, obj[e].nRecvMsgID)
  BY <1>1 DEF UpInv, StreamInv
<1>6. obj[p].nSendMsgID \in Int /\ obj[e].nRecvMsgID \in Int  BY <1>1, EndTypes
<1>7. d \in 1 .. 2  BY DEF dataLength
<1>8. s[1] = r[1] /\ s # << >> /\ Len(r) <= Len(s) /\ Len(s) \in Nat /\ 1 \in DOMAIN s
  <2> HIDE DEF s, r, rest
  <2>1. /\ Len(r \o rest) = Len(r) + Len(rest) /\ Len(rest) \in Nat
        /\ \A i \in 1 .. Len(r) + Len(rest) :
             (r \o rest)[i] = IF i <= Len(r) THEN r[i] ELSE rest[i - Len(r)]
    BY <1>2, ConcatProperties, LenProperties DEF Bytes
  <2>2. 1 \in 1 .. Len(r) + Len(rest) /\ 1 <= Len(r)  BY <1>3, <2>1
  <2>3. s[1] = r[1] /\ Len(s) = Len(r) + Len(rest)  BY <1>2, <2>1, <2>2
  <2>4. DOMAIN s = 1 .. Len(s)  BY <1>2, LenProperties DEF Bytes
  <2>5. s # << >>
    <3>1. Len(s) # 0  BY <1>3, <2>1, <2>3
    <3>2. Len(<< >>) = 0  OBVIOUS
    <3>3. QED  BY <3>1, <3>2
  <2>6. QED  BY <1>3, <2>1, <2>2, <2>3, <2>4, <2>5
<1>9. r[1].cmd \in Commands(p)  BY <1>5, <1>8 DEF Orderly
<1>10. /\ s[1].at = 1
       /\ dataLength(s[1].cmd) <= Len(s) =>
            Orderly(pop(s, dataLength(s[1].cmd)), Commands(p), obj[p].nSendMsgID,
                    IF s[1].cmd \in Logins THEN obj[e].nRecvMsgID + 1 ELSE obj[e].nRecvMsgID)
  <2> HIDE DEF s, p
  <2>1. QED  BY <1>2, <1>5, <1>6, <1>8, PopOrderly
<1>11. ASSUME d <= Len(r)
       PROVE  /\ pop(s, d) = pop(r, d) \o rest
              /\ Orderly(pop(s, d), Commands(p), obj[p].nSendMsgID,
                         IF r[1].cmd \in Logins THEN obj[e].nRecvMsgID + 1 ELSE obj[e].nRecvMsgID)
  <2>1. d \in Nat /\ d <= Len(s)  BY <1>3, <1>7, <1>8, <1>11
  <2>2. pop(s, d) = pop(r, d) \o rest
    <3> HIDE DEF s, r, rest, d
    <3>1. pop(r \o rest, d) = pop(r, d) \o rest  BY <1>2, <1>11, <2>1, PopConcat DEF Bytes
    <3>2. QED  BY <1>2, <3>1
  <2>3. s[1].cmd = r[1].cmd  BY <1>8
  <2> HIDE DEF s, r, p
  <2>4. QED  BY <1>10, <2>1, <2>2, <2>3
<1>12. QED  BY <1>4, <1>7, <1>8, <1>9, <1>10, <1>11

(* One turn of DoMsg: the first message is handled and removed, or there   *)
(* is none and the thread goes on.  What the handler may do: count the     *)
(* message if it is a login, and send one of its own.                      *)
LEMMA HandlesInOrder ==
  ASSUME UpInv, Types, NEW e \in Ends, life[e] = "live", stage[e] = "msg",
         NEW next, next = "test" \/ (build[e] # "iocp" /\ next = "write"),
         NEW handled, HandleMessage(e, next, handled),
         obj[e].recv # << >> =>
           /\ handled \in ClientObject
           /\ handled.recv = obj[e].recv
           /\ handled.isPostRecv = obj[e].isPostRecv /\ handled.isPostSend = obj[e].isPostSend
           /\ handled.nRecvMsgID = IF obj[e].recv[1].cmd \in Logins THEN obj[e].nRecvMsgID + 1
                                   ELSE obj[e].nRecvMsgID
           /\ \E cmd \in CMD : cmd \in Commands(e) /\ Added(obj[e], handled, cmd),
         UNCHANGED <<build, life, io, sent, wire>>
  PROVE  UpInv'
<1> DEFINE p == Peer(e)
           c == obj[e]
           r == c.recv
           d == dataLength(r[1].cmd)
<1>1. p \in Ends /\ p # e /\ Peer(p) = e  BY TwoEnds
<1>2. StageInv(e) /\ RequestInv(e)  BY DEF UpInv
<1>3. r \in Bytes /\ Len(r) \in Nat /\ Len(r) <= RecvSize /\ RecvSize \in Nat
  BY EndTypes, BuffersHoldMessages
<1>4. PICK n \in frontLengths(r, RecvSize) :
        \/ hasMsg(r, n) /\ obj' = [obj EXCEPT ![e] = pop_front_msg(handled, n)] /\ UNCHANGED stage
        \/ ~hasMsg(r, n) /\ Goto(e, next) /\ UNCHANGED obj
  BY DEF HandleMessage
<1>5. /\ r = << >> => n = RecvSize + 1
      /\ r # << >> => n = d
  <2>1. r # << >> => Head(r) = r[1] /\ r[1].at = 1
    <3> HIDE DEF r
    <3>1. ASSUME r # << >> PROVE Head(r) = r[1] /\ r[1].at = 1  BY <3>1, NextMessage DEF r
    <3>2. QED  BY <3>1
  <2>2. QED  BY <1>4, <2>1 DEF frontLengths
<1>6. CASE ~hasMsg(r, n)
  <2>1. NoMessage(r)
    <3>1. r # << >> => Len(r) < d
      <4>1. r # << >> => ~(d <= Len(r))  BY <1>5, <1>6 DEF hasMsg
      <4>2. d \in Nat  BY DEF dataLength
      <4>3. QED  BY <1>3, <4>1, <4>2
    <3>2. QED  BY <3>1 DEF NoMessage
  <2>2. Goto(e, next) /\ UNCHANGED <<build, obj, life, io, sent, wire>>  BY <1>4, <1>6
  <2>3. QED  BY <2>1, <2>2, MoveOn
<1>7. CASE hasMsg(r, n)
  <2>1. r # << >>
    <3>1. ASSUME r = << >> PROVE FALSE
      <4>1. Len(r) = 0  BY <3>1
      <4>2. QED  BY <1>3, <1>5, <1>7, <3>1, <4>1 DEF hasMsg
    <3>2. QED  BY <3>1
  <2>2. n = d /\ d <= Len(r) /\ d \in Nat /\ ~NoMessage(r)
    <3>1. n = d /\ d <= Len(r)  BY <1>5, <1>7, <2>1 DEF hasMsg
    <3>2. d \in Nat  BY DEF dataLength
    <3>3. QED  BY <1>3, <2>1, <3>1, <3>2 DEF NoMessage
  <2>3. PICK cmd \in CMD : cmd \in Commands(e) /\ Added(c, handled, cmd)  BY <2>1
  <2>4. /\ handled \in ClientObject /\ handled.recv = r
        /\ handled.isPostRecv = c.isPostRecv /\ handled.isPostSend = c.isPostSend
        /\ handled.nRecvMsgID = IF r[1].cmd \in Logins THEN c.nRecvMsgID + 1 ELSE c.nRecvMsgID
    BY <2>1
  <2>5. obj' = [obj EXCEPT ![e] = pop_front_msg(handled, d)] /\ UNCHANGED stage
    BY <1>4, <1>7, <2>2
  <2>6. obj'[p] = obj[p] /\ obj'[e] = pop_front_msg(handled, d)
    BY <1>1, <2>5 DEF Types, ObjOK
  <2>7. /\ obj'[e].recv = pop(r, d) /\ obj'[e].send = handled.send
        /\ obj'[e].nSendMsgID = handled.nSendMsgID /\ obj'[e].nRecvMsgID = handled.nRecvMsgID
        /\ obj'[e].isPostRecv = c.isPostRecv /\ obj'[e].isPostSend = c.isPostSend
    BY <2>4, <2>6 DEF pop_front_msg, ClientObject
  <2>8. /\ StreamInv(e)'
        /\ Len(handled.send) \in Nat /\ Len(c.send) <= Len(handled.send)
        /\ \A s \in Seq(Unit(Int)) : IsPrefix(s, c.send) => IsPrefix(s, handled.send)
    BY <2>3, <2>6, <2>7, AddsInOrder
  <2>9. StreamInv(p)'
    <3> DEFINE rest == wire[e] \o pop(obj[p].send, sent[p].taken)
    <3>1. /\ pop(Stream(p), d) = pop(r, d) \o rest
          /\ Orderly(pop(Stream(p), d), Commands(p), obj[p].nSendMsgID, handled.nRecvMsgID)
      BY <2>1, <2>2, <2>4, NextMessage
    <3>2. Stream(p)' = (pop(r, d) \o wire[e]) \o pop(obj[p].send, sent[p].taken)
      BY <1>1, <2>6, <2>7 DEF Stream
    <3>3. Stream(p)' = pop(r, d) \o rest
      <4>1. pop(r, d) \in Bytes  BY <1>3, <2>2, PoppedType DEF Bytes
      <4>2. wire[e] \in Bytes /\ pop(obj[p].send, sent[p].taken) \in Bytes
        BY <1>1, EndTypes
      <4>3. QED  BY <3>2, <4>1, <4>2, Joined
    <3>4. QED  BY <1>1, <2>6, <2>7, <3>1, <3>3 DEF StreamInv
  <2>10. StageInv(e)'
    <3>1. sent[e].of <= Len(handled.send)
      <4>1. sent[e].of <= Len(c.send) /\ sent[e].of \in Nat /\ Len(c.send) \in Nat
        BY <1>2, EndTypes DEF StageInv
      <4> HIDE DEF c
      <4>2. QED  BY <2>8, <4>1
    <3>2. QED  BY <1>2, <2>5, <2>7, <3>1 DEF StageInv
  <2>11. RequestInv(e)'
    <3>1. \A i \in DOMAIN io[e] : io[e][i].iotype # "RECV"
      <4>1. CASE build[e] = "iocp"
        <5>1. ~c.isPostRecv  BY <1>2, <2>2, <4>1 DEF RequestInv
        <5>2. QED  BY <1>2, <5>1 DEF RequestInv
      <4>2. CASE build[e] # "iocp"  BY <1>2, <4>2 DEF StageInv
      <4>3. QED  BY <4>1, <4>2
    <3>2. ~c.isPostRecv
      <4>1. CASE build[e] = "iocp"  BY <1>2, <2>2, <4>1 DEF RequestInv
      <4>2. CASE build[e] # "iocp"  BY <1>2, <4>2 DEF StageInv
      <4>3. QED  BY <4>1, <4>2
    <3>3. \A i \in DOMAIN io[e] : io[e][i].iotype = "SEND" => IsPrefix(io[e][i].data, handled.send)
      <4> TAKE i \in DOMAIN io[e]
      <4>1. io[e][i].data \in Seq(Unit(Int))
        <5>1. io[e][i] \in Request  BY EndTypes
        <5>2. QED  BY <5>1 DEF Request
      <4>2. QED  BY <1>2, <2>8, <4>1 DEF RequestInv
    <3>4. io'[e] = io[e] /\ stage'[e] = "msg" /\ build'[e] = build[e]  BY <2>5
    <3>5. QED  BY <1>2, <2>7, <3>1, <3>2, <3>3, <3>4 DEF RequestInv
  <2>12. QED  BY <2>6, <2>5, <2>8, <2>9, <2>10, <2>11, UpAgain
<1>8. QED  BY <1>6, <1>7

(* A step that leaves the objects, the requests and the threads. *)
LEMMA RestUnchanged ==
  ASSUME UpInv, LifeInv', UNCHANGED <<build, obj, io, stage, sent, wire>>
  PROVE  UpInv'
<1>1. ASSUME NEW e \in Ends
      PROVE  StageInv(e)' /\ RequestInv(e)' /\ StreamInv(e)'
  <2>1. StageInv(e) /\ RequestInv(e) /\ StreamInv(e)  BY DEF UpInv
  <2>2. StageInv(e)'  BY <2>1 DEF StageInv
  <2>3. RequestInv(e)'  BY <2>1 DEF RequestInv
  <2>4. StreamInv(e)'  BY <2>1 DEF StreamInv, Stream
  <2>5. QED  BY <2>2, <2>3, <2>4
<1>2. QED  BY <1>1 DEF UpInv

(* A message is put into the send buffer, outside of DoMsg: the thread     *)
(* stays where it is, or the client's goes on to its round.                *)
LEMMA SendsMessage ==
  ASSUME UpInv, Types, NEW e \in Ends, life[e] = "live",
         NEW d \in ClientObject, NEW cmd \in CMD, cmd \in Commands(e), Added(obj[e], d, cmd),
         d.recv = obj[e].recv, d.nRecvMsgID = obj[e].nRecvMsgID,
         d.isPostRecv = obj[e].isPostRecv, d.isPostSend = obj[e].isPostSend,
         obj' = [obj EXCEPT ![e] = d],
         \/ UNCHANGED stage
         \/ stage[e] = "test" /\ Goto(e, "net"),
         UNCHANGED <<build, life, io, sent, wire>>
  PROVE  UpInv'
<1> DEFINE p == Peer(e)
           c == obj[e]
<1>1. p \in Ends /\ p # e /\ Peer(p) = e  BY TwoEnds
<1>2. StageInv(e) /\ RequestInv(e) /\ StreamInv(p)  BY <1>1 DEF UpInv
<1>3. obj'[e] = d /\ obj'[p] = obj[p] /\ stage'[p] = stage[p]
      /\ (stage'[e] = stage[e] \/ (stage[e] = "test" /\ stage'[e] = "net"))
  BY <1>1 DEF Types, ObjOK, StageOK, Goto
<1>4. /\ StreamInv(e)'
      /\ Len(d.send) \in Nat /\ Len(c.send) <= Len(d.send)
      /\ \A s \in Seq(Unit(Int)) : IsPrefix(s, c.send) => IsPrefix(s, d.send)
  BY <1>3, AddsInOrder
<1>5. StreamInv(p)'  BY <1>1, <1>2, <1>3, SameStream
<1>6. StageInv(e)'
  <2>1. sent[e].of <= Len(d.send)
    <3>1. sent[e].of <= Len(c.send) /\ sent[e].of \in Nat /\ Len(c.send) \in Nat
      BY <1>2, EndTypes DEF StageInv
    <3> HIDE DEF c
    <3>2. QED  BY <1>4, <3>1
  <2>2. QED  BY <1>2, <1>3, <2>1 DEF StageInv
<1>7. RequestInv(e)'
  <2>1. \A i \in DOMAIN io[e] : io[e][i].iotype = "SEND" => IsPrefix(io[e][i].data, d.send)
    <3> TAKE i \in DOMAIN io[e]
    <3>1. io[e][i].data \in Seq(Unit(Int))
      <4>1. io[e][i] \in Request  BY EndTypes
      <4>2. QED  BY <4>1 DEF Request
    <3>2. QED  BY <1>2, <1>4, <3>1 DEF RequestInv
  <2>2. QED  BY <1>2, <1>3, <2>1 DEF RequestInv
<1>8. QED  BY <1>3, <1>4, <1>5, <1>6, <1>7, UpAgain

(* The client's login and heartbeat, and the two handlers.  *)
LEMMA SendTestInOrder ==
  ASSUME UpInv, Types, SendTest
  PROVE  UpInv'
<1> DEFINE d == SendData(obj["client"], "LOGIN")
<1>1. "client" \in Ends /\ "LOGIN" \in CMD /\ "LOGIN" \in Commands("client")
  BY DEF Ends, CMD, Commands
<1>2. obj["client"] \in ClientObject /\ Fits(obj["client"])  BY <1>1, EndTypes
<1>3. /\ d \in ClientObject /\ d.recv = obj["client"].recv
      /\ d.nRecvMsgID = obj["client"].nRecvMsgID
      /\ d.isPostSend = obj["client"].isPostSend /\ d.isPostRecv = obj["client"].isPostRecv
      /\ Added(obj["client"], d, "LOGIN")
  BY <1>1, <1>2, SendDataObject DEF Added
<1>4. /\ life["client"] = "live" /\ stage["client"] = "test"
      /\ obj' = [obj EXCEPT !["client"] = d] /\ Goto("client", "net")
      /\ UNCHANGED <<build, life, io, sent, wire>>
  BY DEF SendTest, ClientAt, isRun
<1> HIDE DEF d
<1>5. QED  BY <1>1, <1>3, <1>4, SendsMessage

LEMMA HeartInOrder ==
  ASSUME UpInv, Types, HeartEnd, net # "down", ~raced'
  PROVE  UpInv'
<1> DEFINE c == obj["client"]
           buf == push(c.send, Message("C2S_HEART", 0), SendSize)
<1>1. CASE UNCHANGED obj
  <2>1. UNCHANGED <<build, life, obj, io, stage, sent, wire>>  BY <1>1 DEF HeartEnd
  <2>2. LifeInv'  BY <2>1 DEF UpInv, LifeInv
  <2>3. QED  BY <2>1, <2>2, RestUnchanged
<1>2. CASE isRun /\ obj' = [obj EXCEPT !["client"].send = buf]
  <2> DEFINE d == [c EXCEPT !.send = buf]
  <2>1. "client" \in Ends /\ "C2S_HEART" \in CMD /\ "C2S_HEART" \in Commands("client")
        /\ ~("C2S_HEART" \in Logins)
    BY DEF Ends, CMD, Commands, Logins
  <2>2. c \in ClientObject /\ c.send \in Bytes  BY <2>1, EndTypes
  <2>3. buf \in Bytes /\ (buf = c.send \/ buf = c.send \o Message("C2S_HEART", 0))
    <3>1. Message("C2S_HEART", 0) \in Bytes  BY <2>1, OneMessage
    <3>2. c.send \o Message("C2S_HEART", 0) \in Bytes  BY <2>2, <3>1, JoinedType
    <3>3. QED  BY <2>2, <3>2 DEF push
  <2>4. obj' = [obj EXCEPT !["client"] = d]  BY <1>2
  <2> HIDE DEF buf
  <2>5. /\ d \in ClientObject /\ d.send = buf /\ d.recv = c.recv
        /\ d.nRecvMsgID = c.nRecvMsgID /\ d.nSendMsgID = c.nSendMsgID
        /\ d.isPostSend = c.isPostSend /\ d.isPostRecv = c.isPostRecv
    BY <2>2, <2>3 DEF ClientObject
  <2>6. Added(c, d, "C2S_HEART")  BY <2>1, <2>3, <2>5 DEF Added
  <2>7. life["client"] = "live" /\ UNCHANGED <<build, life, io, stage, sent, wire>>
    BY <1>2 DEF HeartEnd, isRun
  <2> HIDE DEF d
  <2>8. QED  BY <2>1, <2>4, <2>5, <2>6, <2>7, SendsMessage
<1>3. QED  BY <1>1, <1>2 DEF HeartEnd, Lost

LEMMA ServerDoMsgInOrder ==
  ASSUME UpInv, Types, ServerDoMsg
  PROVE  UpInv'
<1> DEFINE c == obj["server"]
           d == ServerOnNetMsg(c, Head(c.recv))
<1>1. "server" \in Ends /\ Peer("server") = "client"  BY DEF Ends, Peer
<1>2. c \in ClientObject /\ Fits(c) /\ c.nRecvMsgID \in Nat  BY <1>1, EndTypes
<1>3. stage["server"] = "msg" /\ life["server"] = "live"
  BY <1>1 DEF ServerDoMsg, ServerAt, UpInv, LifeInv
<1>4. HandleMessage("server", "test", d) /\ UNCHANGED <<build, life, io, sent, wire>>
  BY DEF ServerDoMsg, ServerAt
<1>5. ASSUME c.recv # << >>
      PROVE  /\ d \in ClientObject
             /\ d.recv = c.recv
             /\ d.isPostRecv = c.isPostRecv /\ d.isPostSend = c.isPostSend
             /\ d.nRecvMsgID = IF c.recv[1].cmd \in Logins THEN c.nRecvMsgID + 1 ELSE c.nRecvMsgID
             /\ \E cmd \in CMD : cmd \in Commands("server") /\ Added(c, d, cmd)
  <2>1. Head(c.recv) = c.recv[1] /\ c.recv[1].at = 1 /\ c.recv[1].cmd \in Commands("client")
    BY <1>1, <1>5, NextMessage
  <2>2. Commands("client") = {"LOGIN", "C2S_HEART"}
        /\ Commands("server") = {"LOGIN_RESULT", "S2C_HEART"}
        /\ "LOGIN_RESULT" \in CMD /\ "S2C_HEART" \in CMD
    BY DEF Commands, CMD
  <2>3. CASE c.recv[1].cmd = "LOGIN"
    <3> DEFINE b == [c EXCEPT !.nRecvMsgID = @ + 1]
    <3>1. d = SendData(b, "LOGIN_RESULT")  BY <2>1, <2>3 DEF ServerOnNetMsg, OnLogin
    <3>2. /\ b \in ClientObject /\ Fits(b) /\ b.nRecvMsgID = c.nRecvMsgID + 1
          /\ b.recv = c.recv /\ b.send = c.send /\ b.nSendMsgID = c.nSendMsgID
          /\ b.isPostSend = c.isPostSend /\ b.isPostRecv = c.isPostRecv
      BY <1>2 DEF ClientObject, Fits
    <3> HIDE DEF b, d, c
    <3>3. /\ d \in ClientObject /\ d.recv = b.recv /\ d.nRecvMsgID = b.nRecvMsgID
          /\ d.isPostSend = b.isPostSend /\ d.isPostRecv = b.isPostRecv
          /\ Added(b, d, "LOGIN_RESULT")
      BY <2>2, <3>1, <3>2, SendDataObject DEF Added
    <3>4. Added(c, d, "LOGIN_RESULT")  BY <3>2, <3>3 DEF Added
    <3>5. "LOGIN" \in Logins  BY DEF Logins
    <3>6. QED  BY <2>2, <2>3, <3>2, <3>3, <3>4, <3>5
  <2>4. CASE c.recv[1].cmd = "C2S_HEART"
    <3>1. d = SendData(c, "S2C_HEART")  BY <2>1, <2>4 DEF ServerOnNetMsg
    <3> HIDE DEF d, c
    <3>2. /\ d \in ClientObject /\ d.recv = c.recv /\ d.nRecvMsgID = c.nRecvMsgID
          /\ d.isPostSend = c.isPostSend /\ d.isPostRecv = c.isPostRecv
          /\ Added(c, d, "S2C_HEART")
      BY <1>2, <2>2, <3>1, SendDataObject DEF Added
    <3>3. ~("C2S_HEART" \in Logins)  BY DEF Logins
    <3>4. QED  BY <2>2, <2>4, <3>2, <3>3
  <2>5. QED  BY <2>1, <2>2, <2>3, <2>4
<1> HIDE DEF d
<1>6. QED  BY <1>1, <1>3, <1>4, <1>5, HandlesInOrder

LEMMA ClientDoMsgInOrder ==
  ASSUME UpInv, Types, ClientDoMsg
  PROVE  UpInv'
<1> DEFINE c == obj["client"]
           d == ClientOnNetMsg(c, Head(c.recv))
           next == IF build["client"] = "iocp" THEN "test" ELSE "write"
<1>1. "client" \in Ends /\ Peer("client") = "server"  BY DEF Ends, Peer
<1>2. c \in ClientObject /\ c.nRecvMsgID \in Nat  BY <1>1, EndTypes
<1>3. stage["client"] = "msg" /\ life["client"] = "live"
  BY <1>1 DEF ClientDoMsg, ClientAt, UpInv, LifeInv
<1>4. HandleMessage("client", next, d) /\ UNCHANGED <<build, life, io, sent, wire>>
  BY DEF ClientDoMsg, ClientAt
<1>5. ASSUME c.recv # << >>
      PROVE  /\ d \in ClientObject
             /\ d.recv = c.recv
             /\ d.isPostRecv = c.isPostRecv /\ d.isPostSend = c.isPostSend
             /\ d.nRecvMsgID = IF c.recv[1].cmd \in Logins THEN c.nRecvMsgID + 1 ELSE c.nRecvMsgID
             /\ \E cmd \in CMD : cmd \in Commands("client") /\ Added(c, d, cmd)
  <2>1. Head(c.recv) = c.recv[1] /\ c.recv[1].at = 1 /\ c.recv[1].cmd \in Commands("server")
    BY <1>1, <1>5, NextMessage
  <2>2. Commands("server") = {"LOGIN_RESULT", "S2C_HEART"} /\ "C2S_HEART" \in CMD
        /\ "C2S_HEART" \in Commands("client")
        /\ "LOGIN_RESULT" \in Logins /\ ~("S2C_HEART" \in Logins)
    BY DEF Commands, CMD, Logins
  <2>3. CASE c.recv[1].cmd = "LOGIN_RESULT"
    <3>1. d = [c EXCEPT !.nRecvMsgID = @ + 1]  BY <2>1, <2>3 DEF ClientOnNetMsg
    <3> HIDE DEF d
    <3>2. /\ d \in ClientObject /\ d.recv = c.recv /\ d.nRecvMsgID = c.nRecvMsgID + 1
          /\ d.isPostSend = c.isPostSend /\ d.isPostRecv = c.isPostRecv
          /\ d.send = c.send /\ d.nSendMsgID = c.nSendMsgID
      BY <1>2, <3>1 DEF ClientObject
    <3> HIDE DEF c
    <3>3. Added(c, d, "C2S_HEART")  BY <3>2 DEF Added
    <3>4. QED  BY <2>2, <2>3, <3>2, <3>3
  <2>4. CASE c.recv[1].cmd = "S2C_HEART"
    <3>1. d = c  BY <2>1, <2>4 DEF ClientOnNetMsg
    <3> HIDE DEF d, c
    <3>2. Added(c, d, "C2S_HEART")  BY <3>1 DEF Added
    <3>3. QED  BY <1>2, <2>2, <2>4, <3>1, <3>2
  <2>5. QED  BY <2>1, <2>2, <2>3, <2>4
<1>6. next = "test" \/ (build["client"] # "iocp" /\ next = "write")  OBVIOUS
<1> HIDE DEF d, next
<1>7. QED  BY <1>1, <1>3, <1>4, <1>5, <1>6, HandlesInOrder

(* The connection is made and the client enters _clients.  *)
LEMMA JoinsInOrder ==
  ASSUME UpInv, Types, net # "down", ServerJoin \/ Accept \/ Connect \/ HeartBegin, net' # "down"
  PROVE  UpInv'
<1>1. "server" \in Ends /\ "client" \in Ends /\ Peer("server") = "client"  BY DEF Ends, Peer
<1>2. LifeInv  BY DEF UpInv
<1>3. CASE Accept
  <2>1. life' = [life EXCEPT !["server"] = "buffered"] /\ life["server"] = "none"
        /\ UNCHANGED <<build, obj, io, stage, sent, wire>>
    BY <1>3 DEF Accept, Delete, Forget
  <2>2. LifeInv'  BY <1>1, <1>2, <2>1 DEF LifeInv, Types, LifeOK, Ends
  <2>3. QED  BY <2>1, <2>2, RestUnchanged
<1>4. CASE Connect
  <2>1. life' = [life EXCEPT !["client"] = "live"]
        /\ UNCHANGED <<build, obj, io, stage, sent, wire>>
    BY <1>4 DEF Connect, Open, ClientAt
  <2>2. LifeInv'  BY <1>1, <1>2, <2>1 DEF LifeInv, Types, LifeOK, Ends
  <2>3. QED  BY <2>1, <2>2, RestUnchanged
<1>5. CASE HeartBegin
  <2>1. UNCHANGED <<build, obj, life, io, stage, sent, wire>>  BY <1>5 DEF HeartBegin, connVars
  <2>2. LifeInv'  BY <1>2, <2>1 DEF LifeInv
  <2>3. QED  BY <2>1, <2>2, RestUnchanged
<1>6. CASE ServerJoin
  <2> DEFINE c == obj["server"]
             R == SetToSeq(PostRecv(c))
             request == [iotype |-> "RECV", at |-> Len(c.recv), data |-> << >>]
  <2>1. /\ life["server"] = "buffered" /\ life' = [life EXCEPT !["server"] = "live"]
        /\ UNCHANGED <<build, stage, sent, net, wire>>
    BY <1>6 DEF ServerJoin, ServerAt
  <2>2. c = NewClient /\ io["server"] = << >> /\ stage["server"] = "test"
    BY <1>1, <1>2, <2>1 DEF LifeInv
  <2>3. /\ c.recv = << >> /\ c.send = << >> /\ c.isPostRecv = FALSE /\ c.isPostSend = FALSE
        /\ Len(c.recv) = 0
    BY <2>2 DEF NewClient
  <2>4. c \in ClientObject /\ Fits(c)  BY <1>1, EndTypes
  <2>5. NoMessage(c.recv)  BY <2>3 DEF NoMessage
  <2>6. StageInv("server") /\ RequestInv("server") /\ StreamInv("server") /\ StreamInv("client")
    BY <1>1 DEF UpInv
  <2>7. life'["server"] = "live" /\ life'["client"] = life["client"]
    BY <1>1, <2>1 DEF Types, LifeOK, Ends
  <2>8. CASE build["server"] = "iocp"
    <3>1. /\ obj' = [obj EXCEPT !["server"] = MarkRecv(@)]
          /\ io' = [io EXCEPT !["server"] = @ \o R]
      BY <1>6, <2>8 DEF ServerJoin, Lost
    <3>2. /\ obj'["server"] = MarkRecv(c) /\ obj'["client"] = obj["client"]
          /\ io'["server"] = << >> \o R /\ io'["client"] = io["client"]
      BY <1>1, <2>2, <3>1 DEF Types, ObjOK, IoOK, Ends
    <3>3. /\ obj'["server"].send = c.send /\ obj'["server"].recv = c.recv
          /\ obj'["server"].isPostRecv = TRUE /\ obj'["server"].isPostSend = c.isPostSend
          /\ obj'["server"].nSendMsgID = c.nSendMsgID /\ obj'["server"].nRecvMsgID = c.nRecvMsgID
      BY <2>4, <3>2 DEF MarkRecv, ClientObject
    <3>4. R = <<request>>
      <4>1. R # << >>  BY <2>3, <2>4, <2>5, JoinsRequest, RoomForMessage
      <4>2. R = << >> \/ R = <<request>>  BY <2>4, JoinsRequest
      <4>3. QED  BY <4>1, <4>2
    <3>5. io'["server"] = <<request>>
      <4>1. R \in Seq(Request)  BY <2>4, JoinsRequest
      <4>2. << >> \o R = R  BY <4>1, ConcatEmptySeq
      <4>3. QED  BY <3>2, <3>4, <4>2
    <3>6. DOMAIN io'["server"] = {1} /\ io'["server"][1] = request  BY <3>5
    <3>7. request.iotype = "RECV" /\ request.at = Len(c.recv)  OBVIOUS
    <3> HIDE DEF request, R
    <3>8. RequestInv("server")'  BY <2>3, <2>5, <3>3, <3>6, <3>7 DEF RequestInv
    <3>9. StageInv("server")'  BY <2>1, <2>6, <2>8, <3>3 DEF StageInv
    <3> HIDE DEF c
    <3>10. StreamInv("server")'  BY <1>1, <2>1, <2>6, <3>2, <3>3, SameStream DEF c
    <3>11. StreamInv("client")'
      <4>1. Peer("client") = "server"  BY DEF Peer
      <4>2. QED  BY <1>1, <2>1, <2>6, <3>2, <3>3, <4>1, SameStream DEF c
    <3>12. QED  BY <1>1, <2>1, <2>7, <3>2, <3>8, <3>9, <3>10, <3>11, UpAgain
  <2>9. CASE build["server"] # "iocp"
    <3>1. UNCHANGED <<obj, io>>  BY <1>6, <2>9 DEF ServerJoin
    <3>2. LifeInv'  BY <1>1, <1>2, <2>1, <2>7, <3>1 DEF LifeInv, Ends
    <3>3. QED  BY <2>1, <3>1, <3>2, RestUnchanged
  <2>10. QED  BY <2>8, <2>9
<1>7. QED  BY <1>3, <1>4, <1>5, <1>6

(* What deletes or closes a client ends the connection. *)
LEMMA ForgetsConnection ==
  /\ \A e, what, requests : Forget(e, what, requests) => net' = "down"
  /\ \A e, requests : Delete(e, requests) => net' = "down"
  /\ \A requests : ServerFail(requests) => net' = "down"
  /\ \A requests : ClientFail(requests) => net' = "down"
BY DEF Forget, Delete, ServerFail, ClientFail

(* The steps of the server, while the connection is up before and after.   *)
LEMMA ServerInOrder ==
  ASSUME UpInv, Types, net # "down", net' # "down",
         Accept \/ ServerThread \/ CheckTime \/ ServerStops \/ ServerWaitFails
           \/ ServerSendInterrupted \/ ServerCompletion \/ ServerLateCompletion
           \/ ServerFailedCompletion
  PROVE  UpInv'
<1>1. "server" \in Ends /\ "test" \in {"test", "net"} /\ "write" \in {"write", "msg"}
      /\ "msg" \in {"test", "msg"}
  BY DEF Ends
<1>2. LifeInv /\ StageInv("server")  BY <1>1 DEF UpInv
<1>3. life["server"] # "live" => stage["server"] = "test" /\ io["server"] = << >>
  BY <1>1, <1>2 DEF LifeInv
<1>4. life["server"] \in {"none", "buffered", "live"}  BY <1>2 DEF LifeInv
<1>5. FailedCompletions("server") = {}  BY DEF FailedCompletions, Lost
<1>6. CASE Accept \/ ServerJoin  BY <1>6, JoinsInOrder
<1>7. CASE ServerPollsOthers  BY <1>4, <1>7 DEF ServerPollsOthers
<1>8. CASE ServerPost
  <2>1. PostRequests("server") /\ UNCHANGED <<build, sent>> /\ life["server"] = "live"
        /\ build["server"] = "iocp" /\ stage["server"] = "test"
    BY <1>8, ForgetsConnection DEF ServerPost, ServerAt, InClients
  <2>2. QED  BY <1>1, <2>1, PostsOnce
<1>9. CASE ServerDrained
  <2>1. stage["server"] = "drain" /\ life["server"] = "live" /\ Goto("server", "msg")
        /\ UNCHANGED <<build, obj, life, io, sent, wire>>
    BY <1>3, <1>9 DEF ServerDrained, ServerAt, InClients
  <2>2. QED  BY <1>1, <2>1, MoveOn
<1>10. CASE ServerRead
  <2>1. ReadSocket("server", "write") /\ UNCHANGED <<build, sent>> /\ life["server"] = "live"
        /\ build["server"] # "iocp" /\ stage["server"] = "test"
    BY <1>10 DEF ServerRead, ServerAt, InClients, ReadFails, Lost
  <2>2. QED  BY <1>1, <2>1, ReadsInOrder
<1>11. CASE ServerWrite
  <2>1. WriteSocket("server", "msg") /\ UNCHANGED build /\ life["server"] = "live"
        /\ stage["server"] = "write"
    BY <1>3, <1>11 DEF ServerWrite, ServerAt, WriteFails, Lost
  <2>2. QED  BY <1>1, <2>1, WritesInOrder
<1>12. CASE ServerSendOn \/ ServerSendInterrupted
  <2>1. (SendOn("server", "msg") \/ SendInterrupted("server", "msg")) /\ UNCHANGED build
    BY <1>12 DEF ServerSendOn, ServerSendInterrupted, SendInterrupted, SendFails, Lost
  <2>2. QED  BY <1>1, <2>1, SendsOnInOrder
<1>13. CASE ServerDoMsg  BY <1>13, ServerDoMsgInOrder
<1>14. CASE CheckTime
  BY <1>14, ForgetsConnection DEF CheckTime
<1>15. CASE ServerStops
  BY <1>4, <1>15, ForgetsConnection DEF ServerStops, ServerEnds
<1>16. CASE ServerWaitFails
  BY <1>3, <1>16, ForgetsConnection DEF ServerWaitFails, ServerAt, ServerEnds
<1>17. CASE ServerCompletion
  <2>1. PICK i \in DOMAIN io["server"] : Completion("server", i)  BY <1>17 DEF ServerCompletion
  <2>2. /\ life["server"] = "live" /\ stage["server"] = "drain"
        /\ UNCHANGED <<build, life, stage, sent>>
    BY <1>17 DEF ServerCompletion, ServerAt, InClients
  <2>3. CASE RecvDone("server", i)  BY <1>1, <2>2, <2>3, ReceiveCompletes
  <2>4. CASE SendDone("server", i)  BY <1>1, <2>2, <2>4, SendCompletes
  <2>5. QED  BY <2>1, <2>3, <2>4 DEF Completion
<1>18. CASE ServerLateCompletion  BY <1>4, <1>18 DEF ServerLateCompletion
<1>19. CASE ServerFailedCompletion  BY <1>5, <1>19 DEF ServerFailedCompletion
<1>20. QED
  BY <1>6, <1>7, <1>8, <1>9, <1>10, <1>11, <1>12, <1>13, <1>14, <1>15, <1>16, <1>17, <1>18, <1>19
  DEF ServerThread

(* The steps of the client program. *)
LEMMA ClientInOrder ==
  ASSUME UpInv, Types, net # "down", net' # "down", ~raced',
         WorkThread \/ ClientWaitFails \/ EpollWaitFails \/ SelectFails
           \/ ClientSendInterrupted \/ Shutdown \/ ClientCompletion
           \/ ClientFailedCompletion \/ ConnectionLost \/ HeartBegin \/ HeartEnd
  PROVE  UpInv'
<1>1. "client" \in Ends /\ "net" \in {"test", "net"} /\ "msg" \in {"write", "msg"}
      /\ "test" \in {"test", "msg"}
  BY DEF Ends
<1>2. LifeInv /\ StageInv("client")  BY <1>1 DEF UpInv
<1>3. stage["client"] # "test" => life["client"] = "live"
  BY <1>1, <1>2 DEF LifeInv
<1>4. FailedCompletions("client") = {}  BY DEF FailedCompletions, Lost
<1>5. CASE Connect \/ HeartBegin  BY <1>5, JoinsInOrder
<1>6. CASE HeartEnd  BY <1>6, HeartInOrder
<1>7. CASE SendTest  BY <1>7, SendTestInOrder
<1>8. CASE NoneDue \/ EpollWaitFails
  <2>1. /\ life["client"] = "live" /\ stage["client"] \in {"test", "net"}
        /\ Goto("client", "net") \/ Goto("client", "test")
        /\ UNCHANGED <<build, obj, life, io, sent, wire>>
    BY <1>3, <1>8 DEF NoneDue, EpollWaitFails, ClientAt, isRun
  <2>2. QED  BY <1>1, <2>1, MoveOn
<1>9. CASE ClientPost
  <2>1. PostRequests("client") /\ UNCHANGED <<build, sent>> /\ life["client"] = "live"
        /\ build["client"] = "iocp" /\ stage["client"] = "net"
    BY <1>3, <1>9, ForgetsConnection DEF ClientPost, ClientAt
  <2>2. QED  BY <1>1, <2>1, PostsOnce
<1>10. CASE ClientDrained
  <2>1. stage["client"] = "drain" /\ life["client"] = "live" /\ Goto("client", "msg")
        /\ UNCHANGED <<build, obj, life, io, sent, wire>>
    BY <1>3, <1>10 DEF ClientDrained, ClientAt
  <2>2. QED  BY <1>1, <2>1, MoveOn
<1>11. CASE ClientRead
  <2>1. ReadSocket("client", "msg") /\ UNCHANGED <<build, sent>> /\ life["client"] = "live"
        /\ build["client"] # "iocp" /\ stage["client"] = "net"
    BY <1>3, <1>11 DEF ClientRead, ClientAt, ReadFails, Lost
  <2>2. QED  BY <1>1, <2>1, ReadsInOrder
<1>12. CASE ClientWrite
  <2>1. WriteSocket("client", "test") /\ UNCHANGED build /\ life["client"] = "live"
        /\ stage["client"] = "write"
    BY <1>3, <1>12 DEF ClientWrite, ClientAt, WriteFails, Lost
  <2>2. QED  BY <1>1, <2>1, WritesInOrder
<1>13. CASE ClientSendOn \/ ClientSendInterrupted
  <2>1. (SendOn("client", "test") \/ SendInterrupted("client", "test")) /\ UNCHANGED build
    BY <1>13 DEF ClientSendOn, ClientSendInterrupted, SendInterrupted, SendFails, Lost
  <2>2. QED  BY <1>1, <2>1, SendsOnInOrder
<1>14. CASE ClientDoMsg  BY <1>14, ClientDoMsgInOrder
<1>15. CASE ClientWaitFails  BY <1>15 DEF ClientWaitFails, Lost
<1>16. CASE SelectFails \/ Shutdown
  BY <1>16, ForgetsConnection DEF SelectFails, Shutdown
<1>17. CASE ClientCompletion
  <2>1. PICK i \in DOMAIN io["client"] : Completion("client", i)  BY <1>17 DEF ClientCompletion
  <2>2. /\ life["client"] = "live" /\ stage["client"] = "drain"
        /\ UNCHANGED <<build, life, stage, sent>>
    BY <1>3, <1>17 DEF ClientCompletion, ClientAt
  <2>3. CASE RecvDone("client", i)  BY <1>1, <2>2, <2>3, ReceiveCompletes
  <2>4. CASE SendDone("client", i)  BY <1>1, <2>2, <2>4, SendCompletes
  <2>5. QED  BY <2>1, <2>3, <2>4 DEF Completion
<1>18. CASE ClientFailedCompletion  BY <1>4, <1>18 DEF ClientFailedCompletion
<1>19. CASE ConnectionLost  BY <1>19 DEF ConnectionLost
<1>20. QED
  BY <1>5, <1>6, <1>7, <1>8, <1>9, <1>10, <1>11, <1>12, <1>13, <1>14, <1>15, <1>16, <1>17, <1>18,
     <1>19
  DEF WorkThread

-----------------------------------------------------------------------------
(* The invariant. *)
LEMMA StartsInOrder == Init => UpInv
<1> SUFFICES ASSUME Init PROVE UpInv
  OBVIOUS
<1>1. \A e \in Ends : /\ obj[e] = NewClient /\ life[e] = "none" /\ io[e] = << >> /\ stage[e] = "test"
                      /\ sent[e] = [taken |-> 0, of |-> 0] /\ wire[e] = << >>
  BY DEF Init
<1>2. /\ NewClient.send = << >> /\ NewClient.recv = << >>
      /\ NewClient.isPostRecv = FALSE /\ NewClient.isPostSend = FALSE
      /\ NewClient.nSendMsgID = 1 /\ NewClient.nRecvMsgID = 1
      /\ Len(<< >>) = 0 /\ DOMAIN << >> = {}
  BY DEF NewClient
<1>3. LifeInv  BY <1>1 DEF LifeInv, Ends
<1>4. ASSUME NEW e \in Ends
      PROVE  StageInv(e) /\ RequestInv(e) /\ StreamInv(e)
  <2>1. Peer(e) \in Ends  BY TwoEnds
  <2>2. StageInv(e)
    <3>1. sent[e].taken = 0 /\ sent[e].of = 0 /\ Len(obj[e].send) = 0  BY <1>1, <1>2
    <3>2. QED  BY <1>1, <1>2, <3>1 DEF StageInv
  <2>3. RequestInv(e)
    <3>1. NoMessage(obj[e].recv)  BY <1>1, <1>2 DEF NoMessage
    <3>2. DOMAIN io[e] = {}  BY <1>1
    <3>3. QED  BY <1>1, <1>2, <3>1, <3>2 DEF RequestInv
  <2>4. StreamInv(e)
    <3>1. pop(obj[e].send, sent[e].taken) = << >>
      <4>1. << >> \in Seq(Int)  OBVIOUS
      <4>2. pop(<< >>, 0) = << >>  BY <4>1, PopNothing
      <4>3. QED  BY <1>1, <1>2, <4>2
    <3>2. Stream(e) = << >>
      <4>1. Stream(e) = << >> \o << >> \o << >>  BY <1>1, <1>2, <2>1, <3>1 DEF Stream
      <4>2. QED  BY <4>1
    <3>3. obj[e].nSendMsgID = 1 /\ obj[Peer(e)].nRecvMsgID = 1 /\ 1 \in Int  BY <1>1, <1>2, <2>1
    <3>4. Orderly(<< >>, Commands(e), 1, 1)  BY <3>3, NothingIsOrderly
    <3>5. QED  BY <3>2, <3>3, <3>4 DEF StreamInv
  <2>5. QED  BY <2>2, <2>3, <2>4
<1>5. QED  BY <1>3, <1>4 DEF UpInv

(* Nobody connects again. *)
LEMMA DownForever ==
  ASSUME Next, net = "down"
  PROVE  net' = "down"
<1>1. CASE Accept  BY <1>1, ForgetsConnection DEF Accept
<1>2. CASE ServerThread
  <2>1. CASE ServerJoin \/ ServerPollsOthers \/ ServerDrained \/ ServerDoMsg
    BY <2>1 DEF ServerJoin, ServerPollsOthers, ServerDrained, ServerDoMsg
  <2>2. CASE ServerPost  BY <2>2, ForgetsConnection DEF ServerPost, PostRequests
  <2>3. CASE ServerRead  BY <2>3, ForgetsConnection DEF ServerRead, ReadSocket
  <2>4. CASE ServerWrite  BY <2>4, ForgetsConnection DEF ServerWrite, WriteSocket
  <2>5. CASE ServerSendOn  BY <2>5, ForgetsConnection DEF ServerSendOn, SendOn
  <2>6. QED  BY <1>2, <2>1, <2>2, <2>3, <2>4, <2>5 DEF ServerThread
<1>3. CASE WorkThread
  <2>1. CASE Connect  BY <2>1 DEF Connect
  <2>2. CASE SendTest \/ NoneDue \/ ClientDrained \/ ClientDoMsg
    BY <2>2 DEF SendTest, NoneDue, ClientDrained, ClientDoMsg
  <2>3. CASE ClientPost  BY <2>3, ForgetsConnection DEF ClientPost, PostRequests
  <2>4. CASE ClientRead  BY <2>4, ForgetsConnection DEF ClientRead, ReadSocket
  <2>5. CASE ClientWrite  BY <2>5, ForgetsConnection DEF ClientWrite, WriteSocket
  <2>6. CASE ClientSendOn  BY <2>6, ForgetsConnection DEF ClientSendOn, SendOn
  <2>7. QED  BY <1>3, <2>1, <2>2, <2>3, <2>4, <2>5, <2>6 DEF WorkThread
<1>4. CASE Ports
  BY <1>4, ForgetsConnection
  DEF Ports, ServerCompletion, ServerLateCompletion, ServerFailedCompletion, ClientCompletion,
      ClientFailedCompletion
<1>5. CASE HeartBegin \/ HeartEnd  BY <1>5 DEF HeartBegin, HeartEnd, connVars
<1>6. CASE Faults
  <2>1. CASE CheckTime \/ ServerStops \/ ServerWaitFails \/ SelectFails \/ Shutdown
    BY <2>1, ForgetsConnection
    DEF CheckTime, ServerStops, ServerWaitFails, ServerEnds, SelectFails, Shutdown
  <2>2. CASE ClientWaitFails \/ EpollWaitFails \/ ServerSendInterrupted \/ ClientSendInterrupted
               \/ ConnectionLost
    BY <2>2 DEF ClientWaitFails, EpollWaitFails, ServerSendInterrupted, ClientSendInterrupted,
                SendInterrupted, ConnectionLost
  <2>3. QED  BY <1>6, <2>1, <2>2 DEF Faults
<1>7. QED  BY <1>1, <1>2, <1>3, <1>4, <1>5, <1>6 DEF Next

LEMMA StepsInOrder ==
  ASSUME Types, Sound => UpInv, [Next]_vars, Sound'
  PROVE  UpInv'
<1>1. CASE Next
  <2>1. Sound /\ net' # "down" /\ ~raced'  BY <1>1, DownForever DEF Sound, Next
  <2>2. net # "down" /\ UpInv  BY <2>1 DEF Sound
  <2>3. QED  BY <1>1, <2>1, <2>2, ServerInOrder, ClientInOrder DEF Next, Ports, Faults
<1>2. CASE UNCHANGED vars
  <2>1. UNCHANGED <<build, obj, life, io, stage, sent, net, wire, raced>>
    BY <1>2 DEF vars, connVars, appVars
  <2>2. UpInv  BY <2>1 DEF Sound
  <2>3. LifeInv'  BY <2>1, <2>2 DEF UpInv, LifeInv
  <2>4. QED  BY <2>1, <2>2, <2>3, RestUnchanged
<1>3. QED  BY <1>1, <1>2

(* As long as the connection is up and nothing has collided: threads,      *)
(* flags, requests, buffers and what is under way agree.                   *)
THEOREM ConnectionInvariant == Spec => []ExchangeInv
<1>1. Init => ExchangeInv  BY InitTypes, TypeParts, StartsInOrder DEF ExchangeInv
<1>2. ExchangeInv /\ ConnTypeOK' /\ [Next]_vars => ExchangeInv'
  <2> SUFFICES ASSUME ExchangeInv, ConnTypeOK', [Next]_vars PROVE ExchangeInv'
    OBVIOUS
  <2>1. Types /\ (Sound => UpInv)  BY TypeParts DEF ExchangeInv
  <2>2. Sound' => UpInv'  BY <2>1, StepsInOrder
  <2>3. QED  BY <2>2 DEF ExchangeInv
<1>3. QED  BY <1>1, <1>2, ConnectionTypes, PTL DEF Spec

(* What a sender has sent and its peer has not handled are whole messages  *)
(* in order, and the next login has the number that -checkMsgID expects,   *)
(* however the sends and receives of either build cut the bytes.           *)
THEOREM MessagesInOrder == Spec => []InOrder
<1>1. ExchangeInv => InOrder
  <2> SUFFICES ASSUME ExchangeInv, ~raced, net = "up", NEW e \in Ends
               PROVE  /\ Messages(Stream(e), obj[Peer(e)].nRecvMsgID)
                      /\ obj[e].nSendMsgID = obj[Peer(e)].nRecvMsgID + LoginsIn(Stream(e))
    BY DEF InOrder
  <2>1. StreamInv(e)  BY DEF ExchangeInv, Sound, UpInv
  <2>2. QED  BY <2>1 DEF StreamInv, Orderly
<1>2. QED  BY <1>1, ConnectionInvariant, PTL

(* The memory of an outstanding request stays in place, whatever the       *)
(* handlers, the heartbeat and the other completions do meanwhile.         *)
THEOREM RequestsKeepTheirMemory == Spec => []BuffersHoldStill
<1>1. ExchangeInv => BuffersHoldStill
  <2> SUFFICES ASSUME ExchangeInv, ~raced, net = "up", NEW e \in Ends
               PROVE  /\ \A i \in Requests(e, "RECV") : io[e][i].at = Len(obj[e].recv)
                      /\ \A i \in Requests(e, "SEND") : IsPrefix(io[e][i].data, obj[e].send)
    BY DEF BuffersHoldStill
  <2>1. RequestInv(e)  BY DEF ExchangeInv, Sound, UpInv
  <2>2. QED  BY <2>1 DEF RequestInv, Requests
<1>2. QED  BY <1>1, ConnectionInvariant, PTL

(* The flags isPostRecv and isPostSend count the outstanding requests.     *)
THEOREM FlagsCountRequests == Spec => []FlagMatchesRequest
<1>1. ASSUME NEW e \in Ends, NEW type,
             \A i, j \in DOMAIN io[e] : io[e][i].iotype = io[e][j].iotype => i = j
      PROVE  Cardinality(Requests(e, type)) =
               IF \E i \in DOMAIN io[e] : io[e][i].iotype = type THEN 1 ELSE 0
  <2>1. ASSUME NEW i \in DOMAIN io[e], io[e][i].iotype = type
        PROVE  Cardinality(Requests(e, type)) = 1
    <3>1. Requests(e, type) = {i}  BY <1>1, <2>1 DEF Requests
    <3>2. QED  BY <3>1, FS_Singleton
  <2>2. ASSUME ~\E i \in DOMAIN io[e] : io[e][i].iotype = type
        PROVE  Cardinality(Requests(e, type)) = 0
    <3>1. Requests(e, type) = {}  BY <2>2 DEF Requests
    <3>2. QED  BY <3>1, FS_EmptySet
  <2>3. QED  BY <2>1, <2>2
<1>2. ExchangeInv => FlagMatchesRequest
  <2> SUFFICES ASSUME ExchangeInv, ~raced, net = "up", NEW e \in Ends
               PROVE  /\ Cardinality(Requests(e, "RECV")) = IF obj[e].isPostRecv THEN 1 ELSE 0
                      /\ Cardinality(Requests(e, "SEND")) = IF obj[e].isPostSend THEN 1 ELSE 0
    BY DEF FlagMatchesRequest
  <2>1. RequestInv(e)  BY DEF ExchangeInv, Sound, UpInv
  <2>2. \A i, j \in DOMAIN io[e] : io[e][i].iotype = io[e][j].iotype => i = j
    BY <2>1 DEF RequestInv
  <2>3. /\ obj[e].isPostRecv <=> \E i \in DOMAIN io[e] : io[e][i].iotype = "RECV"
        /\ obj[e].isPostSend <=> \E i \in DOMAIN io[e] : io[e][i].iotype = "SEND"
    BY <2>1 DEF RequestInv
  <2>4. QED  BY <1>1, <2>2, <2>3
<1>3. QED  BY <1>2, ConnectionInvariant, PTL

-----------------------------------------------------------------------------
(* What CheckTime relies on: an outstanding request of the server's client *)
(* has its flag, and each kind one, also when the connection is lost.  (A  *)
(* flag may be up without a request: one could not be made, or its failed  *)
(* end has been taken.)                                                    *)
OneOfEach(c, q) ==
  /\ \A i, j \in DOMAIN q : q[i].iotype = q[j].iotype => i = j
  /\ \A i \in DOMAIN q : /\ q[i].iotype = "RECV" => c.isPostRecv
                         /\ q[i].iotype = "SEND" => c.isPostSend

FlagInv ==
  /\ life["server"] \in {"none", "buffered"} => io["server"] = << >>
  /\ life["server"] = "live" =>
       /\ build["server"] # "iocp" => io["server"] = << >>
       /\ OneOfEach(obj["server"], io["server"])

(* A round adds no second request of a kind. *)
LEMMA PostsOneOfEach ==
  ASSUME NEW c \in ClientObject, Fits(c), NEW q \in Seq(Request), OneOfEach(c, q)
  PROVE  OneOfEach(MarkRecv(MarkSend(c)), q \o (SetToSeq(PostSend(c)) \o SetToSeq(PostRecv(c))))
<1> DEFINE R == SetToSeq(PostSend(c)) \o SetToSeq(PostRecv(c))
           d == MarkRecv(MarkSend(c))
           qq == q \o R
<1>1. DOMAIN q = 1 .. Len(q) /\ Len(q) \in Nat  BY LenProperties
<1>2. /\ R \in Seq(Request)
      /\ \A i \in DOMAIN R : R[i] \in PostSend(c) \cup PostRecv(c)
      /\ \A i, j \in DOMAIN R : R[i].iotype = R[j].iotype => i = j
      /\ \A x \in PostSend(c) : x = [iotype |-> "SEND", at |-> 0, data |-> c.send]
      /\ \A x \in PostRecv(c) : x = [iotype |-> "RECV", at |-> Len(c.recv), data |-> << >>]
  BY RoundsRequests
<1>3. /\ d.isPostRecv = TRUE
      /\ c.isPostSend \/ needWrite(c.send) => d.isPostSend
  <2>1. CASE needWrite(c.send)
    <3>1. d = [[c EXCEPT !.isPostSend = TRUE] EXCEPT !.isPostRecv = TRUE]
      BY <2>1 DEF MarkRecv, MarkSend
    <3>2. QED  BY <3>1 DEF ClientObject
  <2>2. CASE ~needWrite(c.send)
    <3>1. d = [c EXCEPT !.isPostRecv = TRUE]  BY <2>2 DEF MarkRecv, MarkSend
    <3>2. QED  BY <2>2, <3>1 DEF ClientObject
  <2>3. QED  BY <2>1, <2>2
<1>4. /\ \A x \in PostSend(c) : ~c.isPostSend /\ needWrite(c.send)
      /\ \A x \in PostRecv(c) : ~c.isPostRecv
  BY DEF PostSend, PostRecv, makeSendIoData
<1> HIDE DEF R, d
<1>5. Len(R) \in Nat /\ DOMAIN R = 1 .. Len(R)  BY <1>2, LenProperties
<1>6. /\ DOMAIN qq = 1 .. Len(q) + Len(R)
      /\ \A i \in 1 .. Len(q) + Len(R) : qq[i] = IF i <= Len(q) THEN q[i] ELSE R[i - Len(q)]
  <2>1. qq \in Seq(Request) /\ Len(qq) = Len(q) + Len(R)  BY <1>2, ConcatProperties
  <2>2. \A i \in 1 .. Len(q) + Len(R) : qq[i] = IF i <= Len(q) THEN q[i] ELSE R[i - Len(q)]
    BY <1>2, ConcatProperties
  <2> HIDE DEF qq
  <2>3. DOMAIN qq = 1 .. Len(qq)  BY <2>1, LenProperties
  <2>4. QED  BY <2>1, <2>2, <2>3
<1> HIDE DEF qq
<1>7. \A i \in DOMAIN qq : \/ i \in DOMAIN q /\ qq[i] = q[i]
                           \/ i - Len(q) \in DOMAIN R /\ ~(i \in DOMAIN q) /\ qq[i] = R[i - Len(q)]
  BY <1>1, <1>5, <1>6
<1>8. \A i \in DOMAIN R :
        \/ R[i].iotype = "SEND" /\ ~c.isPostSend /\ needWrite(c.send)
        \/ R[i].iotype = "RECV" /\ ~c.isPostRecv
  <2> TAKE i \in DOMAIN R
  <2>1. CASE R[i] \in PostSend(c)  BY <1>2, <1>4, <2>1
  <2>2. CASE R[i] \in PostRecv(c)  BY <1>2, <1>4, <2>2
  <2>3. QED  BY <1>2, <2>1, <2>2
<1>9. \A i, j \in DOMAIN q : q[i].iotype = q[j].iotype => i = j  BY DEF OneOfEach
<1>10. \A i \in DOMAIN q : /\ q[i].iotype = "RECV" => c.isPostRecv
                           /\ q[i].iotype = "SEND" => c.isPostSend
  BY DEF OneOfEach
<1>11. \A i \in DOMAIN q, j \in DOMAIN R : q[i].iotype # R[j].iotype  BY <1>8, <1>10
<1>12. ASSUME NEW i \in DOMAIN qq, NEW j \in DOMAIN qq, qq[i].iotype = qq[j].iotype
       PROVE  i = j
  <2>1. CASE i \in DOMAIN q /\ j \in DOMAIN q  BY <1>7, <1>9, <1>12, <2>1
  <2>2. CASE ~(i \in DOMAIN q) /\ ~(j \in DOMAIN q)
    <3>1. i - Len(q) = j - Len(q)  BY <1>2, <1>7, <1>12, <2>2
    <3>2. i \in Int /\ j \in Int  BY <1>6
    <3>3. QED  BY <1>1, <3>1, <3>2
  <2>3. CASE i \in DOMAIN q /\ ~(j \in DOMAIN q)  BY <1>7, <1>11, <1>12, <2>3
  <2>4. CASE ~(i \in DOMAIN q) /\ j \in DOMAIN q  BY <1>7, <1>11, <1>12, <2>4
  <2>5. QED  BY <2>1, <2>2, <2>3, <2>4
<1>13. ASSUME NEW i \in DOMAIN qq
       PROVE  /\ qq[i].iotype = "RECV" => d.isPostRecv
              /\ qq[i].iotype = "SEND" => d.isPostSend
  <2>1. CASE i \in DOMAIN q /\ qq[i] = q[i]  BY <1>3, <1>10, <2>1
  <2>2. CASE i - Len(q) \in DOMAIN R /\ qq[i] = R[i - Len(q)]  BY <1>3, <1>8, <2>2
  <2>3. QED  BY <1>7, <2>1, <2>2
<1>14. OneOfEach(d, qq)  BY <1>12, <1>13 DEF OneOfEach
<1>15. QED  BY <1>14 DEF d, qq, R

(* A step that leaves life, flags and requests of the server's client.     *)
LEMMA FlagsStay ==
  ASSUME FlagInv, UNCHANGED build, life'["server"] = life["server"],
         io'["server"] = io["server"],
         obj'["server"].isPostRecv = obj["server"].isPostRecv,
         obj'["server"].isPostSend = obj["server"].isPostSend
  PROVE  FlagInv'
BY DEF FlagInv, OneOfEach

LEMMA ForgetsLife ==
  ASSUME NEW e, NEW what, NEW requests, Forget(e, what, requests)
  PROVE  life' = [life EXCEPT ![e] = what]
BY Zenon DEF Forget

LEMMA ServerFailLife ==
  ASSUME NEW requests, Delete("server", requests) \/ ServerFail(requests)
  PROVE  life' = [life EXCEPT !["server"] = "deleted"]
<1>1. Forget("server", "deleted", IF "server" = "client" THEN << >> ELSE requests)
  BY DEF ServerFail, Delete
<1>2. QED  BY <1>1, ForgetsLife

LEMMA FlagsOfDropped ==
  ASSUME Types, NEW requests, NEW what \in {"closed", "deleted"},
         \/ Forget("server", what, requests)
         \/ Delete("server", requests)
         \/ ServerFail(requests)
  PROVE  FlagInv'
<1>1. DOMAIN life = Ends /\ "server" \in Ends  BY DEF Types, LifeOK, Ends
<1>2. \E x \in {"closed", "deleted"} : life' = [life EXCEPT !["server"] = x]
  <2>1. CASE Forget("server", what, requests)  BY <2>1, ForgetsLife
  <2>2. CASE Delete("server", requests) \/ ServerFail(requests)  BY <2>2, ServerFailLife
  <2>3. QED  BY <2>1, <2>2
<1>3. life'["server"] \in {"closed", "deleted"}  BY <1>1, <1>2
<1>4. QED  BY <1>3 DEF FlagInv

(* The methods that have nothing to do with requests. *)
LEMMA SameFlags ==
  ASSUME NEW c \in ClientObject, Fits(c)
  PROVE  /\ \A n : /\ pop_front_msg(c, n).isPostRecv = c.isPostRecv
                   /\ pop_front_msg(c, n).isPostSend = c.isPostSend
                   /\ SendDataReal(c, n).isPostRecv = c.isPostRecv
                   /\ SendDataReal(c, n).isPostSend = c.isPostSend
         /\ \A units : /\ RecvData(c, units).isPostRecv = c.isPostRecv
                       /\ RecvData(c, units).isPostSend = c.isPostSend
         /\ \A header : /\ ServerOnNetMsg(c, header).isPostRecv = c.isPostRecv
                        /\ ServerOnNetMsg(c, header).isPostSend = c.isPostSend
<1>1. ASSUME NEW n
      PROVE  /\ pop_front_msg(c, n).isPostRecv = c.isPostRecv
             /\ pop_front_msg(c, n).isPostSend = c.isPostSend
             /\ SendDataReal(c, n).isPostRecv = c.isPostRecv
             /\ SendDataReal(c, n).isPostSend = c.isPostSend
  BY DEF pop_front_msg, SendDataReal, ClientObject
<1>2. ASSUME NEW units
      PROVE  /\ RecvData(c, units).isPostRecv = c.isPostRecv
             /\ RecvData(c, units).isPostSend = c.isPostSend
  BY DEF RecvData, ClientObject
<1>3. ASSUME NEW header
      PROVE  /\ ServerOnNetMsg(c, header).isPostRecv = c.isPostRecv
             /\ ServerOnNetMsg(c, header).isPostSend = c.isPostSend
  <2> DEFINE d == [c EXCEPT !.nRecvMsgID = @ + 1]
  <2>1. d \in ClientObject /\ Fits(d) /\ d.isPostRecv = c.isPostRecv /\ d.isPostSend = c.isPostSend
    BY DEF ClientObject, Fits
  <2>2. OnLogin(c) = SendData(d, "LOGIN_RESULT")  BY DEF OnLogin
  <2> HIDE DEF d
  <2>3. "LOGIN_RESULT" \in CMD /\ "S2C_HEART" \in CMD  BY DEF CMD
  <2>4. OnLogin(c).isPostRecv = c.isPostRecv /\ OnLogin(c).isPostSend = c.isPostSend
    <3>1. /\ SendData(d, "LOGIN_RESULT").isPostRecv = d.isPostRecv
          /\ SendData(d, "LOGIN_RESULT").isPostSend = d.isPostSend
      BY <2>1, <2>3, SendDataObject
    <3>2. QED  BY <2>1, <2>2, <3>1
  <2>5. /\ SendData(c, "S2C_HEART").isPostRecv = c.isPostRecv
        /\ SendData(c, "S2C_HEART").isPostSend = c.isPostSend
    BY <2>3, SendDataObject
  <2>6. QED  BY <2>4, <2>5 DEF ServerOnNetMsg
<1>4. QED  BY <1>1, <1>2, <1>3

LEMMA CompletionFlags ==
  ASSUME Types, FlagInv, life["server"] = "live", UNCHANGED <<build, life>>,
         NEW i \in DOMAIN io["server"], Completion("server", i)
  PROVE  FlagInv'
<1> DEFINE c == obj["server"]
           d == obj'["server"]
           q == io["server"]
           r == io'["server"]
<1>1. "server" \in Ends /\ DOMAIN obj = Ends /\ c \in ClientObject /\ DOMAIN q = 1 .. Len(q)
  BY EndTypes DEF Types, ObjOK, Ends
<1>2. OneOfEach(c, q) /\ (build["server"] # "iocp" => q = << >>)  BY DEF FlagInv
<1>3. io' = [io EXCEPT !["server"] = RemoveAt(q, i)]  BY DEF Completion, RecvDone, SendDone
<1>4. OneLess(q, i, r)  BY <1>1, <1>2, <1>3, RequestEnds DEF OneOfEach
<1>5. \/ q[i].iotype = "RECV" /\ d.isPostSend = c.isPostSend
      \/ q[i].iotype = "SEND" /\ d.isPostRecv = c.isPostRecv
  <2>1. CASE RecvDone("server", i)
    <3>1. PICK n : obj' = [obj EXCEPT !["server"] = recv4iocp(c, q[i], SubSeq(wire["server"], 1, n))]
      BY <2>1 DEF RecvDone
    <3>2. d = recv4iocp(c, q[i], SubSeq(wire["server"], 1, n))  BY <1>1, <3>1
    <3>3. d.isPostSend = c.isPostSend  BY <1>1, <3>2 DEF recv4iocp, ClientObject
    <3>4. QED  BY <2>1, <3>3 DEF RecvDone
  <2>2. CASE SendDone("server", i)
    <3>1. PICK n : obj' = [obj EXCEPT !["server"] = send2iocp(c, n)]  BY <2>2 DEF SendDone
    <3>2. d = send2iocp(c, n)  BY <1>1, <3>1
    <3>3. d.isPostRecv = c.isPostRecv  BY <1>1, <3>2 DEF send2iocp, ClientObject
    <3>4. QED  BY <2>2, <3>3 DEF SendDone
  <2>3. QED  BY <2>1, <2>2 DEF Completion
<1> HIDE DEF c, d, q, r
<1>6. /\ \A j, k \in DOMAIN r : r[j].iotype = r[k].iotype => j = k
      /\ \A j \in DOMAIN r : \E k \in DOMAIN q : r[j] = q[k]
      /\ \A j \in DOMAIN r : r[j].iotype # q[i].iotype
  BY <1>4 DEF OneLess
<1>7. OneOfEach(d, r)
  <2>1. ASSUME NEW j \in DOMAIN r
        PROVE  /\ r[j].iotype = "RECV" => d.isPostRecv
               /\ r[j].iotype = "SEND" => d.isPostSend
    <3>1. PICK k \in DOMAIN q : r[j] = q[k]  BY <1>6
    <3>2. /\ q[k].iotype = "RECV" => c.isPostRecv
          /\ q[k].iotype = "SEND" => c.isPostSend
      BY <1>2 DEF OneOfEach
    <3>3. q[k].iotype # q[i].iotype  BY <1>6, <3>1
    <3>4. QED  BY <1>5, <3>1, <3>2, <3>3
  <2>2. QED  BY <1>6, <2>1 DEF OneOfEach
<1>8. build["server"] = "iocp"
  <2>1. q # << >>  BY DEF q
  <2>2. QED  BY <1>2, <2>1
<1>9. life'["server"] = "live" /\ build'["server"] = "iocp"  BY <1>8
<1>10. QED  BY <1>7, <1>9 DEF FlagInv, d, r

LEMMA ServerFlags ==
  ASSUME Types, FlagInv,
         Accept \/ ServerThread \/ CheckTime \/ ServerStops \/ ServerWaitFails
           \/ ServerSendInterrupted \/ ServerCompletion \/ ServerLateCompletion
           \/ ServerFailedCompletion
  PROVE  FlagInv'
<1> DEFINE c == obj["server"]
<1>1. /\ "server" \in Ends /\ c \in ClientObject /\ Fits(c) /\ io["server"] \in Seq(Request)
      /\ DOMAIN obj = Ends /\ DOMAIN io = Ends /\ DOMAIN life = Ends
  BY EndTypes DEF Types, ObjOK, IoOK, LifeOK, Ends
<1>2. ASSUME UNCHANGED <<build, life, io>>,
             \/ UNCHANGED obj
             \/ \E n : obj' = [obj EXCEPT !["server"] = SendDataReal(c, n)]
             \/ \E units : obj' = [obj EXCEPT !["server"] = RecvData(c, units)]
             \/ \E header, n :
                  obj' = [obj EXCEPT !["server"] = pop_front_msg(ServerOnNetMsg(c, header), n)]
      PROVE  FlagInv'
  <2>1. obj'["server"].isPostRecv = c.isPostRecv /\ obj'["server"].isPostSend = c.isPostSend
    <3>1. CASE UNCHANGED obj  BY <3>1
    <3>2. CASE \E n : obj' = [obj EXCEPT !["server"] = SendDataReal(c, n)]
      <4>1. PICK n : obj' = [obj EXCEPT !["server"] = SendDataReal(c, n)]  BY <3>2
      <4>2. obj'["server"] = SendDataReal(c, n)  BY <1>1, <4>1
      <4>3. QED  BY <1>1, <4>2, SameFlags
    <3>3. CASE \E units : obj' = [obj EXCEPT !["server"] = RecvData(c, units)]
      <4>1. PICK units : obj' = [obj EXCEPT !["server"] = RecvData(c, units)]  BY <3>3
      <4>2. obj'["server"] = RecvData(c, units)  BY <1>1, <4>1
      <4>3. QED  BY <1>1, <4>2, SameFlags
    <3>4. CASE \E header, n :
                 obj' = [obj EXCEPT !["server"] = pop_front_msg(ServerOnNetMsg(c, header), n)]
      <4>1. PICK header, n :
              obj' = [obj EXCEPT !["server"] = pop_front_msg(ServerOnNetMsg(c, header), n)]
        BY <3>4
      <4> DEFINE handled == ServerOnNetMsg(c, header)
      <4>2. obj'["server"] = pop_front_msg(handled, n)  BY <1>1, <4>1
      <4>3. /\ handled \in ClientObject /\ Fits(handled)
            /\ handled.isPostRecv = c.isPostRecv /\ handled.isPostSend = c.isPostSend
        BY <1>1, ServerHandles, SameFlags
      <4> HIDE DEF handled
      <4>4. QED  BY <4>2, <4>3, SameFlags
    <3>5. QED  BY <1>2, <3>1, <3>2, <3>3, <3>4
  <2>2. QED  BY <1>2, <2>1, FlagsStay
<1>3. CASE Accept
  <2>1. CASE Delete("server", << >>)  BY <2>1, FlagsOfDropped
  <2>2. CASE life' = [life EXCEPT !["server"] = "buffered"] /\ UNCHANGED io
    <3>1. io'["server"] = << >> /\ life'["server"] = "buffered"
      BY <1>1, <1>3, <2>2 DEF Accept, FlagInv
    <3>2. QED  BY <3>1 DEF FlagInv
  <2>3. QED  BY <1>3, <2>1, <2>2 DEF Accept
<1>4. CASE ServerJoin
  <2>1. io["server"] = << >> /\ life'["server"] = "live" /\ UNCHANGED build
    BY <1>1, <1>4 DEF ServerJoin, ServerAt, FlagInv
  <2>2. CASE build["server"] # "iocp"
    <3>1. io'["server"] = << >>  BY <1>4, <2>1, <2>2 DEF ServerJoin
    <3>2. OneOfEach(obj'["server"], << >>)  BY DEF OneOfEach
    <3>3. QED  BY <2>1, <3>1, <3>2 DEF FlagInv
  <2>3. CASE build["server"] = "iocp"
    <3> DEFINE b == [iotype |-> "RECV", at |-> Len(c.recv), data |-> << >>]
               q == SetToSeq(PostRecv(c))
    <3>1. obj' = [obj EXCEPT !["server"] = MarkRecv(c)]
          /\ (io'["server"] = << >> \o q \/ io'["server"] = << >>)
      BY <1>1, <1>4, <2>1, <2>3 DEF ServerJoin
    <3>2. obj'["server"].isPostRecv  BY <1>1, <3>1 DEF MarkRecv, ClientObject
    <3>3. q \in Seq(Request) /\ (q = << >> \/ q = <<b>>)  BY <1>1, JoinsRequest
    <3>4. b.iotype = "RECV"  OBVIOUS
    <3> HIDE DEF b, q
    <3>5. << >> \o q = q  BY <3>3, ConcatEmptySeq
    <3>6. io'["server"] = << >> \/ io'["server"] = <<b>>  BY <3>1, <3>3, <3>5
    <3>7. OneOfEach(obj'["server"], io'["server"])
      <4>1. DOMAIN << >> = {} /\ DOMAIN <<b>> = {1} /\ <<b>>[1] = b  OBVIOUS
      <4>2. CASE io'["server"] = << >>  BY <4>1, <4>2 DEF OneOfEach
      <4>3. CASE io'["server"] = <<b>>  BY <3>2, <3>4, <4>1, <4>3 DEF OneOfEach
      <4>4. QED  BY <3>6, <4>2, <4>3
    <3>8. QED  BY <2>1, <2>3, <3>7 DEF FlagInv
  <2>4. QED  BY <2>2, <2>3
<1>5. CASE ServerPost
  <2>1. CASE \E requests \in PostFailures("server") : ServerFail(requests)
    BY <2>1, FlagsOfDropped
  <2>2. CASE PostRequests("server")
    <3>1. life["server"] = "live" /\ build["server"] = "iocp" /\ UNCHANGED <<build, life>>
      BY <1>5, <2>2 DEF ServerPost, ServerAt, InClients, PostRequests
    <3>2. OneOfEach(c, io["server"])  BY <3>1 DEF FlagInv
    <3>3. /\ obj'["server"] = MarkRecv(MarkSend(c))
          /\ io'["server"] = io["server"] \o NewRequests("server")
      BY <1>1, <2>2 DEF PostRequests
    <3>4. OneOfEach(obj'["server"], io'["server"])
      BY <1>1, <3>2, <3>3, PostsOneOfEach DEF NewRequests
    <3>5. QED  BY <3>1, <3>4 DEF FlagInv
  <2>3. QED  BY <1>5, <2>1, <2>2 DEF ServerPost
<1>6. CASE ServerPollsOthers \/ ServerDrained
  BY <1>2, <1>6 DEF ServerPollsOthers, ServerDrained, ServerAt
<1>7. CASE ServerRead
  <2>1. CASE ReadSocket("server", "write")
    BY <1>2, <1>7, <2>1 DEF ServerRead, ServerAt, ReadSocket
  <2>2. CASE ServerFail(io["server"])  BY <2>2, FlagsOfDropped
  <2>3. QED  BY <1>7, <2>1, <2>2 DEF ServerRead
<1>8. ASSUME NEW n, NEW of, Taken("server", n, of, "msg"), UNCHANGED <<build, life, io>>
      PROVE  FlagInv'
  <2>1. UNCHANGED obj \/ obj' = [obj EXCEPT !["server"] = SendDataReal(c, n)]
    BY <1>8 DEF Taken
  <2>2. QED  BY <1>2, <1>8, <2>1
<1>9. ASSUME NEW of, Send("server", of, "msg"), UNCHANGED <<build, life, io>>
      PROVE  FlagInv'
  BY <1>8, <1>9 DEF Send
<1>10. CASE ServerWrite
  <2>1. CASE WriteSocket("server", "msg")
    <3>1. UNCHANGED <<build, life, io>>  BY <1>10, <2>1 DEF ServerWrite, ServerAt, WriteSocket
    <3>2. QED  BY <1>2, <1>9, <2>1, <3>1 DEF WriteSocket
  <2>2. CASE ServerFail(io["server"])  BY <2>2, FlagsOfDropped
  <2>3. QED  BY <1>10, <2>1, <2>2 DEF ServerWrite
<1>11. CASE ServerSendOn
  <2>1. CASE SendOn("server", "msg")
    BY <1>9, <1>11, <2>1 DEF ServerSendOn, SendOn
  <2>2. CASE ServerFail(io["server"])  BY <2>2, FlagsOfDropped
  <2>3. QED  BY <1>11, <2>1, <2>2 DEF ServerSendOn
<1>12. CASE ServerSendInterrupted
  BY <1>8, <1>12 DEF ServerSendInterrupted, SendInterrupted
<1>13. CASE ServerDoMsg
  <2>1. UNCHANGED <<build, life, io>>  BY <1>13 DEF ServerDoMsg, ServerAt
  <2>2. UNCHANGED obj \/ \E header, n :
          obj' = [obj EXCEPT !["server"] = pop_front_msg(ServerOnNetMsg(c, header), n)]
    BY <1>13 DEF ServerDoMsg, HandleMessage
  <2>3. QED  BY <1>2, <2>1, <2>2
<1>14. CASE CheckTime  BY <1>14, FlagsOfDropped DEF CheckTime
<1>15. ASSUME ServerEnds, UNCHANGED build PROVE FlagInv'
  <2>1. CASE Delete("server", io["server"])  BY <2>1, FlagsOfDropped
  <2>2. CASE UNCHANGED <<obj, life, io, net, wire>>  BY <1>2, <1>15, <2>2
  <2>3. QED  BY <1>15, <2>1, <2>2 DEF ServerEnds
<1>16. CASE ServerStops \/ ServerWaitFails
  BY <1>15, <1>16 DEF ServerStops, ServerWaitFails, ServerAt
<1>17. CASE ServerCompletion
  BY <1>17, CompletionFlags DEF ServerCompletion, ServerAt, InClients
<1>18. CASE ServerLateCompletion
  <2>1. life'["server"] \in {"closed", "deleted"}  BY <1>18 DEF ServerLateCompletion
  <2>2. QED  BY <2>1 DEF FlagInv
<1>19. CASE ServerFailedCompletion
  <2>1. CASE life["server"] = "deleted" /\ UNCHANGED life  BY <2>1 DEF FlagInv
  <2>2. CASE \E requests \in FailedCompletions("server") : ServerFail(requests)
    BY <2>2, FlagsOfDropped
  <2>3. QED  BY <1>19, <2>1, <2>2 DEF ServerFailedCompletion
<1>20. QED
  BY <1>3, <1>4, <1>5, <1>6, <1>7, <1>10, <1>11, <1>12, <1>13, <1>14, <1>16, <1>17, <1>18, <1>19
  DEF ServerThread

(* The client program does nothing to the server's object. *)
LEMMA ClientFlags ==
  ASSUME Types, FlagInv,
         WorkThread \/ ClientWaitFails \/ EpollWaitFails \/ SelectFails
           \/ ClientSendInterrupted \/ Shutdown \/ ClientCompletion
           \/ ClientFailedCompletion \/ ConnectionLost \/ HeartBegin \/ HeartEnd
  PROVE  FlagInv'
<1>1. DOMAIN obj = Ends /\ DOMAIN io = Ends /\ DOMAIN life = Ends /\ "server" \in Ends
  BY DEF Types, ObjOK, IoOK, LifeOK, Ends
<1> DEFINE Other(f, g) == g = f \/ \E x : g = [f EXCEPT !["client"] = x]
<1>2. ASSUME UNCHANGED build, Other(life, life'), Other(io, io'), Other(obj, obj')
      PROVE  FlagInv'
  <2>1. /\ life'["server"] = life["server"] /\ io'["server"] = io["server"]
        /\ obj'["server"] = obj["server"]
    BY <1>1, <1>2
  <2>2. QED  BY <1>2, <2>1, FlagsStay
<1>3. ASSUME NEW requests, Delete("client", requests), UNCHANGED build
      PROVE  FlagInv'
  <2>1. Other(life, life') /\ Other(io, io') /\ Other(obj, obj')
    BY <1>3 DEF Delete, Forget
  <2>2. QED  BY <1>2, <1>3, <2>1
<1>4. ASSUME NEW n, NEW of, NEW next, Taken("client", n, of, next), UNCHANGED <<build, life, io>>
      PROVE  FlagInv'
  <2>1. Other(obj, obj')  BY <1>4 DEF Taken
  <2>2. QED  BY <1>2, <1>4, <2>1
<1>5. ASSUME NEW of, NEW next, Send("client", of, next), UNCHANGED <<build, life, io>>
      PROVE  FlagInv'
  BY <1>4, <1>5 DEF Send
<1>6. CASE Connect
  <2>1. UNCHANGED <<build, io, obj>> /\ Other(life, life')  BY <1>6 DEF Connect, ClientAt, Open
  <2>2. QED  BY <1>2, <2>1
<1>7. CASE SendTest
  <2>1. UNCHANGED <<build, life, io>> /\ Other(obj, obj')  BY <1>7 DEF SendTest, ClientAt
  <2>2. QED  BY <1>2, <2>1
<1>8. CASE NoneDue \/ ClientDrained \/ EpollWaitFails \/ ConnectionLost \/ HeartBegin
  <2>1. UNCHANGED <<build, life, io, obj>>
    BY <1>8 DEF NoneDue, ClientDrained, EpollWaitFails, ConnectionLost, HeartBegin, ClientAt, connVars
  <2>2. QED  BY <1>2, <2>1
<1>9. CASE ClientPost
  <2>1. CASE PostRequests("client")
    <3>1. UNCHANGED <<build, life>> /\ Other(io, io') /\ Other(obj, obj')
      BY <1>9, <2>1 DEF ClientPost, ClientAt, PostRequests
    <3>2. QED  BY <1>2, <3>1
  <2>2. CASE \E requests \in PostFailures("client") : ClientFail(requests)
    BY <1>3, <1>9, <2>2 DEF ClientPost, ClientAt, ClientFail
  <2>3. QED  BY <1>9, <2>1, <2>2 DEF ClientPost
<1>10. CASE ClientRead
  <2>1. CASE ReadSocket("client", "msg")
    <3>1. UNCHANGED <<build, life, io>> /\ Other(obj, obj')
      BY <1>10, <2>1 DEF ClientRead, ClientAt, ReadSocket
    <3>2. QED  BY <1>2, <3>1
  <2>2. CASE ClientFail(io["client"])
    BY <1>3, <1>10, <2>2 DEF ClientRead, ClientAt, ClientFail
  <2>3. QED  BY <1>10, <2>1, <2>2 DEF ClientRead
<1>11. CASE ClientWrite
  <2>1. CASE WriteSocket("client", "test")
    <3>1. UNCHANGED <<build, life, io>>  BY <1>11, <2>1 DEF ClientWrite, ClientAt, WriteSocket
    <3>2. QED  BY <1>2, <1>5, <2>1, <3>1 DEF WriteSocket
  <2>2. CASE ClientFail(io["client"])
    BY <1>3, <1>11, <2>2 DEF ClientWrite, ClientAt, ClientFail
  <2>3. QED  BY <1>11, <2>1, <2>2 DEF ClientWrite
<1>12. CASE ClientSendOn
  <2>1. CASE SendOn("client", "test")  BY <1>5, <1>12, <2>1 DEF ClientSendOn, SendOn
  <2>2. CASE ClientFail(io["client"])  BY <1>3, <1>12, <2>2 DEF ClientSendOn, ClientFail
  <2>3. QED  BY <1>12, <2>1, <2>2 DEF ClientSendOn
<1>13. CASE ClientSendInterrupted
  BY <1>4, <1>13 DEF ClientSendInterrupted, SendInterrupted
<1>14. CASE ClientDoMsg
  <2>1. UNCHANGED <<build, life, io>> /\ Other(obj, obj')
    BY <1>14 DEF ClientDoMsg, ClientAt, HandleMessage
  <2>2. QED  BY <1>2, <2>1
<1>15. CASE ClientWaitFails
  <2>1. UNCHANGED <<build, life, obj>> /\ Other(io, io')  BY <1>15 DEF ClientWaitFails, ClientAt
  <2>2. QED  BY <1>2, <2>1
<1>16. CASE SelectFails \/ Shutdown
  BY <1>3, <1>16 DEF SelectFails, Shutdown, ClientFail, ClientAt
<1>17. CASE ClientCompletion
  <2>1. UNCHANGED <<build, life>> /\ Other(obj, obj') /\ Other(io, io')
    BY <1>17 DEF ClientCompletion, ClientAt, Completion, RecvDone, SendDone
  <2>2. QED  BY <1>2, <2>1
<1>18. CASE ClientFailedCompletion
  BY <1>3, <1>18 DEF ClientFailedCompletion, ClientAt, ClientFail
<1>19. CASE HeartEnd
  <2>1. UNCHANGED <<build, life, io>> /\ Other(obj, obj')
    BY <1>19 DEF HeartEnd
  <2>2. QED  BY <1>2, <2>1
<1>20. QED
  BY <1>6, <1>7, <1>8, <1>9, <1>10, <1>11, <1>12, <1>13, <1>14, <1>15, <1>16, <1>17, <1>18, <1>19
  DEF WorkThread

LEMMA FlagsHold == Spec => []FlagInv
<1>1. Init => FlagInv
  BY DEF Init, FlagInv, Ends
<1>2. FlagInv /\ ConnTypeOK /\ [Next]_vars => FlagInv'
  <2> SUFFICES ASSUME FlagInv, Types, [Next]_vars PROVE FlagInv'
    BY TypeParts
  <2>1. CASE Next  BY <2>1, ServerFlags, ClientFlags DEF Next, Ports, Faults
  <2>2. CASE UNCHANGED vars  BY <2>2, FlagsStay DEF vars, connVars
  <2>3. QED  BY <2>1, <2>2
<1>3. QED  BY <1>1, <1>2, ConnectionTypes, PTL DEF Spec

(* An overdue client that the server deletes has no request outstanding,   *)
(* on a lost connection neither, and one that it only closes, while the    *)
(* connection is up, has one.  CheckTime has looked at the two flags only: *)
(* that a flag is up with every request (FlagInv) and, on a connection     *)
(* that is up, only with a request (RequestInv) makes that enough.         *)
THEOREM OverdueAreSpared == Spec => OverdueSpared
<1> DEFINE Spared == /\ life'["server"] = "deleted" => io["server"] = << >>
                     /\ life'["server"] = "closed" /\ net = "up" => io["server"] # << >>
<1>1. ExchangeInv /\ FlagInv /\ [Next]_vars => [CheckTime => Spared]_vars
  <2> SUFFICES ASSUME ExchangeInv, FlagInv, Next, CheckTime
               PROVE  Spared
    OBVIOUS
  <2>1. "server" \in Ends /\ Types  BY TypeParts DEF ExchangeInv, Ends
  <2>2. DOMAIN life = Ends /\ life["server"] = "live"
    BY <2>1 DEF Types, LifeOK, CheckTime, InClients
  <2>3. /\ io["server"] \in Seq(Request) /\ DOMAIN io["server"] = 1 .. Len(io["server"])
        /\ Len(io["server"]) \in Nat
        /\ \A i \in DOMAIN io["server"] : io["server"][i] \in Request
    BY <2>1, EndTypes
  <2>4. /\ build["server"] # "iocp" => io["server"] = << >>
        /\ OneOfEach(obj["server"], io["server"])
    BY <2>2 DEF FlagInv
  <2>5. CASE build["server"] = "iocp" /\ isPostIoAction(obj["server"])
    <3>1. life'["server"] = "closed"
      <4>1. life' = [life EXCEPT !["server"] = "closed"]  BY <2>5, ForgetsLife DEF CheckTime
      <4>2. QED  BY <2>1, <2>2, <4>1
    <3>2. ASSUME net = "up" PROVE io["server"] # << >>
      <4>1. RequestInv("server")  BY <2>1, <3>2 DEF ExchangeInv, Sound, UpInv, Next
      <4>2. \E i \in DOMAIN io["server"] : TRUE
        BY <2>5, <4>1 DEF RequestInv, isPostIoAction
      <4>3. QED  BY <4>2
    <3>3. QED  BY <3>1, <3>2
  <2>6. CASE ~(build["server"] = "iocp" /\ isPostIoAction(obj["server"]))
    <3>1. io["server"] = << >>
      <4>1. CASE build["server"] # "iocp"  BY <2>4, <4>1
      <4>2. CASE ~isPostIoAction(obj["server"])
        <5>1. \A i \in DOMAIN io["server"] : io["server"][i].iotype \notin {"RECV", "SEND"}
          BY <2>4, <4>2 DEF OneOfEach, isPostIoAction
        <5>2. \A i \in DOMAIN io["server"] : io["server"][i].iotype \in {"RECV", "SEND"}
          BY <2>3 DEF Request
        <5>3. DOMAIN io["server"] = {}  BY <5>1, <5>2
        <5>4. Len(io["server"]) = 0  BY <2>3, <5>3
        <5>5. QED  BY <2>3, <5>4, EmptySeq
      <4>3. QED  BY <2>6, <4>1, <4>2
    <3>2. life'["server"] = "deleted"
      <4>1. life' = [life EXCEPT !["server"] = "deleted"]  BY <2>6, ServerFailLife DEF CheckTime
      <4>2. QED  BY <2>1, <2>2, <4>1
    <3>3. QED  BY <3>1, <3>2
  <2>7. QED  BY <2>5, <2>6
<1>2. QED  BY <1>1, ConnectionInvariant, FlagsHold, PTL DEF Spec, OverdueSpared
=============================================================================
