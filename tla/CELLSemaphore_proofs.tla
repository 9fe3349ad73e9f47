------------------------ MODULE CELLSemaphore_proofs ------------------------
(***************************************************************************)
(* Proofs about CELLSemaphore, for every finite set of threads: the two    *)
(* counters account for the waiting threads, no wakeup is lost, and the    *)
(* class implements CountingSemaphore.                                     *)
(***************************************************************************)
EXTENDS CELLSemaphore, FiniteSetTheorems, TLAPS

(* A set of threads is finite and has a natural number of elements.        *)
LEMMA ThreadSets ==
  ASSUME NEW S, S \subseteq Threads
  PROVE  IsFiniteSet(S) /\ Cardinality(S) \in Nat
BY ThreadsFinite, FS_Subset, FS_CardinalityType

(* Under the accounting invariant the permits of the abstract semaphore    *)
(* are the wakeups reserved in _wakeup plus a positive _wait.              *)
LEMMA Permits ==
  ASSUME SemInv
  PROVE  waitCount + Cardinality(Inside)
           = wakeupCount + (IF waitCount < 0 THEN 0 ELSE waitCount)
<1>1. Cardinality(Inside) \in Nat
  BY ThreadSets DEF SemInv, SemTypeOK, Inside
<1>2. QED  BY <1>1 DEF SemInv, SemTypeOK, TokenAccounting

(* wait() keeps the invariant and is a step of the abstract semaphore.     *)
LEMMA WaitStep ==
  ASSUME SemInv, NEW t \in Threads, Wait(t)
  PROVE  SemInv' /\ (Abstract!Pass(t) \/ Abstract!Block(t))
<1> DEFINE n == Cardinality(Inside)
<1> USE DEF SemInv, SemTypeOK, TokenAccounting, NoLostWakeup
<1>1. /\ IsFiniteSet(Inside) /\ n \in Nat
      /\ Cardinality(ready) \in Nat
  BY ThreadSets DEF Inside
<1>2. waitCount + n = wakeupCount + (IF waitCount < 0 THEN 0 ELSE waitCount)
  BY Permits
<1>3. CASE blocked' = blocked
  <2>1. Inside' = Inside /\ ready' = ready  BY <1>3 DEF Wait, Inside
  <2>2. n' = n /\ Cardinality(ready') = Cardinality(ready)  BY <2>1
  <2>3. waitCount' = waitCount - 1 /\ t \notin Inside  BY DEF Wait
  <2>4. CASE waitCount' >= 0 /\ wakeupCount' = wakeupCount
    <3>1. SemInv'  BY <1>1, <1>3, <2>1, <2>2, <2>3, <2>4
    <3>2. Abstract!Pass(t)
      BY <1>1, <1>2, <2>1, <2>2, <2>3, <2>4 DEF Abstract!Pass
    <3>3. QED  BY <3>1, <3>2
  <2>5. CASE waitCount' < 0 /\ wakeupCount > 0 /\ wakeupCount' = wakeupCount - 1
    <3>1. SemInv'  BY <1>1, <1>3, <2>1, <2>2, <2>3, <2>5
    <3>2. Abstract!Pass(t)
      BY <1>1, <1>2, <2>1, <2>2, <2>3, <2>5 DEF Abstract!Pass
    <3>3. QED  BY <3>1, <3>2
  <2>6. t \notin blocked  BY <2>3 DEF Inside
  <2>7. QED  BY <1>3, <2>4, <2>5, <2>6 DEF Wait
<1>4. CASE /\ waitCount' < 0 /\ wakeupCount <= 0
           /\ blocked' = blocked \cup {t} /\ wakeupCount' = wakeupCount
  <2>1. t \notin Inside /\ ready' = ready /\ waitCount' = waitCount - 1
    BY DEF Wait
  <2>2. Inside' = Inside \cup {t}  BY <1>4, <2>1 DEF Inside
  <2>3. n' = n + 1  BY <1>1, <2>1, <2>2, FS_AddElement
  <2>4. SemTypeOK'  BY <1>4, <2>1 DEF Inside
  <2>5. SemInv'  BY <1>1, <1>4, <2>1, <2>3, <2>4
  <2>6. Abstract!Block(t)
    BY <1>1, <1>2, <1>4, <2>1, <2>2, <2>3 DEF Abstract!Block
  <2>7. QED  BY <2>5, <2>6
<1>5. QED  BY <1>3, <1>4 DEF Wait

(* A woken thread either consumes a permit or goes back to sleep, which    *)
(* the abstract semaphore does not see.                                    *)
LEMMA ResumeStep ==
  ASSUME SemInv, NEW t \in Threads, Resume(t)
  PROVE  SemInv' /\ (Abstract!Grant(t) \/ UNCHANGED Abstract!vars)
<1> DEFINE n == Cardinality(Inside)
<1> USE DEF SemInv, SemTypeOK, TokenAccounting, NoLostWakeup
<1>1. /\ IsFiniteSet(Inside) /\ n \in Nat
      /\ IsFiniteSet(ready) /\ Cardinality(ready) \in Nat
  BY ThreadSets DEF Inside
<1>2. waitCount + n = wakeupCount + (IF waitCount < 0 THEN 0 ELSE waitCount)
  BY Permits
<1>3. t \in ready /\ ready' = ready \ {t} /\ waitCount' = waitCount
  BY DEF Resume
<1>4. Cardinality(ready') = Cardinality(ready) - 1
  BY <1>1, <1>3, FS_RemoveElement
<1>5. CASE wakeupCount > 0 /\ wakeupCount' = wakeupCount - 1 /\ blocked' = blocked
  <2>1. Inside' = Inside \ {t} /\ t \in Inside  BY <1>3, <1>5 DEF Inside
  <2>2. n' = n - 1  BY <1>1, <2>1, FS_RemoveElement
  <2>3. SemTypeOK'  BY <1>3, <1>5
  <2>4. SemInv'  BY <1>1, <1>3, <1>4, <1>5, <2>2, <2>3
  <2>5. Abstract!Grant(t)
    BY <1>1, <1>2, <1>3, <1>5, <2>1, <2>2 DEF Abstract!Grant
  <2>6. QED  BY <2>4, <2>5
<1>6. CASE wakeupCount <= 0 /\ blocked' = blocked \cup {t} /\ wakeupCount' = wakeupCount
  <2>1. Inside' = Inside  BY <1>3, <1>6 DEF Inside
  <2>2. n' = n  BY <2>1
  <2>3. SemTypeOK'  BY <1>3, <1>6
  <2>4. Cardinality(ready') \in Nat
    BY <2>3, ThreadSets
  <2>5. SemInv'  BY <1>1, <1>3, <1>6, <2>2, <2>3, <2>4
  <2>6. UNCHANGED Abstract!vars  BY <1>3, <2>1, <2>2 DEF Abstract!vars
  <2>7. QED  BY <2>5, <2>6
<1>7. QED  BY <1>5, <1>6 DEF Resume

(* A spurious wakeup is invisible to the abstract semaphore.               *)
LEMMA SpuriousStep ==
  ASSUME SemInv, NEW t \in Threads, SpuriousWakeup(t)
  PROVE  SemInv' /\ UNCHANGED Abstract!vars
<1> USE DEF SemInv, SemTypeOK, TokenAccounting, NoLostWakeup, SpuriousWakeup
<1>1. IsFiniteSet(ready) /\ Cardinality(ready) \in Nat  BY ThreadSets
<1>2. Inside' = Inside  BY DEF Inside
<1>3. t \notin ready  OBVIOUS
<1>4. Cardinality(ready') = Cardinality(ready) + 1
  BY <1>1, <1>3, FS_AddElement
<1>5. SemInv'  BY <1>1, <1>2, <1>4
<1>6. QED  BY <1>2, <1>5 DEF Abstract!vars

(* wakeup() supplies a permit, and notifies a thread for every wakeup it   *)
(* reserves unless all of them are awake already.                          *)
LEMMA WakeupStep ==
  ASSUME SemInv, Wakeup
  PROVE  SemInv' /\ Abstract!Post
<1> DEFINE n == Cardinality(Inside)
<1> USE DEF SemInv, SemTypeOK, TokenAccounting, NoLostWakeup
<1>1. /\ IsFiniteSet(Inside) /\ n \in Nat
      /\ IsFiniteSet(ready) /\ Cardinality(ready) \in Nat
  BY ThreadSets DEF Inside
<1>2. waitCount' = waitCount + 1  BY DEF Wakeup
<1>3. CASE waitCount' <= 0
  <2>1. wakeupCount' = wakeupCount + 1 /\ NotifyOne  BY <1>3 DEF Wakeup
  <2>2. Inside' = Inside  BY <2>1 DEF NotifyOne, Inside
  <2>3. n' = n  BY <2>2
  <2>4. TokenAccounting'  BY <1>1, <1>2, <1>3, <2>1, <2>3
  <2>5. SemTypeOK'  BY <1>2, <2>1 DEF NotifyOne
  <2>6. NoLostWakeup'
    <3>1. CASE blocked = {} /\ ready' = ready
      <4>1. Inside = ready  BY <3>1 DEF Inside
      <4>2. Cardinality(ready') = n  BY <3>1, <4>1
      <4>3. QED  BY <1>1, <1>2, <1>3, <2>1, <2>3, <2>4, <4>2
    <3>2. CASE \E t \in blocked : ready' = ready \cup {t}
      <4>1. PICK t \in blocked : ready' = ready \cup {t}  BY <3>2
      <4>2. Cardinality(ready') = Cardinality(ready) + 1
        BY <1>1, <4>1, FS_AddElement
      <4>3. QED  BY <1>1, <2>1, <4>2
    <3>3. QED  BY <2>1, <3>1, <3>2 DEF NotifyOne
  <2>7. Abstract!Post  BY <1>1, <1>2, <2>2, <2>3 DEF Abstract!Post
  <2>8. QED  BY <2>4, <2>5, <2>6, <2>7
<1>4. CASE ~(waitCount' <= 0)
  <2>1. UNCHANGED <<wakeupCount, blocked, ready>>  BY <1>4 DEF Wakeup
  <2>2. Inside' = Inside  BY <2>1 DEF Inside
  <2>3. n' = n /\ Cardinality(ready') = Cardinality(ready)  BY <2>1, <2>2
  <2>4. SemInv'  BY <1>1, <1>2, <1>4, <2>1, <2>3
  <2>5. Abstract!Post  BY <1>1, <1>2, <2>2, <2>3 DEF Abstract!Post
  <2>6. QED  BY <2>4, <2>5
<1>5. QED  BY <1>3, <1>4

(* The initial state of the class is that of the abstract semaphore.       *)
LEMMA SemInitially == SemInit => SemInv /\ Abstract!Init
<1> SUFFICES ASSUME SemInit PROVE SemInv /\ Abstract!Init  OBVIOUS
<1>1. Inside = {} /\ ready = {}  BY DEF SemInit, Inside
<1>2. Cardinality(Inside) = 0 /\ Cardinality(ready) = 0  BY <1>1, FS_EmptySet
<1>3. QED
  BY <1>1, <1>2 DEF SemInit, SemInv, SemTypeOK, TokenAccounting, NoLostWakeup,
                   Abstract!Init

(* Every step of the class keeps the invariant and maps to a step of the   *)
(* abstract semaphore or to none.                                          *)
LEMMA SemStep == SemInv /\ [SemNext]_semVars => SemInv' /\ [Abstract!Next]_(Abstract!vars)
<1> SUFFICES ASSUME SemInv, [SemNext]_semVars
             PROVE  SemInv' /\ [Abstract!Next]_(Abstract!vars)
  OBVIOUS
<1>1. CASE Wakeup  BY <1>1, WakeupStep DEF Abstract!Next
<1>2. ASSUME NEW t \in Threads, Wait(t)
      PROVE  SemInv' /\ [Abstract!Next]_(Abstract!vars)
  BY <1>2, WaitStep DEF Abstract!Next
<1>3. ASSUME NEW t \in Threads, Resume(t)
      PROVE  SemInv' /\ [Abstract!Next]_(Abstract!vars)
  BY <1>3, ResumeStep DEF Abstract!Next
<1>4. ASSUME NEW t \in Threads, SpuriousWakeup(t)
      PROVE  SemInv' /\ [Abstract!Next]_(Abstract!vars)
  BY <1>4, SpuriousStep
<1>5. CASE UNCHANGED semVars
  BY <1>5 DEF semVars, SemInv, SemTypeOK, TokenAccounting, NoLostWakeup, Inside, Abstract!vars
<1>6. QED  BY <1>1, <1>2, <1>3, <1>4, <1>5 DEF SemNext

(* _wait and _wakeup account for the threads inside wait(), and as many    *)
(* threads are on their way to the predicate as there are wakeups to take  *)
(* (CELLSemaphore::wait, CELLSemaphore::wakeup).                           *)
THEOREM SemaphoreSafe == SemSpec => [](SemTypeOK /\ TokenAccounting /\ NoLostWakeup)
<1>1. SemInit => SemInv  BY SemInitially
<1>2. SemInv /\ [SemNext]_semVars => SemInv'  BY SemStep
<1>3. SemInv => SemTypeOK /\ TokenAccounting /\ NoLostWakeup  BY DEF SemInv
<1>4. QED  BY <1>1, <1>2, <1>3, PTL DEF SemSpec

(* The class is a counting semaphore: a wait() returns for a wakeup of its *)
(* own, and sleeps only when every wakeup has been consumed.               *)
THEOREM SemaphoreImplementsCounting == SemSpec => ImplementsCounting
<1>1. SemInit => SemInv /\ Abstract!Init  BY SemInitially
<1>2. SemInv /\ [SemNext]_semVars => SemInv' /\ [Abstract!Next]_(Abstract!vars)
  BY SemStep
<1>3. QED  BY <1>1, <1>2, PTL DEF SemSpec, ImplementsCounting, Abstract!Spec
=============================================================================
