---------------------- MODULE CELLTimeEventPool_proofs ----------------------
(***************************************************************************)
(* Proofs about CELLTimeEventPool, for any set of events and any capacity: *)
(* a stopped event is never called and a one-shot event is called at most  *)
(* once, no event disappears, and nobody sleeps through what it waits for. *)
(***************************************************************************)
EXTENDS CELLTimeEventPool, FiniteSetTheorems, TLAPS

(* The flag of a handler goes up before the callback, and for good.        *)
FlagInv ==
  \A e \in OneShot :
    /\ e \notin handler => calls[e] = 0 /\ e \notin stopped
    /\ calls[e] <= 1
    /\ e \in stopped => calls[e] = 0

(* CleanAllEvent is entered only when stop_ has been seen, and GetReady    *)
(* only when the last round has been dealt with.                           *)
CleanInv ==
  /\ pc \in {"clean", "cleaning", "gone"} => stop
  /\ pc \in {"ready", "wait_any", "wait_time"} => batch = {}

PoolInv ==
  /\ TypeOK
  /\ FlagInv
  /\ CleanInv
  /\ NothingForgotten
  /\ NobodyForgotten

-----------------------------------------------------------------------------
LEMMA QueuesAreFinite == \A S \in SUBSET Events : IsFiniteSet(S) /\ Cardinality(S) \in Nat
<1>1. IsFiniteSet(Events)  BY EventsFinite, FS_Union DEF Events
<1>2. QED  BY <1>1, FS_Subset, FS_CardinalityType

(* Adding events to the queue does not make it smaller. *)
LEMMA QueueGrows ==
  ASSUME NEW S \in SUBSET Events, NEW T \in SUBSET Events
  PROVE  /\ Cardinality(S) \in Nat /\ Cardinality(S \cup T) \in Nat
         /\ Cardinality(S) <= Cardinality(S \cup T)
<1>1. S \cup T \in SUBSET Events  OBVIOUS
<1>2. QED  BY <1>1, QueuesAreFinite, FS_Subset

LEMMA PoolInitially == Init => PoolInv
<1> SUFFICES ASSUME Init PROVE PoolInv  OBVIOUS
<1>1. TypeOK
  <2>1. push \in [Events -> {"new", "sleeping", "notified", "pushed"}]  BY DEF Init
  <2>2. closing \in [Stoppers -> {"idle", "flagged", "joining", "returned"}]
    BY DEF Init
  <2>3. calls \in [Events -> 0 .. 2]  BY DEF Init
  <2>4. throws \in 0 .. MaxThrows  BY MaxThrowsIsNat DEF Init
  <2>5. QED  BY <2>1, <2>2, <2>3, <2>4 DEF Init, TypeOK, PC
<1>2. FlagInv /\ CleanInv  BY DEF Init, FlagInv, CleanInv, Events
<1>3. NothingForgotten /\ NobodyForgotten
  BY DEF Init, NothingForgotten, NobodyForgotten
<1>4. QED  BY <1>1, <1>2, <1>3 DEF PoolInv

LEMMA PushStep ==
  ASSUME PoolInv, NEW e \in Events, PushTimeEvent(e)
  PROVE  PoolInv'
<1> USE DEF PoolInv, PushTimeEvent, backendVars, callVars, exceptionVars
<1>1. TypeOK'  BY DEF TypeOK
<1>2. FlagInv' /\ CleanInv'  BY DEF FlagInv, CleanInv
<1>3. NothingForgotten'  BY DEF NothingForgotten, TypeOK
<1>4. NobodyForgotten'
  <2>1. /\ Cardinality(queue) \in Nat /\ Cardinality(queue \cup {e}) \in Nat
        /\ Cardinality(queue) <= Cardinality(queue \cup {e})
    BY QueueGrows DEF TypeOK, Events
  <2>2. QED  BY <2>1, MaxCountIsNat DEF NobodyForgotten, TypeOK
<1>5. QED  BY <1>1, <1>2, <1>3, <1>4

LEMMA HandlerStopStep ==
  ASSUME PoolInv, NEW e \in Events, HandlerStop(e)
  PROVE  PoolInv'
<1> USE DEF PoolInv, HandlerStop, queueVars, backendVars, exceptionVars
<1>1. TypeOK'  BY DEF TypeOK
<1>2. FlagInv' /\ CleanInv'  BY DEF FlagInv, CleanInv, TypeOK, Events
<1>3. NothingForgotten'  BY DEF NothingForgotten, TypeOK
<1>4. NobodyForgotten'  BY DEF NobodyForgotten
<1>5. QED  BY <1>1, <1>2, <1>3, <1>4

(* Elapse, and a wakeup for no reason. *)
LEMMA TimeStep ==
  ASSUME PoolInv, SpuriousWakeup \/ \E e \in Events : Elapse(e)
  PROVE  PoolInv'
<1> USE DEF PoolInv, SpuriousWakeup, Elapse, queueVars, backendVars, callVars, exceptionVars
<1>1. TypeOK'  BY DEF TypeOK
<1>2. FlagInv' /\ CleanInv'  BY DEF FlagInv, CleanInv
<1>3. NothingForgotten'  BY DEF NothingForgotten
<1>4. NobodyForgotten'  BY DEF NobodyForgotten
<1>5. QED  BY <1>1, <1>2, <1>3, <1>4

LEMMA GetReadyStep ==
  ASSUME PoolInv, GetReady
  PROVE  PoolInv'
<1> USE DEF PoolInv, GetReady, TakeDue, NotifyPushers, callVars, exceptionVars
<1>1. TypeOK'  BY DEF TypeOK, PC
<1>2. FlagInv' /\ CleanInv'  BY DEF FlagInv, CleanInv
<1>3. NothingForgotten'
  <2>1. \A e \in Events : push'[e] = "pushed" => push[e] = "pushed"  OBVIOUS
  <2>2. batch = {}  BY DEF CleanInv
  <2>3. QED  BY <2>1, <2>2 DEF NothingForgotten
<1>4. NobodyForgotten'  BY DEF NobodyForgotten, TypeOK
<1>5. QED  BY <1>1, <1>2, <1>3, <1>4

LEMMA WaitStep ==
  ASSUME PoolInv, GetReadyWaits \/ WaitEnds
  PROVE  PoolInv'
<1> USE DEF PoolInv, GetReadyWaits, WaitEnds, queueVars, callVars, exceptionVars
<1>1. TypeOK'  BY DEF TypeOK, PC
<1>2. FlagInv' /\ CleanInv'  BY DEF FlagInv, CleanInv
<1>3. NothingForgotten'  BY DEF NothingForgotten
<1>4. NobodyForgotten'  BY DEF NobodyForgotten
<1>5. QED  BY <1>1, <1>2, <1>3, <1>4

-----------------------------------------------------------------------------
(* What a callback leaves of the handlers and of the call counts. *)
LEMMA CallbackStep ==
  ASSUME TypeOK, FlagInv, NEW e \in Events, Skipped(e) \/ Called(e), UNCHANGED stopped
  PROVE  /\ handler' \subseteq OneShot /\ calls' \in [Events -> 0 .. 2]
         /\ FlagInv'
         /\ handler \subseteq handler'
         /\ e \in OneShot => e \in handler'
<1>1. CASE Skipped(e)  BY <1>1 DEF Skipped, TypeOK, FlagInv
<1>2. CASE Called(e)
  <2>1. /\ calls' = [calls EXCEPT ![e] = IF @ = 2 THEN 2 ELSE @ + 1]
        /\ handler' = handler \cup ({e} \cap OneShot)
        /\ e \notin handler
    BY <1>2 DEF Called, Call
  <2>2. calls[e] \in 0 .. 2  BY DEF TypeOK
  <2>3. calls' \in [Events -> 0 .. 2]  BY <2>1, <2>2 DEF TypeOK
  <2>4. FlagInv'  BY <2>1, <2>2 DEF FlagInv, TypeOK, Events
  <2>5. QED  BY <2>1, <2>3, <2>4 DEF TypeOK
<1>3. QED  BY <1>1, <1>2

LEMMA ExpireStep ==
  ASSUME PoolInv, NEW e \in Events, Expire(e)
  PROVE  PoolInv'
<1>1. Skipped(e) \/ Called(e)  BY DEF Expire
<1>2. /\ handler' \subseteq OneShot /\ calls' \in [Events -> 0 .. 2]
      /\ FlagInv'
      /\ handler \subseteq handler'
      /\ e \in OneShot => e \in handler'
  BY <1>1, CallbackStep DEF PoolInv, Expire
<1> USE DEF PoolInv, Expire, queueVars, exceptionVars
<1>3. TypeOK'  BY <1>2 DEF TypeOK
<1>4. CleanInv'  BY DEF CleanInv
<1>5. e \in handler' \cup again' \cup retired'
  BY <1>2 DEF Events, Skipped, TypeOK
<1>6. NothingForgotten'  BY <1>2, <1>5 DEF NothingForgotten
<1>7. NobodyForgotten'  BY DEF NobodyForgotten
<1>8. QED  BY <1>2, <1>3, <1>4, <1>6, <1>7

LEMMA CleanStep ==
  ASSUME PoolInv, NEW e \in Events, Clean(e)
  PROVE  PoolInv'
<1>1. Skipped(e) \/ Called(e)  BY DEF Clean
<1>2. /\ handler' \subseteq OneShot /\ calls' \in [Events -> 0 .. 2]
      /\ FlagInv'
      /\ handler \subseteq handler'
      /\ e \in OneShot => e \in handler'
  BY <1>1, CallbackStep DEF PoolInv, Clean
<1> USE DEF PoolInv, Clean, exceptionVars
<1>3. TypeOK'  BY <1>2 DEF TypeOK
<1>4. CleanInv'  BY DEF CleanInv
<1>5. e \in handler' \cup retired'
  BY <1>2 DEF Events, Skipped, TypeOK
<1>6. NothingForgotten'  BY <1>2, <1>5 DEF NothingForgotten
<1>7. NobodyForgotten'  BY DEF NobodyForgotten, CleanInv
<1>8. QED  BY <1>2, <1>3, <1>4, <1>6, <1>7

LEMMA ThrowStep ==
  ASSUME PoolInv, NEW e \in Events, ExpireThrows(e) \/ CleanThrows(e)
  PROVE  PoolInv'
<1>1. Called(e) /\ UNCHANGED stopped  BY DEF ExpireThrows, CleanThrows
<1>2. /\ handler' \subseteq OneShot /\ calls' \in [Events -> 0 .. 2]
      /\ FlagInv'
      /\ handler \subseteq handler'
  BY <1>1, CallbackStep DEF PoolInv
<1> USE DEF PoolInv, ExpireThrows, CleanThrows, queueVars
<1>3. TypeOK'  BY <1>2, MaxThrowsIsNat DEF TypeOK, PC, Events
<1>4. CleanInv'  BY DEF CleanInv
<1>5. NothingForgotten'  BY <1>2 DEF NothingForgotten
<1>6. NobodyForgotten'  BY DEF NobodyForgotten
<1>7. QED  BY <1>2, <1>3, <1>4, <1>5, <1>6

LEMMA RequeueStep ==
  ASSUME PoolInv, Requeue
  PROVE  PoolInv'
<1> USE DEF PoolInv, Requeue, callVars, exceptionVars
<1>1. TypeOK'  BY DEF TypeOK, PC, Events
<1>2. FlagInv' /\ CleanInv'  BY DEF FlagInv, CleanInv
<1>3. NothingForgotten'  BY DEF NothingForgotten
<1>4. NobodyForgotten'
  <2>1. /\ Cardinality(queue) \in Nat /\ Cardinality(queue \cup again) \in Nat
        /\ Cardinality(queue) <= Cardinality(queue \cup again)
    BY QueueGrows DEF TypeOK, Events
  <2>2. QED  BY <2>1, MaxCountIsNat DEF NobodyForgotten, TypeOK
<1>5. QED  BY <1>1, <1>2, <1>3, <1>4

LEMMA CleanEndsStep ==
  ASSUME PoolInv, CleanAllEvent \/ CleanDone
  PROVE  PoolInv'
<1> USE DEF PoolInv, CleanAllEvent, CleanDone, queueVars, callVars, exceptionVars
<1>1. TypeOK'  BY DEF TypeOK, PC
<1>2. FlagInv' /\ CleanInv'  BY DEF FlagInv, CleanInv
<1>3. NothingForgotten'  BY DEF NothingForgotten
<1>4. NobodyForgotten'  BY DEF NobodyForgotten
<1>5. QED  BY <1>1, <1>2, <1>3, <1>4

LEMMA StopperStep ==
  ASSUME PoolInv, NEW s \in Stoppers, Stopper(s)
  PROVE  PoolInv'
<1> USE DEF PoolInv, Stopper, StopFlag, StopNotify, StopJoin, queueVars, backendVars,
        callVars, exceptionVars
<1>1. TypeOK'  BY DEF TypeOK
<1>2. FlagInv' /\ CleanInv'  BY DEF FlagInv, CleanInv
<1>3. NothingForgotten'  BY DEF NothingForgotten
<1>4. NobodyForgotten'  BY DEF NobodyForgotten, TypeOK
<1>5. QED  BY <1>1, <1>2, <1>3, <1>4

LEMMA PoolStep == PoolInv /\ [Next]_poolVars => PoolInv'
<1> SUFFICES ASSUME PoolInv, [Next]_poolVars PROVE PoolInv'  OBVIOUS
<1>1. CASE Backend
  BY <1>1, GetReadyStep, WaitStep, RequeueStep, CleanEndsStep, ExpireStep, CleanStep
     DEF Backend
<1>2. CASE BackendFails  BY <1>2, ThrowStep DEF BackendFails
<1>3. CASE SpuriousWakeup  BY <1>3, TimeStep
<1>4. ASSUME NEW e \in Events, Caller(e) \/ Elapse(e)
      PROVE  PoolInv'
  BY <1>4, PushStep, HandlerStopStep, TimeStep DEF Caller
<1>5. ASSUME NEW s \in Stoppers, Stopper(s)
      PROVE  PoolInv'
  BY <1>5, StopperStep
<1>6. CASE UNCHANGED poolVars
  BY <1>6 DEF poolVars, queueVars, backendVars, callVars, exceptionVars, PoolInv, TypeOK,
       FlagInv, CleanInv, NothingForgotten, NobodyForgotten
<1>7. QED  BY <1>1, <1>2, <1>3, <1>4, <1>5, <1>6 DEF Next

-----------------------------------------------------------------------------
(* Type correctness of the pool. *)
THEOREM PoolTypeOK == Spec => []TypeOK
<1>1. PoolInv => TypeOK  BY DEF PoolInv
<1>2. QED  BY <1>1, PoolInitially, PoolStep, PTL DEF Spec

(* A one-shot event is called at most once, and not at all when its        *)
(* handler's Stop has returned true (TimeEventHandler::Stop,               *)
(* TimeEvent::OnExpire).                                                   *)
THEOREM StoppedIsNeverCalled == Spec => []CalledAtMostOnce
<1>1. PoolInv => CalledAtMostOnce
  BY DEF PoolInv, FlagInv, CalledAtMostOnce
<1>2. QED  BY <1>1, PoolInitially, PoolStep, PTL DEF Spec

(* Every event that has been pushed is accounted for at all times          *)
(* (EventPool::Run, EventPool::GetReady, EventPool::CleanAllEvent).        *)
THEOREM NoEventDisappears == Spec => []NothingForgotten
<1>1. PoolInv => NothingForgotten  BY DEF PoolInv
<1>2. QED  BY <1>1, PoolInitially, PoolStep, PTL DEF Spec

(* Nobody sleeps on a condition variable through what it waits for         *)
(* (EventPool::PushTimeEvent, EventPool::GetReady, EventPool::Stop).       *)
THEOREM NobodySleepsThrough == Spec => []NobodyForgotten
<1>1. PoolInv => NobodyForgotten  BY DEF PoolInv
<1>2. QED  BY <1>1, PoolInitially, PoolStep, PTL DEF Spec
=============================================================================
