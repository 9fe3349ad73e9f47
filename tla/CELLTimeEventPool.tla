-------------------------- MODULE CELLTimeEventPool --------------------------
(***************************************************************************)
(* depends/include/CELLTimeEventPool.hpp and CELLTimeEvent.hpp: a pool of  *)
(* timers.  Any thread pushes events and stops them through the handler it *)
(* gets; one backend thread takes the events that are due and calls them   *)
(* back; Stop ends the backend, which calls what is left with exit = true. *)
(*                                                                         *)
(* Time is reduced to the set of queued events that are due: the priority  *)
(* queue holds the others back, and an event's turn may come at any time.  *)
(* The pool's mutex is held from one step to the next only while callbacks *)
(* run in CleanAllEvent; the handlers use an atomic flag and no lock.      *)
(* Callbacks do not themselves push into the pool or stop it.              *)
(***************************************************************************)
EXTENDS Integers, FiniteSets

CONSTANTS OneShot,     \* the events of type TIME_POINT
          Periodic,    \* the events of type DURATION
          MaxCount,    \* max_time_event_count_
          Stoppers,    \* the threads that may call the pool's Stop
          MaxThrows    \* bound: exceptions thrown by callbacks

ASSUME EventsFinite == IsFiniteSet(OneShot) /\ IsFiniteSet(Periodic)
ASSUME TypesDisjoint == OneShot \cap Periodic = {}
ASSUME MaxCountIsNat == MaxCount \in Nat
ASSUME MaxThrowsIsNat == MaxThrows \in Nat

Events == OneShot \cup Periodic

VARIABLES
  queue,     \* timer_queue_
  due,       \* the events in it whose time has come
  stop,      \* stop_
  pc,        \* where the backend is
  batch,     \* the vector events of Run, what is left of it
  again,     \* the vector continue_to of Run
  woken,     \* the backend has been notified since it went to sleep
  handler,   \* the events whose handler has its flag stop_ set
  push,      \* the call of PushTimeEvent for every event
  closing,   \* the call of Stop by every stopper
  calls,     \* history: callbacks per event (2 stands for several)
  stopped,   \* history: events whose handler->Stop() returned true
  retired,   \* history: periodic events that declined or were told of the exit
  dropped,   \* history: events lost to an exception
  throws     \* history: how many exceptions

queueVars == <<queue, due>>
backendVars == <<pc, batch, again>>
callVars == <<handler, calls, retired>>
exceptionVars == <<dropped, throws>>
poolVars == <<queueVars, stop, backendVars, woken, callVars, push, closing,
              stopped, exceptionVars>>

PC == {"ready", "wait_any", "wait_time", "expire", "clean", "cleaning", "gone"}

TypeOK ==
  /\ queue \subseteq Events /\ due \subseteq queue
  /\ stop \in BOOLEAN
  /\ pc \in PC
  /\ batch \subseteq Events /\ again \subseteq Periodic
  /\ woken \in BOOLEAN
  /\ handler \subseteq OneShot
  /\ push \in [Events -> {"new", "sleeping", "notified", "pushed"}]
  /\ closing \in [Stoppers -> {"idle", "flagged", "joining", "returned"}]
  /\ calls \in [Events -> 0 .. 2]
  /\ stopped \subseteq OneShot /\ retired \subseteq Periodic
  /\ dropped \subseteq Events /\ throws \in 0 .. MaxThrows

Init ==
  /\ queue = {} /\ due = {}
  /\ stop = FALSE
  /\ pc = "ready"
  /\ batch = {} /\ again = {}
  /\ woken = FALSE
  /\ handler = {}
  /\ push = [e \in Events |-> "new"]
  /\ closing = [s \in Stoppers |-> "idle"]
  /\ calls = [e \in Events |-> 0]
  /\ stopped = {} /\ retired = {} /\ dropped = {}
  /\ throws = 0

-----------------------------------------------------------------------------
Unlocked == pc # "cleaning"

NotifyPushers ==
  push' = [e \in Events |-> IF push[e] = "sleeping" THEN "notified" ELSE push[e]]

(* MUTANT: the backend is not told of the new event. *)
PushSilently(e) ==
  /\ push[e] # "pushed" /\ Unlocked
  /\ \/ /\ Cardinality(queue) < MaxCount
        /\ queue' = queue \cup {e}
        /\ push' = [push EXCEPT ![e] = "pushed"]
     \/ /\ Cardinality(queue) >= MaxCount
        /\ push' = [push EXCEPT ![e] = "sleeping"]
        /\ UNCHANGED queue
  /\ UNCHANGED <<due, stop, backendVars, woken, callVars, closing, stopped, exceptionVars>>

(* A caller enters when there is room and sleeps on not_fill_cv_ when      *)
(* there is none; one that sleeps may also look again for no reason.       *)
PushTimeEvent(e) ==
  /\ push[e] # "pushed" /\ Unlocked
  /\ \/ /\ Cardinality(queue) < MaxCount
        /\ queue' = queue \cup {e}
        /\ push' = [push EXCEPT ![e] = "pushed"]
        /\ woken' = TRUE
     \/ /\ Cardinality(queue) >= MaxCount
        /\ push' = [push EXCEPT ![e] = "sleeping"]
        /\ UNCHANGED <<queue, woken>>
  /\ UNCHANGED <<due, stop, backendVars, callVars, closing, stopped, exceptionVars>>

(* The time of a queued event comes. *)
Elapse(e) ==
  /\ e \in queue \ due
  /\ due' = due \cup {e}
  /\ UNCHANGED <<queue, stop, backendVars, woken, callVars, push, closing, stopped,
                 exceptionVars>>

(* TimeEventHandler::Stop, by a holder of the handler; it returns true     *)
(* exactly when it is the first to set the flag.                           *)
HandlerStop(e) ==
  /\ e \in OneShot /\ push[e] = "pushed"
  /\ e \notin handler
  /\ handler' = handler \cup {e}
  /\ stopped' = stopped \cup {e}
  /\ UNCHANGED <<queueVars, stop, backendVars, woken, calls, retired, push, closing,
                 exceptionVars>>

-----------------------------------------------------------------------------
(* GetReady up to its return or its wait: the due events are taken; with   *)
(* none the backend waits for a first event (unless stop_ is set), or for  *)
(* the next event's time (even if stop_ is set).                           *)
TakeDue ==
  /\ pc = "ready" /\ due # {}
  /\ batch' = due
  /\ queue' = queue \ due /\ due' = {}
  /\ pc' = IF stop THEN "clean" ELSE "expire"

(* MUTANT: the callers waiting for room are not told. *)
GetReadySilently ==
  TakeDue /\ UNCHANGED <<stop, again, woken, callVars, push, closing, stopped, exceptionVars>>

GetReady ==
  /\ TakeDue
  /\ NotifyPushers
  /\ UNCHANGED <<stop, again, woken, callVars, closing, stopped, exceptionVars>>

GetReadyWaits ==
  /\ pc = "ready" /\ due = {}
  /\ \/ queue = {} /\ ~stop /\ pc' = "wait_any"
     \/ queue = {} /\ stop /\ pc' = "clean"
     \/ queue # {} /\ pc' = "wait_time"
  /\ woken' = FALSE
  /\ UNCHANGED <<queueVars, stop, batch, again, callVars, push, closing, stopped,
                 exceptionVars>>

(* at_least_one_cv_.wait ends when the predicate holds, wait_for when its  *)
(* time is up or it is notified.  GetReady returns no events then.         *)
WaitEnds ==
  /\ \/ pc = "wait_any" /\ woken /\ (queue # {} \/ stop)
     \/ pc = "wait_time" /\ (woken \/ due # {})
  /\ pc' = IF stop THEN "clean" ELSE "expire"
  /\ UNCHANGED <<queueVars, stop, batch, again, woken, callVars, push, closing,
                 stopped, exceptionVars>>

SpuriousWakeup ==
  /\ pc \in {"wait_any", "wait_time"} /\ ~woken
  /\ woken' = TRUE
  /\ UNCHANGED <<queueVars, stop, backendVars, callVars, push, closing, stopped,
                 exceptionVars>>

-----------------------------------------------------------------------------
Call(e) == calls' = [calls EXCEPT ![e] = IF @ = 2 THEN 2 ELSE @ + 1]

(* OnExpire of an event that has been stopped. *)
Skipped(e) == e \in handler /\ UNCHANGED <<handler, calls>>

(* MUTANT: OnExpire does not look at the handler. *)
CalledUnchecked(e) ==
  /\ handler' = handler \cup ({e} \cap OneShot)
  /\ Call(e)

(* OnExpire of any other: a one-shot event uses its handler up first.      *)
Called(e) ==
  /\ e \notin handler
  /\ handler' = handler \cup ({e} \cap OneShot)
  /\ Call(e)

(* MUTANT: every event that has been called is put aside. *)
ExpireContinues(e) ==
  /\ pc = "expire" /\ e \in batch
  /\ \/ Skipped(e) /\ UNCHANGED again
     \/ Called(e) /\ again' = again \cup {e}
  /\ batch' = batch \ {e}
  /\ UNCHANGED <<queueVars, stop, pc, woken, push, closing, stopped, exceptionVars, retired>>

(* Run calls the events it has taken; a periodic one that asks for it is   *)
(* put aside to be queued again.                                           *)
Expire(e) ==
  /\ pc = "expire" /\ e \in batch
  /\ \/ Skipped(e) /\ UNCHANGED <<again, retired>>
     \/ Called(e) /\ e \in OneShot /\ UNCHANGED <<again, retired>>
     \/ Called(e) /\ e \in Periodic /\ again' = again \cup {e} /\ UNCHANGED retired
     \/ Called(e) /\ e \in Periodic /\ retired' = retired \cup {e} /\ UNCHANGED again
  /\ batch' = batch \ {e}
  /\ UNCHANGED <<queueVars, stop, pc, woken, push, closing, stopped, exceptionVars>>

(* A callback throws: both vectors are destroyed and the loop starts over. *)
ExpireThrows(e) ==
  /\ pc = "expire" /\ e \in batch
  /\ throws < MaxThrows
  /\ throws' = throws + 1
  /\ Called(e)
  /\ dropped' = dropped \cup batch \cup again
  /\ batch' = {} /\ again' = {}
  /\ pc' = "ready"
  /\ UNCHANGED <<queueVars, stop, woken, retired, push, closing, stopped>>

(* The events of continue_to are queued, whatever the queue's capacity.    *)
Requeue ==
  /\ pc = "expire" /\ batch = {}
  /\ queue' = queue \cup again
  /\ again' = {}
  /\ pc' = "ready"
  /\ UNCHANGED <<due, stop, batch, woken, callVars, push, closing, stopped, exceptionVars>>

-----------------------------------------------------------------------------
(* MUTANT: CleanAllEvent forgets the events that GetReady had taken. *)
CleanQueueOnly ==
  /\ pc = "clean"
  /\ batch' = {}
  /\ pc' = "cleaning"
  /\ UNCHANGED <<queueVars, again, stop, woken, callVars, push, closing, stopped, exceptionVars>>

(* CleanAllEvent takes the lock. *)
CleanAllEvent ==
  /\ pc = "clean"
  /\ pc' = "cleaning"
  /\ UNCHANGED <<queueVars, stop, batch, again, woken, callVars, push, closing, stopped,
                 exceptionVars>>

(* One event of the vector or, after those, of the queue.                  *)
Clean(e) ==
  /\ pc = "cleaning"
  /\ \/ e \in batch
     \/ batch = {} /\ e \in queue
  /\ \/ Skipped(e) /\ UNCHANGED retired
     \/ Called(e) /\ retired' = retired \cup ({e} \cap Periodic)
  /\ batch' = batch \ {e}
  /\ queue' = queue \ {e} /\ due' = due \ {e}
  /\ UNCHANGED <<stop, pc, again, woken, push, closing, stopped, exceptionVars>>

(* The callback throws: the vector is gone, the queue is not, and Run goes *)
(* on.                                                                     *)
CleanThrows(e) ==
  /\ pc = "cleaning"
  /\ \/ e \in batch
     \/ batch = {} /\ e \in queue
  /\ throws < MaxThrows
  /\ throws' = throws + 1
  /\ Called(e)
  /\ dropped' = dropped \cup batch
  /\ batch' = {}
  /\ pc' = "ready"
  /\ UNCHANGED <<queueVars, stop, again, woken, retired, push, closing, stopped>>

CleanDone ==
  /\ pc = "cleaning" /\ batch = {} /\ queue = {}
  /\ pc' = "gone"
  /\ UNCHANGED <<queueVars, stop, batch, again, woken, callVars, push, closing, stopped,
                 exceptionVars>>

-----------------------------------------------------------------------------
(* Stop: only the first caller goes on to notify and to join.              *)
StopFlag(s) ==
  /\ closing[s] = "idle" /\ Unlocked
  /\ stop' = TRUE
  /\ closing' = [closing EXCEPT ![s] = IF stop THEN "returned" ELSE "flagged"]
  /\ UNCHANGED <<queueVars, backendVars, woken, callVars, push, stopped, exceptionVars>>

(* MUTANT: Stop joins the backend without notifying it. *)
StopSilently(s) ==
  /\ closing[s] = "flagged"
  /\ closing' = [closing EXCEPT ![s] = "joining"]
  /\ UNCHANGED <<queueVars, stop, backendVars, woken, callVars, push, stopped, exceptionVars>>

StopNotify(s) ==
  /\ closing[s] = "flagged"
  /\ woken' = TRUE
  /\ closing' = [closing EXCEPT ![s] = "joining"]
  /\ UNCHANGED <<queueVars, stop, backendVars, callVars, push, stopped, exceptionVars>>

StopJoin(s) ==
  /\ closing[s] = "joining" /\ pc = "gone"
  /\ closing' = [closing EXCEPT ![s] = "returned"]
  /\ UNCHANGED <<queueVars, stop, backendVars, woken, callVars, push, stopped, exceptionVars>>

-----------------------------------------------------------------------------
Backend ==
  \/ GetReady \/ GetReadyWaits \/ WaitEnds \/ Requeue
  \/ CleanAllEvent \/ CleanDone
  \/ \E e \in Events : Expire(e) \/ Clean(e)

BackendFails == \E e \in Events : ExpireThrows(e) \/ CleanThrows(e)

Caller(e) == PushTimeEvent(e) \/ HandlerStop(e)

Stopper(s) == StopFlag(s) \/ StopNotify(s) \/ StopJoin(s)

Next ==
  \/ Backend \/ BackendFails \/ SpuriousWakeup
  \/ \E e \in Events : Caller(e) \/ Elapse(e)
  \/ \E s \in Stoppers : Stopper(s)

(* The backend runs, time passes, and a Stop that has begun goes on.       *)
Fairness ==
  /\ WF_poolVars(Backend)
  /\ \A e \in Events : WF_poolVars(Elapse(e))
  /\ \A s \in Stoppers : WF_poolVars(StopNotify(s) \/ StopJoin(s))

Spec == Init /\ [][Next]_poolVars
FairSpec == Spec /\ Fairness

-----------------------------------------------------------------------------
(* HelloTimer/main.cpp promises: when handler->Stop() returns true the     *)
(* event is never executed, not even as part of the pool's exit, and not   *)
(* when the backend had already taken it.  And a one-shot event is called  *)
(* at most once (TimeEvent::OnExpire, TimeEventHandler::Stop).             *)
CalledAtMostOnce ==
  \A e \in OneShot : calls[e] <= 1 /\ (e \in stopped => calls[e] = 0)

(* No event disappears between the queue and the backend's two vectors, in *)
(* a round or at the exit: one that has been pushed is kept, has been      *)
(* called or stopped, has declined to go on, or was lost to an exception   *)
(* (EventPool::Run, GetReady, CleanAllEvent).                              *)
NothingForgotten ==
  \A e \in Events : push[e] = "pushed" =>
    e \in queue \cup batch \cup again \cup handler \cup retired \cup dropped

(* Nobody sleeps through the event it is waiting for: a caller waits only  *)
(* while the queue is full (once the pool is stopped nobody tells it), and *)
(* the backend waits for a first event only while there is none and nobody *)
(* has stopped the pool (not_fill_cv_, at_least_one_cv_).                  *)
NobodyForgotten ==
  /\ ~stop =>
       \A e \in Events : push[e] = "sleeping" => Cardinality(queue) >= MaxCount
  /\ pc = "wait_any" /\ ~woken =>
       queue = {} /\ (stop => \E s \in Stoppers : closing[s] = "flagged")

(* Stop returns: the backend notices stop_ even when the notification      *)
(* comes before its wait (EventPool::Stop, EventPool::GetReady).           *)
StopReturns == \A s \in Stoppers : closing[s] = "flagged" ~> closing[s] = "returned"

(* An event that has been queued is called, unless it or the pool is       *)
(* stopped or an exception in another callback discards it.                *)
EventExpires ==
  \A e \in OneShot : e \in queue ~> e \in handler \cup dropped \/ stop

(* HelloTimer/main.cpp says of max_count: the maximal number of timers     *)
(* that are stored and have not yet been triggered.                        *)
CapacityHolds == Cardinality(queue) <= MaxCount
=============================================================================
