-------------------------- MODULE DispatcherProofs --------------------------
(***************************************************************************)
(* Proofs about Dispatcher, for any number of sessions, workers, callers,  *)
(* deliveries and calls: the type invariant, that a delivery is attempted  *)
(* by one goroutine at a time and a call has the session it drives to      *)
(* itself, that no delivery is lost between heap, pending, scheduler,      *)
(* workers and calls, and that the scheduler does not sleep through one.   *)
(***************************************************************************)
EXTENDS Dispatcher, TLAPS

Attempting == {"check", "ready", "sending", "answered"}
Holding == {"waiting", "drive", "check", "ready", "sending", "answered",
            "callback", "scheduling", "finish", "release"}

(* What the program counters say about the locals beside them. *)

AtOK == \A e \in Executor :
          pc[e] \in Attempting \cup {"callback", "scheduling"} =>
            at[e] \in Delivery

WorkerOK ==
  \A w \in Worker : pc[w] \in {"idle", "callback", "scheduling"} \cup Attempting

CallOK == \A c \in Caller :
            pc[c] \in Holding => /\ call[c].s \in Session
                                 /\ call[c].op \in {"advance", "deliver"}

TypeInv == TypeOK /\ AtOK /\ WorkerOK /\ CallOK

\* Where every proof about a step begins: no step but those of calls and
\* attempts touches the locals.
LEMMA DeliveryFacts ==
  /\ Delivery \subseteq Nat
  /\ NoDelivery \notin Delivery
  /\ MaxDelivery \in Nat
  /\ \A d \in 0 .. MaxDelivery : d + 1 \in Delivery => d + 1 \in 1 .. MaxDelivery
BY ConstantsAssumption DEF Delivery, NoDelivery

\* A retry is due at an integer time, whatever the backoff.
LEMMA RetryDelayInt == \A n : RetryDelay(n) \subseteq Int
BY DEF RetryDelay

-----------------------------------------------------------------------------
LEMMA TypeInit == Init => TypeInv
<1> SUFFICES ASSUME Init PROVE TypeInv
  OBVIOUS
<1>1. NoCall \in CallRecord
  BY DEF NoCall, NewCall, CallRecord
<1>2. call \in [Caller -> CallRecord]
  BY <1>1 DEF Init
<1>3. pc \in [Executor -> Place] /\ status \in [Executor -> Status]
  BY DEF Init, Place, Status
<1>4. journal \in [Delivery -> Status]
  BY DEF Init, Status
<1>5. TypeOK
  <2>1. offset \in [Session -> Nat] /\ exclusive \in SUBSET Session
        /\ gone \in SUBSET exclusive /\ now \in Nat
    BY DEF Init
  <2>2. last \in 0 .. MaxDelivery
    BY ConstantsAssumption DEF Init
  <2>3. /\ sess \in [Delivery -> Session \cup {NoSession}]
        /\ event \in [Delivery -> Event \cup {"none"}]
        /\ fireAt \in [Delivery -> Int]
        /\ attempts \in [Delivery -> Nat]
        /\ fresh \in SUBSET Delivery /\ seq \in Nat
        /\ order \in [Delivery -> Nat]
    BY DEF Init
  <2>4. at \in [Executor -> Delivery \cup {NoDelivery}]
    BY DEF Init
  <2>5. /\ heap \in SUBSET Delivery /\ pending \in SUBSET Delivery
        /\ running \in SUBSET Delivery /\ hook \in SUBSET Delivery
        /\ canceled \in SUBSET Delivery /\ due \in SUBSET Delivery
        /\ run \in {"scan", "hand", "sleep", "exited"}
        /\ scanned \in Nat /\ wait \in Nat /\ timer \in Nat
        /\ wake \in BOOLEAN /\ stop \in BOOLEAN /\ calls \in Nat
    BY DEF Init
  <2> QED
    BY <1>2, <1>3, <1>4, <2>1, <2>2, <2>3, <2>4, <2>5 DEF TypeOK
<1>6. AtOK /\ WorkerOK /\ CallOK
  BY DEF Init, AtOK, WorkerOK, CallOK, Attempting, Holding, Executor
<1> QED
  BY <1>5, <1>6 DEF TypeInv

\* The environment's and the scheduler's steps.
LEMMA TypeTick == TypeInv /\ Tick => TypeInv'
BY DEF TypeInv, TypeOK, AtOK, WorkerOK, CallOK, Tick, ownerVars, queueVars,
   delVars, newVars, schedVars, execVars, callVars, Delivery

LEMMA TypeNewDelivery ==
  ASSUME TypeOK, NEW s \in Session \cup {NoSession}, NEW ev \in Event,
         NEW delay \in Delays, NEW h, NewDelivery(s, ev, delay, h)
  PROVE  /\ last' \in 0 .. MaxDelivery /\ fresh' \in SUBSET Delivery
         /\ sess' \in [Delivery -> Session \cup {NoSession}]
         /\ event' \in [Delivery -> Event \cup {"none"}]
         /\ hook' \in SUBSET Delivery /\ fireAt' \in [Delivery -> Int]
         /\ attempts' \in [Delivery -> Nat] /\ canceled' \in SUBSET Delivery
         /\ journal' \in [Delivery -> Status]
         /\ seq' = seq /\ order' = order
<1> DEFINE d == last + 1
<1>1. d \in Delivery
  BY DEF NewDelivery
<1>2. last' \in 0 .. MaxDelivery
  BY <1>1, ConstantsAssumption DEF NewDelivery, TypeOK, Delivery
<1>3. "pending" \in Status
  BY DEF Status
<1>4. now + delay \in Int
  BY ConstantsAssumption DEF TypeOK
<1> HIDE DEF d
<1>5. /\ sess' = [sess EXCEPT ![d] = s] /\ event' = [event EXCEPT ![d] = ev]
      /\ hook' = (IF h THEN hook \cup {d} ELSE hook)
      /\ fireAt' = [fireAt EXCEPT ![d] = now + delay]
      /\ journal' = [journal EXCEPT ![d] = "pending"]
      /\ fresh' = fresh \cup {d} /\ seq' = seq /\ order' = order
      /\ attempts' = attempts /\ canceled' = canceled
  BY DEF NewDelivery, d
<1> QED
  BY <1>1, <1>2, <1>3, <1>4, <1>5 DEF TypeOK

LEMMA TypeQueueNew ==
  ASSUME TypeOK, NEW d \in Delivery, QueueNew(d)
  PROVE  /\ heap' \in SUBSET Delivery /\ pending' \in SUBSET Delivery
         /\ running' \in SUBSET Delivery /\ wake' \in BOOLEAN
         /\ fresh' \in SUBSET Delivery /\ seq' \in Nat
         /\ order' \in [Delivery -> Nat]
         /\ UNCHANGED <<last, sess, event, hook, fireAt, attempts, canceled,
                        journal>>
BY DEF QueueNew, PushLocked, TypeOK

LEMMA TypeSchedule ==
  ASSUME TypeInv, NEW s \in Session \cup {NoSession}, NEW ev \in Event,
         NEW delay \in Delays, NEW h \in Hooks, Schedule(s, ev, delay, h)
  PROVE  TypeInv'
<1>1. NewDelivery(s, ev, delay, h)
  BY DEF Schedule
<1> QED
  BY <1>1, TypeNewDelivery DEF TypeInv, TypeOK, AtOK, WorkerOK, CallOK, Schedule,
     ownerVars, clockVars, queueVars, schedVars, execVars, callVars

LEMMA TypeScheduleQueues ==
  ASSUME TypeInv, NEW d \in Delivery, ScheduleQueues(d)
  PROVE  TypeInv'
<1>1. QueueNew(d)
  BY DEF ScheduleQueues
<1> QED
  BY <1>1, TypeQueueNew DEF TypeInv, TypeOK, AtOK, WorkerOK, CallOK, ScheduleQueues,
     ownerVars, clockVars, schedVars, execVars, callVars

LEMMA TypeScan ==
  ASSUME TypeInv, Scan
  PROVE  TypeInv'
BY ConstantsAssumption DEF TypeInv, TypeOK, AtOK, WorkerOK, CallOK, Scan,
   ownerVars, clockVars, queueVars,
   delVars, newVars, schedVars, execVars, callVars

LEMMA TypeHand ==
  ASSUME TypeInv, NEW w \in Worker, Hand(w)
  PROVE  TypeInv'
BY ConstantsAssumption DEF TypeInv, TypeOK, AtOK, WorkerOK, CallOK, Hand, Executor,
   Place, Attempting, Holding,
   ownerVars, clockVars, queueVars,
   delVars, newVars, schedVars, execVars, callVars

LEMMA TypeArm ==
  ASSUME TypeInv, Arm
  PROVE  TypeInv'
BY ConstantsAssumption DEF TypeInv, TypeOK, AtOK, WorkerOK, CallOK, Arm,
   ownerVars, clockVars, queueVars,
   delVars, newVars, schedVars, execVars, callVars

LEMMA TypeWakeup ==
  ASSUME TypeInv, Wakeup
  PROVE  TypeInv'
BY ConstantsAssumption DEF TypeInv, TypeOK, AtOK, WorkerOK, CallOK, Wakeup,
   ownerVars, clockVars, queueVars,
   delVars, newVars, schedVars, execVars, callVars

LEMMA TypeExit ==
  ASSUME TypeInv, Exit
  PROVE  TypeInv'
BY ConstantsAssumption DEF TypeInv, TypeOK, AtOK, WorkerOK, CallOK, Exit, Blocked,
   ownerVars, clockVars, queueVars,
   delVars, newVars, schedVars, execVars, callVars

LEMMA TypeStop ==
  ASSUME TypeInv, StopDispatcher
  PROVE  TypeInv'
BY ConstantsAssumption DEF TypeInv, TypeOK, AtOK, WorkerOK, CallOK, StopDispatcher,
   ownerVars, clockVars, queueVars,
   delVars, newVars, schedVars, execVars, callVars

LEMMA TypeSkipCanceled ==
  ASSUME TypeInv, NEW e \in Executor, SkipCanceled(e)
  PROVE  TypeInv'
BY ConstantsAssumption DEF TypeInv, TypeOK, AtOK, WorkerOK, CallOK, Place, Status,
   Attempting, Holding, SkipCanceled, Return, Back, Executor,
   ownerVars, clockVars, queueVars,
   delVars, newVars, schedVars, execVars, callVars

LEMMA TypeTakeUp ==
  ASSUME TypeInv, NEW e \in Executor, TakeUp(e)
  PROVE  TypeInv'
BY ConstantsAssumption DEF TypeInv, TypeOK, AtOK, WorkerOK, CallOK, Place, Status,
   Attempting, Holding, TakeUp, Executor,
   ownerVars, clockVars, queueVars,
   delVars, newVars, schedVars, execVars, callVars

LEMMA TypeStartAttempt ==
  ASSUME TypeInv, NEW e \in Executor, StartAttempt(e)
  PROVE  TypeInv'
BY ConstantsAssumption DEF TypeInv, TypeOK, AtOK, WorkerOK, CallOK, Place, Status,
   Attempting, Holding, StartAttempt, Executor,
   ownerVars, clockVars, queueVars,
   delVars, newVars, schedVars, execVars, callVars

LEMMA TypeAnswer ==
  ASSUME TypeInv, NEW e \in Executor, NEW ok \in BOOLEAN, Answer(e, ok)
  PROVE  TypeInv'
BY ConstantsAssumption, RetryDelayInt DEF TypeInv, TypeOK, AtOK, WorkerOK, CallOK, Place, Status,
   Attempting, Holding, Answer, Outcome, Executor,
   ownerVars, clockVars, queueVars,
   delVars, newVars, schedVars, execVars, callVars

LEMMA TypeSettle ==
  ASSUME TypeInv, NEW e \in Executor, Settle(e)
  PROVE  TypeInv'
<1>1. /\ heap' \in SUBSET Delivery /\ pending' \in SUBSET Delivery
      /\ running' \in SUBSET Delivery /\ wake' \in BOOLEAN
  BY DEF TypeInv, TypeOK, AtOK, Settle, Requeue, Retire, ClearRunning, PushLocked,
     Attempting
<1>2. CASE attempts[at[e]] = 1 /\ at[e] \in hook
  BY <1>1, <1>2 DEF TypeInv, TypeOK, AtOK, WorkerOK, CallOK, Place, Attempting,
     Holding, Settle, Executor, clockVars, ownerVars, delVars, newVars, schedVars, callVars
<1>3. CASE ~(attempts[at[e]] = 1 /\ at[e] \in hook)
  BY <1>1, <1>3, ConstantsAssumption
     DEF TypeInv, TypeOK, AtOK, WorkerOK, CallOK, Place, Status, Attempting,
     Holding, Settle, Return, Back, Executor, clockVars, ownerVars, delVars, newVars,
     schedVars, callVars
<1> QED
  BY <1>2, <1>3

LEMMA TypeCallback ==
  ASSUME TypeInv, NEW e \in Executor, Callback(e)
  PROVE  TypeInv'
<1>1. CASE Return(e) /\ UNCHANGED delVars
  BY <1>1, ConstantsAssumption
     DEF TypeInv, TypeOK, AtOK, WorkerOK, CallOK, Place, Status, Attempting,
     Holding, Callback, Return, Back, Executor, clockVars, ownerVars, delVars,
     newVars, queueVars, schedVars, callVars
<1>2. ASSUME NEW ev \in Event, NEW delay \in Delays, NEW h \in Hooks,
             NewDelivery(sess[at[e]], ev, delay, h),
             at' = [at EXCEPT ![e] = last + 1],
             pc' = [pc EXCEPT ![e] = "scheduling"], status' = status
      PROVE  TypeInv'
  <2>1. sess[at[e]] \in Session \cup {NoSession}
    BY DEF TypeInv, TypeOK, AtOK, Callback
  <2>2. last + 1 \in Delivery /\ pc[e] = "callback"
    BY <1>2 DEF NewDelivery, Callback
  <2>3. /\ pc' \in [Executor -> Place] /\ status' \in [Executor -> Status]
        /\ at' \in [Executor -> Delivery \cup {NoDelivery}]
    BY <1>2, <2>2 DEF TypeInv, TypeOK, Place
  <2>4. TypeOK'
    BY <1>2, <2>1, <2>3, TypeNewDelivery
       DEF TypeInv, TypeOK, Callback, clockVars, ownerVars, queueVars, schedVars,
       callVars
  <2>5. (AtOK /\ WorkerOK /\ CallOK)'
    BY <1>2, <2>2, ConstantsAssumption
       DEF TypeInv, TypeOK, AtOK, WorkerOK, CallOK, Attempting, Holding, Callback,
       Executor, callVars
  <2> QED
    BY <2>4, <2>5 DEF TypeInv
<1> QED
  BY <1>1, <1>2 DEF Callback

LEMMA TypeCallbackQueues ==
  ASSUME TypeInv, NEW e \in Executor, CallbackQueues(e)
  PROVE  TypeInv'
<1>1. QueueNew(at[e]) /\ at[e] \in Delivery
  BY DEF CallbackQueues, TypeInv, AtOK
<1> QED
  BY <1>1, TypeQueueNew, ConstantsAssumption
     DEF TypeInv, TypeOK, AtOK, WorkerOK, CallOK, Place, Attempting, Holding,
     CallbackQueues, Executor, ownerVars, clockVars, schedVars, callVars

LEMMA TypeBegin ==
  ASSUME TypeInv, NEW c \in Caller, NEW op \in {"advance", "deliver"}, NEW s \in Session,
         NEW by \in Nat, Begin(c, op, s, by)
  PROVE  TypeInv'
<1>1. NewCall(op, s, by, {}) \in CallRecord
  BY DEF NewCall, CallRecord
<1>2. call' \in [Caller -> CallRecord]
  BY <1>1 DEF Begin, TypeInv, TypeOK
<1>3. CallOK'
  BY DEF TypeInv, TypeOK, CallOK, Begin, NewCall, Executor
<1> QED
  BY <1>2, <1>3, ConstantsAssumption
     DEF TypeInv, TypeOK, AtOK, WorkerOK, Place, Attempting, Begin, HeapWithout,
     Executor, clockVars, delVars, newVars, schedVars

LEMMA TypeAcquired ==
  ASSUME TypeInv, NEW c \in Caller, Acquired(c)
  PROVE  TypeInv'
<1>1. call[c] \in CallRecord /\ call[c].s \in Session
  BY DEF TypeInv, TypeOK, CallOK, Acquired, Holding
<1>2. now + offset[call[c].s] + call[c].left \in Int
  BY <1>1 DEF TypeInv, TypeOK, CallRecord
<1>3. [call[c] EXCEPT !.target = now + offset[call[c].s] + call[c].left]
        \in CallRecord
  BY <1>1, <1>2 DEF CallRecord
<1>4. call' = [call EXCEPT ![c] =
                 [call[c] EXCEPT !.target = now + offset[call[c].s] + call[c].left]]
  BY DEF Acquired, TypeInv, TypeOK
<1>5. call' \in [Caller -> CallRecord]
  BY <1>3, <1>4 DEF TypeInv, TypeOK
<1>6. \A b \in Caller : call'[b].s = call[b].s /\ call'[b].op = call[b].op
  BY <1>1, <1>4 DEF TypeInv, TypeOK, CallRecord
<1> QED
  BY <1>5, <1>6, ConstantsAssumption
     DEF TypeInv, TypeOK, AtOK, WorkerOK, CallOK, Place, Attempting, Holding,
     Acquired, Executor, clockVars, ownerVars, queueVars, delVars, newVars, schedVars

LEMMA TypeAcquireTimeout ==
  ASSUME TypeInv, NEW c \in Caller, AcquireTimeout(c)
  PROVE  TypeInv'
BY ConstantsAssumption DEF TypeInv, TypeOK, AtOK, WorkerOK, CallOK, Place, Status,
   Attempting, Holding, AcquireTimeout, AfterTimeout, Executor,
   ownerVars, clockVars, queueVars,
   delVars, newVars, schedVars, execVars, callVars

LEMMA TypeRelease ==
  ASSUME TypeInv, NEW c \in Caller, Release(c)
  PROVE  TypeInv'
BY ConstantsAssumption DEF TypeInv, TypeOK, AtOK, WorkerOK, CallOK, Place, Status,
   Attempting, Holding, Release, Released, PendingOf, NoCall, NewCall, CallRecord, Executor,
   ownerVars, clockVars, queueVars,
   delVars, newVars, schedVars, execVars, callVars

LEMMA TypeGiveUp ==
  ASSUME TypeInv, NEW c \in Caller, GiveUp(c)
  PROVE  TypeInv'
<1>1. call[c] \in CallRecord
  BY DEF TypeInv, TypeOK
<1>2. [call[c] EXCEPT !.partial = TRUE] \in CallRecord
  BY <1>1 DEF CallRecord
<1>3. call' = [call EXCEPT ![c] = [call[c] EXCEPT !.partial = TRUE]]
  BY DEF GiveUp, TypeInv, TypeOK
<1>4. call' \in [Caller -> CallRecord]
  BY <1>2, <1>3 DEF TypeInv, TypeOK
<1>5. \A b \in Caller : call'[b].s = call[b].s /\ call'[b].op = call[b].op
  BY <1>1, <1>3 DEF TypeInv, TypeOK, CallRecord
<1> QED
  BY <1>4, <1>5, ConstantsAssumption
     DEF TypeInv, TypeOK, AtOK, WorkerOK, CallOK, Place, Attempting, Holding,
     GiveUp, Executor, clockVars, ownerVars, queueVars, delVars, newVars, schedVars

LEMMA TypeCovered ==
  ASSUME TypeInv, NEW c \in Caller, Covered(c)
  PROVE  TypeInv'
BY ConstantsAssumption DEF TypeInv, TypeOK, AtOK, WorkerOK, CallOK, Place, Status,
   Attempting, Holding, Covered, Driving, Executor,
   ownerVars, clockVars, queueVars,
   delVars, newVars, schedVars, execVars, callVars

LEMMA TypePickNext ==
  ASSUME TypeInv, NEW c \in Caller, PickNext(c)
  PROVE  TypeInv'
<1>1. PICK d \in EarliestLocked(call[c].s) :
        /\ Step(d) <= call[c].left
        /\ ShiftLocked(call[c].s, Step(d))
        /\ running' = running \cup {d}
        /\ at' = [at EXCEPT ![c] = d]
        /\ call' = [call EXCEPT ![c].left = @ - Step(d),
                                ![c].fired = @ + 1,
                                ![c].prev = Later(call[c].prev, SessionDue(d)),
                                ![c].late = Overtaken(c, d)]
  BY DEF PickNext
<1>2. d \in Delivery /\ call[c].s \in Session /\ call[c] \in CallRecord
  BY <1>1 DEF EarliestLocked, EarliestOf, Idle, PendingOf, TypeInv, TypeOK, CallOK,
     PickNext, Driving, Holding
<1>3. Step(d) \in Nat /\ call[c].left - Step(d) \in Nat
  BY <1>1, <1>2 DEF Step, TypeInv, TypeOK, CallRecord
<1>4. Later(call[c].prev, SessionDue(d)) \in Int
  BY <1>2 DEF Later, SessionDue, TypeInv, TypeOK, CallRecord
<1>5. Overtaken(c, d) \in SUBSET Delivery
  BY <1>2 DEF Overtaken, TypeInv, TypeOK, CallRecord
<1>6. call' \in [Caller -> CallRecord]
  BY <1>1, <1>2, <1>3, <1>4, <1>5 DEF TypeInv, TypeOK, CallRecord
<1>7. \A b \in Caller : call'[b].s = call[b].s /\ call'[b].op = call[b].op
  BY <1>1, <1>2 DEF TypeInv, TypeOK, CallRecord
<1>8. offset' \in [Session -> Nat] /\ fireAt' \in [Delivery -> Int]
  BY <1>1, <1>2, <1>3 DEF ShiftLocked, TypeInv, TypeOK
<1>9. TypeOK'
  BY <1>1, <1>2, <1>6, <1>8 DEF TypeInv, TypeOK, PickNext, Place, Executor,
     ownerVars, newVars, schedVars
<1>10. (AtOK /\ WorkerOK /\ CallOK)'
  BY <1>1, <1>2, <1>7, ConstantsAssumption DEF TypeInv, TypeOK, AtOK, WorkerOK,
     CallOK, Attempting, Holding, PickNext, Driving, Executor
<1> QED
  BY <1>9, <1>10 DEF TypeInv

LEMMA TypeFinish ==
  ASSUME TypeInv, NEW c \in Caller, Finish(c)
  PROVE  TypeInv'
BY ConstantsAssumption DEF TypeInv, TypeOK, AtOK, WorkerOK, CallOK, Place, Status,
   Attempting, Holding, Finish, Passes, ShiftLocked, PendingOf, CallRecord, Executor,
   ownerVars, clockVars, queueVars,
   delVars, newVars, schedVars, execVars, callVars

LEMMA TypeDeliverNext ==
  ASSUME TypeInv, NEW c \in Caller, NEW item, DeliverNext(c, item)
  PROVE  TypeInv'
BY ConstantsAssumption DEF TypeInv, TypeOK, AtOK, WorkerOK, CallOK, Place, Status,
   Attempting, Holding, DeliverNext, FindLocked, EarliestOf, Idle, PendingOf, Executor,
   ownerVars, clockVars, queueVars,
   delVars, newVars, schedVars, execVars, callVars

LEMMA TypeDeliverEnd ==
  ASSUME TypeInv, NEW c \in Caller, DeliverEnd(c)
  PROVE  TypeInv'
BY ConstantsAssumption DEF TypeInv, TypeOK, AtOK, WorkerOK, CallOK, Place, Status,
   Attempting, Holding, DeliverEnd, Executor,
   ownerVars, clockVars, queueVars,
   delVars, newVars, schedVars, execVars, callVars

LEMMA TypeDrop ==
  ASSUME TypeInv, NEW c \in Caller, NEW op \in {"cancel", "reset"}, NEW dropped,
         NEW marked \in SUBSET Delivery, NEW ss, Drop(c, op, dropped, marked, ss)
  PROVE  TypeInv'
<1>1. NewCall(op, NoSession, 0, marked) \in CallRecord
  BY DEF NewCall, CallRecord
<1>2. call' \in [Caller -> CallRecord]
  BY <1>1 DEF Drop, TypeInv, TypeOK
<1>3. CallOK'
  BY DEF TypeInv, TypeOK, CallOK, Drop, Holding, Executor
<1> QED
  BY <1>2, <1>3, ConstantsAssumption
     DEF TypeInv, TypeOK, AtOK, WorkerOK, Place, Attempting, Drop,
     Executor, clockVars, delVars, newVars, schedVars

LEMMA TypeMark ==
  ASSUME TypeInv, NEW c \in Caller, NEW d \in Delivery, Mark(c, d)
  PROVE  TypeInv'
<1>1. call[c] \in CallRecord
  BY DEF TypeInv, TypeOK
<1>2. [call[c] EXCEPT !.marks = @ \ {d}] \in CallRecord
  BY <1>1 DEF CallRecord
<1>3. call' = [call EXCEPT ![c] = [call[c] EXCEPT !.marks = @ \ {d}]]
  BY DEF Mark, TypeInv, TypeOK
<1>4. call' \in [Caller -> CallRecord]
  BY <1>2, <1>3 DEF TypeInv, TypeOK
<1>5. \A b \in Caller : call'[b].s = call[b].s /\ call'[b].op = call[b].op
  BY <1>1, <1>3 DEF TypeInv, TypeOK, CallRecord
<1>6. canceled' \in SUBSET Delivery /\ journal' \in [Delivery -> Status]
  BY DEF TypeInv, TypeOK, Status, Mark
<1> QED
  BY <1>4, <1>5, <1>6
     DEF TypeInv, TypeOK, AtOK, WorkerOK, CallOK, Holding, Mark, clockVars,
     ownerVars, queueVars, newVars, schedVars, execVars

LEMMA TypeCancelEnd ==
  ASSUME TypeInv, NEW c \in Caller, CancelEnd(c)
  PROVE  TypeInv'
BY ConstantsAssumption DEF TypeInv, TypeOK, AtOK, WorkerOK, CallOK, Place, Status,
   Attempting, Holding, CancelEnd, NoCall, NewCall, CallRecord, Executor,
   ownerVars, clockVars, queueVars,
   delVars, newVars, schedVars, execVars, callVars

LEMMA TypeEnvironment ==
  ASSUME TypeInv, Environment
  PROVE  TypeInv'
<1>1. CASE \E s \in Session \cup {NoSession}, ev \in Event, delay \in Delays,
             h \in Hooks : Schedule(s, ev, delay, h)
  BY <1>1, TypeSchedule
<1>2. CASE StopDispatcher
  BY <1>2, TypeStop
<1>3. ASSUME NEW c \in Caller, NEW s \in Session, NEW by \in Windows,
             BeginAdvance(c, s, by)
      PROVE  TypeInv'
  BY <1>3, TypeBegin, ConstantsAssumption DEF BeginAdvance
<1>4. ASSUME NEW c \in Caller, NEW s \in Session, BeginDeliver(c, s)
      PROVE  TypeInv'
  BY <1>4, TypeBegin DEF BeginDeliver
<1>5. ASSUME NEW c \in Caller, NEW s \in Session, BeginCancel(c, s)
      PROVE  TypeInv'
  <2>1. PendingOf(s) \in SUBSET Delivery
    BY DEF TypeInv, TypeOK, PendingOf
  <2> QED
    BY <1>5, <2>1, TypeDrop DEF BeginCancel
<1>6. ASSUME NEW c \in Caller, BeginCancelAll(c)
      PROVE  TypeInv'
  <2>1. heap \cup pending \in SUBSET Delivery
    BY DEF TypeInv, TypeOK
  <2> QED
    BY <1>6, <2>1, TypeDrop DEF BeginCancelAll
<1> QED
  BY <1>1, <1>2, <1>3, <1>4, <1>5, <1>6 DEF Environment

LEMMA TypeNext == TypeInv /\ [Next]_vars => TypeInv'
<1> SUFFICES ASSUME TypeInv, [Next]_vars
             PROVE  TypeInv'
  OBVIOUS
<1>1. CASE Tick
  BY <1>1, TypeTick
<1>2. CASE Environment
  BY <1>2, TypeEnvironment
<1>3. CASE SchedulerStep
  BY <1>3, TypeScan, TypeArm, TypeWakeup, TypeExit, TypeHand DEF SchedulerStep
<1>4. ASSUME NEW e \in Executor, AttemptStep(e)
      PROVE  TypeInv'
  BY <1>4, TypeSkipCanceled, TypeTakeUp, TypeStartAttempt, TypeAnswer, TypeSettle,
     TypeCallback, TypeCallbackQueues DEF AttemptStep
<1>5. ASSUME NEW c \in Caller, CallStep(c)
      PROVE  TypeInv'
  BY <1>5, TypeAcquired, TypeAcquireTimeout, TypeRelease, TypeGiveUp,
     TypeCovered, TypePickNext, TypeFinish, TypeDeliverNext, TypeDeliverEnd,
     TypeMark, TypeCancelEnd DEF CallStep
<1>6. CASE UNCHANGED vars
  BY <1>6 DEF vars, TypeInv, TypeOK, AtOK, WorkerOK, CallOK, clockVars,
     ownerVars, queueVars, delVars, newVars, schedVars, execVars, callVars
<1> QED
  BY <1>1, <1>2, <1>3, <1>4, <1>5, <1>6, TypeScheduleQueues DEF Next

\* Every reachable state is typed, and the program counters and the locals of
\* workers and calls agree.
THEOREM TypeInvariant == Spec => []TypeInv
<1>1. Init => TypeInv
  BY TypeInit
<1>2. TypeInv /\ [Next]_vars => TypeInv'
  BY TypeNext
<1> QED
  BY <1>1, <1>2, PTL DEF Spec

\* TypeOK of the runs, for every instance of the constants.
THEOREM TypeCorrect == Spec => []TypeOK
<1>1. TypeInv => TypeOK
  BY DEF TypeInv
<1> QED
  BY <1>1, TypeInvariant, PTL

-----------------------------------------------------------------------------
(* One holder, and a session to itself. *)

\* What is scheduled next is nowhere yet, nor is what a Schedule has made and not
\* queued; a callback at that point has such a delivery of its own.
Fresh ==
  /\ \A d \in Delivery :
       d > last \/ d \in fresh => d \notin heap \cup pending \cup running
  /\ \A d \in fresh : ~(d > last)
  /\ \A e \in Executor : pc[e] = "scheduling" =>
       /\ at[e] \in fresh
       /\ \A f \in Executor : pc[f] = "scheduling" /\ at[f] = at[e] => f = e

\* The scheduler's slice is empty when it scans or sleeps.
SliceOK == run \in {"scan", "sleep"} => due = {}

\* The queued deliveries of a session some call has acquired are not in the heap.
Parked == \A d \in pending : sess[d] \in exclusive => d \notin heap

\* A call that acquired a session has it, and no other call does.
Held ==
  \A c \in Caller : pc[c] \in Holding =>
    /\ call[c].s \in exclusive
    /\ \A b \in Caller : pc[b] \in Holding /\ call[b].s = call[c].s => b = c

\* While a call drives its session, a queued delivery of it is running only if
\* the caller itself is attempting it.
Alone ==
  \A c \in Caller : Drives(c) =>
    \A d \in pending : sess[d] = call[c].s /\ d \in running => Holds(c, d)

IInv == OneHolder /\ Fresh /\ SliceOK /\ Parked /\ Held /\ Alone

\* A delivery just made is not queued, and the flag and the slice are as before.
LEMMA OwnSchedule ==
  ASSUME TypeInv, IInv, NEW s \in Session \cup {NoSession}, NEW ev \in Event,
         NEW delay \in Delays, NEW h \in Hooks, Schedule(s, ev, delay, h)
  PROVE  IInv'
<1> DEFINE d == last + 1
<1>1. /\ d \in Delivery /\ last' = d /\ fresh' = fresh \cup {d}
      /\ sess' = [sess EXCEPT ![d] = s]
      /\ UNCHANGED <<heap, pending, running, due, run, exclusive, call, pc, at>>
  BY DEF Schedule, NewDelivery, queueVars, schedVars, ownerVars, callVars, execVars
<1>2. d > last /\ \A x \in Delivery : x > d => x > last
  BY <1>1, DeliveryFacts DEF TypeInv, TypeOK
<1> HIDE DEF d
<1>3. d \notin heap \cup pending \cup running
  BY <1>1, <1>2 DEF IInv, Fresh
<1>4. Fresh'
  BY <1>1, <1>2, <1>3, DeliveryFacts DEF IInv, Fresh, TypeInv, TypeOK
<1>5. Parked' /\ Alone'
  BY <1>1, <1>3 DEF IInv, Parked, Alone, Drives, Holds, TypeInv, TypeOK
<1> QED
  BY <1>1, <1>4, <1>5 DEF IInv, OneHolder, Holds, SliceOK, Held

\* Queueing puts a delivery that was nowhere into the heap, or parks it.
LEMMA OwnQueueNew ==
  ASSUME TypeInv, IInv, NEW d \in fresh, QueueNew(d), Held',
         UNCHANGED <<due, run, exclusive, call>>,
         \A f \in Executor : \A x \in Delivery : Holds(f, x)' <=> Holds(f, x),
         \A c \in Caller : Drives(c)' => Drives(c),
         \A f \in Executor : pc'[f] = "scheduling" =>
           pc[f] = "scheduling" /\ at[f] # d,
         at' = at
  PROVE  IInv'
<1>1. /\ d \in Delivery /\ fresh' = fresh \ {d}
      /\ heap' = PushLocked(d, sess[d])
      /\ pending' \in SUBSET (pending \cup {d})
      /\ UNCHANGED <<last, sess, running>>
      /\ d \notin heap \cup pending \cup running /\ ~(d > last)
  BY DEF QueueNew, TypeInv, TypeOK, IInv, Fresh
<1>2. heap' = IF sess[d] \in exclusive THEN heap ELSE heap \cup {d}
  BY <1>1 DEF PushLocked
<1>3. OneHolder'
  BY <1>1, <1>2 DEF IInv, OneHolder
<1>4. Fresh' /\ SliceOK' /\ Parked'
  BY <1>1, <1>2 DEF IInv, Fresh, SliceOK, Parked
<1>5. Alone'
  BY <1>1 DEF IInv, Alone, Executor, TypeInv, TypeOK
<1> QED
  BY <1>3, <1>4, <1>5 DEF IInv

LEMMA OwnScheduleQueues ==
  ASSUME TypeInv, IInv, NEW d \in Delivery, ScheduleQueues(d)
  PROVE  IInv'
<1>1. /\ d \in fresh /\ QueueNew(d) /\ \A e \in Executor : at[e] # d
      /\ UNCHANGED <<due, run, exclusive, call, pc, at>>
  BY DEF ScheduleQueues, schedVars, ownerVars, callVars, execVars
<1>2. Held'
  BY <1>1 DEF IInv, Held
<1> QED
  BY <1>1, <1>2, OwnQueueNew DEF Holds, Drives

LEMMA OwnScan ==
  ASSUME TypeInv, IInv, Scan
  PROVE  IInv'
BY ConstantsAssumption, DeliveryFacts DEF TypeInv, TypeOK, AtOK, WorkerOK, CallOK,
   Attempting, Holding, Executor, IInv, OneHolder, Fresh, SliceOK, Parked, Held,
   Alone, Holds, Drives, CallRecord, Scan, clockVars, ownerVars, queueVars, delVars, newVars,
   schedVars, execVars, callVars

LEMMA OwnHand ==
  ASSUME TypeInv, IInv, NEW w \in Worker, Hand(w)
  PROVE  IInv'
BY ConstantsAssumption, DeliveryFacts DEF TypeInv, TypeOK, AtOK, WorkerOK, CallOK,
   Attempting, Holding, Executor, IInv, OneHolder, Fresh, SliceOK, Parked, Held,
   Alone, Holds, Drives, CallRecord, Hand, clockVars, ownerVars, queueVars, delVars, newVars,
   schedVars, execVars, callVars

LEMMA OwnSkipCanceled ==
  ASSUME TypeInv, IInv, NEW e \in Executor, SkipCanceled(e)
  PROVE  IInv'
BY ConstantsAssumption, DeliveryFacts DEF TypeInv, TypeOK, AtOK, WorkerOK, CallOK,
   Attempting, Holding, Executor, IInv, OneHolder, Fresh, SliceOK, Parked, Held,
   Alone, Holds, Drives, CallRecord, SkipCanceled, Return, Back, clockVars, ownerVars, queueVars, delVars, newVars,
   schedVars, execVars, callVars

LEMMA OwnTakeUp ==
  ASSUME TypeInv, IInv, NEW e \in Executor, TakeUp(e)
  PROVE  IInv'
BY ConstantsAssumption, DeliveryFacts DEF TypeInv, TypeOK, AtOK, WorkerOK, CallOK,
   Attempting, Holding, Executor, IInv, OneHolder, Fresh, SliceOK, Parked, Held,
   Alone, Holds, Drives, CallRecord, TakeUp, clockVars, ownerVars, queueVars, delVars,
   newVars, schedVars, execVars, callVars

LEMMA OwnStartAttempt ==
  ASSUME TypeInv, IInv, NEW e \in Executor, StartAttempt(e)
  PROVE  IInv'
BY ConstantsAssumption, DeliveryFacts DEF TypeInv, TypeOK, AtOK, WorkerOK, CallOK,
   Attempting, Holding, Executor, IInv, OneHolder, Fresh, SliceOK, Parked, Held,
   Alone, Holds, Drives, CallRecord, StartAttempt, clockVars, ownerVars, queueVars, delVars, newVars,
   schedVars, execVars, callVars

LEMMA OwnAnswer ==
  ASSUME TypeInv, IInv, NEW e \in Executor, NEW ok \in BOOLEAN, Answer(e, ok)
  PROVE  IInv'
BY ConstantsAssumption, DeliveryFacts DEF TypeInv, TypeOK, AtOK, WorkerOK, CallOK,
   Attempting, Holding, Executor, IInv, OneHolder, Fresh, SliceOK, Parked, Held,
   Alone, Holds, Drives, CallRecord, Answer, clockVars, ownerVars, queueVars, delVars, newVars,
   schedVars, execVars, callVars

LEMMA OwnSettle ==
  ASSUME TypeInv, IInv, NEW e \in Executor, Settle(e)
  PROVE  IInv'
<1> DEFINE d == at[e]
<1>1. d \in Delivery /\ Holds(e, d) /\ d \in running /\ d \notin due /\ d \notin heap
  BY DEF TypeInv, AtOK, IInv, OneHolder, Holds, Settle, Attempting
<1>2. /\ running' = running \ {d} /\ pending' \in SUBSET pending
      /\ heap' = heap \/ (heap' = heap \cup {d} /\ sess[d] \notin exclusive)
  BY DEF Settle, ClearRunning, Requeue, Retire, PushLocked
<1>3. /\ \A f \in Executor : f # e => at'[f] = at[f] /\ pc'[f] = pc[f]
      /\ pc'[e] \in {"callback", "idle", "drive"}
      /\ e \in Worker => pc'[e] \in {"callback", "idle"}
      /\ e \in Caller => pc'[e] \in {"callback", "drive"}
  BY ConstantsAssumption DEF Settle, Return, Back, TypeInv, TypeOK, Executor
<1>4. /\ pc[e] = "answered" /\ due' = due /\ last' = last /\ sess' = sess
      /\ fresh' = fresh /\ run' = run /\ exclusive' = exclusive /\ call' = call
  BY DEF Settle, schedVars, delVars, newVars, ownerVars, callVars
<1>5. \A x \in Delivery : \A f \in Executor :
        /\ Holds(f, x)' <=> Holds(f, x) /\ f # e
        /\ Holds(e, x) => x = d
  BY <1>3, <1>4 DEF Holds
<1> HIDE DEF d
<1>6. OneHolder'
  <2> SUFFICES ASSUME NEW x \in Delivery
               PROVE  /\ x \in running' <=>
                           x \in due' \/ \E f \in Executor : Holds(f, x)'
                      /\ x \in due' => \A f \in Executor : ~Holds(f, x)'
                      /\ \A f, g \in Executor :
                           Holds(f, x)' /\ Holds(g, x)' => f = g
                      /\ x \in heap' => x \notin running'
    BY DEF OneHolder
  <2>1. CASE x = d
    BY <1>1, <1>2, <1>4, <1>5, <2>1 DEF IInv, OneHolder
  <2>2. CASE x # d
    BY <1>2, <1>4, <1>5, <2>2 DEF IInv, OneHolder
  <2> QED
    BY <2>1, <2>2
<1>7. Fresh' /\ SliceOK' /\ Parked'
  BY <1>1, <1>2, <1>3, <1>4 DEF IInv, Fresh, SliceOK, Parked
<1>8. Held'
  BY <1>3, <1>4, ConstantsAssumption DEF IInv, Held, Holding, Executor
<1>9. Alone'
  <2> SUFFICES ASSUME NEW c \in Caller, Drives(c)', NEW x \in pending',
                      sess[x] = call[c].s, x \in running'
               PROVE  Holds(c, x)'
    BY <1>4 DEF Alone
  <2>1. Drives(c)
    BY <1>3, <1>4 DEF Drives, Executor
  <2>2. x \in pending /\ x \in running /\ x # d
    BY <1>2
  <2>3. Holds(c, x)
    BY <2>1, <2>2 DEF IInv, Alone
  <2>4. c # e
    BY <2>2, <2>3 DEF Holds, d
  <2> QED
    BY <2>2, <2>3, <2>4, <1>5 DEF TypeInv, TypeOK, Executor
<1> QED
  BY <1>6, <1>7, <1>8, <1>9 DEF IInv

LEMMA OwnCallback ==
  ASSUME TypeInv, IInv, NEW e \in Executor, Callback(e)
  PROVE  IInv'
<1>1. /\ \A f \in Executor : f # e => at'[f] = at[f] /\ pc'[f] = pc[f]
      /\ e \in Worker => pc'[e] \in {"idle", "scheduling"}
      /\ e \in Caller => pc'[e] \in {"drive", "scheduling"}
      /\ pc[e] = "callback"
      /\ UNCHANGED <<due, run, exclusive, call, heap, pending, running>>
  BY ConstantsAssumption
     DEF Callback, Return, Back, TypeInv, TypeOK, Executor, schedVars, ownerVars,
         callVars, queueVars
<1>2. \A x \in Delivery : \A f \in Executor : Holds(f, x)' <=> Holds(f, x)
  BY <1>1, ConstantsAssumption DEF Holds, Executor
<1>3. Held' /\ \A c \in Caller : Drives(c)' => Drives(c)
  BY <1>1, ConstantsAssumption DEF IInv, Held, Holding, Drives, Executor
<1>4. OneHolder' /\ SliceOK'
  BY <1>1, <1>2 DEF IInv, OneHolder, SliceOK
<1>5. CASE Return(e) /\ UNCHANGED delVars
  <2>1. UNCHANGED <<last, fresh, sess>>
    BY <1>5 DEF delVars, newVars
  <2>2. Parked' /\ Alone'
    BY <1>1, <1>2, <1>3, <2>1 DEF IInv, Parked, Alone, TypeInv, TypeOK, Executor
  <2>3. /\ pc'[e] # "scheduling" /\ at'[e] = NoDelivery
        /\ \A f \in Executor : pc[f] = "scheduling" => at[f] # NoDelivery
    BY <1>5, DeliveryFacts
       DEF Return, Back, TypeInv, TypeOK, IInv, Fresh
  <2>4. Fresh'
    BY <1>1, <2>1, <2>3 DEF IInv, Fresh
  <2> QED
    BY <1>3, <1>4, <2>2, <2>4 DEF IInv
<1>6. CASE \E ev \in Event, delay \in Delays, h \in Hooks :
             /\ NewDelivery(sess[at[e]], ev, delay, h)
             /\ at' = [at EXCEPT ![e] = last + 1]
             /\ pc' = [pc EXCEPT ![e] = "scheduling"]
  <2> DEFINE d == last + 1
  <2>1. /\ d \in Delivery /\ last' = d /\ fresh' = fresh \cup {d}
        /\ \A x \in Delivery : x # d => sess'[x] = sess[x]
        /\ at' = [at EXCEPT ![e] = d]
        /\ pc' = [pc EXCEPT ![e] = "scheduling"]
    BY <1>6 DEF NewDelivery, TypeInv, TypeOK
  <2>2. d > last /\ \A x \in Delivery : x > d => x > last
    BY <2>1, DeliveryFacts DEF TypeInv, TypeOK
  <2> HIDE DEF d
  <2>3. d \notin heap \cup pending \cup running
    BY <2>1, <2>2 DEF IInv, Fresh
  <2>4. Parked' /\ Alone'
    BY <1>1, <1>2, <1>3, <2>1, <2>3 DEF IInv, Parked, Alone, TypeInv, TypeOK, Executor
  <2>5. \A f \in Executor : pc[f] = "scheduling" => at[f] # d
    BY <2>2 DEF IInv, Fresh
  <2>6. /\ \A x \in Delivery : x > last' \/ x \in fresh' =>
             x \notin heap' \cup pending' \cup running'
        /\ \A x \in fresh' : ~(x > last')
    BY <1>1, <2>1, <2>2, <2>3, DeliveryFacts DEF IInv, Fresh, TypeInv, TypeOK
  <2>7. \A f \in Executor : pc'[f] = "scheduling" =>
          /\ at'[f] \in fresh'
          /\ \A g \in Executor : pc'[g] = "scheduling" /\ at'[g] = at'[f] => g = f
    BY <1>1, <2>1, <2>5 DEF IInv, Fresh, TypeInv, TypeOK
  <2> QED
    BY <1>3, <1>4, <2>4, <2>6, <2>7 DEF IInv, Fresh
<1> QED
  BY <1>5, <1>6 DEF Callback

LEMMA OwnCallbackQueues ==
  ASSUME TypeInv, IInv, NEW e \in Executor, CallbackQueues(e)
  PROVE  IInv'
<1>1. /\ pc[e] = "scheduling" /\ pc' = [pc EXCEPT ![e] = "callback"]
      /\ at[e] \in fresh /\ QueueNew(at[e])
      /\ \A f \in Executor : pc[f] = "scheduling" /\ at[f] = at[e] => f = e
      /\ UNCHANGED <<due, run, exclusive, call, at>>
  BY DEF CallbackQueues, schedVars, ownerVars, callVars, IInv, Fresh
<1>2. \A f \in Executor : \A x \in Delivery : Holds(f, x)' <=> Holds(f, x)
  BY <1>1 DEF Holds, TypeInv, TypeOK
<1>3. Held' /\ \A c \in Caller : Drives(c)' => Drives(c)
  BY <1>1 DEF IInv, Held, Holding, Drives, TypeInv, TypeOK, Executor
<1>4. \A f \in Executor : pc'[f] = "scheduling" =>
        pc[f] = "scheduling" /\ at[f] # at[e]
  BY <1>1 DEF TypeInv, TypeOK
<1> QED
  BY <1>1, <1>2, <1>3, <1>4, OwnQueueNew

LEMMA OwnBegin ==
  ASSUME TypeInv, IInv, NEW c \in Caller, NEW op \in {"advance", "deliver"}, NEW s \in Session,
         NEW by \in Nat, Begin(c, op, s, by)
  PROVE  IInv'
BY ConstantsAssumption, DeliveryFacts DEF TypeInv, TypeOK, AtOK, WorkerOK, CallOK,
   Attempting, Holding, Executor, IInv, OneHolder, Fresh, SliceOK, Parked, Held,
   Alone, Holds, Drives, CallRecord, Begin, HeapWithout, PendingOf, NewCall, clockVars, ownerVars, queueVars, delVars, newVars,
   schedVars, execVars, callVars

LEMMA OwnAcquired ==
  ASSUME TypeInv, IInv, NEW c \in Caller, Acquired(c)
  PROVE  IInv'
BY ConstantsAssumption, DeliveryFacts DEF TypeInv, TypeOK, AtOK, WorkerOK, CallOK,
   Attempting, Holding, Executor, IInv, OneHolder, Fresh, SliceOK, Parked, Held,
   Alone, Holds, Drives, CallRecord, Acquired, Busy, PendingOf, clockVars, ownerVars, queueVars, delVars, newVars,
   schedVars, execVars, callVars

LEMMA OwnAcquireTimeout ==
  ASSUME TypeInv, IInv, NEW c \in Caller, AcquireTimeout(c)
  PROVE  IInv'
BY ConstantsAssumption, DeliveryFacts DEF TypeInv, TypeOK, AtOK, WorkerOK, CallOK,
   Attempting, Holding, Executor, IInv, OneHolder, Fresh, SliceOK, Parked, Held,
   Alone, Holds, Drives, CallRecord, AcquireTimeout, AfterTimeout, clockVars, ownerVars, queueVars, delVars, newVars,
   schedVars, execVars, callVars

LEMMA OwnRelease ==
  ASSUME TypeInv, IInv, NEW c \in Caller, Release(c)
  PROVE  IInv'
BY ConstantsAssumption, DeliveryFacts DEF TypeInv, TypeOK, AtOK, WorkerOK, CallOK,
   Attempting, Holding, Executor, IInv, OneHolder, Fresh, SliceOK, Parked, Held,
   Alone, Holds, Drives, CallRecord, Release, Released, PendingOf, NoCall, NewCall, clockVars, ownerVars, queueVars, delVars, newVars,
   schedVars, execVars, callVars

LEMMA OwnGiveUp ==
  ASSUME TypeInv, IInv, NEW c \in Caller, GiveUp(c)
  PROVE  IInv'
BY ConstantsAssumption, DeliveryFacts DEF TypeInv, TypeOK, AtOK, WorkerOK, CallOK,
   Attempting, Holding, Executor, IInv, OneHolder, Fresh, SliceOK, Parked, Held,
   Alone, Holds, Drives, CallRecord, GiveUp, clockVars, ownerVars, queueVars, delVars, newVars,
   schedVars, execVars, callVars

LEMMA OwnCovered ==
  ASSUME TypeInv, IInv, NEW c \in Caller, Covered(c)
  PROVE  IInv'
BY ConstantsAssumption, DeliveryFacts DEF TypeInv, TypeOK, AtOK, WorkerOK, CallOK,
   Attempting, Holding, Executor, IInv, OneHolder, Fresh, SliceOK, Parked, Held,
   Alone, Holds, Drives, CallRecord, Covered, Driving, clockVars, ownerVars, queueVars, delVars, newVars,
   schedVars, execVars, callVars

LEMMA OwnPickNext ==
  ASSUME TypeInv, IInv, NEW c \in Caller, PickNext(c)
  PROVE  IInv'
<1>1. PICK d \in EarliestLocked(call[c].s) :
        running' = running \cup {d} /\ at' = [at EXCEPT ![c] = d]
  BY DEF PickNext
<1>2. d \in pending /\ sess[d] = call[c].s /\ d \notin running
  BY <1>1 DEF EarliestLocked, EarliestOf, Idle, PendingOf
<1>3. /\ pc[c] = "drive" /\ pc' = [pc EXCEPT ![c] = "check"]
      /\ heap' = heap /\ pending' = pending /\ sess' = sess /\ last' = last
      /\ due' = due /\ run' = run /\ exclusive' = exclusive /\ fresh' = fresh
  BY DEF PickNext, Driving, ownerVars, newVars, schedVars
<1>4. \A b \in Caller : call'[b].s = call[b].s
  BY DEF PickNext, TypeInv, TypeOK, CallRecord
<1>5. d \in Delivery /\ d \notin heap /\ d \notin due /\ \A f \in Executor : ~Holds(f, d)
  BY <1>2, <1>3 DEF TypeInv, TypeOK, IInv, OneHolder, Parked, Held, Holding
<1>6. \A x \in Delivery : \A f \in Executor :
        Holds(f, x)' <=> Holds(f, x) \/ (f = c /\ x = d)
  BY <1>1, <1>3, <1>5 DEF Holds, TypeInv, TypeOK, Executor
<1>7. OneHolder'
  BY <1>1, <1>3, <1>5, <1>6 DEF IInv, OneHolder, Executor
<1>8. Fresh' /\ SliceOK' /\ Parked'
  BY <1>1, <1>2, <1>3, <1>5
     DEF IInv, Fresh, SliceOK, Parked, TypeInv, TypeOK, Executor
<1>9. Held' /\ \A b \in Caller : Drives(b)' <=> Drives(b)
  BY <1>3, <1>4 DEF IInv, Held, Holding, Drives, TypeInv, TypeOK, Executor
<1>10. Alone'
  BY <1>1, <1>2, <1>3, <1>4, <1>6, <1>9
     DEF IInv, Alone, Held, Holding, Drives, TypeInv, TypeOK, Executor
<1> QED
  BY <1>7, <1>8, <1>9, <1>10 DEF IInv

LEMMA OwnFinish ==
  ASSUME TypeInv, IInv, NEW c \in Caller, Finish(c)
  PROVE  IInv'
BY ConstantsAssumption, DeliveryFacts DEF TypeInv, TypeOK, AtOK, WorkerOK, CallOK,
   Attempting, Holding, Executor, IInv, OneHolder, Fresh, SliceOK, Parked, Held,
   Alone, Holds, Drives, CallRecord, Finish, clockVars, ownerVars, queueVars, delVars, newVars,
   schedVars, execVars, callVars

LEMMA OwnDeliverNext ==
  ASSUME TypeInv, IInv, NEW c \in Caller, NEW item, DeliverNext(c, item)
  PROVE  IInv'
BY ConstantsAssumption, DeliveryFacts DEF TypeInv, TypeOK, AtOK, WorkerOK, CallOK,
   Attempting, Holding, Executor, IInv, OneHolder, Fresh, SliceOK, Parked, Held,
   Alone, Holds, Drives, CallRecord, DeliverNext, FindLocked, EarliestOf,
   Idle, PendingOf, clockVars, ownerVars, queueVars, delVars, newVars,
   schedVars, execVars, callVars

LEMMA OwnDeliverEnd ==
  ASSUME TypeInv, IInv, NEW c \in Caller, DeliverEnd(c)
  PROVE  IInv'
BY ConstantsAssumption, DeliveryFacts DEF TypeInv, TypeOK, AtOK, WorkerOK, CallOK,
   Attempting, Holding, Executor, IInv, OneHolder, Fresh, SliceOK, Parked, Held,
   Alone, Holds, Drives, CallRecord, DeliverEnd, clockVars, ownerVars, queueVars, delVars, newVars,
   schedVars, execVars, callVars

LEMMA OwnDrop ==
  ASSUME TypeInv, IInv, NEW c \in Caller, NEW op \in {"cancel", "reset"}, NEW dropped,
         NEW marked \in SUBSET Delivery, NEW ss, Drop(c, op, dropped, marked, ss)
  PROVE  IInv'
BY ConstantsAssumption, DeliveryFacts DEF TypeInv, TypeOK, AtOK, WorkerOK, CallOK,
   Attempting, Holding, Executor, IInv, OneHolder, Fresh, SliceOK, Parked, Held,
   Alone, Holds, Drives, CallRecord, Drop, NewCall, clockVars, ownerVars, queueVars, delVars, newVars,
   schedVars, execVars, callVars

LEMMA OwnMark ==
  ASSUME TypeInv, IInv, NEW c \in Caller, NEW d \in Delivery, Mark(c, d)
  PROVE  IInv'
BY ConstantsAssumption, DeliveryFacts DEF TypeInv, TypeOK, AtOK, WorkerOK, CallOK,
   Attempting, Holding, Executor, IInv, OneHolder, Fresh, SliceOK, Parked, Held,
   Alone, Holds, Drives, CallRecord, Mark, clockVars, ownerVars, queueVars, delVars, newVars,
   schedVars, execVars, callVars

LEMMA OwnCancelEnd ==
  ASSUME TypeInv, IInv, NEW c \in Caller, CancelEnd(c)
  PROVE  IInv'
BY ConstantsAssumption, DeliveryFacts DEF TypeInv, TypeOK, AtOK, WorkerOK, CallOK,
   Attempting, Holding, Executor, IInv, OneHolder, Fresh, SliceOK, Parked, Held,
   Alone, Holds, Drives, CallRecord, CancelEnd, NoCall, NewCall, clockVars, ownerVars, queueVars, delVars, newVars,
   schedVars, execVars, callVars

LEMMA OwnEnvironment ==
  ASSUME TypeInv, IInv, Environment
  PROVE  IInv'
<1>1. CASE \E s \in Session \cup {NoSession}, ev \in Event, delay \in Delays,
             h \in Hooks : Schedule(s, ev, delay, h)
  BY <1>1, OwnSchedule
<1>2. CASE StopDispatcher
  BY <1>2 DEF StopDispatcher, IInv, OneHolder, Fresh, SliceOK, Parked, Held, Alone,
     Holds, Drives, clockVars, ownerVars, queueVars, delVars, newVars, schedVars, execVars,
     callVars
<1>3. ASSUME NEW c \in Caller, NEW s \in Session, NEW by \in Windows,
             BeginAdvance(c, s, by)
      PROVE  IInv'
  BY <1>3, OwnBegin, ConstantsAssumption DEF BeginAdvance
<1>4. ASSUME NEW c \in Caller, NEW s \in Session, BeginDeliver(c, s)
      PROVE  IInv'
  BY <1>4, OwnBegin DEF BeginDeliver
<1>5. ASSUME NEW c \in Caller, NEW s \in Session, BeginCancel(c, s)
      PROVE  IInv'
  <2>1. PendingOf(s) \in SUBSET Delivery
    BY DEF TypeInv, TypeOK, PendingOf
  <2> QED
    BY <1>5, <2>1, OwnDrop DEF BeginCancel
<1>6. ASSUME NEW c \in Caller, BeginCancelAll(c)
      PROVE  IInv'
  <2>1. heap \cup pending \in SUBSET Delivery
    BY DEF TypeInv, TypeOK
  <2> QED
    BY <1>6, <2>1, OwnDrop DEF BeginCancelAll
<1> QED
  BY <1>1, <1>2, <1>3, <1>4, <1>5, <1>6 DEF Environment

LEMMA OwnNext ==
  ASSUME TypeInv, IInv, [Next]_vars
  PROVE  IInv'
<1> USE DEF clockVars, ownerVars, queueVars, delVars, newVars, schedVars, execVars, callVars
<1>1. CASE Tick
  BY <1>1 DEF Tick, IInv, OneHolder, Fresh, SliceOK, Parked, Held, Alone, Holds,
     Drives
<1>2. CASE Environment
  BY <1>2, OwnEnvironment
<1>3. CASE Arm
  BY <1>3 DEF Arm, IInv, OneHolder, Fresh, SliceOK, Parked, Held, Alone, Holds,
     Drives
<1>4. CASE Wakeup
  BY <1>4 DEF Wakeup, IInv, OneHolder, Fresh, SliceOK, Parked, Held, Alone, Holds,
     Drives
<1>5. CASE Exit
  BY <1>5 DEF Exit, IInv, OneHolder, Fresh, SliceOK, Parked, Held, Alone, Holds,
     Drives
<1>6. ASSUME NEW e \in Executor, AttemptStep(e)
      PROVE  IInv'
  BY <1>6, OwnSkipCanceled, OwnTakeUp, OwnStartAttempt, OwnAnswer, OwnSettle,
     OwnCallback, OwnCallbackQueues DEF AttemptStep
<1>7. ASSUME NEW c \in Caller, CallStep(c)
      PROVE  IInv'
  BY <1>7, OwnAcquired, OwnAcquireTimeout, OwnRelease, OwnGiveUp, OwnCovered,
     OwnPickNext, OwnFinish, OwnDeliverNext, OwnDeliverEnd, OwnMark, OwnCancelEnd
     DEF CallStep
<1>8. CASE UNCHANGED vars
  BY <1>8 DEF vars, IInv, OneHolder, Fresh, SliceOK, Parked, Held, Alone, Holds,
     Drives
<1> QED
  BY <1>1, <1>2, <1>3, <1>4, <1>5, <1>6, <1>7, <1>8, OwnScan, OwnHand,
     OwnScheduleQueues DEF Next, SchedulerStep

LEMMA OwnInit == Init => IInv
BY ConstantsAssumption, DeliveryFacts
   DEF Init, IInv, OneHolder, Fresh, SliceOK, Parked, Held, Alone, Holds, Drives,
       Holding, Executor

\* The inductive invariant holds in every reachable state.
THEOREM OwnershipInvariant == Spec => [](TypeInv /\ IInv)
<1>1. Init => TypeInv /\ IInv
  BY TypeInit, OwnInit
<1>2. TypeInv /\ IInv /\ [Next]_vars => (TypeInv /\ IInv)'
  BY TypeNext, OwnNext
<1> QED
  BY <1>1, <1>2, PTL DEF Spec

\* No delivery is attempted by two goroutines at a time, or queued again while
\* it is being attempted: acquire, release, the scheduler and the requeue of a
\* retry never hand one out twice.
THEOREM OneHolderHolds == Spec => []OneHolder
<1>1. IInv => OneHolder
  BY DEF IInv
<1> QED
  BY <1>1, OwnershipInvariant, PTL

\* A call that drives a session is alone with its queued deliveries, which is
\* what makes it safe to move their fireAt.
THEOREM DriveAloneHolds == Spec => []DriveAlone
<1>1. TypeInv /\ IInv => DriveAlone
  <2> SUFFICES ASSUME TypeInv, IInv, NEW c \in Caller, Drives(c)
               PROVE  /\ \A d \in PendingOf(call[c].s) :
                           /\ d \notin heap \cup due
                           /\ \A e \in Executor : Holds(e, d) => e = c
                      /\ \A b \in Caller :
                           Drives(b) /\ call[b].s = call[c].s => b = c
    BY DEF DriveAlone
  <2>1. /\ call[c].s \in exclusive
        /\ \A b \in Caller : Drives(b) /\ call[b].s = call[c].s => b = c
    BY DEF IInv, Held, Drives, Holding
  <2>2. ASSUME NEW d \in PendingOf(call[c].s)
        PROVE  d \notin heap \cup due /\ \A e \in Executor : Holds(e, d) => e = c
    <3>1. d \in Delivery /\ d \notin heap
      BY <2>1 DEF PendingOf, IInv, Parked, TypeInv, TypeOK
    <3>2. d \in running => Holds(c, d)
      BY DEF PendingOf, IInv, Alone
    <3> QED
      BY <3>1, <3>2 DEF IInv, OneHolder, Executor
  <2> QED
    BY <2>1, <2>2
<1> QED
  BY <1>1, OwnershipInvariant, PTL

\* Both together, as the runs check them: the drives are alone with their
\* deliveries because a delivery never has two holders.
THEOREM OwnershipHolds == Spec => []Ownership
<1>1. OneHolder /\ DriveAlone => Ownership
  BY DEF Ownership
<1> QED
  BY <1>1, OneHolderHolds, DriveAloneHolds, PTL

-----------------------------------------------------------------------------
(* No delivery is lost. *)

\* Nobody needs to come back to d: it is canceled, or some call will see to it.
Doomed(d) == d \in canceled \/ BeingCanceled(d)

\* Only CancelSession and CancelAll have deliveries left to mark.
MarksIdle == \A c \in Caller : pc[c] # "mark" => call[c].marks = {}

\* What an attempt goes on with is what it recorded, unless the delivery was
\* canceled in between.
OutcomeKept ==
  \A e \in Executor : pc[e] = "answered" =>
    /\ status[e] \in Final \cup {"retrying"}
    /\ at[e] \in canceled \/ journal[at[e]] = status[e]

\* A session's delivery, once queued, is in pending until it is settled or
\* canceled, so that the call that releases its session finds it there.
Queued ==
  \A d \in Delivery :
    /\ ~(d > last) /\ d \notin fresh /\ sess[d] \in Session /\ ~Doomed(d)
    /\ journal[d] \notin Final \/ d \in heap \cup running
    => d \in pending

\* NothingStranded, for d.
Kept ==
  \A d \in Delivery :
    ~(d > last) => Doomed(d) \/ journal[d] \in Final \/ Tracked(d)

SInv == MarksIdle /\ OutcomeKept /\ Queued /\ Kept

-----------------------------------------------------------------------------
(* A step that neither makes nor queues a delivery, nor answers an attempt. *)

Steady ==
  /\ last' = last /\ sess' = sess /\ fresh' = fresh
  /\ MarksIdle'
  /\ \A e \in Executor :
       pc'[e] = "answered" =>
         pc[e] = "answered" /\ at'[e] = at[e] /\ status'[e] = status[e]
  /\ \A d \in Delivery :
       /\ Doomed(d) => Doomed(d)'
       /\ d \in canceled => d \in canceled'
       /\ journal'[d] = journal[d] \/ d \in canceled'
       /\ d \in heap' \cup running' => d \in heap \cup running \cup pending
       /\ d \in pending =>
            d \in pending' \/ Doomed(d)'
              \/ (journal[d] \in Final /\ d \notin heap' \cup running')
       /\ Tracked(d) => Doomed(d)' \/ journal[d] \in Final \/ Tracked(d)'

LEMMA SteadyStep ==
  ASSUME TypeInv, SInv, Steady
  PROVE  SInv'
<1>1. OutcomeKept'
  BY DEF SInv, OutcomeKept, Steady, TypeInv, AtOK, Attempting
<1>2. Queued'
  BY DEF SInv, Queued, Steady, Doomed
<1>3. Kept'
  BY DEF SInv, Kept, Steady, Doomed
<1> QED
  BY <1>1, <1>2, <1>3 DEF SInv, Steady

\* Marks and cancellations that only grow keep doomed what is doomed.
LEMMA DoomedStays ==
  ASSUME \A b \in Caller : call[b].marks \subseteq call'[b].marks \cup canceled',
         canceled \subseteq canceled'
  PROVE  \A d : Doomed(d) => Doomed(d)'
BY DEF Doomed, BeingCanceled

\* Where neither calls nor the journal take part.
LEMMA DoomedSame ==
  ASSUME UNCHANGED <<call, canceled>>
  PROVE  \A d : Doomed(d)' <=> Doomed(d)
BY DEF Doomed, BeingCanceled

LEMMA SteadyScheduler ==
  ASSUME TypeInv, IInv, SInv, SchedulerStep
  PROVE  Steady
<1> USE DEF clockVars, ownerVars, queueVars, delVars, newVars, execVars, callVars
<1>0. UNCHANGED <<call, canceled>> /\ \A d : Doomed(d)' <=> Doomed(d)
  BY DoomedSame DEF SchedulerStep, Scan, Hand, Arm, Wakeup, Exit
<1>1. CASE Scan
  <2>1. \A d \in heap : d \in heap' \cup running' \/ d \in canceled
    BY <1>1 DEF Scan, TypeInv, TypeOK
  <2>2. heap' \subseteq heap /\ running \subseteq running'
        /\ running' \subseteq running \cup heap
    BY <1>1 DEF Scan
  <2>3. UNCHANGED <<pc, at, status, last, sess, fresh, journal, pending, exclusive, call>>
    BY <1>1 DEF Scan
  <2>4. MarksIdle'
    BY <2>3 DEF SInv, MarksIdle
  <2>5. \A d \in Delivery : Tracked(d) => Doomed(d)' \/ Tracked(d)'
    BY <2>1, <2>2, <2>3, <1>0 DEF Tracked, Doomed
  <2> QED
    BY <1>0, <2>2, <2>3, <2>4, <2>5 DEF Steady
<1>2. CASE Arm \/ Wakeup \/ Exit
  BY <1>0, <1>2 DEF Arm, Wakeup, Exit, Steady, SInv, MarksIdle, Tracked
<1>3. ASSUME NEW w \in Worker, Hand(w)
      PROVE  Steady
  <2>1. MarksIdle'
    BY <1>3, ConstantsAssumption DEF Hand, SInv, MarksIdle, TypeInv, TypeOK, Executor
  <2> QED
    BY <1>0, <1>3, <2>1 DEF Hand, Steady, Tracked, TypeInv, TypeOK, Executor
<1> QED
  BY <1>1, <1>2, <1>3 DEF SchedulerStep

-----------------------------------------------------------------------------
(* Attempts. *)

LEMMA SteadySkip ==
  ASSUME TypeInv, IInv, SInv, NEW e \in Executor, SkipCanceled(e)
  PROVE  Steady
<1> USE DEF clockVars, ownerVars, queueVars, delVars, newVars, execVars, callVars
<1>1. \A d : Doomed(d)' <=> Doomed(d)
  BY DoomedSame DEF SkipCanceled
<1>2. MarksIdle'
  BY DEF SkipCanceled, Return, Back, SInv, MarksIdle, TypeInv, TypeOK, Executor
<1> QED
  BY <1>1, <1>2 DEF SkipCanceled, Return, Back, Steady, Tracked, Doomed, TypeInv, TypeOK

LEMMA SteadyStart ==
  ASSUME TypeInv, IInv, SInv, NEW e \in Executor, TakeUp(e) \/ StartAttempt(e)
  PROVE  Steady
<1> USE DEF clockVars, ownerVars, queueVars, delVars, newVars, execVars, callVars
<1>1. \A d : Doomed(d)' <=> Doomed(d)
  BY DoomedSame DEF TakeUp, StartAttempt
<1>2. MarksIdle'
  BY DEF TakeUp, StartAttempt, SInv, MarksIdle, TypeInv, TypeOK, Executor
<1> QED
  BY <1>1, <1>2 DEF TakeUp, StartAttempt, Steady, Tracked, TypeInv, TypeOK

\* A retry goes back to the heap, or stays in pending for the call that drives
\* its session: it is there, unless it was canceled.
LEMMA SteadySettle ==
  ASSUME TypeInv, IInv, SInv, NEW e \in Executor, Settle(e)
  PROVE  Steady
<1>. PICK d \in Delivery : d = at[e]
  BY DEF TypeInv, AtOK, Attempting, Settle
<1>1. /\ d \in running /\ d \notin heap /\ ~(d > last) /\ d \notin fresh
      /\ pc[e] = "answered"
  BY DEF TypeInv, AtOK, Attempting, Settle, Holds, IInv, OneHolder, Fresh
<1>2. /\ status[e] \in Final \cup {"retrying"}
      /\ d \in canceled \/ journal[d] = status[e]
  BY <1>1 DEF SInv, OutcomeKept
<1>3. /\ UNCHANGED <<last, sess, fresh, journal, canceled, call, exclusive>>
      /\ running' = running \ {d}
      /\ pc'[e] \in {"callback", "idle", "drive"}
      /\ \A f \in Executor :
           f # e => pc'[f] = pc[f] /\ at'[f] = at[f] /\ status'[f] = status[f]
  BY DEF Settle, ClearRunning, Return, Back, delVars, newVars, callVars, ownerVars, TypeInv,
     TypeOK
<1>4. \A x : Doomed(x)' <=> Doomed(x)
  BY <1>3, DoomedSame
<1>5. \/ /\ status[e] = "retrying" /\ pending' = pending
         /\ heap' = IF sess[d] \in exclusive THEN heap ELSE heap \cup {d}
      \/ /\ status[e] # "retrying" /\ heap' = heap
         /\ pending' = pending \ {d}
  BY DEF Settle, Requeue, Retire, PushLocked
<1>6. MarksIdle'
  BY <1>1, <1>3 DEF SInv, MarksIdle, Executor
<1>7. \A x \in Delivery : x # d => (Tracked(x) => Tracked(x)')
  BY <1>3, <1>5 DEF Tracked
<1>8. Doomed(d)' \/ journal[d] \in Final \/ Tracked(d)'
  <2>1. CASE status[e] = "retrying" /\ ~Doomed(d)
    <3>1. sess[d] \in exclusive => d \in pending
      BY <1>1, <2>1 DEF SInv, Queued, TypeInv, TypeOK
    <3> QED
      BY <1>3, <1>5, <2>1, <3>1 DEF Tracked
  <2> QED
    BY <1>2, <1>4, <2>1 DEF Doomed
<1>9. d \in pending => \/ d \in pending' \/ Doomed(d)'
                       \/ journal[d] \in Final /\ d \notin heap' \cup running'
  BY <1>1, <1>2, <1>3, <1>4, <1>5 DEF Doomed
<1>10. \A x \in Delivery : x # d => (x \in pending => x \in pending')
  BY <1>5
<1>11. \A x \in Delivery :
         x \in heap' \cup running' => x \in heap \cup running \cup pending
  BY <1>1, <1>3, <1>5
<1> QED
  BY <1>3, <1>4, <1>6, <1>7, <1>8, <1>9, <1>10, <1>11 DEF Steady

\* The outcome is recorded while its delivery is running.
LEMMA StrandedAnswer ==
  ASSUME TypeInv, IInv, SInv, NEW e \in Executor, NEW ok \in BOOLEAN, Answer(e, ok)
  PROVE  SInv'
<1> DEFINE d == at[e]
           o == Outcome(ok, attempts[d])
<1>1. /\ d \in Delivery /\ Holds(e, d) /\ d \in running
      /\ \A f \in Executor : Holds(f, d) => f = e
  BY DEF TypeInv, AtOK, Attempting, Answer, Holds, IInv, OneHolder
<1>2. /\ pc' = [pc EXCEPT ![e] = "answered"] /\ status' = [status EXCEPT ![e] = o]
      /\ journal' = [journal EXCEPT ![d] = o]
      /\ UNCHANGED <<last, sess, fresh, at, canceled, call, exclusive, heap, pending, running>>
      /\ pc[e] = "sending"
  BY DEF Answer, queueVars, newVars, callVars, ownerVars
<1>3. o \in Final \cup {"retrying"}
  BY DEF Outcome, Final
<1> HIDE DEF d, o
<1>4. \A x : Doomed(x)' <=> Doomed(x)
  BY <1>2, DoomedSame
<1>5. MarksIdle'
  BY <1>2 DEF SInv, MarksIdle, TypeInv, TypeOK, Executor
<1>6. OutcomeKept'
  <2> SUFFICES ASSUME NEW f \in Executor, pc'[f] = "answered"
               PROVE  /\ status'[f] \in Final \cup {"retrying"}
                      /\ at[f] \in canceled \/ journal'[at[f]] = status'[f]
    BY <1>2 DEF OutcomeKept
  <2>1. CASE f = e
    BY <1>1, <1>2, <1>3, <2>1 DEF d, TypeInv, TypeOK
  <2>2. CASE f # e
    <3>1. pc[f] = "answered" /\ status'[f] = status[f]
      BY <1>2, <2>2 DEF TypeInv, TypeOK
    <3>2. at[f] # d
      BY <1>1, <2>2, <3>1 DEF Holds
    <3> QED
      BY <1>2, <3>1, <3>2 DEF SInv, OutcomeKept, TypeInv, TypeOK
  <2> QED
    BY <2>1, <2>2
<1>7. Queued'
  BY <1>1, <1>2, <1>4 DEF SInv, Queued, TypeInv, TypeOK
<1>8. Kept'
  BY <1>1, <1>2, <1>4 DEF SInv, Kept, Tracked, TypeInv, TypeOK
<1> QED
  BY <1>5, <1>6, <1>7, <1>8 DEF SInv

\* A new delivery is its Schedule's to queue.
LEMMA StrandedNew ==
  ASSUME TypeInv, IInv, SInv, NEW s \in Session \cup {NoSession}, NEW ev \in Event,
         NEW delay \in Delays, NEW h \in Hooks, NewDelivery(s, ev, delay, h),
         UNCHANGED <<call, exclusive, heap, pending, running>>, MarksIdle',
         \A e \in Executor :
           pc'[e] = "answered" =>
             pc[e] = "answered" /\ at'[e] = at[e] /\ status'[e] = status[e]
  PROVE  SInv'
<1>. PICK d \in Delivery : d = last + 1
  BY DEF NewDelivery
<1>1. /\ last' = d /\ fresh' = fresh \cup {d} /\ canceled' = canceled
      /\ journal' = [journal EXCEPT ![d] = "pending"]
      /\ sess' = [sess EXCEPT ![d] = s]
  BY DEF NewDelivery
<1>2. d > last /\ \A x \in Delivery : x > d <=> x > last /\ x # d
  BY <1>1, DeliveryFacts DEF TypeInv, TypeOK
<1>3. \A x : Doomed(x)' <=> Doomed(x)
  BY <1>1, DoomedSame
<1>4. \A e \in Executor : pc[e] = "answered" => at[e] # d /\ at[e] \in Delivery
  BY <1>2 DEF TypeInv, AtOK, Attempting, IInv, OneHolder, Fresh, Holds
<1>5. OutcomeKept'
  BY <1>1, <1>4 DEF SInv, OutcomeKept, TypeInv, TypeOK
<1>6. Queued'
  BY <1>1, <1>2, <1>3 DEF SInv, Queued, TypeInv, TypeOK
<1>7. \A x \in Delivery : x # d /\ Tracked(x) => Tracked(x)'
  BY <1>1 DEF Tracked, TypeInv, TypeOK
<1>8. Tracked(d)'
  BY <1>1 DEF Tracked
<1>9. Kept'
  BY <1>1, <1>2, <1>3, <1>7, <1>8 DEF SInv, Kept, TypeInv, TypeOK
<1> QED
  BY <1>5, <1>6, <1>9 DEF SInv

\* It goes to the heap, or waits in pending for the driving call.
LEMMA StrandedQueue ==
  ASSUME TypeInv, IInv, SInv, NEW d \in fresh, QueueNew(d),
         UNCHANGED <<call, exclusive>>, MarksIdle',
         \A e \in Executor :
           pc'[e] = "answered" =>
             pc[e] = "answered" /\ at'[e] = at[e] /\ status'[e] = status[e]
  PROVE  SInv'
<1>1. /\ d \in Delivery /\ fresh' = fresh \ {d}
      /\ UNCHANGED <<last, sess, journal, canceled, running>>
      /\ heap' = (IF sess[d] \in exclusive THEN heap ELSE heap \cup {d})
      /\ pending' = (IF sess[d] = NoSession THEN pending ELSE pending \cup {d})
  BY DEF QueueNew, PushLocked, TypeInv, TypeOK
<1>2. \A x : Doomed(x)' <=> Doomed(x)
  BY <1>1, DoomedSame
<1>3. OutcomeKept'
  BY <1>1 DEF SInv, OutcomeKept
<1>4. NoSession \notin Session /\ exclusive \subseteq Session
  BY ConstantsAssumption DEF TypeInv, TypeOK
<1>5. Queued'
  BY <1>1, <1>2, <1>4 DEF SInv, Queued
<1>6. \A x \in Delivery : x # d /\ Tracked(x) => Tracked(x)'
  BY <1>1 DEF Tracked
<1>7. Tracked(d)'
  BY <1>1, <1>4 DEF Tracked
<1>8. Kept'
  BY <1>1, <1>2, <1>6, <1>7 DEF SInv, Kept
<1> QED
  BY <1>3, <1>5, <1>8 DEF SInv

-----------------------------------------------------------------------------
(* Calls. *)

\* acquire takes a session's deliveries out of the heap; they are in pending.
LEMMA SteadyBegin ==
  ASSUME TypeInv, IInv, SInv, NEW c \in Caller, NEW op, NEW s \in Session,
         NEW by, Begin(c, op, s, by)
  PROVE  Steady
<1>1. /\ UNCHANGED <<last, sess, fresh, journal, canceled, pending, running, at, status>>
      /\ exclusive' = exclusive \cup {s}
      /\ heap' = heap \ PendingOf(s)
      /\ pc' = [pc EXCEPT ![c] = "waiting"]
      /\ call' = [call EXCEPT ![c] = NewCall(op, s, by, {})]
      /\ pc[c] = "idle"
  BY DEF Begin, HeapWithout, delVars, newVars
<1>2. call[c].marks = {} /\ call'[c].marks = {}
      /\ \A b \in Caller : b # c => call'[b] = call[b]
  BY <1>1 DEF SInv, MarksIdle, NewCall, TypeInv, TypeOK
<1>3. \A d : Doomed(d) => Doomed(d)'
  BY <1>1, <1>2, DoomedStays
<1>4. MarksIdle'
  BY <1>1, <1>2 DEF SInv, MarksIdle, TypeInv, TypeOK, Executor
<1>5. \A d \in Delivery : Tracked(d) => Tracked(d)'
  BY <1>1 DEF Tracked, PendingOf
<1> QED
  BY <1>1, <1>3, <1>4, <1>5 DEF Steady, TypeInv, TypeOK, Executor

\* release gives what waited in pending back to the heap.
LEMMA SteadyRelease ==
  ASSUME TypeInv, IInv, SInv, NEW c \in Caller, Release(c)
  PROVE  Steady
<1> DEFINE s == call[c].s
<1>1. /\ UNCHANGED <<last, sess, fresh, journal, canceled, pending, running, at, status>>
      /\ exclusive' = exclusive \ {s}
      /\ heap' = heap \cup Released(s)
      /\ pc' = [pc EXCEPT ![c] = "idle"]
      /\ call' = [call EXCEPT ![c] = NoCall]
      /\ pc[c] = "release"
  BY DEF Release, delVars, newVars
<1>2. call[c].marks = {} /\ call'[c].marks = {}
      /\ \A b \in Caller : b # c => call'[b] = call[b]
  BY <1>1 DEF SInv, MarksIdle, NoCall, NewCall, TypeInv, TypeOK
<1> HIDE DEF s
<1>3. \A d : Doomed(d) => Doomed(d)'
  BY <1>1, <1>2, DoomedStays
<1>4. MarksIdle'
  BY <1>1, <1>2 DEF SInv, MarksIdle, TypeInv, TypeOK, Executor
<1>5. \A d \in Delivery : Tracked(d) => Tracked(d)' \/ Doomed(d)'
  BY <1>1 DEF Tracked, Released, PendingOf, Doomed
<1>6. \A d \in Delivery : d \in heap' => d \in heap \cup pending
  BY <1>1 DEF Released, PendingOf
<1> QED
  BY <1>1, <1>3, <1>4, <1>5, <1>6 DEF Steady, TypeInv, TypeOK, Executor

\* CancelSession and CancelAll take out of pending what they will mark.
LEMMA SteadyDrop ==
  ASSUME TypeInv, IInv, SInv, NEW c \in Caller, NEW op, NEW dropped, NEW marked,
         NEW ss, dropped \subseteq marked, Drop(c, op, dropped, marked, ss)
  PROVE  Steady
<1>1. /\ UNCHANGED <<last, sess, fresh, journal, canceled, heap, running, exclusive, at, status>>
      /\ pending' = pending \ dropped
      /\ pc' = [pc EXCEPT ![c] = "mark"]
      /\ call' = [call EXCEPT ![c] = NewCall(op, NoSession, 0, marked)]
      /\ pc[c] = "idle"
  BY DEF Drop, delVars, newVars
<1>2. call[c].marks = {} /\ call'[c].marks = marked
      /\ \A b \in Caller : b # c => call'[b] = call[b]
  BY <1>1 DEF SInv, MarksIdle, NewCall, TypeInv, TypeOK
<1>3. \A d : Doomed(d) => Doomed(d)'
  BY <1>1, <1>2, DoomedStays
<1>4. \A d \in dropped : Doomed(d)'
  BY <1>2 DEF Doomed, BeingCanceled
<1>5. MarksIdle'
  BY <1>1, <1>2 DEF SInv, MarksIdle, TypeInv, TypeOK, Executor
<1>6. \A d \in Delivery : Tracked(d) => Tracked(d)' \/ Doomed(d)'
  BY <1>1, <1>4 DEF Tracked
<1> QED
  BY <1>1, <1>3, <1>4, <1>5, <1>6 DEF Steady, TypeInv, TypeOK, Executor

\* A mark leaves the call's list only when the delivery is canceled.
LEMMA SteadyMark ==
  ASSUME TypeInv, IInv, SInv, NEW c \in Caller, NEW d \in Delivery, Mark(c, d)
  PROVE  Steady
<1>1. /\ UNCHANGED <<last, sess, fresh, heap, pending, running, exclusive, pc, at, status>>
      /\ canceled \subseteq canceled' /\ d \in canceled'
      /\ \A x \in Delivery : journal'[x] = journal[x] \/ x \in canceled'
      /\ pc[c] = "mark"
  BY DEF Mark, Markable, ownerVars, queueVars, newVars, execVars, TypeInv, TypeOK
<1>2. /\ call[c].marks \subseteq call'[c].marks \cup {d}
      /\ \A b \in Caller : b # c => call'[b] = call[b]
  BY DEF Mark, TypeInv, TypeOK, CallRecord
<1>3. \A x : Doomed(x) => Doomed(x)'
  BY <1>1, <1>2, DoomedStays
<1>4. MarksIdle'
  BY <1>1, <1>2 DEF SInv, MarksIdle
<1> QED
  BY <1>1, <1>3, <1>4 DEF Steady, Tracked

LEMMA SteadyCancelEnd ==
  ASSUME TypeInv, IInv, SInv, NEW c \in Caller, CancelEnd(c)
  PROVE  Steady
<1>1. /\ UNCHANGED <<last, sess, fresh, journal, canceled, heap, pending, running, exclusive,
                     at, status>>
      /\ pc' = [pc EXCEPT ![c] = "idle"]
      /\ call' = [call EXCEPT ![c] = NoCall] /\ call[c].marks = {}
  BY DEF CancelEnd, delVars, newVars, queueVars, ownerVars
<1>2. call'[c].marks = {} /\ \A b \in Caller : b # c => call'[b] = call[b]
  BY <1>1 DEF NoCall, NewCall, TypeInv, TypeOK
<1>3. \A d : Doomed(d) => Doomed(d)'
  BY <1>1, <1>2, DoomedStays
<1>4. MarksIdle'
  BY <1>1, <1>2 DEF SInv, MarksIdle, TypeInv, TypeOK, Executor
<1> QED
  BY <1>1, <1>3, <1>4 DEF Steady, Tracked, TypeInv, TypeOK, Executor

\* A driving call has nothing marked, and marks nothing.
LEMMA PickKeepsMarks ==
  ASSUME TypeInv, NEW c \in Caller, PickNext(c)
  PROVE  \A b \in Caller : call'[b].marks = call[b].marks
BY DEF PickNext, TypeInv, TypeOK, CallRecord

LEMMA ItemKeepsMarks ==
  ASSUME TypeInv, NEW c \in Caller, NEW item, DeliverNext(c, item)
  PROVE  \A b \in Caller : call'[b].marks = call[b].marks
BY DEF DeliverNext, callVars

LEMMA EdgesKeepMarks ==
  ASSUME TypeInv, NEW c \in Caller,
         \/ Acquired(c) \/ AcquireTimeout(c) \/ GiveUp(c) \/ Covered(c)
         \/ Finish(c) \/ DeliverEnd(c)
  PROVE  \A b \in Caller : call'[b].marks = call[b].marks
BY DEF Acquired, AcquireTimeout, AfterTimeout, GiveUp, Covered, Finish, DeliverEnd,
   callVars, TypeInv, TypeOK, CallRecord

\* The other steps of a call change neither marks nor what is tracked, but for a
\* delivery it begins to attempt.
LEMMA SteadyDrive ==
  ASSUME TypeInv, IInv, SInv, NEW c \in Caller,
         \/ Acquired(c) \/ AcquireTimeout(c) \/ GiveUp(c) \/ Covered(c)
         \/ PickNext(c) \/ Finish(c) \/ DeliverEnd(c)
         \/ \E item \in Event \cup Delivery : DeliverNext(c, item)
  PROVE  Steady
<1> USE DEF clockVars, ownerVars, queueVars, delVars, newVars, callVars
<1>1. /\ UNCHANGED <<last, sess, fresh, journal, canceled, heap, pending, exclusive, status>>
      /\ running \subseteq running' /\ running' \subseteq running \cup pending
  <2>1. ASSUME PickNext(c)
        PROVE  /\ UNCHANGED <<last, sess, fresh, journal, canceled, heap, pending, exclusive, status>>
               /\ running \subseteq running' /\ running' \subseteq running \cup pending
    BY <2>1 DEF PickNext, EarliestLocked, EarliestOf, Idle, PendingOf
  <2>2. ASSUME NEW item \in Event \cup Delivery, DeliverNext(c, item)
        PROVE  /\ UNCHANGED <<last, sess, fresh, journal, canceled, heap, pending, exclusive, status>>
               /\ running \subseteq running' /\ running' \subseteq running \cup pending
    BY <2>2 DEF DeliverNext, FindLocked, EarliestOf, Idle, PendingOf
  <2> QED
    BY <2>1, <2>2 DEF Acquired, AcquireTimeout, GiveUp, Covered, Finish, DeliverEnd
<1>2. /\ pc[c] # "mark" /\ pc'[c] \notin {"mark", "answered"}
      /\ \A e \in Executor : e # c => pc'[e] = pc[e] /\ at'[e] = at[e]
  BY DEF Acquired, AcquireTimeout, AfterTimeout, GiveUp, Covered, PickNext, Driving,
     Finish, DeliverEnd, DeliverNext, TypeInv, TypeOK, Executor
<1>3. \A b \in Caller : call'[b].marks = call[b].marks
  BY PickKeepsMarks, ItemKeepsMarks, EdgesKeepMarks
<1>4. \A d : Doomed(d) => Doomed(d)'
  BY <1>1, <1>3, DoomedStays
<1>5. MarksIdle'
  BY <1>2, <1>3 DEF SInv, MarksIdle, Executor
<1> QED
  BY <1>1, <1>2, <1>4, <1>5 DEF Steady, Tracked, Executor

-----------------------------------------------------------------------------
(* Every step. *)

LEMMA StrandedEnvironment ==
  ASSUME TypeInv, IInv, SInv, Environment
  PROVE  SInv'
<1>1. ASSUME NEW s \in Session \cup {NoSession}, NEW ev \in Event,
             NEW delay \in Delays, NEW h \in Hooks, Schedule(s, ev, delay, h)
      PROVE  SInv'
  <2>1. MarksIdle'
    BY <1>1 DEF Schedule, execVars, callVars, SInv, MarksIdle
  <2> QED
    BY <1>1, <2>1, StrandedNew
       DEF Schedule, execVars, callVars, ownerVars, queueVars
<1>2. StopDispatcher => Steady
  BY DoomedSame DEF StopDispatcher, Steady, SInv, MarksIdle, Tracked, queueVars,
     delVars, newVars, ownerVars, execVars, callVars
<1>3. ASSUME NEW c \in Caller, NEW s \in Session,
             \/ \E by \in Windows : BeginAdvance(c, s, by)
             \/ BeginDeliver(c, s)
      PROVE  Steady
  BY <1>3, SteadyBegin DEF BeginAdvance, BeginDeliver
<1>4. ASSUME NEW c \in Caller,
             \/ \E s \in Session : BeginCancel(c, s)
             \/ BeginCancelAll(c)
      PROVE  Steady
  <2>1. pending \subseteq heap \cup pending
    OBVIOUS
  <2> QED
    BY <1>4, <2>1, SteadyDrop DEF BeginCancel, BeginCancelAll
<1> QED
  BY <1>1, <1>2, <1>3, <1>4, SteadyStep DEF Environment

LEMMA StrandedScheduleQueues ==
  ASSUME TypeInv, IInv, SInv, NEW d \in Delivery, ScheduleQueues(d)
  PROVE  SInv'
<1>1. /\ d \in fresh /\ QueueNew(d)
      /\ UNCHANGED <<call, exclusive, pc, at, status>>
  BY DEF ScheduleQueues, callVars, ownerVars, execVars
<1>2. MarksIdle'
  BY <1>1 DEF SInv, MarksIdle
<1> QED
  BY <1>1, <1>2, StrandedQueue

LEMMA StrandedCallback ==
  ASSUME TypeInv, IInv, SInv, NEW e \in Executor, Callback(e) \/ CallbackQueues(e)
  PROVE  SInv'
<1>1. /\ \A f \in Executor : f # e => pc'[f] = pc[f] /\ at'[f] = at[f]
                                      /\ status'[f] = status[f]
      /\ pc[e] \in {"callback", "scheduling"}
      /\ pc'[e] \in {"idle", "drive", "callback", "scheduling"}
      /\ UNCHANGED <<call, exclusive>>
      /\ sess[at[e]] \in Session \cup {NoSession}
  BY DEF Callback, CallbackQueues, Return, Back, callVars, ownerVars, TypeInv, TypeOK,
     AtOK
<1>2. MarksIdle'
  BY <1>1 DEF SInv, MarksIdle, Executor
<1>3. CASE Callback(e) /\ \E ev \in Event, delay \in Delays, h \in Hooks :
                            NewDelivery(sess[at[e]], ev, delay, h)
  BY <1>1, <1>2, <1>3, StrandedNew DEF Callback, queueVars
<1>4. CASE Callback(e) /\ UNCHANGED delVars
  <2>1. \A d : Doomed(d)' <=> Doomed(d)
    BY <1>1, <1>4, DoomedSame DEF delVars, newVars
  <2>2. Steady
    BY <1>1, <1>2, <1>4, <2>1
       DEF Callback, Steady, Tracked, delVars, newVars, queueVars
  <2> QED
    BY <2>2, SteadyStep
<1>5. CASE CallbackQueues(e)
  <2>1. at[e] \in fresh /\ QueueNew(at[e])
    BY <1>5 DEF CallbackQueues, IInv, Fresh
  <2> QED
    BY <1>1, <1>2, <2>1, StrandedQueue
<1> QED
  BY <1>3, <1>4, <1>5 DEF Callback

LEMMA StrandedNext ==
  ASSUME TypeInv, IInv, SInv, [Next]_vars
  PROVE  SInv'
<1>1. Tick \/ UNCHANGED vars => Steady
  BY DoomedSame DEF Tick, vars, Steady, SInv, MarksIdle, Tracked, queueVars,
     delVars, newVars, ownerVars, execVars, callVars
<1>2. ASSUME NEW e \in Executor, AttemptStep(e)
      PROVE  SInv'
  BY <1>2, SteadySkip, SteadyStart, SteadySettle, SteadyStep, StrandedAnswer,
     StrandedCallback DEF AttemptStep
<1>3. ASSUME NEW c \in Caller, CallStep(c)
      PROVE  SInv'
  <2>1. Steady
    BY <1>3, SteadyDrive, SteadyRelease, SteadyMark, SteadyCancelEnd DEF CallStep
  <2> QED
    BY <2>1, SteadyStep
<1> QED
  BY <1>1, <1>2, <1>3, SteadyScheduler, SteadyStep, StrandedEnvironment,
     StrandedScheduleQueues DEF Next

LEMMA StrandedInit == Init => SInv
<1> SUFFICES ASSUME Init
             PROVE  SInv
  OBVIOUS
<1>1. MarksIdle /\ OutcomeKept
  BY DEF Init, NoCall, NewCall, MarksIdle, OutcomeKept
<1>2. Queued /\ Kept
  BY DEF Init, Queued, Kept, Delivery
<1> QED
  BY <1>1, <1>2 DEF SInv

\* The inductive invariant holds in every reachable state.
THEOREM StrandedInvariant == Spec => []SInv
<1>1. TypeInv /\ IInv /\ SInv /\ [Next]_vars => SInv'
  BY StrandedNext
<1> QED
  BY <1>1, StrandedInit, OwnershipInvariant, PTL DEF Spec

\* No delivery is lost: release, the requeue of a retry and the cancellations
\* leave none outside heap, pending, slice and workers (clock.go:196).
THEOREM NothingStrandedHolds == Spec => []NothingStranded
<1>1. TypeInv /\ SInv => NothingStranded
  <2> SUFFICES ASSUME TypeInv, SInv, NEW d \in 1 .. last
               PROVE  \/ d \in canceled \/ journal[d] \in Final
                      \/ Tracked(d) \/ BeingCanceled(d)
    BY DEF NothingStranded
  <2>1. d \in Delivery /\ ~(d > last)
    BY ConstantsAssumption DEF TypeInv, TypeOK, Delivery
  <2> QED
    BY <2>1 DEF SInv, Kept, Doomed
<1> QED
  BY <1>1, StrandedInvariant, TypeInvariant, PTL

-----------------------------------------------------------------------------
(* The wake-up token. *)

\* From the scan on, what is in the heap is due no earlier than the scan found,
\* unless a token tells of what came later.
WakeInv ==
  run \in {"hand", "sleep"} /\ ~wake =>
    \A d \in heap \ canceled : fireAt[d] >= scanned + wait

\* A step that queues nothing without a token, and moves nothing in the heap.
LEMMA WakeKept ==
  ASSUME WakeInv,
         run' \in {"hand", "sleep"} /\ ~wake' =>
           /\ run \in {"hand", "sleep"} /\ ~wake
           /\ scanned' = scanned /\ wait' = wait
           /\ \A d \in heap' : d \in heap /\ fireAt'[d] = fireAt[d],
         canceled \subseteq canceled'
  PROVE  WakeInv'
BY DEF WakeInv

LEMMA WakeScan ==
  ASSUME TypeInv, Scan
  PROVE  WakeInv'
<1>1. /\ now \in Int /\ fireAt \in [Delivery -> Int] /\ heap \subseteq Delivery
      /\ scanned' = now /\ fireAt' = fireAt /\ canceled' = canceled
  BY DEF Scan, delVars, newVars, TypeInv, TypeOK
<1>2. CASE heap' = {}
  BY <1>2 DEF WakeInv
<1>3. CASE \E first \in heap : /\ wait' = fireAt[first] - now
                               /\ heap' = {d \in heap : fireAt[d] >= fireAt[first]}
  BY <1>1, <1>3 DEF WakeInv
<1> QED
  BY <1>2, <1>3 DEF Scan

\* What a call moves is not in the heap: its session is parked.
LEMMA HeapUnshifted ==
  ASSUME TypeInv, IInv, NEW c \in Caller, pc[c] \in Holding,
         NEW by, ShiftLocked(call[c].s, by)
  PROVE  \A d \in heap : fireAt'[d] = fireAt[d]
<1>1. \A d \in heap : d \in Delivery /\ d \notin PendingOf(call[c].s)
  BY DEF TypeInv, TypeOK, IInv, Held, Parked, PendingOf
<1> QED
  BY <1>1 DEF ShiftLocked

LEMMA WakeAnswer ==
  ASSUME TypeInv, IInv, WakeInv, NEW e \in Executor, NEW ok \in BOOLEAN, Answer(e, ok)
  PROVE  WakeInv'
<1>1. at[e] \in Delivery /\ at[e] \notin heap
  BY DEF Answer, TypeInv, AtOK, Attempting, IInv, OneHolder, Holds
<1>2. \A d \in heap : fireAt'[d] = fireAt[d]
  BY <1>1 DEF Answer, TypeInv, TypeOK
<1> QED
  BY <1>2, WakeKept DEF Answer, queueVars, schedVars

LEMMA WakeCall ==
  ASSUME TypeInv, IInv, WakeInv, NEW c \in Caller, CallStep(c)
  PROVE  WakeInv'
<1> USE DEF clockVars, ownerVars, queueVars, delVars, newVars, schedVars
<1>1. CASE \/ Acquired(c) \/ AcquireTimeout(c) \/ GiveUp(c) \/ Covered(c) \/ DeliverEnd(c)
           \/ CancelEnd(c) \/ \E item \in Event \cup Delivery : DeliverNext(c, item)
  BY <1>1, WakeKept DEF Acquired, AcquireTimeout, GiveUp, Covered, DeliverEnd, CancelEnd,
     DeliverNext
<1>2. CASE Release(c)
  BY <1>2, WakeKept DEF Release
<1>3. CASE PickNext(c) \/ Finish(c)
  <2>1. \A d \in heap : fireAt'[d] = fireAt[d]
    BY <1>3, HeapUnshifted DEF PickNext, Driving, Finish, Holding
  <2>2. UNCHANGED <<run, wake, scanned, wait, heap, canceled>>
    BY <1>3 DEF PickNext, Finish
  <2> QED
    BY <2>1, <2>2, WakeKept
<1>4. ASSUME NEW d \in Delivery, Mark(c, d)
      PROVE  WakeInv'
  <2>1. canceled \subseteq canceled'
    BY <1>4 DEF Mark
  <2>2. UNCHANGED <<run, wake, scanned, wait, heap, fireAt>>
    BY <1>4 DEF Mark
  <2> QED
    BY <2>1, <2>2, WakeKept
<1> QED
  BY <1>1, <1>2, <1>3, <1>4 DEF CallStep

LEMMA WakeNext ==
  ASSUME TypeInv, IInv, WakeInv, [Next]_vars
  PROVE  WakeInv'
<1> USE DEF clockVars, ownerVars, queueVars, delVars, newVars, schedVars
<1>1. CASE Tick \/ UNCHANGED vars
  BY <1>1, WakeKept DEF Tick, vars
<1>2. CASE Environment
  <2>1. CASE \E s \in Session \cup {NoSession}, ev \in Event, delay \in Delays,
                h \in Hooks : Schedule(s, ev, delay, h)
    <3>1. \A d \in heap : d \in Delivery /\ d # last + 1
      BY <2>1, DeliveryFacts DEF Schedule, NewDelivery, TypeInv, TypeOK, IInv, Fresh
    <3> QED
      BY <2>1, <3>1, WakeKept DEF Schedule, NewDelivery, TypeInv, TypeOK
  <2>2. CASE StopDispatcher
    BY <2>2, WakeKept DEF StopDispatcher
  <2>3. ASSUME NEW c \in Caller, NEW op, NEW s, NEW by, Begin(c, op, s, by)
        PROVE  WakeInv'
    BY <2>3, WakeKept DEF Begin, HeapWithout
  <2>4. ASSUME NEW c \in Caller, NEW op, NEW dropped, NEW marked, NEW ss,
               Drop(c, op, dropped, marked, ss)
        PROVE  WakeInv'
    BY <2>4, WakeKept DEF Drop
  <2> QED
    BY <1>2, <2>1, <2>2, <2>3, <2>4
       DEF Environment, BeginAdvance, BeginDeliver, BeginCancel, BeginCancelAll
<1>3. CASE SchedulerStep
  <2>1. CASE Arm \/ Wakeup \/ Exit \/ \E w \in Worker : Hand(w)
    BY <2>1, WakeKept DEF Arm, Wakeup, Exit, Hand
  <2> QED
    BY <1>3, <2>1, WakeScan DEF SchedulerStep
<1>4. ASSUME NEW e \in Executor, AttemptStep(e)
      PROVE  WakeInv'
  <2>1. CASE SkipCanceled(e) \/ TakeUp(e) \/ StartAttempt(e)
    BY <2>1, WakeKept DEF SkipCanceled, TakeUp, StartAttempt
  <2>2. CASE Settle(e)
    BY <2>2, WakeKept DEF Settle, Requeue, Retire
  <2>3. CASE Callback(e)
    <3>1. CASE UNCHANGED delVars
      BY <2>3, <3>1, WakeKept DEF Callback
    <3>2. CASE \E ev \in Event, delay \in Delays, h \in Hooks :
                 NewDelivery(sess[at[e]], ev, delay, h)
      <4>1. \A d \in heap : d \in Delivery /\ d # last + 1
        BY <3>2, DeliveryFacts DEF NewDelivery, TypeInv, TypeOK, IInv, Fresh
      <4> QED
        BY <2>3, <3>2, <4>1, WakeKept DEF Callback, NewDelivery, TypeInv, TypeOK
    <3> QED
      BY <2>3, <3>1, <3>2 DEF Callback
  <2>4. CASE CallbackQueues(e)
    BY <2>4, WakeKept DEF CallbackQueues, QueueNew
  <2> QED
    BY <1>4, <2>1, <2>2, <2>3, <2>4, WakeAnswer DEF AttemptStep
<1>5. ASSUME NEW d \in Delivery, ScheduleQueues(d)
      PROVE  WakeInv'
  BY <1>5, WakeKept DEF ScheduleQueues, QueueNew
<1> QED
  BY <1>1, <1>2, <1>3, <1>4, <1>5, WakeCall DEF Next

\* The scheduler never sleeps past a queued delivery without a token in wake:
\* whatever is pushed after its scan leaves one (kick, dispatcher.go).
THEOREM NoLostWakeupHolds == Spec => []NoLostWakeup
<1>1. Init => WakeInv
  BY DEF Init, WakeInv
<1>2. TypeInv /\ IInv /\ WakeInv /\ [Next]_vars => WakeInv'
  BY WakeNext
<1>3. WakeInv => NoLostWakeup
  BY DEF WakeInv, NoLostWakeup
<1> QED
  BY <1>1, <1>2, <1>3, OwnershipInvariant, PTL DEF Spec

=============================================================================
