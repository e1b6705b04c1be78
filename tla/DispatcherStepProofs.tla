------------------------ MODULE DispatcherStepProofs ------------------------
(***************************************************************************)
(* Proofs about what the steps of Dispatcher may do, for any number of     *)
(* sessions, workers, callers, deliveries and calls: scheduler, workers    *)
(* and driving calls together implement Outbox, the clocks of sessions     *)
(* leave what is queued where it is in session time, Advance fires in      *)
(* order and leaves nothing in its window, and a reset forgets nothing.    *)
(***************************************************************************)
EXTENDS DispatcherProofs, FiniteSetTheorems, WellFoundedInduction

-----------------------------------------------------------------------------
(* The refinement of Outbox. *)

\* What the dispatcher may still send.
Live == heap \cup pending \cup running \cup fresh

\* An executor goes on with an attempt, and has not settled it.
Amid == {"ready", "sending", "answered"}
Underway(d) == \E e \in Executor : pc[e] \in Amid /\ at[e] = d

\* A record exists exactly for what was scheduled, and nothing else was sent.
Recorded ==
  \A d \in Delivery : /\ journal[d] = "none" <=> d > last
                      /\ d > last => attempts[d] = 0

\* Only what was scheduled is about to be marked canceled.
MarksOK == \A c \in Caller : \A d \in call[c].marks : ~(d > last)

\* What is live, not canceled and not taken up is open and within its budget.
Sendable ==
  \A d \in Live \ canceled :
    ~Underway(d) => journal[d] \in {"pending", "retrying"}
                    /\ attempts[d] < MaxAttempts

\* An attempt that will requeue its delivery has recorded it as retrying.
WillRetry ==
  \A e \in Executor :
    pc[e] = "answered" /\ status[e] = "retrying" /\ at[e] \notin canceled =>
      journal[at[e]] = "retrying" /\ attempts[at[e]] < MaxAttempts

RInv == Recorded /\ MarksOK /\ Sendable /\ WillRetry

-----------------------------------------------------------------------------
(* Steps Outbox does not see. *)

\* Nothing new becomes live, no attempt begins or ends.
Quiet ==
  /\ journal' = journal /\ attempts' = attempts
  /\ last' = last /\ canceled' = canceled
  /\ Live' \subseteq Live
  /\ \A e \in Executor :
       /\ pc'[e] \in Amid <=> pc[e] \in Amid
       /\ pc[e] \in Amid => /\ pc'[e] = pc[e] /\ at'[e] = at[e]
                            /\ status'[e] = status[e]
  /\ \A c \in Caller : call'[c].marks \subseteq call[c].marks \cup Live

LEMMA LiveOld == ASSUME TypeInv, IInv, NEW d \in Live
                 PROVE  d \in Delivery /\ ~(d > last)
BY DEF TypeInv, TypeOK, IInv, Fresh, Live

LEMMA QuietStep ==
  ASSUME TypeInv, IInv, RInv, Quiet
  PROVE  RInv' /\ UNCHANGED Out!outboxVars
<1>1. AtPlace("ready")' = AtPlace("ready") /\ AtPlace("sending")' = AtPlace("sending")
  BY DEF Quiet, AtPlace, Amid
<1>2. \A d : Underway(d)' <=> Underway(d)
  BY DEF Quiet, Underway
<1>3. Recorded' /\ MarksOK'
  BY LiveOld DEF RInv, Recorded, MarksOK, Quiet
<1>4. Sendable'
  BY <1>2 DEF RInv, Sendable, Quiet
<1>5. WillRetry'
  BY DEF RInv, WillRetry, Quiet, Amid
<1> QED
  BY <1>1, <1>3, <1>4, <1>5 DEF RInv, Quiet, Out!outboxVars

\* The scheduler only moves deliveries about.
LEMMA QuietScheduler ==
  ASSUME TypeInv, SchedulerStep
  PROVE  Quiet
<1> USE DEF clockVars, ownerVars, queueVars, delVars, newVars, execVars, callVars
<1>1. CASE Scan
  BY <1>1 DEF Scan, Quiet, Live, Amid
<1>2. CASE Arm \/ Wakeup \/ Exit
  BY <1>2 DEF Arm, Wakeup, Exit, Quiet, Live, Amid
<1>3. ASSUME NEW w \in Worker, Hand(w)
      PROVE  Quiet
  BY <1>3, ConstantsAssumption
     DEF Hand, Quiet, Live, Amid, TypeInv, TypeOK, Executor
<1> QED
  BY <1>1, <1>2, <1>3 DEF SchedulerStep

\* Nor does a call before and after its attempts.
LEMMA QuietCall ==
  ASSUME TypeInv, NEW c \in Caller,
         \/ Acquired(c) \/ AcquireTimeout(c) \/ Release(c)
         \/ GiveUp(c) \/ Covered(c) \/ PickNext(c) \/ Finish(c)
         \/ \E item \in Event \cup Delivery : DeliverNext(c, item)
         \/ DeliverEnd(c) \/ CancelEnd(c)
  PROVE  Quiet
<1> USE ConstantsAssumption DEF clockVars, ownerVars, queueVars, delVars, newVars, execVars,
        callVars, Quiet, Live, Amid, TypeInv, TypeOK, Executor, CallRecord
<1>1. CASE Acquired(c) \/ AcquireTimeout(c) \/ GiveUp(c) \/ Covered(c)
  <2>1. \A b \in Caller : call'[b].marks = call[b].marks
    BY <1>1, EdgesKeepMarks DEF AcquireTimeout, Covered
  <2> QED
    BY <1>1, <2>1 DEF Acquired, AcquireTimeout, AfterTimeout, GiveUp, Covered, Driving
<1>2. CASE Release(c)
  BY <1>2 DEF Release, Released, PendingOf, NoCall, NewCall
<1>3. CASE PickNext(c)
  <2>1. PICK d \in EarliestLocked(call[c].s) :
          running' = running \cup {d} /\ at' = [at EXCEPT ![c] = d]
    BY <1>3 DEF PickNext
  <2>2. d \in Live
    BY <2>1 DEF EarliestLocked, EarliestOf, Idle, PendingOf
  <2>3. \A b \in Caller : call'[b].marks = call[b].marks
    BY <1>3, PickKeepsMarks
  <2> QED
    BY <1>3, <2>1, <2>2, <2>3 DEF PickNext, Driving
<1>4. CASE Finish(c) \/ DeliverEnd(c)
  BY <1>4 DEF Finish, DeliverEnd
<1>5. ASSUME NEW item, DeliverNext(c, item)
      PROVE  Quiet
  BY <1>5 DEF DeliverNext, FindLocked, EarliestOf, Idle, PendingOf
<1>6. CASE CancelEnd(c)
  BY <1>6 DEF CancelEnd, NoCall, NewCall
<1> QED
  BY <1>1, <1>2, <1>3, <1>4, <1>5, <1>6

\* The beginnings of calls.
LEMMA QuietBegin ==
  ASSUME TypeInv, NEW c \in Caller, NEW op, NEW s, NEW by, Begin(c, op, s, by)
  PROVE  Quiet
BY ConstantsAssumption DEF Begin, HeapWithout, NewCall, clockVars, delVars, newVars, Quiet,
   Live, Amid, TypeInv, TypeOK, Executor

LEMMA QuietDrop ==
  ASSUME TypeInv, NEW c \in Caller, NEW op, NEW dropped, NEW marked, NEW ss,
         marked \subseteq Live, Drop(c, op, dropped, marked, ss)
  PROVE  Quiet
BY ConstantsAssumption DEF Drop, NewCall, delVars, newVars, Quiet, Live, Amid, TypeInv,
   TypeOK, Executor

-----------------------------------------------------------------------------
(* Steps Outbox sees. *)

\* A delivery is Outbox's as soon as it is made: queueing it is no news.
LEMMA QuietQueue ==
  ASSUME TypeInv, NEW d \in fresh, QueueNew(d), call' = call,
         \A e \in Executor : /\ pc'[e] \in Amid <=> pc[e] \in Amid
                             /\ pc[e] \in Amid => /\ pc'[e] = pc[e]
                                                  /\ at'[e] = at[e]
                                                  /\ status'[e] = status[e]
  PROVE  Quiet
<1>1. Live' \subseteq Live
  BY DEF QueueNew, PushLocked, Live
<1> QED
  BY <1>1 DEF QueueNew, Quiet

\* Schedule's delivery is enqueued.
LEMMA EnqueueStep ==
  ASSUME TypeInv, IInv, RInv, NEW s \in Session \cup {NoSession}, NEW ev \in Event,
         NEW delay \in Delays, NEW h \in Hooks, NewDelivery(s, ev, delay, h),
         UNCHANGED <<call, heap, pending, running>>,
         \A e \in Executor : /\ pc'[e] \in Amid <=> pc[e] \in Amid
                             /\ pc[e] \in Amid => /\ pc'[e] = pc[e]
                                                  /\ at'[e] = at[e]
                                                  /\ status'[e] = status[e]
  PROVE  RInv' /\ Out!OutboxNext
<1> DEFINE d == last + 1
<1>1. /\ d \in Delivery /\ last' = d /\ attempts' = attempts
      /\ canceled' = canceled /\ journal' = [journal EXCEPT ![d] = "pending"]
      /\ Live' \subseteq Live \cup {d}
  BY DEF NewDelivery, Live
<1>2. d > last /\ \A x \in Delivery : x > d <=> x > last /\ x # d
  BY <1>1, DeliveryFacts DEF TypeInv, TypeOK
<1>3. journal[d] = "none" /\ attempts[d] = 0
  BY <1>1, <1>2 DEF RInv, Recorded
<1> HIDE DEF d
<1>4. /\ AtPlace("ready")' = AtPlace("ready") /\ AtPlace("sending")' = AtPlace("sending")
      /\ \A x : Underway(x)' <=> Underway(x)
  BY DEF AtPlace, Underway, Amid
<1>5. Out!Enqueue(d)
  BY <1>1, <1>3, <1>4 DEF Out!Enqueue
<1>6. \A e \in Executor : pc[e] \in Amid => at[e] # d
  BY <1>2, LiveOld DEF TypeInv, AtOK, Attempting, Amid, IInv, OneHolder, Holds, Live
<1>7. Recorded'
  BY <1>1, <1>2, <1>3 DEF RInv, Recorded, TypeInv, TypeOK
<1>8. MarksOK'
  BY <1>1, <1>2 DEF RInv, MarksOK, TypeInv, TypeOK, CallRecord
<1>9. Sendable'
  BY <1>1, <1>3, <1>4, ConstantsAssumption DEF RInv, Sendable, TypeInv, TypeOK
<1>10. WillRetry'
  BY <1>1, <1>6 DEF RInv, WillRetry, Amid, TypeInv, TypeOK
<1> QED
  BY <1>1, <1>5, <1>7, <1>8, <1>9, <1>10 DEF RInv, Out!OutboxNext

\* An attempt that goes on takes its delivery up: it is open, nobody else has taken
\* it up, and its budget is not spent.
LEMMA TakeStep ==
  ASSUME TypeInv, IInv, RInv, NEW e \in Executor, TakeUp(e)
  PROVE  RInv' /\ Out!OutboxNext
<1> DEFINE d == at[e]
<1>1. /\ d \in Delivery /\ Holds(e, d) /\ d \in running /\ d \notin canceled
      /\ \A f \in Executor : Holds(f, d) => f = e
  BY DEF TypeInv, AtOK, Attempting, TakeUp, MayStart, Holds, IInv, OneHolder
<1>2. d \in Live
  BY <1>1 DEF Live
<1>3. /\ pc[e] = "check" /\ pc' = [pc EXCEPT ![e] = "ready"] /\ at' = at
      /\ attempts' = attempts /\ journal' = journal
      /\ last' = last /\ canceled' = canceled /\ status' = status
      /\ call' = call /\ Live' = Live
  BY DEF TakeUp, delVars, newVars, queueVars, callVars, Live
<1>0. at[e] = d
  BY DEF d
<1> HIDE DEF d
<1>4. ~Underway(d)
  BY <1>1, <1>3 DEF Underway, Amid, Holds
<1>5. journal[d] \in {"pending", "retrying"} /\ attempts[d] < MaxAttempts
  BY <1>1, <1>2, <1>4 DEF RInv, Sendable
<1>6. /\ AtPlace("ready")' = AtPlace("ready") \cup {d} /\ d \notin AtPlace("ready")
      /\ AtPlace("sending")' = AtPlace("sending") /\ d \notin AtPlace("sending")
  BY <1>0, <1>1, <1>3, <1>4 DEF AtPlace, Underway, Amid, TypeInv, TypeOK
<1>7. Out!Take(d)
  BY <1>1, <1>3, <1>5, <1>6 DEF Out!Take, Out!Open
<1>8. \A x : Underway(x)' <=> Underway(x) \/ x = d
  BY <1>0, <1>1, <1>3 DEF Underway, Amid, TypeInv, TypeOK
<1>9. Recorded' /\ MarksOK'
  BY <1>3 DEF RInv, Recorded, MarksOK
<1>10. Sendable'
  BY <1>3, <1>8 DEF RInv, Sendable
<1>11. WillRetry'
  BY <1>3 DEF RInv, WillRetry, TypeInv, TypeOK
<1> QED
  BY <1>1, <1>7, <1>9, <1>10, <1>11 DEF RInv, Out!OutboxNext

\* What was taken up is sent.
LEMMA SendStep ==
  ASSUME TypeInv, IInv, RInv, NEW e \in Executor, StartAttempt(e)
  PROVE  RInv' /\ Out!OutboxNext
<1> DEFINE d == at[e]
<1>1. /\ d \in Delivery /\ Holds(e, d) /\ d \in running
      /\ \A f \in Executor : Holds(f, d) => f = e
  BY DEF TypeInv, AtOK, Attempting, StartAttempt, Holds, IInv, OneHolder
<1>2. d \in Live /\ ~(d > last)
  BY <1>1, LiveOld DEF Live
<1>3. /\ pc[e] = "ready" /\ pc' = [pc EXCEPT ![e] = "sending"] /\ at' = at
      /\ attempts' = [attempts EXCEPT ![d] = @ + 1] /\ journal' = journal
      /\ last' = last /\ canceled' = canceled /\ status' = status
      /\ call' = call /\ Live' = Live
  BY DEF StartAttempt, newVars, queueVars, callVars, Live
<1>0. at[e] = d
  BY DEF d
<1> HIDE DEF d
<1>4. /\ AtPlace("ready")' = AtPlace("ready") \ {d} /\ d \in AtPlace("ready")
      /\ AtPlace("sending")' = AtPlace("sending") \cup {d}
  <2>1. \A f \in Executor : pc[f] = "ready" /\ at[f] = d => f = e
    BY <1>1 DEF Holds
  <2> QED
    BY <1>0, <1>1, <1>3, <2>1 DEF AtPlace, TypeInv, TypeOK
<1>5. Out!Send(d)
  BY <1>3, <1>4 DEF Out!Send
<1>6. Underway(d) /\ \A x : Underway(x)' <=> Underway(x)
  BY <1>0, <1>3 DEF Underway, Amid, TypeInv, TypeOK
<1>7. Recorded' /\ MarksOK'
  BY <1>2, <1>3 DEF RInv, Recorded, MarksOK, TypeInv, TypeOK
<1>8. Sendable'
  BY <1>3, <1>6 DEF RInv, Sendable, TypeInv, TypeOK
<1>9. WillRetry'
  <2>1. \A f \in Executor : pc'[f] = "answered" => pc[f] = "answered" /\ at[f] # d
    BY <1>1, <1>3 DEF Holds, TypeInv, TypeOK
  <2> QED
    BY <1>3, <2>1 DEF RInv, WillRetry, TypeInv, TypeOK
<1> QED
  BY <1>1, <1>5, <1>7, <1>8, <1>9 DEF RInv, Out!OutboxNext

\* The answer is recorded, once, with the outcome its budget allows.
LEMMA RecordStep ==
  ASSUME TypeInv, IInv, RInv, NEW e \in Executor, NEW ok \in BOOLEAN, Answer(e, ok)
  PROVE  RInv' /\ Out!OutboxNext
<1> DEFINE d == at[e]
           o == Outcome(ok, attempts[d])
<1>1. /\ d \in Delivery /\ Holds(e, d) /\ d \in running
      /\ \A f \in Executor : Holds(f, d) => f = e
  BY DEF TypeInv, AtOK, Attempting, Answer, Holds, IInv, OneHolder
<1>2. d \in Live /\ ~(d > last)
  BY <1>1, LiveOld DEF Live
<1>3. /\ pc[e] = "sending" /\ pc' = [pc EXCEPT ![e] = "answered"] /\ at' = at
      /\ attempts' = attempts /\ journal' = [journal EXCEPT ![d] = o]
      /\ last' = last /\ canceled' = canceled
      /\ status' = [status EXCEPT ![e] = o] /\ call' = call /\ Live' = Live
  BY DEF Answer, newVars, queueVars, callVars, Live
<1>4. o \in Out!Outcomes(d) /\ o # "none"
      /\ (o = "retrying" => attempts[d] < MaxAttempts)
  BY DEF Outcome, Out!Outcomes
<1> HIDE DEF d, o
<1>5. /\ AtPlace("sending")' = AtPlace("sending") \ {d} /\ d \in AtPlace("sending")
      /\ AtPlace("ready")' = AtPlace("ready")
  <2>1. \A f \in Executor : pc[f] = "sending" /\ at[f] = d => f = e
    BY <1>1 DEF Holds
  <2>2. at[e] = d
    BY DEF d
  <2> QED
    BY <1>1, <1>3, <2>1, <2>2 DEF AtPlace, TypeInv, TypeOK
<1>6. Out!Record(d)
  BY <1>3, <1>4, <1>5 DEF Out!Record
<1>7. \A x : Underway(x)' <=> Underway(x)
  BY <1>3 DEF Underway, Amid, TypeInv, TypeOK
<1>8. Underway(d)
  BY <1>3 DEF Underway, Amid, d
<1>9. Recorded' /\ MarksOK'
  BY <1>1, <1>2, <1>3, <1>4 DEF RInv, Recorded, MarksOK, TypeInv, TypeOK
<1>10. Sendable'
  BY <1>3, <1>7, <1>8 DEF RInv, Sendable, TypeInv, TypeOK
<1>11. WillRetry'
  <2> SUFFICES ASSUME NEW f \in Executor, pc'[f] = "answered",
                      status'[f] = "retrying", at[f] \notin canceled
               PROVE  journal'[at[f]] = "retrying" /\ attempts[at[f]] < MaxAttempts
    BY <1>3 DEF WillRetry
  <2>1. CASE f = e
    BY <1>1, <1>3, <1>4, <2>1 DEF d, TypeInv, TypeOK
  <2>2. CASE f # e
    <3>1. pc[f] = "answered" /\ status[f] = "retrying"
      BY <1>3, <2>2 DEF TypeInv, TypeOK
    <3>2. at[f] # d
      BY <1>1, <2>2, <3>1 DEF Holds
    <3> QED
      BY <1>3, <3>1, <3>2 DEF RInv, WillRetry, TypeInv, TypeOK
  <2> QED
    BY <2>1, <2>2
<1> QED
  BY <1>1, <1>6, <1>9, <1>10, <1>11 DEF RInv, Out!OutboxNext

\* Settling an attempt is no news: what is requeued was recorded as retrying.
LEMMA SettleStep ==
  ASSUME TypeInv, IInv, RInv, NEW e \in Executor, Settle(e)
  PROVE  RInv' /\ UNCHANGED Out!outboxVars
<1> DEFINE d == at[e]
<1>1. /\ d \in Delivery /\ Holds(e, d) /\ d \in running
      /\ d \notin heap
      /\ \A f \in Executor : Holds(f, d) => f = e
  BY DEF TypeInv, AtOK, Attempting, Settle, Holds, IInv, OneHolder
<1>2. /\ pc[e] = "answered" /\ pc'[e] \notin Amid
      /\ \A f \in Executor :
           f # e => pc'[f] = pc[f] /\ at'[f] = at[f] /\ status'[f] = status[f]
      /\ attempts' = attempts /\ journal' = journal
      /\ last' = last /\ canceled' = canceled /\ call' = call
  BY DEF Settle, Return, Back, Amid, delVars, newVars, callVars, TypeInv, TypeOK
<1>3. /\ Live' \subseteq Live
      /\ d \in Live' => d \in pending' \cup heap'
      /\ d \in Live' => status[e] = "retrying"
  BY <1>1 DEF Settle, ClearRunning, Requeue, Retire, PushLocked, Live, IInv, Fresh,
     delVars, newVars
<1> HIDE DEF d
<1>4. AtPlace("ready")' = AtPlace("ready") /\ AtPlace("sending")' = AtPlace("sending")
  BY <1>2 DEF AtPlace, Amid
<1>5. \A x : x # d => (Underway(x)' <=> Underway(x))
  BY <1>2 DEF Underway, d
<1>6. Recorded' /\ MarksOK'
  BY <1>2 DEF RInv, Recorded, MarksOK
<1>7. Sendable'
  <2> SUFFICES ASSUME NEW x \in Live', x \notin canceled, ~Underway(x)'
               PROVE  journal[x] \in {"pending", "retrying"}
                      /\ attempts[x] < MaxAttempts
    BY <1>2 DEF Sendable
  <2>1. CASE x = d
    BY <1>2, <1>3, <2>1 DEF RInv, WillRetry, d
  <2>2. CASE x # d
    BY <1>3, <1>5, <2>2 DEF RInv, Sendable
  <2> QED
    BY <2>1, <2>2
<1>8. WillRetry'
  BY <1>2 DEF RInv, WillRetry, Amid
<1> QED
  BY <1>2, <1>4, <1>6, <1>7, <1>8 DEF RInv, Out!outboxVars

\* A mark cancels a delivery, or finds it canceled.
LEMMA CancelStep ==
  ASSUME TypeInv, IInv, RInv, NEW c \in Caller, NEW d \in Delivery, Mark(c, d)
  PROVE  RInv' /\ [Out!OutboxNext]_Out!outboxVars
<1>1. /\ d \in call[c].marks /\ ~(d > last) /\ journal[d] # "none"
  BY DEF Mark, RInv, MarksOK, Recorded
<1>2. /\ pc' = pc /\ at' = at /\ status' = status /\ attempts' = attempts
      /\ last' = last /\ Live' = Live
      /\ \A b \in Caller : call'[b].marks \subseteq call[b].marks
  BY DEF Mark, newVars, execVars, queueVars, Live, TypeInv, TypeOK, CallRecord
<1>3. /\ AtPlace("ready")' = AtPlace("ready") /\ AtPlace("sending")' = AtPlace("sending")
      /\ \A x : Underway(x)' <=> Underway(x)
  BY <1>2 DEF AtPlace, Underway
<1>4. \/ /\ canceled' = canceled \cup {d}
         /\ journal' = [journal EXCEPT ![d] = "canceled"]
      \/ UNCHANGED <<canceled, journal>>
  BY DEF Mark
<1>5. [Out!OutboxNext]_Out!outboxVars
  BY <1>1, <1>2, <1>3, <1>4 DEF Out!OutboxNext, Out!Cancel, Out!outboxVars
<1>6. Recorded' /\ MarksOK'
  BY <1>1, <1>2, <1>4 DEF RInv, Recorded, MarksOK, TypeInv, TypeOK
<1>7. Sendable'
  BY <1>2, <1>3, <1>4, LiveOld DEF RInv, Sendable, TypeInv, TypeOK
<1>8. WillRetry'
  <2> SUFFICES ASSUME NEW e \in Executor, pc[e] = "answered",
                      status[e] = "retrying", at[e] \notin canceled'
               PROVE  journal'[at[e]] = "retrying" /\ attempts[at[e]] < MaxAttempts
    BY <1>2 DEF WillRetry
  <2>1. journal[at[e]] = "retrying" /\ attempts[at[e]] < MaxAttempts
    BY <1>4 DEF RInv, WillRetry
  <2>2. at[e] \in Delivery
    BY DEF TypeInv, AtOK, Attempting
  <2> QED
    BY <1>4, <2>1, <2>2 DEF TypeInv, TypeOK
<1> QED
  BY <1>5, <1>6, <1>7, <1>8 DEF RInv

-----------------------------------------------------------------------------
(* Every step. *)

LEMMA OutEnvironment ==
  ASSUME TypeInv, IInv, RInv, Environment
  PROVE  RInv' /\ [Out!OutboxNext]_Out!outboxVars
<1>1. ASSUME NEW s \in Session \cup {NoSession}, NEW ev \in Event,
             NEW delay \in Delays, NEW h \in Hooks, Schedule(s, ev, delay, h)
      PROVE  RInv' /\ Out!OutboxNext
  BY <1>1, EnqueueStep DEF Schedule, queueVars, execVars, callVars
<1>2. StopDispatcher => Quiet
  BY DEF StopDispatcher, Quiet, Live, queueVars, delVars, newVars, execVars, callVars
<1>3. ASSUME NEW c \in Caller, NEW s \in Session,
             \/ \E by \in Windows : BeginAdvance(c, s, by)
             \/ BeginDeliver(c, s)
      PROVE  Quiet
  BY <1>3, QuietBegin DEF BeginAdvance, BeginDeliver
<1>4. ASSUME NEW c \in Caller,
             \/ \E s \in Session : BeginCancel(c, s)
             \/ BeginCancelAll(c)
      PROVE  Quiet
  <2>1. heap \cup pending \subseteq Live /\ \A s : PendingOf(s) \subseteq Live
    BY DEF Live, PendingOf
  <2> QED
    BY <1>4, <2>1, QuietDrop DEF BeginCancel, BeginCancelAll
<1> QED
  BY <1>1, <1>2, <1>3, <1>4, QuietStep DEF Environment

LEMMA OutAttempt ==
  ASSUME TypeInv, IInv, RInv, NEW e \in Executor, AttemptStep(e)
  PROVE  RInv' /\ [Out!OutboxNext]_Out!outboxVars
<1>1. CASE SkipCanceled(e)
  <2>1. Quiet
    BY <1>1 DEF SkipCanceled, Return, Back, Quiet, Live, Amid, delVars, newVars, callVars,
       TypeInv, TypeOK
  <2> QED
    BY <2>1, QuietStep
<1>2. CASE Callback(e)
  <2>1. \A f \in Executor : /\ pc'[f] \in Amid <=> pc[f] \in Amid
                            /\ pc[f] \in Amid => /\ pc'[f] = pc[f]
                                                 /\ at'[f] = at[f]
                                                 /\ status'[f] = status[f]
    BY <1>2 DEF Callback, Return, Back, Amid, TypeInv, TypeOK
  <2>2. call' = call /\ sess[at[e]] \in Session \cup {NoSession}
    BY <1>2 DEF Callback, callVars, TypeInv, TypeOK, AtOK
  <2>3. CASE \E ev \in Event, delay \in Delays, h \in Hooks :
               NewDelivery(sess[at[e]], ev, delay, h)
    BY <1>2, <2>1, <2>2, <2>3, EnqueueStep DEF Callback, queueVars
  <2>4. CASE UNCHANGED delVars
    <3>1. Quiet
      BY <1>2, <2>1, <2>2, <2>4 DEF Callback, Quiet, Live, delVars, newVars, queueVars
    <3> QED
      BY <3>1, QuietStep
  <2> QED
    BY <1>2, <2>3, <2>4 DEF Callback
<1>3. CASE CallbackQueues(e)
  <2>1. at[e] \in fresh /\ QueueNew(at[e]) /\ call' = call
    BY <1>3 DEF CallbackQueues, callVars, IInv, Fresh
  <2>2. Quiet
    BY <1>3, <2>1, QuietQueue DEF CallbackQueues, Amid, TypeInv, TypeOK
  <2> QED
    BY <2>2, QuietStep
<1> QED
  BY <1>1, <1>2, <1>3, TakeStep, SendStep, RecordStep, SettleStep DEF AttemptStep

LEMMA OutNext ==
  ASSUME TypeInv, IInv, RInv, [Next]_vars
  PROVE  RInv' /\ [Out!OutboxNext]_Out!outboxVars
<1>1. Tick \/ UNCHANGED vars => Quiet
  BY DEF Tick, vars, Quiet, Live, queueVars, delVars, newVars, execVars, callVars
<1>2. ASSUME NEW c \in Caller, CallStep(c)
      PROVE  RInv' /\ [Out!OutboxNext]_Out!outboxVars
  BY <1>2, QuietCall, QuietStep, CancelStep DEF CallStep
<1>3. ASSUME NEW d \in Delivery, ScheduleQueues(d)
      PROVE  Quiet
  BY <1>3, QuietQueue DEF ScheduleQueues, execVars, callVars
<1> QED
  BY <1>1, <1>2, <1>3, QuietStep, QuietScheduler, OutEnvironment, OutAttempt DEF Next

LEMMA OutInit == Init => RInv /\ Out!OutboxInit
<1> SUFFICES ASSUME Init
             PROVE  RInv /\ Out!OutboxInit
  OBVIOUS
<1>1. Recorded
  BY DEF Init, Recorded, Delivery
<1>2. MarksOK /\ Sendable /\ WillRetry
  BY DEF Init, NoCall, NewCall, MarksOK, Sendable, WillRetry, Live
<1>3. AtPlace("ready") = {} /\ AtPlace("sending") = {}
  BY DEF Init, AtPlace
<1> QED
  BY <1>1, <1>2, <1>3 DEF RInv, Init, Out!OutboxInit

\* Dispatcher keeps Outbox's promise with every number of sessions, workers and
\* calls: no delivery is taken up by two goroutines at once, after it was canceled,
\* after its outcome was final, or beyond its budget (attempt, dispatcher.go:396).
THEOREM ImplementsOutboxHolds == Spec => ImplementsOutbox
<1>1. Init => RInv /\ Out!OutboxInit
  BY OutInit
<1>2. TypeInv /\ IInv /\ RInv /\ [Next]_vars => RInv'
  BY OutNext
<1>3. TypeInv /\ IInv /\ RInv /\ [Next]_vars => [Out!OutboxNext]_Out!outboxVars
  BY OutNext
<1> QED
  BY <1>1, <1>2, <1>3, OwnershipInvariant, PTL DEF Spec, ImplementsOutbox,
     Out!OutboxSpec

-----------------------------------------------------------------------------
(* The clock of a canceled session. *)

\* A call moves no clock of a session that was canceled meanwhile, and nobody
\* gives a session back but the call that holds it (dispatcher.go:275).
LEMMA CanceledStep ==
  ASSUME TypeInv, [Next]_vars, NEW s \in gone
  PROVE  offset'[s] <= offset[s] /\ (s \notin exclusive' => offset'[s] = 0)
<1> USE DEF clockVars, ownerVars, queueVars, delVars, newVars, schedVars
<1>1. s \in exclusive /\ s \in Session /\ offset[s] \in Nat
  BY DEF TypeInv, TypeOK
<1>2. CASE offset'[s] = offset[s] /\ exclusive \subseteq exclusive'
  BY <1>1, <1>2
<1>3. CASE \/ Tick \/ UNCHANGED vars \/ SchedulerStep
           \/ \E e \in Executor : AttemptStep(e)
           \/ \E d \in Delivery : ScheduleQueues(d)
  BY <1>2, <1>3 DEF Tick, vars, SchedulerStep, Scan, Arm, Wakeup, Exit, Hand, AttemptStep,
     SkipCanceled, TakeUp, StartAttempt, Answer, Settle, Callback, CallbackQueues,
     ScheduleQueues
<1>4. ASSUME NEW c \in Caller, NEW op, NEW x, NEW by, Begin(c, op, x, by)
      PROVE  offset'[s] = offset[s] /\ exclusive \subseteq exclusive'
  BY <1>4 DEF Begin
<1>5. ASSUME NEW c \in Caller, NEW op, NEW dropped, NEW marked, NEW ss,
             Drop(c, op, dropped, marked, ss)
      PROVE  offset'[s] = offset[s] /\ exclusive \subseteq exclusive'
  BY <1>1, <1>5 DEF Drop
<1>6. CASE Environment
  <2>1. offset'[s] = offset[s] /\ exclusive \subseteq exclusive'
    BY <1>4, <1>5, <1>6 DEF Environment, Schedule, StopDispatcher, BeginAdvance, BeginDeliver,
       BeginCancel, BeginCancelAll
  <2> QED
    BY <1>2, <2>1
<1>7. ASSUME NEW c \in Caller, CallStep(c)
      PROVE  offset'[s] <= offset[s] /\ (s \notin exclusive' => offset'[s] = 0)
  <2>1. CASE Release(c)
    BY <1>1, <2>1 DEF Release, TypeInv, TypeOK
  <2>2. CASE PickNext(c)
    BY <1>1, <1>2, <2>2 DEF PickNext, ShiftLocked, TypeInv, TypeOK
  <2>3. CASE Finish(c)
    BY <1>1, <1>2, <2>3 DEF Finish, Passes, ShiftLocked, TypeInv, TypeOK
  <2> QED
    BY <1>2, <1>7, <2>1, <2>2, <2>3 DEF CallStep, Acquired, AcquireTimeout, GiveUp, Covered,
       DeliverNext, DeliverEnd, Mark, CancelEnd
<1> QED
  BY <1>3, <1>6, <1>7 DEF Next

\* The clock of a session canceled while a call drives it moves no more, and is
\* back at zero when the call gives the session up.
THEOREM CanceledClockHolds == Spec => CanceledClockStops
<1>1. TypeInv /\ [Next]_vars =>
        [\A s \in gone : /\ offset'[s] <= offset[s]
                         /\ s \notin exclusive' => offset'[s] = 0]_vars
  BY CanceledStep
<1> QED
  BY <1>1, TypeInvariant, PTL DEF Spec, CanceledClockStops

-----------------------------------------------------------------------------
(* A reset. *)

\* A goroutine that makes no call has no locals of one.
IdleCalls == \A c \in Caller : pc[c] = "idle" => call[c] = NoCall

LEMMA IdleNext ==
  ASSUME TypeInv, IdleCalls, [Next]_vars
  PROVE  IdleCalls'
<1> USE ConstantsAssumption
    DEF execVars, callVars, Executor
<1>1. CASE Tick \/ UNCHANGED vars \/ \E d \in Delivery : ScheduleQueues(d)
  BY <1>1 DEF Tick, vars, ScheduleQueues, IdleCalls
<1>2. CASE Environment
  BY <1>2 DEF Environment, Schedule, StopDispatcher, BeginAdvance, BeginDeliver,
     BeginCancel, BeginCancelAll, Begin, Drop, IdleCalls, TypeInv, TypeOK
<1>3. CASE SchedulerStep
  BY <1>3 DEF SchedulerStep, Scan, Arm, Wakeup, Exit, Hand, IdleCalls, TypeInv, TypeOK
<1>4. ASSUME NEW e \in Executor, AttemptStep(e)
      PROVE  IdleCalls'
  BY <1>4 DEF AttemptStep, SkipCanceled, TakeUp, StartAttempt, Answer, Settle, Callback,
     CallbackQueues, Return, Back, IdleCalls, TypeInv, TypeOK
<1>5. ASSUME NEW c \in Caller, CallStep(c)
      PROVE  IdleCalls'
  BY <1>5 DEF CallStep, Acquired, AcquireTimeout, AfterTimeout, Release, GiveUp, Covered,
     PickNext, Finish, DeliverNext, DeliverEnd, Mark, CancelEnd, IdleCalls, TypeInv, TypeOK
<1> QED
  BY <1>1, <1>2, <1>3, <1>4, <1>5 DEF Next


LEMMA IdleInvariant == Spec => []IdleCalls
<1>1. Init => IdleCalls
  BY DEF Init, IdleCalls
<1> QED
  BY <1>1, IdleNext, TypeInvariant, PTL DEF Spec

\* The step that begins a reset.
LEMMA ResetBegins ==
  ASSUME TypeInv, IdleCalls, [Next]_vars, NEW c \in Caller, pc[c] = "idle",
         call'[c].op = "reset"
  PROVE  BeginCancelAll(c)
<1> USE ConstantsAssumption DEF execVars, callVars, Executor
<1>1. call[c].op = "none"
  <2>1. call[c] = NoCall
    BY DEF IdleCalls
  <2> QED
    BY <2>1 DEF NoCall, NewCall
<1>2. call'[c] # call[c]
  BY <1>1
<1>3. CASE \/ Tick \/ UNCHANGED vars \/ SchedulerStep
           \/ \E e \in Executor : AttemptStep(e)
           \/ \E d \in Delivery : ScheduleQueues(d)
  BY <1>2, <1>3 DEF Tick, vars, SchedulerStep, Scan, Arm, Wakeup, Exit, Hand, AttemptStep,
     SkipCanceled, TakeUp, StartAttempt, Answer, Settle, Callback, CallbackQueues,
     ScheduleQueues
<1>4. ASSUME NEW b \in Caller, CallStep(b)
      PROVE  FALSE
  <2>1. pc[b] # "idle"
    BY <1>4 DEF CallStep, Acquired, AcquireTimeout, Release, GiveUp, Covered, Driving,
       PickNext, Finish, DeliverNext, DeliverEnd, Mark, CancelEnd
  <2> QED
    BY <1>2, <1>4, <2>1 DEF CallStep, Acquired, AcquireTimeout, Release, GiveUp, Covered,
       PickNext, Finish, DeliverNext, DeliverEnd, Mark, CancelEnd, TypeInv, TypeOK
<1>5. CASE Environment
  <2>1. ASSUME NEW b \in Caller, NEW op, NEW s, NEW by, NEW marks,
               op # "reset", call' = [call EXCEPT ![b] = NewCall(op, s, by, marks)]
        PROVE  FALSE
    BY <1>1, <2>1 DEF NewCall, TypeInv, TypeOK
  <2>2. ASSUME NEW b \in Caller, BeginCancelAll(b)
        PROVE  b = c
    BY <1>2, <2>2 DEF BeginCancelAll, Drop, TypeInv, TypeOK
  <2>3. ASSUME NEW b \in Caller, NEW s, NEW by, BeginAdvance(b, s, by)
        PROVE  FALSE
    BY <2>1, <2>3 DEF BeginAdvance, Begin
  <2>4. ASSUME NEW b \in Caller, NEW s, BeginDeliver(b, s)
        PROVE  FALSE
    BY <2>1, <2>4 DEF BeginDeliver, Begin
  <2>5. ASSUME NEW b \in Caller, NEW s, BeginCancel(b, s)
        PROVE  FALSE
    BY <2>1, <2>5 DEF BeginCancel, Drop
  <2> QED
    BY <1>2, <1>5, <2>2, <2>3, <2>4, <2>5 DEF Environment, Schedule, StopDispatcher
<1> QED
  BY <1>3, <1>4, <1>5 DEF Next

\* A reset is about to cancel everything that is queued or under way, and what
\* another call cancels; a delivery without a session that has been popped escapes
\* it, and one that its Schedule has yet to queue (docs/admin-api.md:287,
\* dispatcher.go:287).
THEOREM ResetHolds == Spec => ResetCancelsQueued
<1>1. TypeInv /\ IInv /\ SInv /\ IdleCalls /\ [Next]_vars =>
        [\A c \in Caller :
           pc[c] = "idle" /\ call'[c].op = "reset" =>
             \A d \in 1 .. last :
               \/ journal[d] \notin {"pending", "retrying"}
               \/ d \in call'[c].marks \cup canceled \/ BeingCanceled(d)
               \/ sess[d] = NoSession /\ d \in running
               \/ d \in fresh]_vars
  <2> SUFFICES ASSUME TypeInv, SInv, IdleCalls, [Next]_vars, NEW c \in Caller,
                      pc[c] = "idle", call'[c].op = "reset", NEW d \in 1 .. last,
                      journal[d] \in {"pending", "retrying"}, ~Doomed(d),
                      ~(sess[d] = NoSession /\ d \in running), d \notin fresh
               PROVE  d \in call'[c].marks
    BY DEF Doomed
  <2>1. BeginCancelAll(c)
    BY ResetBegins
  <2>2. call'[c].marks = heap \cup pending
    BY <2>1 DEF BeginCancelAll, Drop, NewCall, TypeInv, TypeOK
  <2>3. d \in Delivery /\ ~(d > last) /\ journal[d] \notin Final
    BY ConstantsAssumption DEF TypeInv, TypeOK, Delivery, Final
  <2>4. CASE sess[d] \in Session
    BY <2>2, <2>3, <2>4 DEF SInv, Queued
  <2>5. CASE sess[d] = NoSession
    <3>1. Tracked(d)
      BY <2>3 DEF SInv, Kept
    <3>2. sess[d] \notin exclusive
      BY <2>5, ConstantsAssumption DEF TypeInv, TypeOK
    <3> QED
      BY <2>2, <2>5, <3>1, <3>2 DEF Tracked
  <2> QED
    BY <2>3, <2>4, <2>5 DEF TypeInv, TypeOK
<1> QED
  BY <1>1, OwnershipInvariant, StrandedInvariant, IdleInvariant, PTL
     DEF Spec, ResetCancelsQueued

-----------------------------------------------------------------------------
(* Lemmas on the clocks. *)

\* Powers of two are natural numbers: they count subsets.
LEMMA PowerNat == \A n \in Nat : 2^n \in Nat
<1> SUFFICES ASSUME NEW n \in Nat
             PROVE  2^n \in Nat
  OBVIOUS
<1>1. IsFiniteSet(1 .. n) /\ Cardinality(1 .. n) = n
  BY FS_Interval
<1>2. /\ IsFiniteSet(SUBSET (1 .. n))
      /\ Cardinality(SUBSET (1 .. n)) = 2^Cardinality(1 .. n)
  BY <1>1, FS_SUBSET
<1>3. Cardinality(SUBSET (1 .. n)) \in Nat
  BY <1>2, FS_CardinalityType
<1> QED
  BY <1>1, <1>2, <1>3

\* A retry is never due before it is scheduled.
LEMMA RetryDelayNat == \A n \in Nat \ {0} : RetryDelay(n) \subseteq Nat
<1> SUFFICES ASSUME NEW n \in Nat \ {0}
             PROVE  RetryDelay(n) \subseteq Nat
  OBVIOUS
<1> DEFINE p == 2^(n - 1)
           d == Backoff * p
<1>1. p \in Nat
  BY PowerNat
<1> HIDE DEF p
<1>2. d \in Nat
  BY <1>1, ConstantsAssumption
<1>3. RetryDelay(n) = d - d \div 5 .. d + d \div 5
  BY DEF RetryDelay, p
<1> HIDE DEF d
<1>4. d - d \div 5 \in Nat /\ d + d \div 5 \in Nat
  BY <1>2
<1> QED
  BY <1>3, <1>4

\* No two queued deliveries have the same number.
Numbered ==
  \A d \in Delivery : ~(d > last) /\ d \notin fresh =>
    /\ order[d] <= seq
    /\ \A e \in Delivery :
         ~(e > last) /\ e \notin fresh /\ order[e] = order[d] => e = d

LEMMA NumberedNew ==
  ASSUME TypeInv, Numbered, NEW s, NEW ev, NEW delay, NEW h, NewDelivery(s, ev, delay, h)
  PROVE  Numbered'
<1>1. /\ last' = last + 1 /\ fresh' = fresh \cup {last + 1} /\ last + 1 \in Delivery
      /\ order' = order /\ seq' = seq
  BY DEF NewDelivery
<1>2. \A d \in Delivery : ~(d > last + 1) /\ d # last + 1 => ~(d > last)
  BY DeliveryFacts DEF TypeInv, TypeOK
<1> QED
  BY <1>1, <1>2 DEF Numbered

LEMMA NumberedQueue ==
  ASSUME TypeInv, Numbered, NEW d \in Delivery, QueueNew(d)
  PROVE  Numbered'
<1>1. /\ last' = last /\ fresh' = fresh \ {d} /\ seq' = seq + 1
      /\ order' = [order EXCEPT ![d] = seq + 1]
  BY DEF QueueNew
<1>2. seq \in Nat /\ order \in [Delivery -> Nat]
  BY DEF TypeInv, TypeOK
<1>3. \A e \in Delivery : e # d /\ ~(e > last) /\ e \notin fresh => order'[e] < seq + 1
  BY <1>1, <1>2 DEF Numbered
<1> QED
  BY <1>1, <1>2, <1>3 DEF Numbered

LEMMA NumberedNext ==
  ASSUME TypeInv, Numbered, [Next]_vars
  PROVE  Numbered'
<1> USE DEF delVars, newVars
<1>1. UNCHANGED newVars => Numbered'
  BY DEF Numbered
<1>2. CASE Tick \/ UNCHANGED vars \/ SchedulerStep
  BY <1>1, <1>2 DEF Tick, vars, SchedulerStep, Scan, Arm, Wakeup, Exit, Hand
<1>3. CASE Environment
  BY <1>1, <1>3, NumberedNew DEF Environment, Schedule, StopDispatcher, BeginAdvance,
     BeginDeliver, BeginCancel, BeginCancelAll, Begin, Drop
<1>4. ASSUME NEW d \in Delivery, ScheduleQueues(d)
      PROVE  Numbered'
  BY <1>4, NumberedQueue DEF ScheduleQueues
<1>5. ASSUME NEW e \in Executor, AttemptStep(e)
      PROVE  Numbered'
  <2>1. CASE CallbackQueues(e)
    BY <2>1, NumberedQueue DEF CallbackQueues, TypeInv, AtOK
  <2>2. CASE Callback(e)
    BY <1>1, <2>2, NumberedNew DEF Callback
  <2> QED
    BY <1>1, <1>5, <2>1, <2>2 DEF AttemptStep, SkipCanceled, TakeUp, StartAttempt, Answer, Settle
<1>6. ASSUME NEW c \in Caller, CallStep(c)
      PROVE  Numbered'
  BY <1>1, <1>6 DEF CallStep, Acquired, AcquireTimeout, Release, GiveUp, Covered, PickNext,
     Finish, DeliverNext, DeliverEnd, Mark, CancelEnd
<1> QED
  BY <1>2, <1>3, <1>4, <1>5, <1>6 DEF Next

LEMMA NumberedInvariant == Spec => []Numbered
<1>1. Init => Numbered
  BY DEF Init, Numbered, Delivery
<1> QED
  BY <1>1, NumberedNext, TypeInvariant, PTL DEF Spec

\* Of finitely many queued deliveries one comes first.
LEMMA EarliestExists ==
  ASSUME TypeInv, Numbered, NEW ds \in SUBSET Delivery, ds # {},
         \A d \in ds : ~(d > last) /\ d \notin fresh
  PROVE  EarliestOf(ds) # {}
<1> DEFINE Ahead(d) == {e \in ds : Before(e, d)}
           T == {Ahead(d) : d \in ds}
<1>1. IsFiniteSet(ds)
  <2>1. IsFiniteSet(Delivery)
    BY FS_Interval, ConstantsAssumption DEF Delivery
  <2> QED
    BY <2>1, FS_Subset
<1>2. T \subseteq FiniteSubsetsOf(ds) /\ T # {}
  <2>1. T \in SUBSET SUBSET ds /\ T # {}
    OBVIOUS
  <2>2. FiniteSubsetsOf(ds) = SUBSET ds
    BY <1>1, FS_FiniteSubsetsOfFinite
  <2> QED
    BY <2>1, <2>2
<1>3. PICK d \in ds : \A e \in ds : <<Ahead(e), Ahead(d)>> \notin StrictSubsetOrdering(ds)
  <2> HIDE DEF T
  <2>1. IsWellFoundedOn(StrictSubsetOrdering(ds), FiniteSubsetsOf(ds))
    BY FS_StrictSubsetOrderingWellFounded
  <2>2. \E x \in T : \A y \in T : <<y, x>> \notin StrictSubsetOrdering(ds)
    BY <1>2, <2>1, WFMin
  <2> QED
    BY <2>2 DEF T
<1>4. \A x, y \in ds : /\ fireAt[x] \in Int /\ order[x] \in Int
                       /\ Before(x, y) \/ Before(y, x) \/ x = y
  BY DEF Before, Numbered, TypeInv, TypeOK
<1>5. ASSUME NEW e \in Ahead(d)
      PROVE  FALSE
  <2>1. Ahead(e) \subseteq Ahead(d) /\ e \in Ahead(d) /\ e \notin Ahead(e)
    BY <1>4, <1>5 DEF Before
  <2> QED
    BY <1>3, <2>1 DEF StrictSubsetOrdering
<1>6. d \in EarliestOf(ds)
  BY <1>4, <1>5 DEF EarliestOf
<1> QED
  BY <1>6

\* Moving a session's clock leaves what it has queued where it was in session
\* time.
LEMMA ShiftDue ==
  ASSUME TypeInv, NEW s \in Session, NEW by \in Int, ShiftLocked(s, by), sess' = sess
  PROVE  \A d \in pending : SessionDue(d)' = SessionDue(d)
<1> SUFFICES ASSUME NEW d \in pending
             PROVE  SessionDue(d)' = SessionDue(d)
  OBVIOUS
<1>1. d \in Delivery /\ fireAt[d] \in Int /\ offset \in [Session -> Nat]
  BY DEF TypeInv, TypeOK
<1>2. CASE sess[d] = s
  BY <1>1, <1>2 DEF ShiftLocked, SessionDue, PendingOf
<1>3. CASE sess[d] # s
  BY <1>1, <1>3 DEF ShiftLocked, SessionDue, PendingOf
<1> QED
  BY <1>2, <1>3

-----------------------------------------------------------------------------
(* The invariant of the clocks. *)

\* A request under way is counted.
Counted == \A e \in Executor : pc[e] = "sending" => attempts[at[e]] > 0

\* What a session has queued or is about to.
Waiting == pending \cup fresh

\* No session time is negative: what is queued for a session that will lose its
\* clock was scheduled after the clock stopped.  What is not queued yet is due in
\* wall-clock time.
DueNat ==
  \A d \in Waiting : /\ SessionDue(d) >= 0
                     /\ d \in fresh \/ sess[d] \in gone => fireAt[d] >= 0

\* What c attempts, until it has a new due time.
Firing(c) ==
  {d \in Delivery : at[c] = d /\ \/ pc[c] \in {"check", "ready", "sending"}
                                 \/ pc[c] = "answered" /\ status[c] # "retrying"}

\* A call has not fired anything later than its session's clock, or than what is
\* still queued, the late ones and what it is firing excepted.
InOrder(c) ==
  pc[c] \in Holding =>
    /\ call[c].prev <= now + offset[call[c].s]
    /\ \A d \in Waiting :
         sess[d] = call[c].s /\ d \notin canceled \cup call[c].late \cup Firing(c)
           => SessionDue(d) >= call[c].prev

\* What is left of the window reaches its end: clock and window move together.
Reaches(c) ==
  Drives(c) => now + offset[call[c].s] + call[c].left >= call[c].target

CInv == DueNat /\ \A c \in Caller : InOrder(c) /\ Reaches(c)

\* The integers among the locals of a call.
LEMMA CallInts ==
  ASSUME TypeInv, NEW c \in Caller
  PROVE  /\ call[c].prev \in Int /\ call[c].target \in Int /\ call[c].left \in Nat
         /\ pc[c] \in Holding => call[c].s \in Session /\ offset[call[c].s] \in Nat
         /\ now \in Nat
BY DEF TypeInv, TypeOK, CallRecord, CallOK

LEMMA DueInt ==
  ASSUME TypeInv, NEW d \in Delivery
  PROVE  SessionDue(d) \in Int /\ fireAt[d] \in Int
BY DEF TypeInv, TypeOK, SessionDue

\* d is scheduled, now or later.
DueAnew(d) == fireAt'[d] >= now'

\* A call goes on as it was, or ends.
SameCall(c) ==
  pc'[c] \in Holding =>
    /\ pc[c] \in Holding /\ (Drives(c)' => Drives(c))
    /\ call'[c].s = call[c].s /\ call'[c].left = call[c].left
    /\ call'[c].prev = call[c].prev /\ call'[c].target = call[c].target
    /\ call'[c].late = call[c].late
    /\ \A d \in Firing(c) : \/ d \in Firing(c)' \cup canceled' \/ d \notin Waiting'
                            \/ DueAnew(d)

\* A step that moves no clock and makes nothing.
Timeless ==
  /\ UNCHANGED <<now, offset, fireAt, sess, gone, exclusive>>
  /\ pending' \subseteq Waiting /\ fresh' \subseteq fresh
  /\ canceled \subseteq canceled'
  /\ \A c \in Caller : SameCall(c)

\* d is due no earlier than it was.
DueKept(d) ==
  /\ d \in Waiting /\ SessionDue(d)' >= SessionDue(d) /\ sess'[d] = sess[d]
  /\ d \in fresh' \/ sess'[d] \in gone' =>
       (d \in fresh \/ sess[d] \in gone) /\ fireAt'[d] = fireAt[d]

\* The session of d lost its clock, and no call has the session.
DueReset(d) ==
  fireAt'[d] >= 0 /\ \A c \in Caller : pc'[c] \in Holding => call'[c].s # sess'[d]

\* The session of c keeps its clock.
ClockKept(c) == pc'[c] \in Holding => offset'[call[c].s] = offset[call[c].s]

LEMMA SameLocals ==
  ASSUME NEW c \in Caller, pc'[c] = pc[c], at'[c] = at[c], status'[c] = status[c],
         call'[c] = call[c]
  PROVE  SameCall(c)
BY DEF SameCall, Drives, Firing

\* Session times and clocks are numbers.
LEMMA DueInts ==
  ASSUME TypeInv
  PROVE  \A d \in Waiting :
           /\ d \in Delivery /\ fireAt[d] \in Int /\ SessionDue(d) \in Int
           /\ sess[d] \in Session => offset[sess[d]] \in Nat
           /\ SessionDue(d) =
                fireAt[d] + IF sess[d] \in Session THEN offset[sess[d]] ELSE 0
BY DEF TypeInv, TypeOK, SessionDue, Waiting

LEMMA DueSame ==
  ASSUME TypeInv, NEW d \in Waiting, UNCHANGED <<offset, fireAt, gone>>,
         sess'[d] = sess[d], fresh' \subseteq fresh
  PROVE  SessionDue(d)' = SessionDue(d) /\ DueKept(d)
<1>1. SessionDue(d)' = SessionDue(d)
  BY DEF SessionDue
<1> QED
  BY <1>1, DueInts DEF DueKept

\* What it takes a step to preserve the invariant.
LEMMA ClockFrame ==
  ASSUME TypeInv, TypeInv', CInv, now' >= now, canceled \subseteq canceled',
         \A d \in Waiting' : DueKept(d) \/ DueAnew(d) \/ DueReset(d),
         \A c \in Caller : \/ SameCall(c) /\ ClockKept(c)
                           \/ (InOrder(c) /\ Reaches(c))'
  PROVE  CInv'
<1>1. now \in Nat /\ now' \in Nat
  BY DEF TypeInv, TypeOK
<1>2. \A d \in Waiting' :
        /\ d \in Delivery /\ fireAt'[d] \in Int /\ fireAt[d] \in Int
        /\ sess'[d] \in Session => offset'[sess'[d]] \in Nat
        /\ SessionDue(d) \in Int /\ SessionDue(d)' \in Int
        /\ SessionDue(d)' =
             fireAt'[d] + IF sess'[d] \in Session THEN offset'[sess'[d]] ELSE 0
  BY DEF TypeInv, TypeOK, SessionDue, Waiting
<1>3. DueNat'
  BY <1>1, <1>2 DEF CInv, DueNat, DueKept, DueAnew, DueReset
<1>4. ASSUME NEW c \in Caller, SameCall(c), ClockKept(c)
      PROVE  (InOrder(c) /\ Reaches(c))'
  <2>1. InOrder(c)'
    <3> DEFINE Exempt == canceled \cup call[c].late \cup Firing(c)
               Exempt2 == canceled' \cup call'[c].late \cup Firing(c)'
    <3> SUFFICES ASSUME pc'[c] \in Holding
                 PROVE  /\ call'[c].prev <= now' + offset'[call'[c].s]
                        /\ \A d \in Waiting' :
                             sess'[d] = call'[c].s /\ d \notin Exempt2
                               => SessionDue(d)' >= call'[c].prev
      BY DEF InOrder
    <3>1. /\ pc[c] \in Holding /\ call'[c].s = call[c].s /\ call'[c].prev = call[c].prev
          /\ offset'[call[c].s] = offset[call[c].s]
          /\ call[c].s \in Session /\ offset[call[c].s] \in Nat /\ call[c].prev \in Int
      BY <1>4, CallInts DEF SameCall, ClockKept
    <3>2. /\ call[c].prev <= now + offset[call[c].s]
          /\ \A d \in Waiting :
               sess[d] = call[c].s /\ d \notin Exempt => SessionDue(d) >= call[c].prev
      BY <3>1 DEF CInv, InOrder
    <3>3. call'[c].prev <= now' + offset'[call'[c].s]
      BY <1>1, <3>1, <3>2
    <3>4. \A d \in Waiting' : d \in Exempt => d \in Exempt2 \/ DueAnew(d)
      BY <1>4 DEF SameCall
    <3> HIDE DEF Exempt, Exempt2
    <3>5. ASSUME NEW d \in Waiting', sess'[d] = call'[c].s, d \notin Exempt2
          PROVE  SessionDue(d)' >= call'[c].prev
      <4>1. CASE DueAnew(d)
        BY <1>1, <1>2, <3>1, <3>3, <3>5, <4>1 DEF DueAnew
      <4>2. CASE DueKept(d) /\ ~DueAnew(d)
        <5>1. d \in Waiting /\ sess[d] = call[c].s /\ d \notin Exempt
          BY <3>1, <3>4, <3>5, <4>2 DEF DueKept
        <5>2. SessionDue(d) >= call[c].prev /\ SessionDue(d)' >= SessionDue(d)
          BY <3>2, <4>2, <5>1 DEF DueKept
        <5> QED
          BY <1>2, <3>1, <3>5, <5>2
      <4> QED
        BY <3>5, <4>1, <4>2 DEF DueReset
    <3> QED
      BY <3>3, <3>5
  <2>2. Reaches(c)'
    <3> SUFFICES ASSUME Drives(c)'
                 PROVE  now' + offset'[call'[c].s] + call'[c].left >= call'[c].target
      BY DEF Reaches
    <3>0. pc'[c] \in Holding
      BY DEF Drives, Holding
    <3>1. /\ Drives(c) /\ call'[c].s = call[c].s /\ call'[c].left = call[c].left
          /\ call'[c].target = call[c].target /\ offset'[call[c].s] = offset[call[c].s]
          /\ call[c].target \in Int /\ call[c].left \in Nat /\ offset[call[c].s] \in Nat
      BY <1>4, <3>0, CallInts DEF SameCall, ClockKept
    <3>2. now + offset[call[c].s] + call[c].left >= call[c].target
      BY <3>1 DEF CInv, Reaches
    <3> QED
      BY <1>1, <3>1, <3>2
  <2> QED
    BY <2>1, <2>2
<1> QED
  BY <1>3, <1>4 DEF CInv

LEMMA TimelessKeeps ==
  ASSUME TypeInv, TypeInv', CInv, Timeless
  PROVE  CInv' /\ \A d \in Waiting : SessionDue(d)' = SessionDue(d)
<1>1. \A d \in Waiting : SessionDue(d)' = SessionDue(d) /\ DueKept(d)
  BY DueSame DEF Timeless
<1>2. Waiting' \subseteq Waiting
  BY DEF Timeless, Waiting
<1>3. \A c \in Caller : SameCall(c) /\ ClockKept(c)
  BY DEF Timeless, ClockKept
<1>4. now' >= now /\ canceled \subseteq canceled'
  BY DEF Timeless, TypeInv, TypeOK
<1> QED
  BY <1>1, <1>2, <1>3, <1>4, ClockFrame

LEMMA TimelessScheduler ==
  ASSUME TypeInv, SchedulerStep \/ StopDispatcher \/ UNCHANGED vars
  PROVE  Timeless
<1> USE ConstantsAssumption
    DEF clockVars, ownerVars, queueVars, delVars, newVars, execVars, callVars
<1>1. /\ UNCHANGED <<now, offset, fireAt, sess, gone, exclusive, pending, fresh, canceled>>
      /\ \A c \in Caller : /\ pc'[c] = pc[c] /\ at'[c] = at[c]
                           /\ status'[c] = status[c] /\ call'[c] = call[c]
  <2>1. CASE Scan \/ Arm \/ Wakeup \/ Exit \/ StopDispatcher \/ UNCHANGED vars
    BY <2>1 DEF Scan, Arm, Wakeup, Exit, StopDispatcher, vars
  <2>2. ASSUME NEW w \in Worker, Hand(w)
        PROVE  <1>1!:
    BY <2>2 DEF Hand, TypeInv, TypeOK, Executor
  <2> QED
    BY <2>1, <2>2 DEF SchedulerStep
<1> QED
  BY <1>1, SameLocals DEF Timeless, Waiting

\* Queueing a delivery does not change when it is due.
LEMMA TimelessQueue ==
  ASSUME TypeInv, NEW d \in fresh, QueueNew(d),
         UNCHANGED <<now, offset, gone, exclusive>>, \A c \in Caller : SameCall(c)
  PROVE  Timeless
<1>1. pending' \subseteq Waiting /\ fresh' \subseteq fresh
  BY DEF QueueNew, Waiting
<1> QED
  BY <1>1 DEF QueueNew, Timeless

LEMMA TimelessScheduleQueues ==
  ASSUME TypeInv, NEW d \in Delivery, ScheduleQueues(d)
  PROVE  Timeless
<1>1. \A c \in Caller : SameCall(c)
  BY SameLocals DEF ScheduleQueues, execVars, callVars
<1> QED
  BY <1>1, TimelessQueue DEF ScheduleQueues, clockVars, ownerVars

LEMMA TimelessAttempt ==
  ASSUME TypeInv, IInv, NEW e \in Executor,
         SkipCanceled(e) \/ TakeUp(e) \/ StartAttempt(e) \/ Settle(e)
  PROVE  Timeless
<1> USE ConstantsAssumption DEF clockVars, ownerVars, delVars, newVars, callVars
<1>1. /\ UNCHANGED <<now, offset, fireAt, sess, gone, exclusive, canceled, call, fresh>>
      /\ pending' \subseteq pending
  BY DEF SkipCanceled, TakeUp, StartAttempt, Settle, Requeue, Retire, queueVars
<1>2. /\ pc[e] \in Attempting /\ at[e] \in Delivery
      /\ \/ pc'[e] \in {"ready", "sending", "callback"}
         \/ pc'[e] = IF e \in Worker THEN "idle" ELSE "drive"
      /\ \A c \in Executor : c # e => pc'[c] = pc[c] /\ at'[c] = at[c] /\ status'[c] = status[c]
  BY DEF SkipCanceled, TakeUp, StartAttempt, Settle, Return, Back, Attempting, TypeInv, TypeOK,
     AtOK
<1>3. \A d \in Firing(e) : d \in Firing(e)' \cup canceled' \/ d \notin Waiting'
  <2>1. CASE SkipCanceled(e)
    BY <1>1, <2>1 DEF SkipCanceled, Firing
  <2>2. CASE TakeUp(e) \/ StartAttempt(e)
    BY <2>2 DEF TakeUp, StartAttempt, Firing, execVars, TypeInv, TypeOK
  <2>3. CASE Settle(e)
    <3>1. ASSUME NEW d \in Firing(e)
          PROVE  d = at[e] /\ status[e] # "retrying" /\ d \notin pending' /\ d \notin fresh'
      <4>1. d = at[e] /\ status[e] # "retrying" /\ d \in running
        BY <2>3, <3>1 DEF Settle, Firing, IInv, OneHolder, Holds
      <4>2. d \in Delivery /\ d \notin fresh
        BY <1>2, <4>1 DEF IInv, Fresh
      <4>3. pending' = pending \ {at[e]}
        BY <2>3, <4>1 DEF Settle, Retire
      <4> QED
        BY <1>1, <4>1, <4>2, <4>3
    <3> QED
      BY <3>1 DEF Waiting
  <2> QED
    BY <2>1, <2>2, <2>3
<1>4. \A c \in Caller : c # e => SameCall(c)
  BY <1>1, <1>2, SameLocals DEF Executor
<1>5. e \in Caller => SameCall(e)
  BY <1>1, <1>2, <1>3 DEF SameCall, Drives, Holding, Attempting
<1> QED
  BY <1>1, <1>4, <1>5 DEF Timeless, Waiting

LEMMA TimelessCall ==
  ASSUME TypeInv, NEW c \in Caller,
         \/ AcquireTimeout(c) \/ GiveUp(c) \/ Covered(c) \/ DeliverEnd(c) \/ CancelEnd(c)
         \/ \E item \in Event \cup Delivery : DeliverNext(c, item)
         \/ \E d \in Delivery : Mark(c, d)
  PROVE  Timeless
<1> USE DEF clockVars, ownerVars, queueVars, delVars, newVars, callVars, execVars
<1>1. /\ UNCHANGED <<now, offset, fireAt, sess, gone, exclusive, pending, fresh>>
      /\ canceled \subseteq canceled'
  BY DEF AcquireTimeout, GiveUp, Covered, DeliverEnd, CancelEnd, DeliverNext, Mark
<1>2. \A b \in Caller : b # c => /\ pc'[b] = pc[b] /\ call'[b] = call[b]
                                 /\ at'[b] = at[b] /\ status'[b] = status[b]
  BY DEF AcquireTimeout, GiveUp, Covered, DeliverEnd, CancelEnd, DeliverNext, Mark, TypeInv,
     TypeOK, Executor
<1>3. SameCall(c)
  <2>1. CASE CancelEnd(c)
    BY <2>1 DEF CancelEnd, SameCall, Holding, TypeInv, TypeOK, Executor
  <2>2. CASE \E d \in Delivery : Mark(c, d)
    BY <2>2 DEF Mark, SameCall, Holding, TypeInv, TypeOK
  <2>3. CASE GiveUp(c)
    <3>1. call[c] \in CallRecord /\ call' = [call EXCEPT ![c].partial = TRUE]
      BY <2>3 DEF GiveUp, TypeInv, TypeOK
    <3>2. Firing(c) = {}
      BY <2>3 DEF GiveUp, Firing
    <3> QED
      BY <2>3, <3>1, <3>2 DEF GiveUp, SameCall, Drives, Holding, CallRecord, TypeInv, TypeOK,
         Executor
  <2>4. CASE \/ AcquireTimeout(c) \/ Covered(c) \/ DeliverEnd(c)
             \/ \E item \in Event \cup Delivery : DeliverNext(c, item)
    <3>1. Firing(c) = {}
      BY <2>4 DEF AcquireTimeout, Covered, Driving, DeliverEnd, DeliverNext, Firing
    <3> QED
      BY <2>4, <3>1 DEF AcquireTimeout, AfterTimeout, Covered, Driving, DeliverEnd, DeliverNext,
         SameCall, Drives, Holding, TypeInv, TypeOK, Executor
  <2> QED
    BY <2>1, <2>2, <2>3, <2>4
<1>4. \A b \in Caller : b # c => SameCall(b)
  BY <1>2, SameLocals
<1> QED
  BY <1>1, <1>3, <1>4 DEF Timeless, Waiting

\* Time passes, or a session's clock moves with its deliveries.
LEMMA ClockTick ==
  ASSUME TypeInv, TypeInv', CInv, Tick
  PROVE  CInv'
<1> USE DEF ownerVars, queueVars, delVars, newVars, execVars, callVars
<1>1. now' >= now /\ canceled \subseteq canceled'
  BY DEF Tick, TypeInv, TypeOK
<1>2. \A d \in Waiting' : DueKept(d)
  BY DueSame DEF Tick, Waiting
<1>3. \A c \in Caller : SameCall(c) /\ ClockKept(c)
  BY SameLocals DEF Tick, ClockKept
<1> QED
  BY <1>1, <1>2, <1>3, ClockFrame

LEMMA ClockNew ==
  ASSUME TypeInv, IInv, TypeInv', CInv, NEW s \in Session \cup {NoSession}, NEW ev \in Event,
         NEW delay \in Delays, NEW h \in Hooks, NewDelivery(s, ev, delay, h),
         UNCHANGED <<now, offset, gone, pending>>, \A c \in Caller : SameCall(c)
  PROVE  CInv'
<1>. PICK d \in Delivery : d = last + 1
  BY DEF NewDelivery
<1>1. /\ canceled' = canceled
      /\ sess' = [sess EXCEPT ![d] = s]
      /\ fireAt' = [fireAt EXCEPT ![d] = now + delay]
      /\ fresh' = fresh \cup {d}
  BY DEF NewDelivery
<1>2. d > last
  BY DeliveryFacts DEF TypeInv, TypeOK
<1>3. DueAnew(d)
  BY <1>1, ConstantsAssumption DEF DueAnew, TypeInv, TypeOK
<1>4. ASSUME NEW x \in Waiting
      PROVE  DueKept(x)
  <2>1. x # d /\ x \in Delivery
    BY <1>2 DEF Waiting, IInv, Fresh, TypeInv, TypeOK
  <2>2. sess'[x] = sess[x] /\ fireAt'[x] = fireAt[x]
    BY <1>1, <2>1 DEF TypeInv, TypeOK
  <2>3. SessionDue(x)' = SessionDue(x)
    BY <2>2 DEF SessionDue
  <2> QED
    BY <1>1, <2>1, <2>2, <2>3, DueInts DEF DueKept
<1>5. now' >= now
  BY DEF TypeInv, TypeOK
<1>6. \A c \in Caller : ClockKept(c)
  BY DEF ClockKept
<1>7. Waiting' = Waiting \cup {d}
  BY <1>1 DEF Waiting
<1> QED
  BY <1>1, <1>3, <1>4, <1>5, <1>6, <1>7, ClockFrame

\* A retry is due later than now.
LEMMA ClockAnswer ==
  ASSUME TypeInv, IInv, TypeInv', CInv, Counted, NEW e \in Executor, NEW ok \in BOOLEAN,
         Answer(e, ok)
  PROVE  CInv'
<1>. PICK d \in Delivery : d = at[e]
  BY DEF Answer, TypeInv, AtOK, Attempting
<1>1. UNCHANGED <<now, offset, gone, sess, canceled, pending, fresh, call, at>>
  BY DEF Answer, clockVars, ownerVars, newVars, queueVars, callVars
<1>2. attempts[d] \in Nat \ {0}
  BY DEF Answer, Counted, TypeInv, TypeOK
<1>3. \/ fireAt' = fireAt /\ status'[e] # "retrying"
      \/ \E delay \in Nat : fireAt' = [fireAt EXCEPT ![d] = now + delay]
  <2>1. RetryDelay(attempts[d]) \subseteq Nat
    BY <1>2, RetryDelayNat
  <2> QED
    BY <2>1 DEF Answer, TypeInv, TypeOK
<1>4. ASSUME NEW x \in Waiting
      PROVE  DueKept(x) \/ DueAnew(x)
  <2>1. x \in Delivery
    BY DueInts
  <2>2. CASE fireAt'[x] = fireAt[x]
    <3>1. SessionDue(x)' = SessionDue(x)
      BY <1>1, <2>2 DEF SessionDue
    <3> QED
      BY <1>1, <2>2, <3>1, DueInts DEF DueKept
  <2>3. CASE x = d
    BY <1>1, <1>3, <2>2, <2>3 DEF DueAnew, TypeInv, TypeOK
  <2> QED
    BY <1>3, <2>1, <2>2, <2>3 DEF TypeInv, TypeOK
<1>5. ASSUME NEW c \in Caller
      PROVE  SameCall(c) /\ ClockKept(c)
  <2>1. CASE c # e
    BY <1>1, <2>1, SameLocals DEF Answer, ClockKept, TypeInv, TypeOK, Executor
  <2>2. CASE c = e
    <3>1. pc[c] = "sending" /\ pc'[c] = "answered"
      BY <2>2 DEF Answer, TypeInv, TypeOK
    <3>2. \A x \in Firing(c) : x \in Firing(c)' \/ DueAnew(x)
      BY <1>1, <1>3, <2>2, <3>1 DEF Firing, DueAnew, TypeInv, TypeOK
    <3> QED
      BY <1>1, <3>1, <3>2 DEF SameCall, ClockKept, Drives, Holding
  <2> QED
    BY <2>1, <2>2
<1>6. now' >= now
  BY <1>1 DEF TypeInv, TypeOK
<1>7. Waiting' = Waiting
  BY <1>1 DEF Waiting
<1> QED
  BY <1>1, <1>4, <1>5, <1>6, <1>7, ClockFrame

\* What a callback schedules is due from the present on.
LEMMA ClockCallback ==
  ASSUME TypeInv, IInv, TypeInv', CInv, NEW e \in Executor, Callback(e) \/ CallbackQueues(e)
  PROVE  CInv'
<1>1. /\ UNCHANGED <<now, offset, exclusive, gone, call>>
      /\ sess[at[e]] \in Session \cup {NoSession}
  BY DEF Callback, CallbackQueues, clockVars, ownerVars, callVars, TypeInv, TypeOK, AtOK
<1>2. /\ pc[e] \in {"callback", "scheduling"}
      /\ pc'[e] \in {"callback", "scheduling"} \/ pc'[e] = IF e \in Worker THEN "idle" ELSE "drive"
      /\ \A f \in Executor : f # e => pc'[f] = pc[f] /\ at'[f] = at[f] /\ status'[f] = status[f]
  BY DEF Callback, CallbackQueues, Return, Back, TypeInv, TypeOK
<1>3. \A c \in Caller : SameCall(c)
  <2>1. Firing(e) = {}
    BY <1>2 DEF Firing
  <2>2. e \in Caller => SameCall(e)
    BY <1>1, <1>2, <2>1, ConstantsAssumption DEF SameCall, Drives, Holding
  <2> QED
    BY <1>1, <1>2, <2>2, SameLocals DEF Executor
<1>4. CASE Callback(e) /\ \E ev \in Event, delay \in Delays, h \in Hooks :
                            NewDelivery(sess[at[e]], ev, delay, h)
  BY <1>1, <1>3, <1>4, ClockNew DEF Callback, queueVars
<1>5. CASE Callback(e) /\ UNCHANGED delVars
  <2>1. Timeless
    BY <1>1, <1>3, <1>5 DEF Callback, Timeless, Waiting, delVars, newVars, queueVars
  <2> QED
    BY <2>1, TimelessKeeps
<1>6. CASE CallbackQueues(e)
  <2>1. at[e] \in fresh /\ QueueNew(at[e])
    BY <1>6 DEF CallbackQueues, IInv, Fresh
  <2> QED
    BY <1>1, <1>3, <2>1, TimelessQueue, TimelessKeeps
<1> QED
  BY <1>4, <1>5, <1>6 DEF Callback

\* A call begins with nothing fired.
LEMMA ClockBegin ==
  ASSUME TypeInv, TypeInv', CInv, NEW c \in Caller, NEW op, NEW s \in Session, NEW by,
         Begin(c, op, s, by)
  PROVE  CInv'
<1>1. /\ UNCHANGED <<now, offset, gone, sess, fireAt, canceled, pending, fresh, at, status>>
      /\ call' = [call EXCEPT ![c] = NewCall(op, s, by, {})]
      /\ pc' = [pc EXCEPT ![c] = "waiting"]
  BY DEF Begin, clockVars, delVars, newVars
<1>2. \A d \in Waiting' : DueKept(d) /\ SessionDue(d)' = SessionDue(d) /\ d \in Waiting
  BY <1>1, DueSame DEF Waiting
<1>3. \A b \in Caller : b # c => SameCall(b) /\ ClockKept(b)
  BY <1>1, SameLocals DEF ClockKept, TypeInv, TypeOK, Executor
<1>4. call'[c].s = s /\ call'[c].prev = 0 /\ pc'[c] = "waiting"
  BY <1>1 DEF NewCall, TypeInv, TypeOK, Executor
<1>5. InOrder(c)'
  <2>1. now' + offset'[s] >= 0
    BY <1>1 DEF TypeInv, TypeOK
  <2>2. \A d \in Waiting' : SessionDue(d)' >= 0
    BY <1>2 DEF CInv, DueNat
  <2> QED
    BY <1>4, <2>1, <2>2 DEF InOrder
<1>6. Reaches(c)'
  BY <1>4 DEF Reaches, Drives
<1>7. now' >= now
  BY <1>1 DEF TypeInv, TypeOK
<1> QED
  BY <1>1, <1>2, <1>3, <1>5, <1>6, <1>7, ClockFrame

\* The window begins where the session's clock stands.
LEMMA ClockAcquired ==
  ASSUME TypeInv, TypeInv', CInv, NEW c \in Caller, Acquired(c)
  PROVE  CInv'
<1> DEFINE t == now + offset[call[c].s] + call[c].left
<1>1. /\ UNCHANGED <<now, offset, gone, sess, fireAt, canceled, pending, fresh, at, status>>
      /\ call' = [call EXCEPT ![c] = [call[c] EXCEPT !.target = t]]
      /\ pc[c] = "waiting" /\ pc' = [pc EXCEPT ![c] = "drive"]
  BY DEF Acquired, clockVars, ownerVars, queueVars, delVars, newVars, TypeInv, TypeOK
<1>2. \A d \in Waiting' : DueKept(d) /\ SessionDue(d)' = SessionDue(d) /\ d \in Waiting
  BY <1>1, DueSame DEF Waiting
<1>3. \A b \in Caller : b # c => SameCall(b) /\ ClockKept(b)
  BY <1>1, SameLocals DEF ClockKept, TypeInv, TypeOK, Executor
<1>4. /\ call'[c].s = call[c].s /\ call'[c].prev = call[c].prev
      /\ call'[c].late = call[c].late /\ Firing(c) = {}
      /\ call'[c].left = call[c].left /\ call'[c].target = t
      /\ pc[c] \in Holding
  BY <1>1 DEF TypeInv, TypeOK, CallRecord, Holding, Firing
<1>5. InOrder(c)'
  BY <1>1, <1>2, <1>4 DEF CInv, InOrder
<1>6. Reaches(c)'
  BY <1>1, <1>4, CallInts DEF Reaches, TypeInv, TypeOK
<1>7. now' >= now
  BY <1>1 DEF TypeInv, TypeOK
<1> QED
  BY <1>1, <1>2, <1>3, <1>5, <1>6, <1>7, ClockFrame

\* Between attempts, all of a driven session's queued deliveries that are not
\* canceled can be picked.
LEMMA AllIdle ==
  ASSUME TypeInv, IInv, NEW c \in Caller, pc[c] = "drive"
  PROVE  Idle(call[c].s) = {d \in PendingOf(call[c].s) : d \notin canceled}
<1>1. \A d \in pending : sess[d] = call[c].s => d \notin running
  BY DEF IInv, Alone, Drives, Holds
<1> QED
  BY <1>1 DEF Idle, PendingOf

\* What is picked comes first in session time.
LEMMA PickedFirst ==
  ASSUME TypeInv, IInv, NEW c \in Caller, pc[c] = "drive",
         NEW d \in EarliestLocked(call[c].s)
  PROVE  /\ d \in Delivery /\ d \in pending /\ d \notin canceled /\ sess[d] = call[c].s
         /\ \A x \in pending :
              sess[x] = call[c].s /\ x \notin canceled => SessionDue(d) <= SessionDue(x)
<1>1. d \in Idle(call[c].s) /\ \A x \in Idle(call[c].s) \ {d} : Before(d, x)
  BY DEF EarliestLocked, EarliestOf
<1>2. d \in Delivery /\ d \in pending /\ d \notin canceled /\ sess[d] = call[c].s
  BY <1>1 DEF Idle, PendingOf, TypeInv, TypeOK
<1>3. ASSUME NEW x \in pending, sess[x] = call[c].s, x \notin canceled
      PROVE  SessionDue(d) <= SessionDue(x)
  <2>1. x \in Idle(call[c].s) /\ x \in Delivery
    BY <1>3, AllIdle DEF PendingOf, TypeInv, TypeOK
  <2>2. fireAt[d] <= fireAt[x]
    BY <1>1, <1>2, <2>1 DEF Before, TypeInv, TypeOK
  <2> QED
    BY <1>2, <1>3, <2>1, <2>2 DEF SessionDue, TypeInv, TypeOK
<1> QED
  BY <1>2, <1>3

\* A clock that moves takes its session's deliveries with it and leaves those of
\* canceled sessions alone.
LEMMA ShiftKeepsDue ==
  ASSUME TypeInv, IInv, NEW c \in Caller, pc[c] \in Holding, call[c].s \notin gone,
         NEW by \in Nat, ShiftLocked(call[c].s, by), UNCHANGED <<sess, pending, fresh, gone>>,
         \A b \in Caller : b # c => /\ pc'[b] = pc[b] /\ call'[b] = call[b]
                                    /\ at'[b] = at[b] /\ status'[b] = status[b]
  PROVE  /\ \A d \in Waiting' : DueKept(d)
         /\ \A d \in pending : SessionDue(d)' = SessionDue(d)
         /\ \A b \in Caller : b # c => SameCall(b) /\ ClockKept(b)
<1>1. call[c].s \in Session
  BY DEF TypeInv, CallOK
<1>2. \A d \in pending : SessionDue(d)' = SessionDue(d)
  BY <1>1, ShiftDue
<1>3. ASSUME NEW d \in Waiting
      PROVE  DueKept(d)
  <2>1. d \in Delivery /\ fireAt[d] \in Int /\ SessionDue(d) \in Int
    BY DueInts
  <2>2. CASE d \in pending
    <3>1. d \notin fresh
      BY <2>1, <2>2 DEF IInv, Fresh
    <3>2. sess[d] \in gone => fireAt'[d] = fireAt[d]
      BY <2>1 DEF ShiftLocked, PendingOf, TypeInv, TypeOK
    <3> QED
      BY <1>2, <2>1, <2>2, <3>1, <3>2 DEF DueKept
  <2>3. CASE d \in fresh
    <3>1. fireAt'[d] = fireAt[d]
      BY <2>1, <2>3 DEF ShiftLocked, PendingOf, IInv, Fresh
    <3>2. sess[d] \in Session => offset'[sess[d]] >= offset[sess[d]] /\ offset[sess[d]] \in Nat
                                 /\ offset'[sess[d]] \in Nat
      BY <1>1 DEF ShiftLocked, TypeInv, TypeOK
    <3>3. SessionDue(d)' >= SessionDue(d)
      BY <2>1, <3>1, <3>2 DEF SessionDue
    <3> QED
      BY <2>3, <3>1, <3>3 DEF DueKept, Waiting
  <2> QED
    BY <2>2, <2>3 DEF Waiting
<1>4. \A b \in Caller : b # c => SameCall(b)
  BY SameLocals
<1>5. \A b \in Caller : b # c => ClockKept(b)
  <2> SUFFICES ASSUME NEW b \in Caller, b # c, pc'[b] \in Holding
               PROVE  offset'[call[b].s] = offset[call[b].s]
    BY DEF ClockKept
  <2>1. pc[b] \in Holding
    OBVIOUS
  <2>2. call[b].s # call[c].s
    BY <2>1 DEF IInv, Held
  <2>3. call[b].s \in Session
    BY <2>1 DEF TypeInv, CallOK
  <2> QED
    BY <2>2, <2>3 DEF ShiftLocked, TypeInv, TypeOK
<1>6. Waiting' = Waiting
  BY DEF Waiting
<1> QED
  BY <1>2, <1>3, <1>4, <1>5, <1>6

LEMMA ClockPick ==
  ASSUME TypeInv, IInv, TypeInv', CInv, NEW c \in Caller, PickNext(c)
  PROVE  CInv'
<1> DEFINE s == call[c].s
<1>. PICK d \in EarliestLocked(s) :
       /\ Step(d) <= call[c].left /\ ShiftLocked(s, Step(d))
       /\ at' = [at EXCEPT ![c] = d]
       /\ call' = [call EXCEPT ![c].left = @ - Step(d),
                               ![c].fired = @ + 1,
                               ![c].prev = Later(call[c].prev, SessionDue(d)),
                               ![c].late = Overtaken(c, d)]
  BY DEF PickNext
<1>1. /\ UNCHANGED <<now, gone, sess, canceled, pending, fresh, status>>
      /\ s \notin gone /\ pc[c] = "drive" /\ pc' = [pc EXCEPT ![c] = "check"]
  BY DEF PickNext, Driving, ownerVars, newVars
<1>2. /\ s \in Session /\ pc[c] \in Holding
      /\ d \in Delivery /\ d \in pending /\ sess[d] = s
      /\ \A x \in pending : sess[x] = s /\ x \notin canceled => SessionDue(d) <= SessionDue(x)
  BY <1>1, PickedFirst DEF Holding, TypeInv, CallOK
<1>3. Step(d) \in Nat /\ now + Step(d) >= fireAt[d]
  BY <1>2 DEF Step, TypeInv, TypeOK
<1>4. \A b \in Caller : b # c => /\ pc'[b] = pc[b] /\ call'[b] = call[b]
                                 /\ at'[b] = at[b] /\ status'[b] = status[b]
  BY <1>1 DEF TypeInv, TypeOK, Executor
<1>5. /\ call'[c].s = s /\ call'[c].prev = Later(call[c].prev, SessionDue(d))
      /\ call'[c].target = call[c].target /\ call'[c].left = call[c].left - Step(d)
      /\ call'[c].late = Overtaken(c, d)
  BY DEF TypeInv, TypeOK, CallRecord
<1>6. offset'[s] = offset[s] + Step(d)
  BY <1>2 DEF ShiftLocked, TypeInv, TypeOK
<1>7. /\ \A x \in Waiting' : DueKept(x)
      /\ \A x \in pending : SessionDue(x)' = SessionDue(x)
      /\ \A b \in Caller : b # c => SameCall(b) /\ ClockKept(b)
  BY <1>1, <1>2, <1>3, <1>4, ShiftKeepsDue
<1>8. InOrder(c)'
  <2>1. /\ SessionDue(d) \in Int /\ call[c].prev \in Int
        /\ \A x \in pending : SessionDue(x) \in Int
    BY <1>2, CallInts, DueInts DEF Waiting
  <2>2. /\ call[c].prev <= now + offset[s]
        /\ \A x \in pending : sess[x] = s /\ x \notin canceled \cup call[c].late
                                => SessionDue(x) >= call[c].prev
    <3>1. Firing(c) = {}
      BY <1>1 DEF Firing
    <3> QED
      BY <1>2, <3>1 DEF CInv, InOrder, Waiting
  <2>3. /\ now \in Nat /\ offset[s] \in Nat
        /\ SessionDue(d) = fireAt[d] + offset[s] /\ fireAt[d] \in Int
    BY <1>2 DEF SessionDue, TypeInv, TypeOK
  <2>4. call'[c].prev <= now + offset'[s]
    BY <1>3, <1>5, <1>6, <2>1, <2>2, <2>3 DEF Later
  <2>5. Firing(c)' = {d}
    BY <1>1, <1>2 DEF Firing, TypeInv, TypeOK, Executor
  <2>6. ASSUME NEW x \in Waiting, sess[x] = s,
               x \notin canceled \cup Overtaken(c, d) \cup {d}
        PROVE  SessionDue(x)' >= call'[c].prev
    <3>1. x \in pending /\ x \notin call[c].late
      BY <2>6 DEF Overtaken, Waiting
    <3>2. SessionDue(x) >= call[c].prev /\ SessionDue(x) >= SessionDue(d)
      BY <1>2, <2>1, <2>2, <2>6, <3>1
    <3> QED
      BY <1>5, <1>7, <2>1, <3>1, <3>2 DEF Later
  <2>7. Waiting' = Waiting
    BY <1>1 DEF Waiting
  <2> HIDE DEF s
  <2> QED
    BY <1>1, <1>5, <2>4, <2>5, <2>6, <2>7 DEF InOrder
<1>9. Reaches(c)'
  <2>1. now + offset[s] + call[c].left >= call[c].target
    BY <1>1 DEF CInv, Reaches, Drives
  <2>2. /\ now \in Nat /\ offset[s] \in Nat /\ call[c].left \in Nat /\ call[c].target \in Int
    BY <1>2, CallInts
  <2>3. now' + offset'[s] + call'[c].left >= call'[c].target
    BY <1>1, <1>3, <1>5, <1>6, <2>1, <2>2
  <2> QED
    BY <1>5, <2>3 DEF Reaches
<1>10. now' >= now
  BY <1>1 DEF TypeInv, TypeOK
<1> QED
  BY <1>1, <1>7, <1>8, <1>9, <1>10, ClockFrame

LEMMA ClockFinish ==
  ASSUME TypeInv, IInv, TypeInv', CInv, NEW c \in Caller, Finish(c)
  PROVE  CInv'
<1> DEFINE s == call[c].s
<1>1. /\ UNCHANGED <<now, gone, sess, canceled, pending, fresh, call, at, status>>
      /\ pc[c] = "finish" /\ pc' = [pc EXCEPT ![c] = "release"]
  BY DEF Finish, ownerVars, newVars, queueVars, callVars
<1>2. /\ pc[c] \in Holding /\ pc'[c] = "release" /\ s \in Session
      /\ \A b \in Caller : b # c => pc'[b] = pc[b]
  BY <1>1 DEF Holding, TypeInv, TypeOK, CallOK, Executor
<1>3. call[c].left \in Nat /\ offset[s] \in Nat /\ now \in Nat /\ call[c].prev \in Int
  BY <1>2, CallInts
<1>4. SameCall(c)
  BY <1>1, <1>2 DEF SameCall, Drives, Firing
<1>5. now' >= now /\ Waiting' = Waiting
  BY <1>1, <1>3 DEF Waiting
<1>6. CASE Passes(c)
  <2>1. ShiftLocked(s, call[c].left) /\ s \notin gone
    BY <1>6 DEF Finish, Passes
  <2>2. /\ \A x \in Waiting' : DueKept(x)
        /\ \A b \in Caller : b # c => SameCall(b) /\ ClockKept(b)
    BY <1>1, <1>2, <1>3, <2>1, ShiftKeepsDue
  <2>3. offset'[s] = offset[s] + call[c].left
    BY <1>2, <2>1 DEF ShiftLocked, TypeInv, TypeOK
  <2>4. /\ call[c].prev <= now + offset[s]
        /\ \A d \in Waiting :
             sess[d] = s /\ d \notin canceled \cup call[c].late \cup Firing(c)
               => SessionDue(d) >= call[c].prev
    BY <1>2 DEF CInv, InOrder
  <2>5. call[c].prev <= now + offset'[s]
    BY <1>3, <2>3, <2>4
  <2>6. ASSUME NEW d \in Waiting, sess[d] = s, d \notin canceled \cup call[c].late
        PROVE  SessionDue(d)' >= call[c].prev
    <3>1. SessionDue(d) >= call[c].prev
      BY <1>1, <2>4, <2>6 DEF Firing
    <3>2. SessionDue(d)' >= SessionDue(d) /\ SessionDue(d)' \in Int /\ SessionDue(d) \in Int
      BY <1>5, <2>2, <2>6, DueInts DEF DueKept, TypeInv, TypeOK, SessionDue
    <3> QED
      BY <1>3, <3>1, <3>2
  <2>7. InOrder(c)'
    BY <1>1, <1>5, <2>5, <2>6 DEF InOrder
  <2>8. Reaches(c)'
    BY <1>2 DEF Reaches, Drives
  <2> QED
    BY <1>1, <1>5, <2>2, <2>7, <2>8, ClockFrame
<1>7. CASE ~Passes(c)
  <2>1. UNCHANGED <<offset, fireAt>>
    BY <1>7 DEF Finish
  <2>2. \A x \in Waiting' : DueKept(x)
    BY <1>1, <1>5, <2>1, DueSame
  <2>3. \A b \in Caller : SameCall(b) /\ ClockKept(b)
    BY <1>1, <1>2, <1>4, <2>1, SameLocals DEF ClockKept
  <2> QED
    BY <1>1, <1>5, <2>2, <2>3, ClockFrame
<1> QED
  BY <1>6, <1>7

\* The clock of a canceled session is gone with the call that held it.
LEMMA ClockRelease ==
  ASSUME TypeInv, IInv, TypeInv', CInv, NEW c \in Caller, Release(c)
  PROVE  CInv'
<1> DEFINE s == call[c].s
<1>1. /\ UNCHANGED <<now, sess, fireAt, canceled, pending, fresh, at, status>>
      /\ gone' = gone \ {s}
      /\ offset' = (IF s \in gone THEN [offset EXCEPT ![s] = 0] ELSE offset)
      /\ pc[c] = "release" /\ pc' = [pc EXCEPT ![c] = "idle"]
      /\ call' = [call EXCEPT ![c] = NoCall]
  BY DEF Release, delVars, newVars
<1>2. /\ pc[c] \in Holding /\ s \in Session
      /\ pc'[c] \notin Holding /\ ~Drives(c)'
      /\ \A b \in Caller : b # c => pc'[b] = pc[b] /\ call'[b] = call[b]
  BY <1>1 DEF Holding, Drives, TypeInv, TypeOK, CallOK, Executor
<1>3. \A b \in Caller : b # c /\ pc[b] \in Holding => call[b].s # s /\ call[b].s \in Session
  BY <1>2 DEF IInv, Held, TypeInv, CallOK
<1> HIDE DEF s
<1>4. ASSUME NEW d \in Waiting
      PROVE  DueKept(d) \/ DueReset(d)
  <2>1. d \in Delivery /\ fireAt[d] \in Int /\ SessionDue(d) \in Int
    BY DueInts
  <2>2. CASE sess[d] = s /\ s \in gone
    <3>1. fireAt'[d] >= 0
      BY <1>1, <2>2 DEF CInv, DueNat
    <3> QED
      BY <1>1, <1>2, <1>3, <2>2, <3>1 DEF DueReset
  <2>3. CASE sess[d] # s \/ s \notin gone
    <3>1. sess[d] \in Session => offset'[sess[d]] = offset[sess[d]]
      BY <1>1, <2>3 DEF TypeInv, TypeOK
    <3>2. SessionDue(d)' = SessionDue(d)
      BY <1>1, <3>1 DEF SessionDue
    <3> QED
      BY <1>1, <2>1, <3>2 DEF DueKept
  <2> QED
    BY <2>2, <2>3
<1>5. \A b \in Caller : SameCall(b) /\ ClockKept(b)
  <2>1. ASSUME NEW b \in Caller, b # c
        PROVE  SameCall(b) /\ ClockKept(b)
    BY <1>1, <1>2, <1>3, <2>1, SameLocals DEF ClockKept, TypeInv, TypeOK
  <2>2. SameCall(c) /\ ClockKept(c)
    BY <1>2 DEF SameCall, ClockKept
  <2> QED
    BY <2>1, <2>2
<1>6. now' >= now /\ Waiting' = Waiting
  BY <1>1 DEF Waiting, TypeInv, TypeOK
<1> QED
  BY <1>1, <1>4, <1>5, <1>6, ClockFrame

\* A session whose clock is reset has nothing left in pending, and nobody holds it.
LEMMA ClockDrop ==
  ASSUME TypeInv, IInv, TypeInv', CInv, NEW c \in Caller, NEW op, NEW dropped, NEW marked,
         NEW ss, \A d \in pending \ dropped : sess[d] \notin ss,
         Drop(c, op, dropped, marked, ss)
  PROVE  CInv'
<1>1. /\ UNCHANGED <<now, exclusive, sess, fireAt, canceled, fresh, at, status>>
      /\ pending' = pending \ dropped /\ gone' = gone \cup (ss \cap exclusive)
      /\ offset' = [x \in Session |-> IF x \in ss \ exclusive THEN 0 ELSE offset[x]]
      /\ pc[c] = "idle" /\ pc' = [pc EXCEPT ![c] = "mark"]
      /\ \A b \in Caller : b # c => call'[b] = call[b]
  BY DEF Drop, delVars, newVars, TypeInv, TypeOK
<1>2. \A b \in Caller : SameCall(b)
  <2>1. SameCall(c)
    BY <1>1 DEF SameCall, Holding, TypeInv, TypeOK, Executor
  <2>2. \A b \in Caller : b # c => SameCall(b)
    BY <1>1, SameLocals DEF TypeInv, TypeOK, Executor
  <2> QED
    BY <2>1, <2>2
<1>3. \A b \in Caller : pc'[b] \in Holding =>
        call'[b].s = call[b].s /\ call[b].s \in exclusive /\ call[b].s \in Session
  BY <1>2 DEF SameCall, IInv, Held, TypeInv, CallOK
<1>4. \A b \in Caller : ClockKept(b)
  BY <1>1, <1>3 DEF ClockKept
<1>5. ASSUME NEW d \in Waiting'
      PROVE  DueKept(d) \/ DueReset(d)
  <2>1. d \in Waiting /\ d \in Delivery /\ fireAt[d] \in Int /\ SessionDue(d) \in Int
    BY <1>1, DueInts DEF Waiting
  <2>2. CASE sess[d] \in Session \cap (ss \ exclusive)
    <3>1. d \in fresh
      BY <1>1, <1>5, <2>2 DEF Waiting
    <3>2. fireAt'[d] >= 0
      BY <1>1, <2>1, <3>1 DEF CInv, DueNat
    <3> QED
      BY <1>1, <1>3, <2>2, <3>2 DEF DueReset
  <2>3. CASE sess[d] \notin Session \cap (ss \ exclusive)
    <3>1. SessionDue(d)' = SessionDue(d)
      BY <1>1, <2>3 DEF SessionDue
    <3>2. sess[d] \in gone' => d \in fresh \/ sess[d] \in gone
      BY <1>1, <1>5 DEF Waiting
    <3> QED
      BY <1>1, <2>1, <3>1, <3>2 DEF DueKept
  <2> QED
    BY <2>2, <2>3
<1>6. now' >= now
  BY <1>1 DEF TypeInv, TypeOK
<1> QED
  BY <1>1, <1>2, <1>4, <1>5, <1>6, ClockFrame

LEMMA CountedNext ==
  ASSUME TypeInv, Counted, [Next]_vars
  PROVE  Counted'
<1> USE ConstantsAssumption DEF delVars, newVars, execVars
<1>1. CASE Tick \/ UNCHANGED vars \/ \E d \in Delivery : ScheduleQueues(d)
  BY <1>1 DEF Tick, vars, ScheduleQueues, QueueNew, Counted
<1>2. CASE Environment
  BY <1>2 DEF Environment, Schedule, NewDelivery, StopDispatcher, BeginAdvance, BeginDeliver,
     BeginCancel, BeginCancelAll, Begin, Drop, Counted, TypeInv, TypeOK
<1>3. CASE SchedulerStep
  BY <1>3 DEF SchedulerStep, Scan, Arm, Wakeup, Exit, Hand, Counted, TypeInv, TypeOK
<1>4. ASSUME NEW e \in Executor, AttemptStep(e)
      PROVE  Counted'
  <2>1. CASE StartAttempt(e)
    <3>1. at[e] \in Delivery /\ attempts \in [Delivery -> Nat]
      BY <2>1 DEF StartAttempt, TypeInv, TypeOK, AtOK, Attempting
    <3> QED
      BY <2>1, <3>1 DEF StartAttempt, Counted, TypeInv, TypeOK
  <2>2. CASE \/ SkipCanceled(e) \/ TakeUp(e) \/ Settle(e) \/ Callback(e) \/ CallbackQueues(e)
             \/ \E ok \in BOOLEAN : Answer(e, ok)
    BY <2>2 DEF SkipCanceled, TakeUp, Answer, Settle, Callback, CallbackQueues, NewDelivery,
       QueueNew, Return, Back, Counted, TypeInv, TypeOK
  <2> QED
    BY <1>4, <2>1, <2>2 DEF AttemptStep
<1>5. ASSUME NEW c \in Caller, CallStep(c)
      PROVE  Counted'
  BY <1>5 DEF CallStep, Acquired, AcquireTimeout, AfterTimeout, Release, GiveUp, Covered,
     PickNext, Finish, DeliverNext, DeliverEnd, Mark, CancelEnd, Counted, TypeInv, TypeOK
<1> QED
  BY <1>1, <1>2, <1>3, <1>4, <1>5 DEF Next

LEMMA ClockEnvironment ==
  ASSUME TypeInv, IInv, TypeInv', CInv, Environment
  PROVE  CInv'
<1>1. ASSUME NEW s \in Session \cup {NoSession}, NEW ev \in Event,
             NEW delay \in Delays, NEW h \in Hooks, Schedule(s, ev, delay, h)
      PROVE  CInv'
  <2>1. NewDelivery(s, ev, delay, h) /\ UNCHANGED <<now, offset, gone, pending>>
    BY <1>1 DEF Schedule, clockVars, ownerVars, queueVars
  <2>2. \A c \in Caller : SameCall(c)
    BY <1>1, SameLocals DEF Schedule, execVars, callVars
  <2> QED
    BY <2>1, <2>2, ClockNew
<1>2. CASE StopDispatcher
  BY <1>2, TimelessScheduler, TimelessKeeps
<1>3. ASSUME NEW c \in Caller, NEW s \in Session,
             \/ \E by \in Windows : BeginAdvance(c, s, by)
             \/ BeginDeliver(c, s)
      PROVE  CInv'
  BY <1>3, ClockBegin DEF BeginAdvance, BeginDeliver
<1>4. ASSUME NEW c \in Caller, NEW s \in Session, BeginCancel(c, s)
      PROVE  CInv'
  <2>1. \A d \in pending \ PendingOf(s) : sess[d] \notin {s}
    BY DEF PendingOf
  <2> QED
    BY <1>4, <2>1, ClockDrop DEF BeginCancel
<1>5. ASSUME NEW c \in Caller, BeginCancelAll(c)
      PROVE  CInv'
  <2>1. \A d \in pending \ pending : sess[d] \notin {s \in Session : offset[s] > 0}
    OBVIOUS
  <2> QED
    BY <1>5, <2>1, ClockDrop DEF BeginCancelAll
<1> QED
  BY <1>1, <1>2, <1>3, <1>4, <1>5 DEF Environment

LEMMA ClockNext ==
  ASSUME TypeInv, IInv, TypeInv', Counted, CInv, [Next]_vars
  PROVE  CInv'
<1>1. CASE SchedulerStep \/ UNCHANGED vars
  BY <1>1, TimelessScheduler, TimelessKeeps
<1>2. ASSUME NEW e \in Executor, AttemptStep(e)
      PROVE  CInv'
  BY <1>2, TimelessAttempt, TimelessKeeps, ClockAnswer, ClockCallback DEF AttemptStep
<1>3. ASSUME NEW c \in Caller, CallStep(c)
      PROVE  CInv'
  BY <1>3, TimelessCall, TimelessKeeps, ClockAcquired, ClockRelease, ClockPick, ClockFinish
     DEF CallStep
<1> QED
  BY <1>1, <1>2, <1>3, ClockTick, ClockEnvironment, TimelessScheduleQueues, TimelessKeeps
     DEF Next

LEMMA ClockInit == Init => Counted /\ CInv
<1> SUFFICES ASSUME Init
             PROVE  Counted /\ CInv
  OBVIOUS
<1>1. \A e \in Executor : pc[e] = "idle"
  BY DEF Init
<1>2. Counted
  BY <1>1 DEF Counted
<1>3. DueNat
  BY DEF Init, DueNat, Waiting
<1>4. \A c \in Caller : InOrder(c) /\ Reaches(c)
  BY <1>1 DEF InOrder, Reaches, Holding, Drives, Executor
<1> QED
  BY <1>2, <1>3, <1>4 DEF CInv

\* The invariant of the clocks holds in every reachable state.
THEOREM ClockInvariant == Spec => [](Counted /\ CInv)
<1>1. TypeInv /\ IInv /\ TypeInv' /\ Counted /\ CInv /\ [Next]_vars => (Counted /\ CInv)'
  BY CountedNext, ClockNext
<1> QED
  BY <1>1, ClockInit, OwnershipInvariant, PTL DEF Spec

-----------------------------------------------------------------------------
(* What the clocks promise. *)

\* The steps that move what is queued in session time: a failed attempt, and the
\* end of a canceled drive.
LEMMA DueStep ==
  ASSUME TypeInv, IInv, TypeInv', Counted, CInv, [Next]_vars, NEW d \in pending \cap pending'
  PROVE  \/ SessionDue(d)' = SessionDue(d)
         \/ attempts[d] > 0 /\ d \in running /\ journal'[d] = "retrying"
         \/ sess[d] \in gone /\ sess[d] \notin exclusive'
<1>0. d \in Delivery
  BY DEF TypeInv, TypeOK
<1>1. CASE SchedulerStep \/ StopDispatcher \/ UNCHANGED vars
  BY <1>1, TimelessScheduler, TimelessKeeps DEF Waiting
<1>2. CASE Tick
  BY <1>2 DEF Tick, SessionDue, delVars, newVars
<1>3. ASSUME NEW s, NEW ev, NEW delay, NEW h, NewDelivery(s, ev, delay, h), UNCHANGED offset
      PROVE  SessionDue(d)' = SessionDue(d)
  <2>1. last + 1 # d
    BY DeliveryFacts, <1>0 DEF IInv, Fresh, TypeInv, TypeOK
  <2> QED
    BY <1>0, <1>3, <2>1 DEF NewDelivery, SessionDue, TypeInv, TypeOK
<1>4. ASSUME NEW e \in Executor, NEW ok \in BOOLEAN, Answer(e, ok)
      PROVE  \/ SessionDue(d)' = SessionDue(d)
             \/ attempts[d] > 0 /\ d \in running /\ journal'[d] = "retrying"
  <2>1. CASE d # at[e]
    BY <1>0, <1>4, <2>1 DEF Answer, SessionDue, clockVars, newVars, TypeInv, TypeOK
  <2>2. CASE d = at[e]
    <3>1. attempts[d] > 0 /\ d \in running
      BY <1>0, <1>4, <2>2 DEF Answer, Counted, IInv, OneHolder, Holds
    <3>2. fireAt' = fireAt \/ journal'[d] = "retrying"
      BY <1>0, <1>4, <2>2 DEF Answer, TypeInv, TypeOK
    <3> QED
      BY <1>4, <3>1, <3>2 DEF Answer, SessionDue, clockVars, newVars
  <2> QED
    BY <2>1, <2>2
<1>5. ASSUME NEW c \in Caller, NEW op, NEW s, NEW by, Begin(c, op, s, by)
      PROVE  SessionDue(d)' = SessionDue(d)
  BY <1>5 DEF Begin, SessionDue, clockVars, delVars, newVars
<1>6. ASSUME NEW c \in Caller, NEW op, NEW dropped, NEW marked, NEW ss,
             \A x \in pending \ dropped : sess[x] \notin ss,
             Drop(c, op, dropped, marked, ss)
      PROVE  SessionDue(d)' = SessionDue(d)
  BY <1>0, <1>6 DEF Drop, SessionDue, delVars, newVars
<1>7. CASE Environment
  <2>1. ASSUME NEW c \in Caller, NEW s \in Session, BeginCancel(c, s)
        PROVE  SessionDue(d)' = SessionDue(d)
    BY <1>6, <2>1 DEF BeginCancel, PendingOf
  <2>2. ASSUME NEW c \in Caller, BeginCancelAll(c)
        PROVE  SessionDue(d)' = SessionDue(d)
    BY <1>6, <2>2 DEF BeginCancelAll
  <2>3. ASSUME NEW c \in Caller, NEW s \in Session, NEW by,
               BeginAdvance(c, s, by) \/ BeginDeliver(c, s)
        PROVE  SessionDue(d)' = SessionDue(d)
    BY <1>5, <2>3 DEF BeginAdvance, BeginDeliver
  <2>4. ASSUME NEW s, NEW ev, NEW delay, NEW h, Schedule(s, ev, delay, h)
        PROVE  SessionDue(d)' = SessionDue(d)
    BY <1>3, <2>4 DEF Schedule, clockVars
  <2> QED
    BY <1>1, <1>7, <2>1, <2>2, <2>3, <2>4 DEF Environment
<1>8. ASSUME NEW e \in Executor, Callback(e) \/ CallbackQueues(e)
      PROVE  SessionDue(d)' = SessionDue(d)
  <2>1. CASE Callback(e) /\ UNCHANGED delVars
    BY <2>1 DEF Callback, SessionDue, clockVars, delVars, newVars
  <2>2. CASE CallbackQueues(e)
    BY <2>2 DEF CallbackQueues, QueueNew, SessionDue, clockVars
  <2> QED
    BY <1>3, <1>8, <2>1, <2>2 DEF Callback, clockVars
<1>9. ASSUME NEW e \in Executor, AttemptStep(e)
      PROVE  \/ SessionDue(d)' = SessionDue(d)
             \/ attempts[d] > 0 /\ d \in running /\ journal'[d] = "retrying"
  BY <1>4, <1>8, <1>9, TimelessAttempt, TimelessKeeps DEF AttemptStep, Waiting
<1>10. ASSUME NEW c \in Caller, PickNext(c)
       PROVE  SessionDue(d)' = SessionDue(d)
  <2>1. call[c].s \in Session /\ now \in Nat /\ fireAt \in [Delivery -> Int]
    BY <1>10 DEF PickNext, Driving, Holding, TypeInv, TypeOK, CallOK
  <2>2. PICK x \in EarliestLocked(call[c].s) : ShiftLocked(call[c].s, Step(x))
    BY <1>10 DEF PickNext
  <2>3. x \in Delivery
    BY <2>2 DEF EarliestLocked, EarliestOf, Idle, PendingOf, TypeInv, TypeOK
  <2>4. Step(x) \in Int
    BY <2>1, <2>3 DEF Step
  <2> QED
    BY <1>10, <2>1, <2>2, <2>4, ShiftDue DEF PickNext, newVars
<1>11. ASSUME NEW c \in Caller, Finish(c)
       PROVE  SessionDue(d)' = SessionDue(d)
  <2>1. call[c].s \in Session /\ call[c].left \in Int
    BY <1>11, CallInts DEF Finish, Holding, TypeInv, CallOK
  <2> QED
    BY <1>11, <2>1, ShiftDue DEF Finish, SessionDue, newVars
<1>12. ASSUME NEW c \in Caller, Release(c)
       PROVE  \/ SessionDue(d)' = SessionDue(d)
              \/ sess[d] \in gone /\ sess[d] \notin exclusive'
  BY <1>12 DEF Release, SessionDue, delVars, newVars, TypeInv, TypeOK
<1>13. ASSUME NEW c \in Caller, Acquired(c)
       PROVE  SessionDue(d)' = SessionDue(d)
  BY <1>13 DEF Acquired, SessionDue, clockVars, delVars, newVars
<1>14. ASSUME NEW c \in Caller, CallStep(c)
       PROVE  \/ SessionDue(d)' = SessionDue(d)
              \/ sess[d] \in gone /\ sess[d] \notin exclusive'
  BY <1>10, <1>11, <1>12, <1>13, <1>14, TimelessCall, TimelessKeeps DEF CallStep, Waiting
<1>15. ASSUME NEW x \in Delivery, ScheduleQueues(x)
       PROVE  SessionDue(d)' = SessionDue(d)
  BY <1>15 DEF ScheduleQueues, QueueNew, SessionDue, clockVars
<1> QED
  BY <1>1, <1>2, <1>7, <1>9, <1>14, <1>15 DEF Next

\* What is queued stays where it is in session time, however the clocks move
\* (clock.go:20).
THEOREM DueTimeHolds == Spec => DueTimeStable
<1>1. TypeInv /\ IInv /\ TypeInv' /\ Counted /\ CInv /\ [Next]_vars =>
        [\A d \in pending \cap pending' :
           \/ SessionDue(d)' = SessionDue(d)
           \/ attempts[d] > 0 /\ d \in running /\ journal'[d] = "retrying"
           \/ sess[d] \in gone /\ sess[d] \notin exclusive']_vars
  BY DueStep
<1> QED
  BY <1>1, OwnershipInvariant, ClockInvariant, PTL DEF Spec, DueTimeStable

\* Only the loop of Advance fires.
LEMMA FiringStep ==
  ASSUME TypeInv, [Next]_vars, NEW c \in Caller, Drives(c), call'[c].fired > call[c].fired
  PROVE  PickNext(c)
<1>0. call[c] \in CallRecord /\ call[c].fired \in Nat
  BY DEF TypeInv, TypeOK, CallRecord
<1>1. call'[c].fired # call[c].fired
  BY <1>0
<1>2. call' # call
  BY <1>1
<1>3. CASE \/ Tick \/ UNCHANGED vars \/ SchedulerStep
           \/ \E e \in Executor : AttemptStep(e)
           \/ \E d \in Delivery : ScheduleQueues(d)
  BY <1>2, <1>3 DEF Tick, vars, SchedulerStep, Scan, Arm, Wakeup, Exit, Hand, AttemptStep,
     SkipCanceled, TakeUp, StartAttempt, Answer, Settle, Callback, CallbackQueues,
     ScheduleQueues, callVars
<1>4. ASSUME NEW b \in Caller, NEW op, NEW s, NEW by, Begin(b, op, s, by)
      PROVE  FALSE
  BY <1>1, <1>4 DEF Begin, Drives, TypeInv, TypeOK
<1>5. ASSUME NEW b \in Caller, NEW op, NEW dropped, NEW marked, NEW ss,
             Drop(b, op, dropped, marked, ss)
      PROVE  FALSE
  BY <1>1, <1>5 DEF Drop, Drives, TypeInv, TypeOK
<1>6. CASE Environment
  BY <1>2, <1>4, <1>5, <1>6 DEF Environment, Schedule, StopDispatcher, BeginAdvance, BeginDeliver,
     BeginCancel, BeginCancelAll, callVars
<1>7. ASSUME NEW b \in Caller, CallStep(b)
      PROVE  PickNext(c)
  <2>1. CASE PickNext(b)
    BY <1>1, <2>1 DEF PickNext, TypeInv, TypeOK
  <2>2. CASE Acquired(b) \/ GiveUp(b) \/ \E d \in Delivery : Mark(b, d)
    <3>1. call \in [Caller -> CallRecord] /\ b \in Caller /\ call[b] \in CallRecord
      BY DEF TypeInv, TypeOK
    <3>2. call'[b].fired = call[b].fired
      BY <2>2, <3>1 DEF Acquired, GiveUp, Mark, CallRecord
    <3>3. b # c => call'[c] = call[c]
      BY <2>2, <3>1 DEF Acquired, GiveUp, Mark
    <3> QED
      BY <1>1, <3>2, <3>3
  <2>3. CASE Release(b) \/ CancelEnd(b)
    BY <1>0, <2>3 DEF Release, CancelEnd, NoCall, NewCall, TypeInv, TypeOK
  <2> QED
    BY <1>2, <1>7, <2>1, <2>2, <2>3 DEF CallStep, AcquireTimeout, Covered, Finish, DeliverNext,
       DeliverEnd, callVars
<1> QED
  BY <1>3, <1>6, <1>7 DEF Next

\* Advance fires what a session has queued in the order of session time
\* (clock.go:83), retries and what is scheduled on the way included; only a Schedule
\* that read the clock before the call fired something and queued its delivery
\* afterwards may have one due earlier (dispatcher.go:179).
THEOREM DriveInOrderHolds == Spec => DriveInOrder
<1>1. TypeInv /\ IInv /\ CInv /\ [Next]_vars =>
        [\A c \in Caller :
           Drives(c) /\ call'[c].fired > call[c].fired
             => \/ SessionDue(at'[c]) >= call[c].prev
                \/ at'[c] \in call[c].late]_vars
  <2> SUFFICES ASSUME TypeInv, IInv, CInv, [Next]_vars, NEW c \in Caller, Drives(c),
                      call'[c].fired > call[c].fired, at'[c] \notin call[c].late
               PROVE  SessionDue(at'[c]) >= call[c].prev
    OBVIOUS
  <2>1. PickNext(c)
    BY FiringStep
  <2>2. pc[c] = "drive" /\ pc[c] \in Holding /\ Firing(c) = {}
    BY <2>1 DEF PickNext, Driving, Holding, Firing
  <2>3. PICK d \in EarliestLocked(call[c].s) : at'[c] = d
    BY <2>1 DEF PickNext, TypeInv, TypeOK, Executor
  <2>4. d \in Waiting /\ d \notin canceled /\ sess[d] = call[c].s
    BY <2>2, PickedFirst DEF Waiting
  <2> QED
    BY <2>2, <2>3, <2>4 DEF CInv, InOrder
<1> QED
  BY <1>1, OwnershipInvariant, ClockInvariant, PTL DEF Spec, DriveInOrder

\* Where Advance leaves its loop without having stopped early.
LEMMA LeavingStep ==
  ASSUME TypeInv, [Next]_vars, NEW c \in Caller, pc[c] = "drive", pc'[c] = "finish",
         ~call'[c].partial
  PROVE  Covered(c)
<1> USE ConstantsAssumption DEF Executor
<1>1. CASE \/ Tick \/ UNCHANGED vars \/ SchedulerStep
           \/ \E d \in Delivery : ScheduleQueues(d)
  BY <1>1 DEF Tick, vars, SchedulerStep, Scan, Arm, Wakeup, Exit, Hand, ScheduleQueues, execVars,
     TypeInv, TypeOK
<1>2. ASSUME NEW e \in Executor, AttemptStep(e)
      PROVE  FALSE
  BY <1>2 DEF AttemptStep, SkipCanceled, TakeUp, StartAttempt, Answer, Settle, Callback,
     CallbackQueues, Return, Back, TypeInv, TypeOK
<1>3. ASSUME NEW b \in Caller, NEW op, NEW s, NEW by, Begin(b, op, s, by)
      PROVE  FALSE
  BY <1>3 DEF Begin, TypeInv, TypeOK
<1>4. ASSUME NEW b \in Caller, NEW op, NEW dropped, NEW marked, NEW ss,
             Drop(b, op, dropped, marked, ss)
      PROVE  FALSE
  BY <1>4 DEF Drop, TypeInv, TypeOK
<1>5. CASE Environment
  BY <1>3, <1>4, <1>5 DEF Environment, Schedule, StopDispatcher, BeginAdvance, BeginDeliver,
     BeginCancel, BeginCancelAll, execVars
<1>6. ASSUME NEW b \in Caller, CallStep(b)
      PROVE  Covered(c)
  <2>1. CASE GiveUp(b)
    BY <2>1 DEF GiveUp, TypeInv, TypeOK, CallRecord
  <2>2. CASE Covered(b)
    BY <2>2 DEF Covered, TypeInv, TypeOK
  <2> QED
    BY <1>6, <2>1, <2>2 DEF CallStep, Acquired, AcquireTimeout, AfterTimeout, Release, PickNext,
       Finish, DeliverNext, DeliverEnd, Mark, CancelEnd, execVars, TypeInv, TypeOK
<1> QED
  BY <1>1, <1>2, <1>5, <1>6 DEF Next

\* The window is covered: the earliest of what the session has queued lies behind
\* its end, and with it the rest.
LEMMA NothingLeft ==
  ASSUME TypeInv, IInv, SInv, CInv, Numbered, NEW c \in Caller, Covered(c),
         call[c].s \notin gone, NEW d \in Delivery, ~(d > last), d \notin fresh,
         sess[d] = call[c].s, ~Doomed(d), journal[d] \notin Final
  PROVE  SessionDue(d) > call[c].target
<1> DEFINE s == call[c].s
<1>1. pc[c] = "drive" /\ Drives(c) /\ s \in Session
  BY DEF Covered, Driving, Drives, TypeInv, CallOK, Holding
<1>2. now \in Nat /\ offset[s] \in Nat /\ call[c].left \in Nat /\ call[c].target \in Int
  BY <1>1, CallInts DEF Holding
<1>3. now + offset[s] + call[c].left >= call[c].target
  BY <1>1 DEF CInv, Reaches
<1>4. d \in Idle(s)
  <2>1. d \in pending /\ d \notin canceled
    BY <1>1 DEF SInv, Queued, Doomed
  <2> QED
    BY <1>1, <2>1, AllIdle DEF PendingOf
<1>5. Idle(s) \subseteq Delivery /\ \A x \in Idle(s) : ~(x > last) /\ x \notin fresh
  BY DEF Idle, PendingOf, TypeInv, TypeOK, IInv, Fresh
<1>6. PICK x \in EarliestLocked(s) : Step(x) > call[c].left
  <2>1. EarliestLocked(s) # {}
    BY <1>4, <1>5, EarliestExists DEF EarliestLocked
  <2> QED
    BY <2>1 DEF Covered
<1>7. x \in Delivery /\ x \in Idle(s) /\ (x = d \/ Before(x, d))
  BY <1>4, <1>5, <1>6 DEF EarliestLocked, EarliestOf
<1>8. fireAt[x] \in Int /\ fireAt[d] \in Int /\ fireAt[x] <= fireAt[d]
  BY <1>7 DEF Before, TypeInv, TypeOK
<1>9. fireAt[x] > now + call[c].left
  BY <1>2, <1>6, <1>8 DEF Step
<1>10. SessionDue(d) = fireAt[d] + offset[s]
  BY <1>1 DEF SessionDue
<1> QED
  BY <1>2, <1>3, <1>8, <1>9, <1>10

\* An advance that reports its window covered has left nothing in it, wherever
\* the session's deliveries are (clock.go:83).
THEOREM WindowCoveredHolds == Spec => WindowCovered
<1>1. TypeInv /\ IInv /\ SInv /\ CInv /\ Numbered /\ [Next]_vars =>
        [\A c \in Caller :
           Driving(c) /\ pc'[c] = "finish" /\ ~call'[c].partial /\ call[c].s \notin gone
             => \A d \in 1 .. last :
                  \/ sess[d] # call[c].s \/ d \in fresh
                  \/ d \in canceled \/ BeingCanceled(d)
                  \/ journal[d] \in Final
                  \/ SessionDue(d) > call[c].target]_vars
  <2> SUFFICES ASSUME TypeInv, IInv, SInv, CInv, Numbered, [Next]_vars, NEW c \in Caller,
                      Driving(c), pc'[c] = "finish", ~call'[c].partial, call[c].s \notin gone,
                      NEW d \in 1 .. last, sess[d] = call[c].s, d \notin fresh, ~Doomed(d),
                      journal[d] \notin Final
               PROVE  SessionDue(d) > call[c].target
    BY DEF Doomed
  <2>1. Covered(c)
    BY LeavingStep DEF Driving
  <2>2. d \in Delivery /\ ~(d > last)
    BY ConstantsAssumption DEF TypeInv, TypeOK, Delivery
  <2> QED
    BY <2>1, <2>2, NothingLeft
<1> QED
  BY <1>1, OwnershipInvariant, StrandedInvariant, ClockInvariant, NumberedInvariant, PTL
     DEF Spec, WindowCovered

=============================================================================
