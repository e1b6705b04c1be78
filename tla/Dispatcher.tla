----------------------------- MODULE Dispatcher -----------------------------
(***************************************************************************)
(* The webhook dispatcher (src/internal/webhook: dispatcher.go, clock.go,  *)
(* deliver.go).                                                            *)
(*                                                                         *)
(* One scheduler goroutine pops due deliveries from a heap and hands them  *)
(* to a pool of workers.  Administrative calls (Caller) run on goroutines  *)
(* of their own: Advance and DeliverNow take a session out of the          *)
(* scheduler's hands and make its attempts themselves; CancelSession and   *)
(* CancelAll drop what is queued.  A delivery's first attempt runs a       *)
(* callback that may schedule further deliveries of the same session.      *)
(*                                                                         *)
(* Grain: one action per section under Dispatcher.mu, plus one for each    *)
(* step that other goroutines can see in between: making a delivery before *)
(* it is queued, handing it over workCh, looking whether it was canceled,  *)
(* sending the request, recording its outcome, the callback, and marking   *)
(* one delivery canceled.  kick() is merged with the section that precedes *)
(* it: a later token only makes the scheduler scan once more.              *)
(***************************************************************************)
EXTENDS Integers, FiniteSets

CONSTANTS
  Session,      \* session ids
  NoSession,    \* the empty session id of /trigger deliveries
  Worker,       \* goroutines of the worker pool
  Caller,       \* goroutines of administrative calls
  Event,        \* event names of deliveries
  Hooks,        \* whether deliveries carry a callback: subset of BOOLEAN
  Ops,          \* the operations the environment uses: subset of AllOps
  Delays,       \* delays a delivery is scheduled with
  Windows,      \* durations a session clock is advanced by
  MaxAttempts,  \* target.Retry.Attempts
  Backoff,      \* target.Retry.Backoff
  MaxFired,     \* maxFiredPerAdvance
  Hour,         \* the scheduler's longest sleep
  MaxDelivery,  \* bound: deliveries ever scheduled
  MaxCalls,     \* bound: administrative calls ever made
  MaxNow        \* bound: wall-clock time, unless something waits for it

\* "expire" lets the context of an Advance or DeliverNow call end at any time.
AllOps == {"advance", "deliver", "cancel", "reset", "trigger", "stop", "expire"}

ASSUME ConstantsAssumption ==
  /\ NoSession \notin Session
  /\ Worker \cap Caller = {}
  /\ Hooks \subseteq BOOLEAN
  /\ Ops \subseteq AllOps
  /\ Delays \subseteq Nat
  /\ Windows \subseteq Nat
  /\ MaxAttempts \in Nat \ {0}
  /\ Backoff \in Nat
  /\ MaxFired \in Nat
  /\ Hour \in Nat \ {0}
  /\ MaxDelivery \in Nat
  /\ MaxCalls \in Nat
  /\ MaxNow \in Nat

\* A delivery is named by the order in which Schedule makes it; 0 names none.
Delivery == 1 .. MaxDelivery
NoDelivery == 0
Executor == Worker \cup Caller

VARIABLES
  now,        \* time.Now()
  offset,     \* Dispatcher.offsets: how far each session runs ahead of now
  exclusive,  \* Dispatcher.exclusive
  gone,       \* Dispatcher.gone
  heap,       \* Dispatcher.heap, as a set: only the order by fireAt matters
  pending,    \* Dispatcher.pending, flat: the sessions' queued deliveries
  running,    \* the deliveries with del.running set
  last,       \* the delivery made last
  sess,       \* del.sessionID
  event,      \* del.event
  hook,       \* the deliveries with an onFirst callback
  fresh,      \* made by a Schedule that has not queued them yet
  seq,        \* Dispatcher.seq
  order,      \* del.seq: the order of queueing
  fireAt,     \* del.fireAt
  attempts,   \* del.attempts
  canceled,   \* the deliveries with del.canceled set
  journal,    \* the status of the delivery's journal record
  run,        \* where the scheduler goroutine is
  due,        \* run's local slice: popped, not handed over yet
  scanned,    \* ghost: the time of run's last scan
  wait,       \* run's local: how long to sleep
  timer,      \* when run's timer fires
  wake,       \* a token is in the wake channel
  stop,       \* the stop channel is closed
  pc,         \* where each worker and caller is
  at,         \* the delivery an executor attempts
  status,     \* attempt's local: the outcome of the attempt
  call,       \* the locals of an administrative call
  calls       \* bound: administrative calls made so far

clockVars == <<now, offset>>
ownerVars == <<exclusive, gone>>
queueVars == <<heap, pending, running>>
newVars   == <<last, sess, event, hook, fresh, seq, order>>
delVars   == <<newVars, fireAt, attempts, canceled, journal>>
schedVars == <<run, due, scanned, wait, timer>>
execVars  == <<pc, at, status>>
callVars  == <<call, calls>>
vars == <<clockVars, ownerVars, queueVars, delVars, schedVars, wake, stop,
          execVars, callVars>>

\* The locals of a call: what it does to which session, how much of the window
\* is left, the attempts it made, whether it stopped early, and the deliveries
\* it has yet to mark canceled.  target, prev and late are ghosts: the session
\* time the window ends at, the latest session due time fired so far, and the
\* deliveries a Schedule had made and not yet queued when the call fired one.
NewCall(op, s, by, marks) ==
  [op |-> op, s |-> s, left |-> by, fired |-> 0, partial |-> FALSE,
   marks |-> marks, target |-> 0, prev |-> 0, late |-> {}]
NoCall == NewCall("none", NoSession, 0, {})

Init ==
  /\ now = 0
  /\ offset = [s \in Session |-> 0]
  /\ exclusive = {} /\ gone = {}
  /\ heap = {} /\ pending = {} /\ running = {}
  /\ last = 0
  /\ sess = [d \in Delivery |-> NoSession]
  /\ event = [d \in Delivery |-> "none"]
  /\ hook = {}
  /\ fresh = {} /\ seq = 0
  /\ order = [d \in Delivery |-> 0]
  /\ fireAt = [d \in Delivery |-> 0]
  /\ attempts = [d \in Delivery |-> 0]
  /\ canceled = {}
  /\ journal = [d \in Delivery |-> "none"]
  /\ run = "scan" /\ due = {} /\ scanned = 0 /\ wait = 0 /\ timer = 0
  /\ wake = FALSE /\ stop = FALSE
  /\ pc = [e \in Executor |-> "idle"]
  /\ at = [e \in Executor |-> NoDelivery]
  /\ status = [e \in Executor |-> "none"]
  /\ call = [c \in Caller |-> NoCall]
  /\ calls = 0

-----------------------------------------------------------------------------
(* Helpers of the code, all called under Dispatcher.mu. *)

\* d.pending[s]
PendingOf(s) == {d \in pending : sess[d] = s}

\* The session time a delivery of s is due (invariant of clock.go:20).
SessionDue(d) ==
  fireAt[d] + IF sess[d] \in Session THEN offset[sess[d]] ELSE 0

\* BUG: queue without looking at exclusive.
PushAlways(d, s) == heap \cup {d}

\* The heap after pushLocked(d) for a delivery of s.
PushLocked(d, s) == IF s \in exclusive THEN heap ELSE heap \cup {d}

\* The order of earliestLocked, findLocked and pendingNamesLocked.
Before(d, e) ==
  fireAt[d] < fireAt[e] \/ (fireAt[d] = fireAt[e] /\ order[d] < order[e])

\* BUG: scheduling order only.
EarliestBySeq(ds) == {d \in ds : \A e \in ds \ {d} : order[d] < order[e]}

\* The delivery of ds that comes first; empty when ds is.
EarliestOf(ds) == {d \in ds : \A e \in ds \ {d} : Before(d, e)}

\* What Advance and DeliverNow may pick from.
Idle(s) == {d \in PendingOf(s) : d \notin canceled /\ d \notin running}

\* earliestLocked(s)
EarliestLocked(s) == EarliestOf(Idle(s))

\* findLocked(s, item): a delivery id first, otherwise the earliest delivery of
\* that event.
FindLocked(s, item) ==
  IF item \in Idle(s) THEN {item}
  ELSE EarliestOf({d \in Idle(s) : event[d] = item})

\* BUG: the clock moves and the queued deliveries stay where they are.
ShiftClockOnly(s, by) ==
  /\ offset' = [offset EXCEPT ![s] = @ + by]
  /\ fireAt' = fireAt

\* shiftLocked(s, by)
ShiftLocked(s, by) ==
  /\ offset' = [offset EXCEPT ![s] = @ + by]
  /\ fireAt' = [d \in Delivery |->
                  IF d \in PendingOf(s) THEN fireAt[d] - by ELSE fireAt[d]]

\* retryDelay(backoff, n): exponential, with jitter of 20% either way.
RetryDelay(n) ==
  LET d == Backoff * 2^(n - 1) IN d - d \div 5 .. d + d \div 5

\* What Schedule does before it takes d.mu: the new delivery, due from the
\* present on, and its journal record.
NewDelivery(s, ev, delay, h) ==
  LET d == last + 1
  IN  /\ d \in Delivery
      /\ last' = d
      /\ sess' = [sess EXCEPT ![d] = s]
      /\ event' = [event EXCEPT ![d] = ev]
      /\ hook' = IF h THEN hook \cup {d} ELSE hook
      /\ fresh' = fresh \cup {d}
      /\ fireAt' = [fireAt EXCEPT ![d] = now + delay]
      /\ journal' = [journal EXCEPT ![d] = "pending"]
      /\ UNCHANGED <<seq, order, attempts, canceled>>

\* What Schedule does under d.mu: the delivery's number, its place in the heap
\* and in pending; then the wake-up token.
QueueNew(d) ==
  /\ fresh' = fresh \ {d}
  /\ seq' = seq + 1
  /\ order' = [order EXCEPT ![d] = seq + 1]
  /\ heap' = PushLocked(d, sess[d])
  /\ pending' = IF sess[d] = NoSession THEN pending ELSE pending \cup {d}
  /\ wake' = TRUE
  /\ UNCHANGED <<last, sess, event, hook, fireAt, attempts, canceled, journal,
                 running>>

-----------------------------------------------------------------------------
(* Time and the requests of the outside world. *)

\* The wall clock moves.  Past MaxNow it moves only while the scheduler sleeps
\* until a queued delivery is due.
Tick ==
  /\ now < MaxNow \/ (run = "sleep" /\ heap # {} /\ now < timer)
  /\ now' = now + 1
  /\ UNCHANGED <<offset, ownerVars, queueVars, delVars, schedVars, wake, stop,
                 execVars, callVars>>

\* Schedule, called by a request handler, a replay or /trigger.  Only the
\* engine's deliveries, which have a session, carry a callback.  It reads the
\* clock and writes the journal first, and takes the lock later: an Advance, a
\* cancel or a reset may come in between.
Schedule(s, ev, delay, h) ==
  /\ s = NoSession => "trigger" \in Ops /\ ~h
  /\ NewDelivery(s, ev, delay, h)
  /\ UNCHANGED <<clockVars, ownerVars, queueVars, schedVars, wake, stop,
                 execVars, callVars>>

ScheduleQueues(d) ==
  /\ d \in fresh
  /\ \A e \in Executor : at[e] # d
  /\ QueueNew(d)
  /\ UNCHANGED <<clockVars, ownerVars, schedVars, stop, execVars, callVars>>

-----------------------------------------------------------------------------
(* run, the scheduler goroutine. *)

\* One pass over the heap: everything due is popped and marked running,
\* canceled entries ahead of the first future one are dropped (one that ties
\* with it is left to a later scan), and the wait is how long that one lies off.
Scan ==
  LET live   == heap \ canceled
      popped == {d \in live : fireAt[d] <= now}
      later  == live \ popped
  IN  /\ run = "scan"
      /\ run' = "hand"
      /\ due' = popped
      /\ running' = running \cup popped
      /\ scanned' = now
      /\ \/ /\ later = {}
            /\ wait' = Hour
            /\ heap' = {}
         \/ \E first \in later :
              /\ \A d \in later : fireAt[first] <= fireAt[d]
              /\ wait' = fireAt[first] - now
              /\ heap' = {d \in heap : fireAt[d] >= fireAt[first]}
      /\ UNCHANGED <<clockVars, ownerVars, pending, delVars, timer, wake, stop,
                     execVars, callVars>>

\* workCh <- del: an idle worker receives the next delivery of the slice, which
\* is in heap order, by fireAt with ties in any order.
Hand(w) ==
  /\ run = "hand" /\ pc[w] = "idle"
  /\ \E d \in due :
       /\ \A e \in due : fireAt[d] <= fireAt[e]
       /\ due' = due \ {d}
       /\ at' = [at EXCEPT ![w] = d]
  /\ pc' = [pc EXCEPT ![w] = "check"]
  /\ UNCHANGED <<clockVars, ownerVars, queueVars, delVars, run, scanned, wait,
                 timer, wake, stop, status, callVars>>

\* Everything is handed over: arm the timer and sleep.
Arm ==
  /\ run = "hand" /\ due = {}
  /\ run' = "sleep"
  /\ timer' = now + wait
  /\ UNCHANGED <<clockVars, ownerVars, queueVars, delVars, due, scanned, wait,
                 wake, stop, execVars, callVars>>

\* The wake-up token, which is consumed, or the timer starts the next scan.
Wakeup ==
  /\ run = "sleep"
  /\ \/ wake /\ wake' = FALSE
     \/ timer <= now /\ wake' = wake
  /\ run' = "scan"
  /\ scanned' = 0 /\ wait' = 0 /\ timer' = 0
  /\ UNCHANGED <<clockVars, ownerVars, queueVars, delVars, due, stop, execVars,
                 callVars>>

\* BUG: the sleeping scheduler does not look at the stop channel.
BlockedOnPool == run = "hand" /\ due # {}

\* Where run blocks: on workCh, or asleep.
Blocked == (run = "hand" /\ due # {}) \/ run = "sleep"

\* The closed stop channel ends run wherever it blocks.  What was popped and
\* not handed over stays marked running.
Exit ==
  /\ stop /\ Blocked
  /\ run' = "exited"
  /\ UNCHANGED <<clockVars, ownerVars, queueVars, delVars, due, scanned, wait,
                 timer, wake, stop, execVars, callVars>>

\* Stop closes the stop channel; it then waits for run and the workers.
StopDispatcher ==
  /\ "stop" \in Ops /\ ~stop
  /\ stop' = TRUE
  /\ UNCHANGED <<clockVars, ownerVars, queueVars, delVars, schedVars, wake,
                 execVars, callVars>>

-----------------------------------------------------------------------------
(* attempt, run by a worker or, inside Advance and DeliverNow, by a caller. *)

\* Where attempt returns to.
Back(e) == IF e \in Worker THEN "idle" ELSE "drive"

\* attempt returns: its locals are gone.
Return(e) ==
  /\ pc' = [pc EXCEPT ![e] = Back(e)]
  /\ at' = [at EXCEPT ![e] = NoDelivery]
  /\ status' = [status EXCEPT ![e] = "none"]

\* The delivery was canceled after it was picked.
SkipCanceled(e) ==
  /\ pc[e] = "check" /\ at[e] \in canceled
  /\ running' = running \ {at[e]}
  /\ Return(e)
  /\ UNCHANGED <<clockVars, ownerVars, heap, pending, delVars, schedVars, wake,
                 stop, callVars>>

\* BUG: a delivery canceled after it was picked is sent all the same.
MayStartAlways(d) == TRUE

\* attempt goes on with d: nobody canceled it.
MayStart(d) == d \notin canceled

\* attempt has looked at the flag: whatever happens to the delivery from here
\* on, while ClockOffset waits for the lock, its request is sent.
TakeUp(e) ==
  /\ pc[e] = "check" /\ MayStart(at[e])
  /\ pc' = [pc EXCEPT ![e] = "ready"]
  /\ UNCHANGED <<clockVars, ownerVars, queueVars, delVars, schedVars, wake,
                 stop, at, status, callVars>>

StartAttempt(e) ==
  /\ pc[e] = "ready"
  /\ attempts' = [attempts EXCEPT ![at[e]] = @ + 1]
  /\ pc' = [pc EXCEPT ![e] = "sending"]
  /\ UNCHANGED <<clockVars, ownerVars, queueVars, newVars, fireAt,
                 canceled, journal, schedVars, wake, stop, at, status, callVars>>

\* BUG: one attempt too many.
OutcomeOffByOne(ok, num) ==
  IF ok THEN "delivered" ELSE IF num <= MaxAttempts THEN "retrying" ELSE "failed"

Outcome(ok, num) ==
  IF ok THEN "delivered" ELSE IF num < MaxAttempts THEN "retrying" ELSE "failed"

\* The target answers with 2xx (ok), or with anything else, or not at all.  The
\* outcome goes to the journal; a retry gets its new fireAt.
Answer(e, ok) ==
  LET d == at[e]
      o == Outcome(ok, attempts[d])
  IN  /\ pc[e] = "sending"
      /\ status' = [status EXCEPT ![e] = o]
      /\ journal' = [journal EXCEPT ![d] = o]
      /\ \/ o # "retrying" /\ fireAt' = fireAt
         \/ /\ o = "retrying"
            /\ \E delay \in RetryDelay(attempts[d]) :
                 fireAt' = [fireAt EXCEPT ![d] = now + delay]
      /\ pc' = [pc EXCEPT ![e] = "answered"]
      /\ UNCHANGED <<clockVars, ownerVars, queueVars, newVars, attempts,
                     canceled, schedVars, wake, stop, at, callVars>>

\* BUG: a retry is queued without waking the scheduler.
RequeueQuietly(d) ==
  /\ heap' = PushLocked(d, sess[d])
  /\ pending' = pending
  /\ wake' = wake

\* The delivery is requeued or retired, under the lock that clears running.
Requeue(d) ==
  /\ heap' = PushLocked(d, sess[d])
  /\ pending' = pending
  /\ wake' = TRUE

Retire(d) ==
  /\ heap' = heap
  /\ pending' = pending \ {d}
  /\ wake' = wake

\* BUG: a requeued delivery keeps its flag until the callback has run.
ClearOnRetire(e) ==
  IF status[e] = "retrying" THEN running ELSE running \ {at[e]}

\* The deliveries still running after attempt settled that of e.
ClearRunning(e) == running \ {at[e]}

Settle(e) ==
  LET d == at[e]
  IN  /\ pc[e] = "answered"
      /\ running' = ClearRunning(e)
      /\ IF status[e] = "retrying" THEN Requeue(d) ELSE Retire(d)
      /\ IF attempts[d] = 1 /\ d \in hook
           THEN /\ pc' = [pc EXCEPT ![e] = "callback"]
                /\ UNCHANGED <<at, status>>
           ELSE Return(e)
      /\ UNCHANGED <<clockVars, ownerVars, delVars, schedVars, stop, callVars>>

\* onFirst, the engine's transition after the first attempt: it schedules the
\* webhooks of the state it enters, one after the other; when it is stale, or
\* has scheduled them all, attempt returns.
Callback(e) ==
  /\ pc[e] = "callback"
  /\ \/ /\ \E ev \in Event, delay \in Delays, h \in Hooks :
             NewDelivery(sess[at[e]], ev, delay, h)
        /\ at' = [at EXCEPT ![e] = last + 1]
        /\ pc' = [pc EXCEPT ![e] = "scheduling"]
        /\ status' = status
     \/ Return(e) /\ UNCHANGED delVars
  /\ UNCHANGED <<clockVars, ownerVars, queueVars, schedVars, wake, stop,
                 callVars>>

CallbackQueues(e) ==
  /\ pc[e] = "scheduling"
  /\ QueueNew(at[e])
  /\ pc' = [pc EXCEPT ![e] = "callback"]
  /\ UNCHANGED <<clockVars, ownerVars, schedVars, stop, at, status, callVars>>

-----------------------------------------------------------------------------
(* acquire and release. *)

\* BUG: the heap keeps the session's deliveries.
HeapKept(s) == heap

\* The heap once acquire took the deliveries of s out of it.
HeapWithout(s) == heap \ PendingOf(s)

\* The first half of acquire: a busy session is refused, which changes nothing.
Begin(c, op, s, by) ==
  /\ op \in Ops /\ calls < MaxCalls
  /\ pc[c] = "idle"
  /\ s \notin exclusive
  /\ exclusive' = exclusive \cup {s}
  /\ heap' = HeapWithout(s)
  /\ call' = [call EXCEPT ![c] = NewCall(op, s, by, {})]
  /\ calls' = calls + 1
  /\ pc' = [pc EXCEPT ![c] = "waiting"]
  /\ UNCHANGED <<clockVars, gone, pending, running, delVars, schedVars, wake,
                 stop, at, status>>

BeginAdvance(c, s, by) == Begin(c, "advance", s, by)
BeginDeliver(c, s) == Begin(c, "deliver", s, 0)

\* BUG: the call starts while a worker still has a delivery of the session.
NeverBusy(s) == FALSE

\* A delivery of s was handed to a worker and is not settled.
Busy(s) == PendingOf(s) \cap running # {}

\* acquire polls until attempts already handed to workers have finished.
Acquired(c) ==
  LET s == call[c].s
  IN  /\ pc[c] = "waiting" /\ ~Busy(s)
      /\ call' = [call EXCEPT ![c].target = now + offset[s] + call[c].left]
      /\ pc' = [pc EXCEPT ![c] = "drive"]
      /\ UNCHANGED <<clockVars, ownerVars, queueVars, delVars, schedVars, wake,
                     stop, at, status, calls>>

\* BUG: acquire returns without giving the session back.
AfterTimeoutIdle == "idle"

\* Where a call goes whose acquire failed: acquire calls release.
AfterTimeout == "release"

\* The context of a call ends while acquire waits.
AcquireTimeout(c) ==
  /\ "expire" \in Ops
  /\ pc[c] = "waiting" /\ Busy(call[c].s)
  /\ pc' = [pc EXCEPT ![c] = AfterTimeout]
  /\ UNCHANGED <<clockVars, ownerVars, queueVars, delVars, schedVars, wake,
                 stop, at, status, callVars>>

\* BUG: release forgets to queue what waited in pending.
NoneReleased(s) == {}

\* The deliveries release gives back to the scheduler.
Released(s) == {d \in PendingOf(s) : d \notin running /\ d \notin canceled}

Release(c) ==
  LET s == call[c].s
  IN  /\ pc[c] = "release"
      /\ exclusive' = exclusive \ {s}
      /\ gone' = gone \ {s}
      /\ offset' = IF s \in gone THEN [offset EXCEPT ![s] = 0] ELSE offset
      /\ heap' = heap \cup Released(s)
      /\ wake' = TRUE
      /\ call' = [call EXCEPT ![c] = NoCall]
      /\ pc' = [pc EXCEPT ![c] = "idle"]
      /\ UNCHANGED <<now, pending, running, delVars, schedVars, stop, at,
                     status, calls>>

-----------------------------------------------------------------------------
(* Advance: the loop of clock.go:83. *)

\* The context ended or the safety cap was reached: the clock stands where the
\* last attempt left it.
GiveUp(c) ==
  /\ pc[c] = "drive" /\ call[c].op = "advance"
  /\ "expire" \in Ops \/ call[c].fired >= MaxFired
  /\ call' = [call EXCEPT ![c].partial = TRUE]
  /\ pc' = [pc EXCEPT ![c] = "finish"]
  /\ UNCHANGED <<clockVars, ownerVars, queueVars, delVars, schedVars, wake,
                 stop, at, status, calls>>

\* BUG: an overdue delivery turns the clock back.
StepUnclamped(d) == fireAt[d] - now

\* How far the session clock has to move for d to be due.
Step(d) == IF fireAt[d] > now THEN fireAt[d] - now ELSE 0

\* The later of two times.
Later(t, u) == IF t < u THEN u ELSE t

\* What has yet to be queued when c fires d, at this or an earlier turn.
Overtaken(c, d) == (call[c].late \cup fresh) \ {d}

\* The loop's guards, passed before each look at the queue.
Driving(c) ==
  /\ pc[c] = "drive" /\ call[c].op = "advance"
  /\ call[c].fired < MaxFired

\* The session was canceled, or nothing more is due inside the window.
Covered(c) ==
  LET s == call[c].s
  IN  /\ Driving(c)
      /\ s \in gone \/ \A d \in EarliestLocked(s) : Step(d) > call[c].left
      /\ pc' = [pc EXCEPT ![c] = "finish"]
      /\ UNCHANGED <<clockVars, ownerVars, queueVars, delVars, schedVars, wake,
                     stop, at, status, callVars>>

\* The earliest delivery falls inside the window: the clock moves to it, and the
\* caller attempts it.
PickNext(c) ==
  LET s == call[c].s
  IN  /\ Driving(c)
      /\ s \notin gone
      /\ \E d \in EarliestLocked(s) :
           /\ Step(d) <= call[c].left
           /\ ShiftLocked(s, Step(d))
           /\ running' = running \cup {d}
           /\ at' = [at EXCEPT ![c] = d]
           /\ call' = [call EXCEPT ![c].left = @ - Step(d),
                                   ![c].fired = @ + 1,
                                   ![c].prev = Later(call[c].prev,
                                                     SessionDue(d)),
                                   ![c].late = Overtaken(c, d)]
      /\ pc' = [pc EXCEPT ![c] = "check"]
      /\ UNCHANGED <<now, ownerVars, heap, pending, newVars, attempts,
                     canceled, journal, schedVars, wake, stop, status, calls>>

\* BUG: the clock of a canceled session moves on.
PassesUnlessPartial(c) == ~call[c].partial

\* The rest of the window passes: the call did not stop early, and the session
\* was not canceled.
Passes(c) == ~call[c].partial /\ call[c].s \notin gone

\* The end of Advance.
Finish(c) ==
  LET s == call[c].s
  IN  /\ pc[c] = "finish"
      /\ IF Passes(c) THEN ShiftLocked(s, call[c].left)
                      ELSE UNCHANGED <<offset, fireAt>>
      /\ pc' = [pc EXCEPT ![c] = "release"]
      /\ UNCHANGED <<now, ownerVars, queueVars, newVars, attempts,
                     canceled, journal, schedVars, wake, stop, at, status,
                     callVars>>

-----------------------------------------------------------------------------
(* DeliverNow: the loop of deliver.go:46.  Its items are chosen one by one. *)

DeliverNext(c, item) ==
  LET s == call[c].s
  IN  /\ pc[c] = "drive" /\ call[c].op = "deliver"
      /\ s \notin gone
      /\ \E d \in FindLocked(s, item) :
           /\ running' = running \cup {d}
           /\ at' = [at EXCEPT ![c] = d]
      /\ pc' = [pc EXCEPT ![c] = "check"]
      /\ UNCHANGED <<clockVars, ownerVars, heap, pending, delVars, schedVars,
                     wake, stop, status, callVars>>

\* No item is left, the context ended, the session is gone, or an item names
\* nothing that is queued.
DeliverEnd(c) ==
  /\ pc[c] = "drive" /\ call[c].op = "deliver"
  /\ pc' = [pc EXCEPT ![c] = "release"]
  /\ UNCHANGED <<clockVars, ownerVars, queueVars, delVars, schedVars, wake,
                 stop, at, status, callVars>>

-----------------------------------------------------------------------------
(* CancelSession and CancelAll: one section under the lock, then the marks. *)

\* The locked section of both: dropped leaves pending, the clocks of ss are
\* reset or, for a session a call is driving, left to its release.
Drop(c, op, dropped, marked, ss) ==
  /\ op \in Ops /\ calls < MaxCalls
  /\ pc[c] = "idle"
  /\ pending' = pending \ dropped
  /\ gone' = gone \cup (ss \cap exclusive)
  /\ offset' = [s \in Session |-> IF s \in ss \ exclusive THEN 0 ELSE offset[s]]
  /\ call' = [call EXCEPT ![c] = NewCall(op, NoSession, 0, marked)]
  /\ calls' = calls + 1
  /\ pc' = [pc EXCEPT ![c] = "mark"]
  /\ UNCHANGED <<now, exclusive, heap, running, delVars, schedVars, wake, stop,
                 at, status>>

BeginCancel(c, s) == Drop(c, "cancel", PendingOf(s), PendingOf(s), {s})

\* BUG: the deliveries without a session are forgotten.
CancelAllPending(c) ==
  Drop(c, "reset", pending, pending, {s \in Session : offset[s] > 0})

BeginCancelAll(c) ==
  Drop(c, "reset", pending, heap \cup pending, {s \in Session : offset[s] > 0})

\* CancelAll leaves a delivery alone that another call canceled first.
Markable(c, d) == call[c].op = "reset" => d \notin canceled

\* One delivery is marked canceled, in its own flag and in the journal.
Mark(c, d) ==
  /\ pc[c] = "mark" /\ d \in call[c].marks
  /\ call' = [call EXCEPT ![c].marks = @ \ {d}]
  /\ IF Markable(c, d)
       THEN /\ canceled' = canceled \cup {d}
            /\ journal' = [journal EXCEPT ![d] = "canceled"]
       ELSE UNCHANGED <<canceled, journal>>
  /\ UNCHANGED <<clockVars, ownerVars, queueVars, newVars, fireAt,
                 attempts, schedVars, wake, stop, execVars, calls>>

\* Everything is marked: the call returns.
CancelEnd(c) ==
  /\ pc[c] = "mark" /\ call[c].marks = {}
  /\ call' = [call EXCEPT ![c] = NoCall]
  /\ pc' = [pc EXCEPT ![c] = "idle"]
  /\ UNCHANGED <<clockVars, ownerVars, queueVars, delVars, schedVars, wake,
                 stop, at, status, calls>>

-----------------------------------------------------------------------------
(* The specification. *)

\* The scheduler's own steps.
SchedulerStep == Scan \/ Arm \/ Wakeup \/ Exit \/ \E w \in Worker : Hand(w)

\* attempt, by a worker or a caller.
AttemptStep(e) ==
  \/ SkipCanceled(e) \/ TakeUp(e) \/ StartAttempt(e) \/ Settle(e)
  \/ Callback(e) \/ CallbackQueues(e)
  \/ \E ok \in BOOLEAN : Answer(e, ok)

\* What a call does after it began.
CallStep(c) ==
  \/ Acquired(c) \/ AcquireTimeout(c) \/ Release(c)
  \/ GiveUp(c) \/ Covered(c) \/ PickNext(c) \/ Finish(c)
  \/ \E item \in Event \cup Delivery : DeliverNext(c, item)
  \/ DeliverEnd(c)
  \/ \E d \in Delivery : Mark(c, d)
  \/ CancelEnd(c)

\* The requests of the outside world.
Environment ==
  \/ \E s \in Session \cup {NoSession}, ev \in Event, delay \in Delays,
        h \in Hooks : Schedule(s, ev, delay, h)
  \/ StopDispatcher
  \/ \E c \in Caller :
       \/ \E s \in Session :
            \/ \E by \in Windows : BeginAdvance(c, s, by)
            \/ BeginDeliver(c, s)
            \/ BeginCancel(c, s)
       \/ BeginCancelAll(c)

Next ==
  \/ Tick
  \/ Environment
  \/ \E d \in Delivery : ScheduleQueues(d)
  \/ SchedulerStep
  \/ \E e \in Executor : AttemptStep(e)
  \/ \E c \in Caller : CallStep(c)

Spec == Init /\ [][Next]_vars

\* Every goroutine keeps running, every request is answered or times out
\* (target.Timeout), and time passes.  Nothing forces the outside world to act.
Fairness ==
  /\ WF_vars(Tick)
  /\ \A d \in Delivery : WF_vars(ScheduleQueues(d))
  /\ WF_vars(SchedulerStep)
  /\ \A e \in Executor : WF_vars(AttemptStep(e))
  /\ \A c \in Caller : WF_vars(CallStep(c))

FairSpec == Spec /\ Fairness

-----------------------------------------------------------------------------
(* Type invariant. *)

Status == {"none", "pending", "retrying", "delivered", "failed", "canceled"}
Final  == {"delivered", "failed"}
Place  == {"idle", "check", "ready", "sending", "answered", "callback",
           "scheduling", "waiting", "drive", "finish", "release", "mark"}
CallRecord ==
  [op : {"none", "advance", "deliver", "cancel", "reset"},
   s : Session \cup {NoSession}, left : Nat, fired : Nat, partial : BOOLEAN,
   marks : SUBSET Delivery, target : Int, prev : Int, late : SUBSET Delivery]

\* Every variable holds what the Go declaration it models allows: clocks never
\* run backward, gone is about sessions a call holds, and only a session's
\* deliveries are in pending.
TypeOK ==
  /\ now \in Nat
  /\ offset \in [Session -> Nat]
  /\ exclusive \in SUBSET Session
  /\ gone \in SUBSET exclusive
  /\ heap \in SUBSET Delivery
  /\ pending \in SUBSET Delivery
  /\ running \in SUBSET Delivery
  /\ last \in 0 .. MaxDelivery
  /\ sess \in [Delivery -> Session \cup {NoSession}]
  /\ event \in [Delivery -> Event \cup {"none"}]
  /\ hook \in SUBSET Delivery
  /\ fresh \in SUBSET Delivery
  /\ seq \in Nat
  /\ order \in [Delivery -> Nat]
  /\ fireAt \in [Delivery -> Int]
  /\ attempts \in [Delivery -> Nat]
  /\ canceled \in SUBSET Delivery
  /\ journal \in [Delivery -> Status]
  /\ run \in {"scan", "hand", "sleep", "exited"}
  /\ due \in SUBSET Delivery
  /\ scanned \in Nat /\ wait \in Nat /\ timer \in Nat
  /\ wake \in BOOLEAN /\ stop \in BOOLEAN
  /\ pc \in [Executor -> Place]
  /\ at \in [Executor -> Delivery \cup {NoDelivery}]
  /\ status \in [Executor -> Status]
  /\ call \in [Caller -> CallRecord]
  /\ calls \in Nat

-----------------------------------------------------------------------------
(* Safety. *)

\* e took delivery d and has not settled its attempt.
Holds(e, d) ==
  at[e] = d /\ pc[e] \in {"check", "ready", "sending", "answered"}

\* A delivery is attempted by one goroutine at a time: it is marked running
\* exactly while the scheduler's slice or one executor has it, never two of
\* them, and meanwhile it is not in the heap, where a scan would hand it out a
\* second time (the flag and the comment at dispatcher.go:501).
OneHolder ==
  \A d \in Delivery :
    /\ d \in running <=> d \in due \/ \E e \in Executor : Holds(e, d)
    /\ d \in due => \A e \in Executor : ~Holds(e, d)
    /\ \A e, f \in Executor : Holds(e, d) /\ Holds(f, d) => e = f
    /\ d \in heap => d \notin running

\* Some call is still going to mark d canceled.
BeingCanceled(d) == \E c \in Caller : d \in call[c].marks

\* The dispatcher will come back to d: its Schedule has yet to queue it, it is in
\* the heap, an attempt is under way, or it waits in pending for the call that
\* drives its session.
Tracked(d) ==
  d \in fresh \cup heap \cup running \/ (d \in pending /\ sess[d] \in exclusive)

\* No delivery is lost between heap, pending, slice and workers: one that is
\* neither canceled nor finished is tracked, or about to be canceled.  release
\* (clock.go:196) skips what is running, attempt requeues what release skipped.
NothingStranded ==
  \A d \in 1 .. last :
    \/ d \in canceled \/ journal[d] \in Final
    \/ Tracked(d) \/ BeingCanceled(d)

\* c is past acquire and holds its session.
Drives(c) ==
  pc[c] \in {"drive", "check", "ready", "sending", "answered", "callback",
             "scheduling", "finish"}

\* While a call drives a session nobody else touches the session's queued
\* deliveries: not the heap, not the scheduler's slice, no worker and no other
\* call (acquire, clock.go:149).  Shifting fireAt is safe only because of this.
DriveAlone ==
  \A c \in Caller : Drives(c) =>
    /\ \A d \in PendingOf(call[c].s) :
         d \notin heap \cup due /\ \A e \in Executor : Holds(e, d) => e = c
    /\ \A b \in Caller : Drives(b) /\ call[b].s = call[c].s => b = c

\* Whoever has a delivery or a session has it alone: the hand-over between heap,
\* slice, workers and driving calls leaves no hole.
Ownership == OneHolder /\ DriveAlone

\* While the scheduler sleeps with no token in wake, every live entry of the
\* heap is due no earlier than what the sleep was computed from: an entry pushed
\* during or after the scan always leaves a token (the one-slot channel of kick).
NoLostWakeup ==
  run = "sleep" /\ ~wake =>
    \A d \in heap \ canceled : fireAt[d] >= scanned + wait

-----------------------------------------------------------------------------
(* What a step may never do. *)

\* clock.go:20: the session time a queued delivery is due changes only when a
\* failed attempt reschedules it, or when a driven session that was canceled
\* loses its clock.  Moving the clock moves fireAt back by as much.
DueTimeStable ==
  [][\A d \in pending \cap pending' :
       \/ SessionDue(d)' = SessionDue(d)
       \/ attempts[d] > 0 /\ d \in running /\ journal'[d] = "retrying"
       \/ sess[d] \in gone /\ sess[d] \notin exclusive']_vars

\* clock.go:75: Advance fires in session-time order: what it picks is never due
\* earlier than what it fired before, retries and deliveries scheduled on the way
\* included.  One exception: a Schedule that had read the clock when the call
\* fired something, and queued its delivery afterwards (dispatcher.go:179-210).
DriveInOrder ==
  [][\A c \in Caller :
       Drives(c) /\ call'[c].fired > call[c].fired
         => \/ SessionDue(at'[c]) >= call[c].prev
            \/ at'[c] \in call[c].late]_vars

\* When Advance leaves its loop with the window covered, nothing the session has
\* queued or under way is due inside the window: target is the session time it
\* was asked to reach.  What a Schedule has yet to queue is not the session's yet.
WindowCovered ==
  [][\A c \in Caller :
       Driving(c) /\ pc'[c] = "finish" /\ ~call'[c].partial
                 /\ call[c].s \notin gone
         => \A d \in 1 .. last :
              \/ sess[d] # call[c].s \/ d \in fresh
              \/ d \in canceled \/ BeingCanceled(d)
              \/ journal[d] \in Final
              \/ SessionDue(d) > call[c].target]_vars

\* The clock of a session canceled in mid-drive does not move forward any more,
\* and is gone once the call gives the session back (dispatcher.go:275): a
\* session created later under the same id would start on it.
CanceledClockStops ==
  [][\A s \in gone : /\ offset'[s] <= offset[s]
                     /\ s \notin exclusive' => offset'[s] = 0]_vars

\* docs/admin-api.md:287: a reset cancels "every queued webhook ... (session-bound
\* or sent with /trigger)", wherever it is between heap, pending, slice and
\* workers; except one without a session that the scheduler has already popped,
\* which is neither in the heap nor in pending (dispatcher.go:287), and one whose
\* Schedule has written its journal record and not yet queued it.
ResetCancelsQueued ==
  [][\A c \in Caller :
       pc[c] = "idle" /\ call'[c].op = "reset" =>
         \A d \in 1 .. last :
           \/ journal[d] \notin {"pending", "retrying"}
           \/ d \in call'[c].marks \cup canceled \/ BeingCanceled(d)
           \/ sess[d] = NoSession /\ d \in running
           \/ d \in fresh]_vars

-----------------------------------------------------------------------------
(* The abstract specification. *)

\* The deliveries an executor has at one place of attempt.
AtPlace(place) ==
  {d \in Delivery : \E e \in Executor : pc[e] = place /\ at[e] = d}

Out == INSTANCE Outbox WITH
  state <- journal, taken <- AtPlace("ready"), sending <- AtPlace("sending"),
  tries <- attempts, dropped <- canceled

\* Scheduler, workers and calls together keep Outbox's promise: no delivery is
\* taken up by two goroutines at once, after it was canceled, after its outcome
\* was final, or beyond its budget, and the journal changes in no other way.  A
\* delivery canceled after attempt looked at its flag (dispatcher.go:399) is
\* still sent.
ImplementsOutbox == Out!OutboxSpec

-----------------------------------------------------------------------------
(* Liveness, under Fairness. *)

\* A scheduled delivery is eventually delivered, failed or canceled, unless the
\* dispatcher is stopped.
EventuallySettled ==
  \A d \in Delivery :
    (d <= last /\ journal[d] \notin Final \cup {"canceled"})
      ~> (journal[d] \in Final \/ d \in canceled \/ stop)

\* Every administrative call returns, and no session stays reserved for one
\* (it would answer 409 session_busy for ever); because contexts end, even when
\* the dispatcher stops with the session's deliveries in its slice.
CallsReturn ==
  /\ \A c \in Caller : pc[c] # "idle" ~> pc[c] = "idle"
  /\ \A s \in Session : s \in exclusive ~> s \notin exclusive

\* Stop drains: the scheduler exits and every worker finishes its attempt.
StopDrains ==
  stop ~> (run = "exited" /\ \A w \in Worker : pc[w] = "idle")

-----------------------------------------------------------------------------
(* What the documentation promises and the code does not keep. *)

\* docs/admin-api.md:125: advancing the clock replays "the transition its first
\* attempt triggers, the webhooks that transition schedules": no session clock
\* moves while a first attempt's transition is still to come.
TransitionBeforeClock ==
  [][\A s \in Session :
       offset'[s] > offset[s] =>
         \A e \in Executor : pc[e] = "callback" => sess[at[e]] # s]_vars
=============================================================================
