------------------------------- MODULE Engine -------------------------------
(***************************************************************************)
(* The scenario engine (src/internal/engine/engine.go) on top of the       *)
(* session store: what a session does while its lock is held.              *)
(*                                                                         *)
(* A request, an administrative call or the callback of a webhook's first  *)
(* attempt takes Session.mu, may enter another state, and schedules the    *)
(* webhooks of that state one by one, each after a look at how many are    *)
(* pending.  The creator of a session takes the lock only after Create has *)
(* published the session.                                                  *)
(*                                                                         *)
(* The dispatcher is reduced to what the engine can tell of it: the set of *)
(* pending deliveries.  A first attempt ends at any time, retired or kept  *)
(* for a retry, and runs the callback; CancelSession empties the set.  The *)
(* administrative API sends recorded deliveries again, past session locks  *)
(* and limit (deliveryReplay, src/internal/admin/admin.go).                *)
(***************************************************************************)
EXTENDS SessionStore, Sequences

CONSTANTS
  Worker,      \* the clients that are goroutines of the dispatcher's pool
  State,       \* state names
  NoState,     \* the goto of an action or a rule without one
  Initial,     \* Scenario.Initial
  Rules,       \* the gotos of the rules of each state, by scenario
  Enter,       \* the gotos of the enter actions of each state, by scenario
  MaxPending,  \* limits.max_pending_webhooks_per_session; 0 is no limit
  MaxHistory,  \* maxHistory
  MaxMoves,    \* bound: transitions by requests and administrative calls
  MaxReplays   \* bound: replays

ASSUME EngineAssumption ==
  /\ Worker \subseteq Client
  /\ NoThread \notin Client
  /\ NoState \notin State
  /\ Initial \in [Scenario -> State]
  /\ Rules \in [Scenario -> [State -> SUBSET State]]
  /\ Enter \in [Scenario -> [State -> Seq(State \cup {NoState})]]
  /\ MaxPending \in Nat
  /\ MaxHistory \in Nat
  /\ MaxMoves \in Nat
  /\ MaxReplays \in Nat

VARIABLES
  state,      \* Session.State
  start,      \* the state createSession made the session in
  epoch,      \* Session.Epoch
  history,    \* Session.History
  pending,    \* the dispatcher's pending deliveries
  left,       \* runEnterLocked: the gotos of the actions it has yet to run
  room,       \* the clients whose current action passed the limit check
  hook,       \* the delivery whose callback a worker runs
  recorded,   \* the sessions the journal has a delivery of
  moves,      \* bound: transitions by requests and administrative calls so far
  replays     \* bound: replays so far

runVars    == <<state, start, epoch, history, moves>>
enterVars  == <<left, room>>
replayVars == <<recorded, replays>>
engineVars == <<runVars, pending, enterVars, hook, replayVars>>
vars       == <<storeVars, engineVars>>

\* A number no pending delivery has.
FreshId == CHOOSE n \in 1 .. Cardinality(pending) + 1 : \A d \in pending : d.n # n

\* What the closure of onFirst keeps of the session; from is a ghost, the state
\* whose enter actions the delivery is one of.
NewHook(n, o, g) ==
  [n |-> n, s |-> o, epoch |-> epoch[o], from |-> state[o], goto |-> g,
   first |-> TRUE]
NoHook == [n |-> 0]

\* A replay of session o has no callback, and no enter action scheduled it.
NewReplay(n, o) ==
  [n |-> n, s |-> o, epoch |-> 0, from |-> NoState, goto |-> NoState, first |-> TRUE]

EngineInit ==
  /\ StoreInit
  /\ state = [o \in Session |-> NoState]
  /\ start = [o \in Session |-> NoState]
  /\ epoch = [o \in Session |-> 0]
  /\ history = [o \in Session |-> <<>>]
  /\ pending = {}
  /\ left = [c \in Client |-> <<>>]
  /\ room = {}
  /\ hook = [c \in Client |-> NoHook]
  /\ recorded = {}
  /\ moves = 0
  /\ replays = 0

\* d.pending of one session
PendingOf(o) == {d \in pending : d.s = o}

\* Those that the session's enter actions scheduled.
EnteredOf(o) == {d \in PendingOf(o) : d.from # NoState}

-----------------------------------------------------------------------------
(* Up to the lock. *)

Caller == Client \ Worker

\* Calls begin, and Create publishes the session in its starting state: the
\* initial one, or any the administrative call names.
Begin ==
  \/ /\ \/ \E scs \in SUBSET Scenario : Reload(scs)
        \/ \E o \in Session : Expire(o)
        \/ \E c \in Caller :
             \/ \E r \in Request : FindLoaded(c, r)
             \/ \E o \in Session : GetByID(c, o) \/ BeginDelete(c, o)
        \/ BeginSweep
     /\ UNCHANGED engineVars
  \/ \E c \in Caller, sc \in Scenario, k \in Key, st \in State :
       /\ InsertKey(c, sc, k)
       /\ pc[c] = "none" => st = Initial[sc]
       /\ state' = [state EXCEPT ![made'] = st]
       /\ start' = [start EXCEPT ![made'] = st]
       /\ UNCHANGED <<epoch, history, moves, pending, enterVars, hook, replayVars>>

\* The rest of findSession, Create and Delete.
StoreGoesOn(c) ==
  /\ \/ FindLive(c) \/ Refuse(c)
     \/ \E sc \in Scenario, k \in Key : Existing(c, sc, k)
     \/ IndexID(c) \/ AddSelector(c)
     \/ RemoveKey(c) \/ Uncount(c) \/ RemoveSelector(c)
  /\ hook[c] = NoHook
  /\ UNCHANGED engineVars

-----------------------------------------------------------------------------
(* Under the lock. *)

Entry(from, to, cause) == [from |-> from, to |-> to, cause |-> cause]

\* BUG: a full history keeps its oldest entries.
KeepsOldest(h) ==
  IF Len(h) > MaxHistory THEN SubSeq(h, 1, MaxHistory) ELSE h

\* A full history keeps its newest entries.
Trimmed(h) ==
  IF Len(h) > MaxHistory THEN SubSeq(h, Len(h) - MaxHistory + 1, Len(h)) ELSE h

RecordLocked(o, entry) ==
  history' = [history EXCEPT ![o] = Trimmed(Append(@, entry))]

\* runEnterLocked starts on the actions of state st.
RunEnter(c, st) ==
  left' = [left EXCEPT ![c] = Enter[scenario[cur[c]]][st]]

\* createSession records the state it made the session in, and runs the enter
\* actions of the state the session is in by now.
Created(c) ==
  LET o == cur[c]
  IN  /\ LockNew(c)
      /\ RecordLocked(o, Entry(NoState, start[o], "created"))
      /\ RunEnter(c, state[o])
      /\ UNCHANGED <<state, start, epoch, moves, pending, room, hook, replayVars>>

\* handleInSession and AdvanceTo slide the TTL; advance only locks.
Lock(c) ==
  /\ IF hook[c] = NoHook
       THEN LockTouch(c)
       ELSE /\ pc[c] = "found" /\ lock[cur[c]] = NoThread
            /\ lock' = [lock EXCEPT ![cur[c]] = c]
            /\ Goto(c, "locked")
            /\ UNCHANGED <<indexVars, sessionVars, expired, loaded, cur,
                           localVars, sweepVars>>
  /\ UNCHANGED engineVars

\* BUG: states are compared instead of entries into them.
SameState(c) == state[cur[c]] = hook[c].from

\* The session has not moved since the delivery was scheduled.
Current(c) == epoch[cur[c]] = hook[c].epoch

\* What moves a session that c has locked: a rule that matches, the callback of
\* a first attempt, or AdvanceTo.
Moves(c, to, cause) ==
  LET o == cur[c]
  IN  \/ /\ req[c] # NoRequest
         /\ cause = "request" /\ to \in Rules[scenario[o]][state[o]]
      \/ /\ hook[c] # NoHook /\ Current(c)
         /\ cause = "webhook" /\ to = hook[c].goto
      \/ /\ req[c] = NoRequest /\ hook[c] = NoHook
         /\ cause = "admin"

\* enterStateLocked
EnterState(c, to, cause) ==
  LET o == cur[c]
  IN  /\ pc[c] = "locked"
      /\ Moves(c, to, cause)
      /\ cause # "webhook" => moves < MaxMoves
      /\ moves' = IF cause = "webhook" THEN moves ELSE moves + 1
      /\ RecordLocked(o, Entry(state[o], to, cause))
      /\ state' = [state EXCEPT ![o] = to]
      /\ epoch' = [epoch EXCEPT ![o] = @ + 1]
      /\ RunEnter(c, to)
      /\ Goto(c, "entered")
      /\ UNCHANGED <<indexVars, sessionVars, expired, lock, loaded, cur, localVars,
                     sweepVars, start, pending, room, hook, replayVars>>

\* c is in the loop of runEnterLocked and has an action left.
Entering(c) == pc[c] \in {"entering", "entered"} /\ left[c] # <<>>

\* BUG: one delivery too many.
RoomForOneTooMany(o) == MaxPending > 0 => Cardinality(PendingOf(o)) <= MaxPending

\* The limit on pending deliveries allows one more.
HasRoom(o) == MaxPending > 0 => Cardinality(PendingOf(o)) < MaxPending

\* The action passes the limit check.
PassLimit(c) ==
  /\ Entering(c) /\ c \notin room
  /\ HasRoom(cur[c])
  /\ room' = room \cup {c}
  /\ UNCHANGED <<storeVars, runVars, pending, left, hook, replayVars>>

\* The action is skipped: its body does not render, or the limit is reached.
SkipAction(c) ==
  /\ Entering(c) /\ c \notin room
  /\ left' = [left EXCEPT ![c] = Tail(@)]
  /\ UNCHANGED <<storeVars, runVars, pending, room, hook, replayVars>>

\* Dispatcher.Schedule, which puts the delivery into the journal, too
ScheduleAction(c) ==
  LET o == cur[c]
  IN  /\ Entering(c) /\ c \in room
      /\ pending' = pending \cup {NewHook(FreshId, o, Head(left[c]))}
      /\ left' = [left EXCEPT ![c] = Tail(@)]
      /\ room' = room \ {c}
      /\ recorded' = recorded \cup {o}
      /\ UNCHANGED <<storeVars, runVars, hook, replays>>

\* The deferred unlock.  A session that entered no state is unlocked too: no
\* rule matched, it had no goto, a template failed, or the callback is stale.
EngineUnlock(c) ==
  /\ left[c] = <<>>
  /\ pc[c] = "locked" /\ hook[c] # NoHook => ~Current(c)
  /\ \/ Unlock(c)
     \/ pc[c] = "entered" /\ lock' = Unlocked(c) /\ Leave(c)
        /\ UNCHANGED <<indexVars, sessionVars, expired, loaded, sweepVars>>
  /\ hook' = [hook EXCEPT ![c] = NoHook]
  /\ UNCHANGED <<runVars, pending, enterVars, replayVars>>

-----------------------------------------------------------------------------
(* The dispatcher. *)

\* BUG: the callback runs only once the delivery is settled.
CallsIfSettled(d, retry) == d.goto # NoState /\ ~retry

\* The first attempt runs the callback, whatever its outcome.
Calls(d, retry) == d.goto # NoState

\* The first attempt of a delivery ends, which leaves pending unless it is to be
\* retried.
FirstAttempt(w, d) ==
  /\ pc[w] = "idle" /\ d \in pending /\ d.first
  /\ \E retry \in BOOLEAN :
       /\ pending' = (pending \ {d})
                       \cup IF retry THEN {[d EXCEPT !.first = FALSE]} ELSE {}
       /\ IF Calls(d, retry)
            THEN hook' = [hook EXCEPT ![w] = d] /\ Goto(w, "callback")
            ELSE UNCHANGED <<hook, pc>>
  /\ UNCHANGED <<indexVars, sessionVars, expired, lock, loaded, cur, localVars,
                 sweepVars, runVars, enterVars, replayVars>>

\* The last attempt of a retried delivery ends.
LastAttempt(d) ==
  /\ d \in pending /\ ~d.first
  /\ pending' = pending \ {d}
  /\ UNCHANGED <<storeVars, runVars, enterVars, hook, replayVars>>

\* deliveryReplay schedules a recorded delivery again for the session it was of,
\* deleted or not: without its lock and without a look at the limit.
Replay(o) ==
  /\ replays < MaxReplays
  /\ o \in recorded
  /\ pending' = pending \cup {NewReplay(FreshId, o)}
  /\ replays' = replays + 1
  /\ UNCHANGED <<storeVars, runVars, enterVars, hook, recorded>>

\* advance looks its session up.
Callback(w) ==
  /\ pc[w] = "callback"
  /\ IF hook[w].s \in byID
       THEN /\ cur' = [cur EXCEPT ![w] = hook[w].s]
            /\ Goto(w, "found")
            /\ hook' = hook
       ELSE /\ Goto(w, "idle")
            /\ hook' = [hook EXCEPT ![w] = NoHook]
            /\ cur' = cur
  /\ UNCHANGED <<indexVars, sessionVars, expired, lock, loaded, localVars,
                 sweepVars, runVars, pending, enterVars, replayVars>>

\* DeleteSession goes on to CancelSession.
CancelSession(c) ==
  /\ pending' = pending \ PendingOf(cur[c])
  /\ DeleteReturns(c)
  /\ UNCHANGED <<runVars, enterVars, hook, replayVars>>

\* SweepExpired cancels for one session after the other, deleted by Sweep or not.
CancelSwept(o) ==
  /\ pc[Sweeper] = "swept" /\ o \in found
  /\ pending' = pending \ PendingOf(o)
  /\ found' = found \ {o}
  /\ UNCHANGED <<indexVars, sessionVars, expired, lock, loaded, pc, cur,
                 localVars, todo, runVars, enterVars, hook, replayVars>>

-----------------------------------------------------------------------------
(* The specification. *)

ClientStep(c) ==
  \/ StoreGoesOn(c) \/ Created(c) \/ Lock(c)
  \/ \E to \in State, cause \in {"request", "webhook", "admin"} :
       EnterState(c, to, cause)
  \/ PassLimit(c) \/ SkipAction(c) \/ ScheduleAction(c) \/ EngineUnlock(c)
  \/ Callback(c) \/ CancelSession(c)

SweeperStep ==
  \/ StoreSweepStep /\ UNCHANGED engineVars
  \/ \E o \in Session : CancelSwept(o)
  \/ found = {} /\ SweepReturns /\ UNCHANGED engineVars

Attempts == \E d \in pending : LastAttempt(d) \/ \E w \in Worker : FirstAttempt(w, d)

Next ==
  \/ Begin
  \/ \E c \in Client : ClientStep(c)
  \/ SweeperStep
  \/ Attempts
  \/ \E o \in Session : Replay(o)

Spec == EngineInit /\ [][Next]_vars

\* Goroutines run on, and Go's mutexes let every waiter in eventually, also when
\* others keep taking them (starvation mode; a waiting writer of a RWMutex holds
\* back new readers): hence strong fairness.  Every delivery is attempted,
\* whatever else is scheduled (Dispatcher).
FairSpec ==
  /\ Spec
  /\ \A c \in Client : SF_vars(ClientStep(c))
  /\ SF_vars(SweeperStep)
  /\ SF_vars(\E w \in Worker, d \in pending : FirstAttempt(w, d))

-----------------------------------------------------------------------------
(* Type invariant. *)

Hook == [n : Nat \ {0}, s : Session, epoch : Nat, from : State \cup {NoState},
         goto : State \cup {NoState}, first : BOOLEAN]
HistoryEntry == [from : State \cup {NoState}, to : State,
                 cause : {"created", "request", "webhook", "admin"}]

\* Every variable holds what the Go declaration it models allows; a client holds
\* at most the lock of the session it works on, and that one exactly while it is
\* where the code has it.
TypeOK ==
  /\ DataTypeOK
  /\ pc \in [Thread -> ClientPlace \cup SweeperPlace \cup {"entered", "callback"}]
  /\ \A o \in Session : \A c \in Client :
       lock[o] = c <=> cur[c] = o /\ pc[c] \in {"locked", "entering", "entered"}
  /\ {state, start} \subseteq [Session -> State \cup {NoState}]
  /\ epoch \in [Session -> Nat]
  /\ \A o \in Session : \A i \in DOMAIN history[o] : history[o][i] \in HistoryEntry
  /\ pending \in SUBSET Hook
  /\ left \in [Client -> Seq(State \cup {NoState})]
  /\ room \in SUBSET Client
  /\ hook \in [Client -> Hook \cup {NoHook}]
  /\ recorded \subseteq Session
  /\ {moves, replays} \subseteq Nat

-----------------------------------------------------------------------------
(* Safety. *)

\* The enter actions of a session never have more deliveries pending than the
\* limit: PendingCount and Schedule are two sections of the dispatcher's lock, and
\* only the session's own lock keeps two goroutines from passing the check
\* together.  Replays, which need no room and no lock, may come on top of them.
PendingBounded ==
  MaxPending > 0 => \A o \in Session : Cardinality(EnteredOf(o)) <= MaxPending

\* The i-th entry of history h is a transition, not the session's creation.
Transition(h, i) == h[i].cause # "created"

\* Each transition in h starts where the one before it ended, and the last one
\* ended in state st.
Explains(h, st) ==
  \A i \in DOMAIN h : Transition(h, i) =>
    /\ \A j \in DOMAIN h :
         /\ i < j /\ Transition(h, j)
         /\ \A k \in DOMAIN h : i < k /\ k < j => ~Transition(h, k)
         => h[i].to = h[j].from
    /\ (\A k \in DOMAIN h : i < k => ~Transition(h, k)) => h[i].to = st

\* The history explains the state, also after the oldest entries were dropped.
HistoryExplainsState == \A o \in Session : Explains(history[o], state[o])

\* docs/dsl.md:184: a goto that comes after its session has moved to another
\* state is dropped, also when the session is back in that state by then: a
\* webhook moves a session only out of the state entry that scheduled it.
StaleGotoDropped ==
  [][\A o \in Session :
       epoch'[o] # epoch[o] /\ hook[lock[o]] # NoHook
         => /\ hook[lock[o]].from = state[o]
            /\ hook[lock[o]].epoch = epoch[o]]_vars

-----------------------------------------------------------------------------
(* Liveness, under FairSpec. *)

\* Every call, callback and sweep ends: session locks, which are held across
\* calls of the dispatcher, and idMu, which Sweep holds across session locks, are
\* never waited for in a circle.
CallsReturn == \A t \in Thread : pc[t] # "idle" ~> pc[t] = "idle"

\* A delivery of the session's current state entry that carries a goto eventually
\* moves the session, unless something else does or the session ends.
GotoFires ==
  \A o \in Session : \A e \in 0 .. MaxMoves + Cardinality(State) :
    (\E d \in pending : d.s = o /\ d.epoch = e /\ d.first /\ d.goto # NoState)
       ~> epoch[o] # e \/ o \notin byID
=============================================================================
