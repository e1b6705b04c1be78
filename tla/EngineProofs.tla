---------------------------- MODULE EngineProofs ----------------------------
(***************************************************************************)
(* Proofs about Engine, for any number of clients, workers, sessions,      *)
(* states and deliveries: the type invariant, that the store's indices     *)
(* stay consistent under the engine, that enter actions keep to the limit  *)
(* on a session's pending webhooks, also with replays, that a session's history explains the state it is in, *)
(* and that a webhook moves a session only out of the state entry that     *)
(* scheduled it.                                                           *)
(***************************************************************************)
EXTENDS Engine, SessionStoreProofs, SequenceTheorems

\* Where a client holds the lock of its session.
Inside == {"locked", "entering", "entered"}

\* A client holds at most the lock of the session it works on.
LockOK ==
  \A o \in Session : \A c \in Client : lock[o] = c <=> cur[c] = o /\ pc[c] \in Inside

\* Only sessions that have been made have a state, or deliveries in the journal.
RunOK ==
  /\ state \in [Session -> State \cup {NoState}]
  /\ start \in [Session -> State \cup {NoState}]
  /\ epoch \in [Session -> Nat]
  /\ history \in [Session -> Seq(HistoryEntry)]
  /\ moves \in Nat
  /\ \A o \in Session : o <= made =>
       scenario[o] \in Scenario /\ state[o] \in State /\ start[o] \in State
  /\ \A o \in Session : o > made => history[o] = <<>>
  /\ replays \in Nat /\ recorded \in SUBSET Session
  /\ \A o \in recorded : o <= made

\* Only a client that holds its session's lock runs enter actions, and only with
\* an action left has it passed the limit check.
EnterOK ==
  /\ left \in [Client -> Seq(State \cup {NoState})]
  /\ room \in SUBSET Client
  /\ \A c \in Client : left[c] # <<>> => pc[c] \in {"entering", "entered"}
  /\ \A c \in room : left[c] # <<>>

\* A delivery knows an entry into a state that its session has left, or the
\* state the session is in; a replay knows none and moves nothing.
Remembers(h) ==
  /\ h.s <= made /\ h.epoch <= epoch[h.s]
  /\ h.from = NoState => h.goto = NoState
  /\ h.from # NoState /\ h.epoch = epoch[h.s] => h.from = state[h.s]

PendingOK ==
  /\ pending \in SUBSET Hook /\ IsFiniteSet(pending)
  /\ \A h \in pending : Remembers(h)

\* A worker that runs a callback is on its way to the delivery's session, and
\* handles no request.
HookOK ==
  /\ hook \in [Client -> Hook \cup {NoHook}]
  /\ \A w \in Worker : req[w] = NoRequest
  /\ \A c \in Client :
       /\ pc[c] = "callback" => hook[c] # NoHook
       /\ hook[c] # NoHook =>
            /\ c \in Worker /\ hook[c] \in Hook /\ hook[c].goto \in State
            /\ pc[c] \in {"callback", "found", "locked", "entered"}
            /\ pc[c] # "callback" => cur[c] = hook[c].s
            /\ Remembers(hook[c])

\* Whoever passed the limit check has room for its delivery, whatever is replayed.
RoomOK ==
  MaxPending > 0 =>
    /\ \A o \in Session : Cardinality(EnteredOf(o)) <= MaxPending
    /\ \A c \in room : Cardinality(EnteredOf(cur[c])) < MaxPending

EngineInv == LockOK /\ RunOK /\ EnterOK /\ PendingOK /\ HookOK /\ RoomOK

LEMMA EngineFacts ==
  /\ NoThread \notin Client /\ Worker \subseteq Client
  /\ MaxPending \in Nat /\ MaxHistory \in Nat /\ NoState \notin State
BY EngineAssumption

-----------------------------------------------------------------------------
(* The store under the engine. *)

\* A client moves, outside the sections of Create and Delete.
LEMMA StoreMoves ==
  ASSUME TypeInv, IInv, NEW c \in Client, NEW p, NEW o \in Session \cup {NoSession}, o <= made,
         UNCHANGED <<indexVars, sessionVars, expired, loaded, localVars, sweepVars>>,
         lock' \in [Session -> Client \cup {NoThread}],
         pc[c] \notin {"index", "unkey", "uncount"},
         p \in {"idle", "found", "locked", "entered", "callback"},
         p \in Busy => o \in Session,
         Goto(c, p),
         cur' = [cur EXCEPT ![c] = o]
  PROVE  TypeInv' /\ IInv'
<1>1. c \in Thread /\ pc' = [pc EXCEPT ![c] = p]
  BY StoreFacts DEF Goto
<1>2. TypeInv'
  BY <1>1, StoreFacts DEF TypeInv, WideTypeOK, DataTypeOK, BusyCur, Asking, Busy, ClientPlace,
     SweeperPlace, OuterPlace, indexVars, sessionVars, sweepVars, localVars
<1>3. IInv'
  <2>1. UNCHANGED <<byKey, byID, length, made, key>>
    BY DEF indexVars, sessionVars
  <2> QED
    BY <1>1, <2>1, QuietStep
<1> QED
  BY <1>2, <1>3

LEMMA StoreEngine ==
  ASSUME TypeInv, IInv, NEW c \in Client,
         \/ Lock(c) \/ EngineUnlock(c) \/ Callback(c)
         \/ \E to, cause : EnterState(c, to, cause)
         \/ \E d \in pending : FirstAttempt(c, d)
  PROVE  TypeInv' /\ IInv'
<1> USE StoreFacts
<1>0. /\ c \in Thread /\ cur \in [Thread -> Session \cup {NoSession}]
      /\ lock \in [Session -> Client \cup {NoThread}]
      /\ pc[c] \in Busy => cur[c] \in Session
      /\ cur[c] <= made /\ NoSession <= made /\ \A o \in byID : o \in Session /\ o <= made
  BY DEF TypeInv, WideTypeOK, DataTypeOK, BusyCur, IInv, MadeOK, NoSession
<1>1. cur = [cur EXCEPT ![c] = cur[c]]
  BY <1>0
<1>2. CASE Lock(c)
  <2>1. CASE hook[c] = NoHook
    BY <1>2, <2>1, TypeLookups, IQuietClient DEF Lock
  <2>2. CASE hook[c] # NoHook
    <3>1. /\ pc[c] = "found" /\ lock' = [lock EXCEPT ![cur[c]] = c] /\ Goto(c, "locked")
          /\ UNCHANGED <<indexVars, sessionVars, expired, loaded, cur, localVars, sweepVars>>
      BY <1>2, <2>2 DEF Lock
    <3>2. cur[c] \in Session /\ lock' \in [Session -> Client \cup {NoThread}]
      BY <1>0, <3>1 DEF Busy
    <3> QED
      BY <1>0, <1>1, <3>1, <3>2, StoreMoves
  <2> QED
    BY <2>1, <2>2
<1>3. CASE EngineUnlock(c)
  <2>1. CASE Unlock(c)
    BY <2>1, TypeLookups, IQuietClient
  <2>2. CASE pc[c] = "entered" /\ lock' = Unlocked(c) /\ Leave(c)
             /\ UNCHANGED <<indexVars, sessionVars, expired, loaded, sweepVars>>
    <3>1. /\ pc' = [pc EXCEPT ![c] = "idle"] /\ cur' = [cur EXCEPT ![c] = NoSession]
          /\ req' = [req EXCEPT ![c] = NoRequest] /\ snap' = [snap EXCEPT ![c] = {}]
          /\ UNCHANGED <<byKey, byID, length, refs, pinned, made, key, scenario, expired,
                         loaded, todo, found>>
          /\ pc[c] = "entered"
      BY <2>2 DEF Leave, Goto, indexVars, sessionVars, sweepVars
    <3>2. lock' \in [Session -> Client \cup {NoThread}]
      BY <1>0, <2>2 DEF Unlocked
    <3>3. TypeInv'
      BY <1>0, <3>1, <3>2 DEF TypeInv, WideTypeOK, DataTypeOK, BusyCur, Asking, Busy, ClientPlace,
         SweeperPlace, OuterPlace
    <3> QED
      BY <1>0, <3>1, <3>3, QuietStep
  <2> QED
    BY <1>3, <2>1, <2>2 DEF EngineUnlock
<1>4. CASE Callback(c)
  BY <1>0, <1>1, <1>4, StoreMoves DEF Callback, Busy
<1>5. ASSUME NEW to, NEW cause, EnterState(c, to, cause)
      PROVE  TypeInv' /\ IInv'
  <2>1. /\ pc[c] = "locked" /\ Goto(c, "entered")
        /\ UNCHANGED <<indexVars, sessionVars, expired, lock, loaded, cur, localVars, sweepVars>>
    BY <1>5 DEF EnterState
  <2> QED
    BY <1>0, <1>1, <2>1, StoreMoves DEF Busy
<1>6. ASSUME NEW d \in pending, FirstAttempt(c, d)
      PROVE  TypeInv' /\ IInv'
  <2>1. /\ pc[c] = "idle" /\ (Goto(c, "callback") \/ pc' = pc)
        /\ UNCHANGED <<indexVars, sessionVars, expired, lock, loaded, cur, localVars, sweepVars>>
    BY <1>6 DEF FirstAttempt
  <2>2. CASE Goto(c, "callback")
    BY <1>0, <1>1, <2>1, <2>2, StoreMoves DEF Busy
  <2>3. CASE pc' = pc
    BY <2>1, <2>3, StutterInv DEF storeVars
  <2> QED
    BY <2>1, <2>2, <2>3
<1> QED
  BY <1>2, <1>3, <1>4, <1>5, <1>6

\* The steps of the engine preserve what those of the store do.
LEMMA StoreNextInv ==
  ASSUME TypeInv, IInv, [Next]_vars
  PROVE  TypeInv' /\ IInv'
<1>1. CASE Begin
  <2>1. \A c \in Caller : c \in Client
    BY DEF Caller
  <2>2. ASSUME NEW c \in Caller, NEW sc \in Scenario, NEW k \in Key, InsertKey(c, sc, k)
        PROVE  TypeInv' /\ IInv'
    BY <2>1, <2>2, TypeCreate, IInsert
  <2>3. ASSUME NEW c \in Caller, NEW o \in Session, BeginDelete(c, o)
        PROVE  TypeInv' /\ IInv'
    BY <2>1, <2>3, TypeBegin, IRemoveID, StoreFacts DEF BeginDelete
  <2>4. ASSUME NEW c \in Caller,
               \/ \E r \in Request : FindLoaded(c, r)
               \/ \E o \in Session : GetByID(c, o)
        PROVE  TypeInv' /\ IInv'
    BY <2>1, <2>4, TypeLookups, IQuietClient
  <2>5. CASE \/ \E scs \in SUBSET Scenario : Reload(scs)
             \/ \E o \in Session : Expire(o)
             \/ BeginSweep
    BY <2>5, TypeBegin, IQuietRest
  <2> QED
    BY <1>1, <2>2, <2>3, <2>4, <2>5 DEF Begin
<1>2. ASSUME NEW c \in Client, ClientStep(c)
      PROVE  TypeInv' /\ IInv'
  <2>1. CASE StoreGoesOn(c)
    <3>1. CASE FindLive(c) \/ Refuse(c) \/ \E sc \in Scenario, k \in Key : Existing(c, sc, k)
      BY <3>1, TypeLookups, IQuietClient
    <3>2. CASE IndexID(c)
      BY <3>2, TypeCreate, IIndexID
    <3>3. CASE AddSelector(c)
      BY <3>3, TypeCreate, IQuietClient
    <3>4. CASE RemoveKey(c)
      BY <3>4, TypeDelete, IRemoveKey, StoreFacts
    <3>5. CASE Uncount(c)
      BY <3>5, IUncount, StoreFacts
    <3>6. CASE RemoveSelector(c)
      BY <3>6, TypeDelete, IQuietRest, StoreFacts
    <3> QED
      BY <2>1, <3>1, <3>2, <3>3, <3>4, <3>5, <3>6 DEF StoreGoesOn
  <2>2. CASE Created(c)
    BY <2>2, TypeLookups, IQuietClient DEF Created
  <2>3. CASE PassLimit(c) \/ SkipAction(c) \/ ScheduleAction(c)
    BY <2>3, StutterInv DEF PassLimit, SkipAction, ScheduleAction
  <2>4. CASE CancelSession(c)
    BY <2>4, TypeLookups, IQuietClient DEF CancelSession
  <2> QED
    BY <1>2, <2>1, <2>2, <2>3, <2>4, StoreEngine DEF ClientStep
<1>3. CASE SweeperStep
  <2>1. CASE \E o \in Session : Look(o)
    BY <2>1, TypeSweep, IQuietRest
  <2>2. CASE \E o \in Session : SweepNext(o)
    BY <2>2, TypeSweep, SweepNextInv
  <2>3. CASE EndScan \/ EndSweep \/ SweepReturns
    BY <2>3, TypeSweep, IQuietRest
  <2>4. CASE RemoveKey(Sweeper)
    BY <2>4, TypeDelete, IRemoveKey, StoreFacts
  <2>5. CASE Uncount(Sweeper)
    BY <2>5, IUncount, StoreFacts
  <2>6. CASE RemoveSelector(Sweeper)
    BY <2>6, TypeDelete, IQuietRest, StoreFacts
  <2>7. ASSUME NEW o \in Session, CancelSwept(o)
        PROVE  TypeInv' /\ IInv'
    <3>1. /\ UNCHANGED <<indexVars, sessionVars, expired, lock, loaded, pc, cur, localVars, todo>>
          /\ found' = found \ {o}
      BY <2>7 DEF CancelSwept
    <3>2. TypeInv'
      BY <3>1 DEF TypeInv, WideTypeOK, DataTypeOK, BusyCur, Asking, indexVars, sessionVars,
         localVars
    <3>3. UNCHANGED <<byKey, byID, length, made, key, pc, cur>>
      BY <3>1 DEF indexVars, sessionVars
    <3>4. (\A q : At(q)' = At(q)) /\ \A t \in Thread : cur'[t] <= made
      BY <3>3 DEF At, IInv, MadeOK
    <3> QED
      BY <3>2, <3>3, <3>4, Quiet
  <2> QED
    BY <1>3, <2>1, <2>2, <2>3, <2>4, <2>5, <2>6, <2>7 DEF SweeperStep, StoreSweepStep
<1>4. CASE Attempts
  <2>1. ASSUME NEW d \in pending, LastAttempt(d)
        PROVE  TypeInv' /\ IInv'
    BY <2>1, StutterInv DEF LastAttempt
  <2> QED
    BY <1>4, <2>1, StoreEngine, EngineFacts DEF Attempts
<1>5. ASSUME NEW o \in Session, Replay(o) PROVE TypeInv' /\ IInv'
  BY <1>5, StutterInv DEF Replay
<1>6. CASE UNCHANGED vars
  BY <1>6, StutterInv DEF vars
<1> QED
  BY <1>1, <1>2, <1>3, <1>4, <1>5, <1>6 DEF Next

-----------------------------------------------------------------------------
(* Frames: what a step must leave alone for a part of the invariant to hold   *)
(* after it.                                                                  *)

LEMMA EngineTypes ==
  ASSUME TypeInv, IInv
  PROVE  /\ pc \in [Thread -> ClientPlace \cup SweeperPlace \cup OuterPlace]
         /\ cur \in [Thread -> Session \cup {NoSession}]
         /\ lock \in [Session -> Client \cup {NoThread}]
         /\ req \in [Client -> Request \cup {NoRequest}]
         /\ scenario \in [Session -> Scenario \cup {NoScenario}]
         /\ made \in 0 .. MaxMade
         /\ Client \subseteq Thread /\ Sweeper \in Thread /\ Sweeper \notin Client
         /\ \A t \in Thread : pc[t] \in Busy => cur[t] \in Session
         /\ \A t \in Thread : cur[t] <= made
BY StoreFacts DEF TypeInv, WideTypeOK, DataTypeOK, BusyCur, IInv, MadeOK

\* Client c takes or gives back the lock of its session, or neither enters nor
\* leaves the places where it holds it.
LEMMA LockFrame ==
  ASSUME TypeInv, IInv, LockOK, NEW c \in Client,
         \A d \in Client : d # c => pc'[d] = pc[d] /\ cur'[d] = cur[d],
         \/ lock' = lock /\ pc[c] \notin Inside /\ pc'[c] \notin Inside
         \/ lock' = lock /\ pc[c] \in Inside /\ pc'[c] \in Inside /\ cur'[c] = cur[c]
         \/ /\ cur[c] \in Session /\ lock[cur[c]] = NoThread
            /\ lock' = [lock EXCEPT ![cur[c]] = c]
            /\ cur'[c] = cur[c] /\ pc'[c] \in Inside
         \/ pc[c] \in Inside /\ pc'[c] \notin Inside /\ lock' = Unlocked(c)
  PROVE  LockOK'
<1> USE EngineTypes, EngineFacts DEF LockOK
<1>1. CASE lock' = lock /\ pc[c] \notin Inside /\ pc'[c] \notin Inside
  BY <1>1
<1>2. CASE lock' = lock /\ pc[c] \in Inside /\ pc'[c] \in Inside /\ cur'[c] = cur[c]
  BY <1>2
<1>3. CASE /\ cur[c] \in Session /\ lock[cur[c]] = NoThread
           /\ lock' = [lock EXCEPT ![cur[c]] = c]
           /\ cur'[c] = cur[c] /\ pc'[c] \in Inside
  BY <1>3
<1>4. CASE pc[c] \in Inside /\ pc'[c] \notin Inside /\ lock' = Unlocked(c)
  <2>1. cur[c] \in Session /\ lock[cur[c]] = c
    BY <1>4 DEF Busy, Inside
  <2> QED
    BY <1>4, <2>1 DEF Unlocked
<1> QED
  BY <1>1, <1>2, <1>3, <1>4

\* The deliveries in P that enter actions of session o scheduled.
Entered(P, o) == {d \in P : d.s = o /\ d.from # NoState}

LEMMA PendingFinite ==
  ASSUME PendingOK
  PROVE  \A o : /\ IsFiniteSet(PendingOf(o)) /\ Cardinality(PendingOf(o)) \in Nat
                /\ IsFiniteSet(EnteredOf(o)) /\ Cardinality(EnteredOf(o)) \in Nat
                /\ Cardinality(EnteredOf(o)) <= Cardinality(PendingOf(o))
<1>1. \A o : PendingOf(o) \subseteq pending /\ EnteredOf(o) \subseteq PendingOf(o)
  BY DEF PendingOf, EnteredOf
<1>2. IsFiniteSet(pending)
  BY DEF PendingOK
<1> QED
  BY <1>1, <1>2, FS_Subset, FS_CardinalityType

\* No session gets more deliveries, and nobody more passes the check.
LEMMA RoomFrame ==
  ASSUME PendingOK, PendingOK', RoomOK,
         room' \subseteq room, \A c \in room : cur'[c] = cur[c],
         \A o : Cardinality(Entered(pending', o)) <= Cardinality(EnteredOf(o))
  PROVE  RoomOK'
<1>1. \A o : Cardinality(EnteredOf(o)) \in Nat /\ Cardinality(Entered(pending', o)) \in Nat
  <2>1. \A o : Entered(pending', o) \subseteq pending'
    BY DEF Entered
  <2> QED
    BY <2>1, PendingFinite, FS_Subset, FS_CardinalityType DEF PendingOK
<1>2. ASSUME MaxPending > 0
      PROVE  /\ \A o \in Session : Cardinality(Entered(pending', o)) <= MaxPending
             /\ \A c \in room' : Cardinality(Entered(pending', cur'[c])) < MaxPending
  BY <1>1, <1>2, EngineFacts DEF RoomOK
<1>3. \A o : EnteredOf(o)' = Entered(pending', o)
  BY DEF EnteredOf, PendingOf, Entered
<1> QED
  BY <1>2, <1>3 DEF RoomOK

\* A step that leaves the sessions and their enter actions alone and schedules
\* nothing: clients move, but not out of enter actions nor into a callback, and
\* one that runs a callback only on the way to its session's lock.
LEMMA RestFrame ==
  ASSUME TypeInv, IInv, EngineInv,
         UNCHANGED <<state, start, epoch, history, moves, left, room, hook, recorded, replays, made, scenario>>,
         pending' \subseteq pending,
         \A w \in Worker : req'[w] = NoRequest,
         \A c \in Client :
           \/ pc'[c] = pc[c] /\ cur'[c] = cur[c]
           \/ /\ pc[c] \notin {"entering", "entered"} /\ pc'[c] # "callback"
              /\ hook[c] # NoHook =>
                   pc'[c] \in {"found", "locked", "entered"} /\ cur'[c] = hook[c].s
  PROVE  RunOK' /\ EnterOK' /\ PendingOK' /\ HookOK' /\ RoomOK'
<1> USE DEF EngineInv
<1>1. RunOK'
  BY DEF RunOK
<1>2. EnterOK'
  BY DEF EnterOK
<1>3. \A h : Remembers(h)' = Remembers(h)
  BY DEF Remembers
<1>4. PendingOK'
  <2>1. IsFiniteSet(pending')
    BY FS_Subset DEF PendingOK
  <2> QED
    BY <1>3, <2>1 DEF PendingOK
<1>5. HookOK'
  BY <1>3 DEF HookOK
<1>6. RoomOK'
  <2>1. \A o : Entered(pending', o) \subseteq EnteredOf(o)
    BY DEF PendingOf, EnteredOf, Entered
  <2>2. \A o : Cardinality(Entered(pending', o)) <= Cardinality(EnteredOf(o))
    BY <2>1, PendingFinite, FS_Subset
  <2>3. \A c \in room : cur'[c] = cur[c]
    BY DEF EnterOK
  <2> QED
    BY <1>4, <2>2, <2>3, RoomFrame
<1> QED
  BY <1>1, <1>2, <1>4, <1>5, <1>6

-----------------------------------------------------------------------------
(* The steps that leave the sessions' states alone.                           *)

\* Client c moves, outside the places where it holds a lock.
LEMMA QuietClient ==
  ASSUME TypeInv, IInv, EngineInv, NEW c \in Client, NEW p,
         pc[c] \notin Inside, p \notin Inside, p # "callback", hook[c] = NoHook,
         Goto(c, p), \A d \in Client : d # c => cur'[d] = cur[d],
         \A w \in Worker : req'[w] = NoRequest,
         UNCHANGED <<state, start, epoch, history, moves, left, room, hook, recorded, replays, made, scenario, lock>>,
         pending' \subseteq pending
  PROVE  EngineInv'
<1>1. \A d \in Client : d # c => pc'[d] = pc[d]
  BY EngineTypes DEF Goto
<1>2. pc'[c] = p
  BY EngineTypes DEF Goto
<1>3. LockOK'
  BY <1>1, <1>2, LockFrame DEF EngineInv
<1>4. pc[c] \notin {"entering", "entered"} /\ pc'[c] # "callback"
  BY <1>2 DEF Inside
<1> QED
  BY <1>1, <1>3, <1>4, RestFrame DEF EngineInv

\* No client moves.
LEMMA QuietRest ==
  ASSUME TypeInv, IInv, EngineInv,
         \A c \in Client : pc'[c] = pc[c] /\ cur'[c] = cur[c],
         UNCHANGED <<state, start, epoch, history, moves, left, room, hook, recorded, replays, made, scenario, lock, req>>,
         pending' \subseteq pending
  PROVE  EngineInv'
<1>1. LockOK'
  BY DEF EngineInv, LockOK
<1>2. \A w \in Worker : req'[w] = NoRequest
  BY DEF EngineInv, HookOK
<1> QED
  BY <1>1, <1>2, RestFrame DEF EngineInv

\* Workers begin no calls.
LEMMA CallerFacts ==
  ASSUME EngineInv, NEW c \in Caller
  PROVE  c \in Client /\ c \notin Worker /\ hook[c] = NoHook
BY DEF Caller, EngineInv, HookOK

LEMMA BeginQuiet ==
  ASSUME TypeInv, IInv, EngineInv, UNCHANGED engineVars,
         \/ \E scs \in SUBSET Scenario : Reload(scs)
         \/ \E o \in Session : Expire(o)
         \/ \E c \in Caller :
              \/ \E r \in Request : FindLoaded(c, r)
              \/ \E o \in Session : GetByID(c, o) \/ BeginDelete(c, o)
         \/ BeginSweep
  PROVE  EngineInv'
<1> USE DEF engineVars, runVars, enterVars, replayVars, indexVars, sessionVars, localVars
<1>1. CASE \E scs \in SUBSET Scenario : Reload(scs)
  BY <1>1, QuietRest DEF Reload
<1>2. CASE \E o \in Session : Expire(o)
  BY <1>2, QuietRest DEF Expire
<1>3. CASE BeginSweep
  BY <1>3, QuietRest, EngineTypes DEF BeginSweep, Goto
<1>4. ASSUME NEW c \in Caller, NEW r \in Request, FindLoaded(c, r)
      PROVE  EngineInv'
  <2>1. /\ pc[c] = "idle" /\ req' = [req EXCEPT ![c] = r]
        /\ UNCHANGED <<made, scenario, lock>>
        /\ \E p \in {"live", "found"} : Goto(c, p)
        /\ cur' = cur \/ \E o : cur' = [cur EXCEPT ![c] = o]
    BY <1>4 DEF FindLoaded
  <2>2. \A w \in Worker : req'[w] = NoRequest
    BY <2>1, CallerFacts, EngineFacts, EngineTypes DEF EngineInv, HookOK
  <2>3. \A d \in Client : d # c => cur'[d] = cur[d]
    BY <2>1, EngineTypes
  <2>4. PICK p \in {"live", "found"} : Goto(c, p)
    BY <2>1
  <2>5. pc[c] \notin Inside /\ p \notin Inside /\ p # "callback"
    BY <2>1 DEF Inside
  <2> QED
    BY <2>1, <2>2, <2>3, <2>4, <2>5, CallerFacts, QuietClient
<1>5. ASSUME NEW c \in Caller, NEW o \in Session, GetByID(c, o) \/ BeginDelete(c, o)
      PROVE  EngineInv'
  <2>1. /\ pc[c] = "idle" /\ cur' = [cur EXCEPT ![c] = o]
        /\ UNCHANGED <<made, scenario, lock, req>>
        /\ \E p \in {"found", "unkey"} : Goto(c, p)
    BY <1>5 DEF GetByID, BeginDelete, RemoveID
  <2>2. \A w \in Worker : req'[w] = NoRequest
    BY <2>1 DEF EngineInv, HookOK
  <2>3. \A d \in Client : d # c => cur'[d] = cur[d]
    BY <2>1, EngineTypes
  <2>4. PICK p \in {"found", "unkey"} : Goto(c, p)
    BY <2>1
  <2>5. pc[c] \notin Inside /\ p \notin Inside /\ p # "callback"
    BY <2>1 DEF Inside
  <2> QED
    BY <2>1, <2>2, <2>3, <2>4, <2>5, CallerFacts, QuietClient
<1> QED
  BY <1>1, <1>2, <1>3, <1>4, <1>5

LEMMA StoreGoesOnQuiet ==
  ASSUME TypeInv, IInv, EngineInv, NEW c \in Client, StoreGoesOn(c) \/ CancelSession(c)
  PROVE  EngineInv'
<1>1. UNCHANGED <<state, start, epoch, history, moves, left, room, hook, recorded, replays, made, scenario, lock>>
      /\ pending' \subseteq pending
  BY DEF StoreGoesOn, CancelSession, FindLive, Refuse, Existing, IndexID, AddSelector, RemoveKey,
     Uncount, RemoveSelector, DeleteReturns, engineVars, runVars, enterVars, replayVars, sessionVars
<1>2. hook[c] = NoHook
  BY DEF StoreGoesOn, CancelSession, DeleteReturns, EngineInv, HookOK
<1>3. pc[c] \notin Inside
  BY DEF StoreGoesOn, CancelSession, FindLive, Refuse, Existing, IndexID, AddSelector, RemoveKey,
     Uncount, RemoveSelector, DeleteReturns, Inside
<1>4. \E p \in {"none", "found", "idle", "select", "created", "uncount", "unselect", "deleted"} :
        Goto(c, p)
  BY EngineTypes
     DEF StoreGoesOn, CancelSession, FindLive, Refuse, Existing, IndexID, AddSelector, RemoveKey,
     Uncount, RemoveSelector, DeleteReturns, Leave
<1>5. cur' = cur \/ \E o : cur' = [cur EXCEPT ![c] = o]
  BY DEF StoreGoesOn, CancelSession, FindLive, Refuse, Existing, IndexID, AddSelector, RemoveKey,
     Uncount, RemoveSelector, DeleteReturns, Leave
<1>6. req' = req \/ req' = [req EXCEPT ![c] = NoRequest]
  BY DEF StoreGoesOn, CancelSession, FindLive, Refuse, Existing, IndexID, AddSelector, RemoveKey,
     Uncount, RemoveSelector, DeleteReturns, Leave, localVars
<1>7. \A w \in Worker : req'[w] = NoRequest
  BY <1>6, EngineTypes, EngineFacts DEF EngineInv, HookOK
<1>8. \A d \in Client : d # c => cur'[d] = cur[d]
  BY <1>5, EngineTypes
<1>9. PICK p \in {"none", "found", "idle", "select", "created", "uncount", "unselect", "deleted"} :
        Goto(c, p)
  BY <1>4
<1>10. p \notin Inside /\ p # "callback"
  BY DEF Inside
<1> QED
  BY <1>1, <1>2, <1>3, <1>7, <1>8, <1>9, <1>10, QuietClient

LEMMA SweeperQuiet ==
  ASSUME TypeInv, IInv, EngineInv, SweeperStep \/ \E d \in pending : LastAttempt(d)
  PROVE  EngineInv'
<1> USE DEF engineVars, runVars, enterVars, replayVars, indexVars, sessionVars, localVars, Goto
<1>1. CASE \E d \in pending : LastAttempt(d)
  BY <1>1, QuietRest DEF LastAttempt, storeVars
<1>2. CASE \E o \in Session : CancelSwept(o)
  BY <1>2, QuietRest DEF CancelSwept
<1>3. CASE (StoreSweepStep \/ SweepReturns) /\ UNCHANGED engineVars
  <2>1. UNCHANGED <<made, scenario, lock, req>>
    BY <1>3 DEF StoreSweepStep, SweepReturns, Look, SweepNext, EndScan, EndSweep, RemoveKey,
       Uncount, RemoveSelector, RemoveID
  <2>2. /\ pc' = pc \/ \E p : pc' = [pc EXCEPT ![Sweeper] = p]
        /\ cur' = cur \/ \E o : cur' = [cur EXCEPT ![Sweeper] = o]
    BY <1>3 DEF StoreSweepStep, SweepReturns, Look, SweepNext, EndScan, EndSweep, RemoveKey,
       Uncount, RemoveSelector, RemoveID
  <2>3. \A c \in Client : pc'[c] = pc[c] /\ cur'[c] = cur[c]
    BY <2>2, EngineTypes
  <2> QED
    BY <1>3, <2>1, <2>3, QuietRest
<1> QED
  BY <1>1, <1>2, <1>3 DEF SweeperStep

-----------------------------------------------------------------------------
(* The steps that make, lock and unlock a session.                            *)

\* A new session has no history and no deliveries, and nobody else works on it.
LEMMA InsertInv ==
  ASSUME TypeInv, IInv, EngineInv,
         NEW c \in Caller, NEW sc \in Scenario, NEW k \in Key, NEW st \in State,
         InsertKey(c, sc, k),
         state' = [state EXCEPT ![made'] = st], start' = [start EXCEPT ![made'] = st],
         UNCHANGED <<epoch, history, moves, pending, enterVars, hook, replayVars>>
  PROVE  EngineInv'
<1> USE EngineTypes, CallerFacts DEF enterVars, localVars, replayVars
<1>1. /\ made' = made + 1 /\ made' \in Session /\ scenario' = [scenario EXCEPT ![made'] = sc]
      /\ pc[c] \in {"none", "idle"} /\ Goto(c, "index") /\ cur' = [cur EXCEPT ![c] = made']
      /\ lock' = lock /\ req' = req
  BY DEF InsertKey, Asks
<1>2. \A d \in Client : d # c => pc'[d] = pc[d] /\ cur'[d] = cur[d]
  BY <1>1 DEF Goto
<1>3. pc'[c] = "index"
  BY <1>1 DEF Goto
<1>4. LockOK'
  <2>1. pc[c] \notin Inside /\ pc'[c] \notin Inside
    BY <1>1, <1>3 DEF Inside
  <2> QED
    BY <1>1, <1>2, <2>1, LockFrame DEF EngineInv
<1>5. RunOK'
  <2>1. /\ state' \in [Session -> State \cup {NoState}]
        /\ start' \in [Session -> State \cup {NoState}]
    BY <1>1 DEF EngineInv, RunOK
  <2>4. replays' = replays /\ recorded' = recorded /\ \A o \in recorded : o <= made'
    BY <1>1, StoreFacts DEF EngineInv, RunOK
  <2>2. \A o \in Session : o <= made' => o <= made \/ o = made'
    BY <1>1, StoreFacts
  <2>3. \A o \in Session : o > made' => o > made
    BY <1>1, StoreFacts
  <2> QED
    BY <1>1, <2>1, <2>2, <2>3, <2>4 DEF EngineInv, RunOK
<1>6. EnterOK'
  BY <1>1, <1>2 DEF EngineInv, EnterOK
<1>7. \A h \in Hook : Remembers(h) => Remembers(h)'
  <2> TAKE h \in Hook
  <2> HAVE Remembers(h)
  <2>1. h.s \in Session /\ h.s <= made
    BY DEF Hook, Remembers
  <2>2. h.s <= made' /\ h.s # made' /\ state'[h.s] = state[h.s]
    BY <1>1, <2>1, StoreFacts DEF EngineInv, RunOK
  <2> QED
    BY <2>2 DEF Remembers
<1>8. PendingOK'
  BY <1>7 DEF EngineInv, PendingOK
<1>9. HookOK'
  BY <1>1, <1>2, <1>3, <1>7 DEF EngineInv, HookOK
<1>10. RoomOK'
  <2>1. c \notin room
    BY <1>1 DEF EngineInv, EnterOK
  <2>2. \A d \in room : cur'[d] = cur[d]
    BY <1>2, <2>1 DEF EngineInv, EnterOK
  <2> QED
    BY <2>2 DEF EngineInv, RoomOK, EnteredOf, PendingOf
<1> QED
  BY <1>4, <1>5, <1>6, <1>8, <1>9, <1>10 DEF EngineInv

LEMMA LockInv ==
  ASSUME TypeInv, IInv, EngineInv, NEW c \in Client, Lock(c)
  PROVE  EngineInv'
<1> USE EngineTypes DEF engineVars, runVars, enterVars, replayVars, indexVars, sessionVars, localVars
<1>1. /\ pc[c] = "found" /\ lock[cur[c]] = NoThread
      /\ lock' = [lock EXCEPT ![cur[c]] = c] /\ Goto(c, "locked")
      /\ UNCHANGED <<state, start, epoch, history, moves, left, room, hook, recorded, replays, made, scenario, cur, req,
                     pending>>
  BY DEF Lock, LockTouch
<1>2. pc' = [pc EXCEPT ![c] = "locked"] /\ cur[c] \in Session
  BY <1>1 DEF Goto, Busy
<1>3. LockOK'
  BY <1>1, <1>2, LockFrame DEF EngineInv, Inside
<1>4. hook[c] # NoHook => cur[c] = hook[c].s
  BY <1>1 DEF EngineInv, HookOK
<1>5. \A w \in Worker : req'[w] = NoRequest
  BY <1>1 DEF EngineInv, HookOK
<1>6. pc[c] \notin {"entering", "entered"} /\ pc'[c] = "locked"
      /\ \A d \in Client : d # c => pc'[d] = pc[d]
  BY <1>1, <1>2
<1>7. \A d \in Client :
        \/ pc'[d] = pc[d] /\ cur'[d] = cur[d]
        \/ /\ pc[d] \notin {"entering", "entered"} /\ pc'[d] # "callback"
           /\ hook[d] # NoHook =>
                pc'[d] \in {"found", "locked", "entered"} /\ cur'[d] = hook[d].s
  BY <1>1, <1>4, <1>6
<1> QED
  BY <1>1, <1>3, <1>5, <1>7, RestFrame DEF EngineInv

\* A callback that ends takes its delivery along.
LEMMA UnlockInv ==
  ASSUME TypeInv, IInv, EngineInv, NEW c \in Client, EngineUnlock(c)
  PROVE  EngineInv'
<1> USE EngineTypes, EngineFacts DEF runVars, enterVars, replayVars, indexVars, sessionVars, localVars
<1>1. /\ pc[c] \in {"entering", "locked", "entered"} /\ lock' = Unlocked(c) /\ left[c] = <<>>
      /\ hook' = [hook EXCEPT ![c] = NoHook]
      /\ UNCHANGED <<state, start, epoch, history, moves, left, room, recorded, replays, made, scenario, pending>>
  BY DEF EngineUnlock, Unlock
<1>2. \E p \in {"found", "idle"} : pc' = [pc EXCEPT ![c] = p]
  BY DEF EngineUnlock, Unlock, Leave, Goto
<1>3. cur' = cur \/ cur' = [cur EXCEPT ![c] = NoSession]
  BY DEF EngineUnlock, Unlock, Leave
<1>4. req' = req \/ req' = [req EXCEPT ![c] = NoRequest]
  BY DEF EngineUnlock, Unlock, Leave
<1>5. /\ \A d \in Client : d # c => pc'[d] = pc[d] /\ cur'[d] = cur[d]
      /\ pc'[c] \in {"found", "idle"}
  BY <1>2, <1>3
<1>6. LockOK'
  <2>1. pc[c] \in Inside /\ pc'[c] \notin Inside
    BY <1>1, <1>5 DEF Inside
  <2> QED
    BY <1>1, <1>5, <2>1, LockFrame DEF EngineInv
<1>7. RunOK'
  BY <1>1 DEF EngineInv, RunOK
<1>8. EnterOK'
  BY <1>1, <1>5 DEF EngineInv, EnterOK
<1>9. \A h : Remembers(h)' = Remembers(h)
  BY <1>1 DEF Remembers
<1>10. PendingOK'
  BY <1>1, <1>9 DEF EngineInv, PendingOK
<1>11. HookOK'
  BY <1>1, <1>4, <1>5, <1>9 DEF EngineInv, HookOK
<1>12. RoomOK'
  <2>1. c \notin room
    BY <1>1 DEF EngineInv, EnterOK
  <2>2. \A d \in room : cur'[d] = cur[d]
    BY <1>5, <2>1 DEF EngineInv, EnterOK
  <2> QED
    BY <1>1, <2>2 DEF EngineInv, RoomOK, EnteredOf, PendingOf
<1> QED
  BY <1>6, <1>7, <1>8, <1>10, <1>11, <1>12 DEF EngineInv

\* advance is on its way to the session of its delivery, or drops it.
LEMMA CallbackInv ==
  ASSUME TypeInv, IInv, EngineInv, NEW c \in Client, Callback(c)
  PROVE  EngineInv'
<1> USE EngineTypes, EngineFacts DEF runVars, enterVars, replayVars, indexVars, sessionVars, localVars
<1>1. /\ pc[c] = "callback" /\ hook[c] # NoHook /\ c \in Worker
      /\ UNCHANGED <<state, start, epoch, history, moves, left, room, recorded, replays, made, scenario, pending, lock, req>>
  BY DEF Callback, EngineInv, HookOK
<1>2. \/ /\ cur' = [cur EXCEPT ![c] = hook[c].s] /\ pc' = [pc EXCEPT ![c] = "found"]
         /\ hook' = hook
      \/ /\ pc' = [pc EXCEPT ![c] = "idle"] /\ hook' = [hook EXCEPT ![c] = NoHook]
         /\ cur' = cur
  BY DEF Callback, Goto
<1>3. CASE /\ cur' = [cur EXCEPT ![c] = hook[c].s] /\ pc' = [pc EXCEPT ![c] = "found"]
           /\ hook' = hook
  <2>1. /\ pc'[c] = "found" /\ cur'[c] = hook[c].s
        /\ \A d \in Client : d # c => pc'[d] = pc[d] /\ cur'[d] = cur[d]
    BY <1>3
  <2>2. LockOK'
    BY <1>1, <2>1, LockFrame DEF EngineInv, Inside
  <2>3. \A w \in Worker : req'[w] = NoRequest
    BY <1>1 DEF EngineInv, HookOK
  <2> QED
    BY <1>1, <1>3, <2>1, <2>2, <2>3, RestFrame DEF EngineInv
<1>4. CASE /\ pc' = [pc EXCEPT ![c] = "idle"] /\ hook' = [hook EXCEPT ![c] = NoHook]
           /\ cur' = cur
  <2>1. pc'[c] = "idle" /\ \A d \in Client : d # c => pc'[d] = pc[d]
    BY <1>4
  <2>2. LockOK'
    BY <1>1, <1>4, <2>1, LockFrame DEF EngineInv, Inside
  <2>3. RunOK' /\ EnterOK'
    BY <1>1, <2>1 DEF EngineInv, RunOK, EnterOK
  <2>4. \A h : Remembers(h)' = Remembers(h)
    BY <1>1 DEF Remembers
  <2>5. PendingOK' /\ RoomOK'
    BY <1>1, <1>4, <2>4 DEF EngineInv, PendingOK, RoomOK, EnteredOf, PendingOf
  <2>6. HookOK'
    BY <1>1, <1>4, <2>1, <2>4 DEF EngineInv, HookOK
  <2> QED
    BY <2>2, <2>3, <2>5, <2>6 DEF EngineInv
<1> QED
  BY <1>2, <1>3, <1>4

-----------------------------------------------------------------------------
(* Histories.                                                                 *)

LEMMA TrimmedType ==
  ASSUME NEW h \in Seq(HistoryEntry), NEW e \in HistoryEntry
  PROVE  Append(h, e) \in Seq(HistoryEntry) /\ Trimmed(Append(h, e)) \in Seq(HistoryEntry)
<1> DEFINE a == Append(h, e)
<1>1. a \in Seq(HistoryEntry) /\ Len(a) \in Nat
  BY AppendProperties
<1>2. \A i \in Len(a) - MaxHistory + 1 .. Len(a) : Len(a) > MaxHistory => a[i] \in HistoryEntry
  BY <1>1, EngineFacts
<1>3. Len(a) > MaxHistory => SubSeq(a, Len(a) - MaxHistory + 1, Len(a)) \in Seq(HistoryEntry)
  BY <1>1, <1>2, EngineFacts, SubSeqProperties
<1> QED
  BY <1>1, <1>3 DEF Trimmed

\* The first entry of a session is no transition.
LEMMA ExplainsCreated ==
  ASSUME NEW h \in Seq(HistoryEntry), NEW st, NEW e \in HistoryEntry,
         Explains(h, st), e.cause = "created"
  PROVE  Explains(Append(h, e), st)
<1> DEFINE a == Append(h, e)
<1>1. /\ Len(h) \in Nat /\ DOMAIN h = 1 .. Len(h) /\ DOMAIN a = 1 .. Len(h) + 1
      /\ \A i \in DOMAIN h : a[i] = h[i]
      /\ a[Len(h) + 1] = e
  BY AppendProperties
<1>2. \A i \in DOMAIN a : Transition(a, i) => i \in DOMAIN h /\ Transition(h, i)
  BY <1>1 DEF Transition
<1>3. \A i \in DOMAIN h : Transition(h, i) <=> Transition(a, i)
  BY <1>1 DEF Transition
<1> HIDE DEF a
<1> QED
  BY <1>1, <1>2, <1>3 DEF Explains, a

\* A transition starts in the state the last one ended in.
LEMMA ExplainsMove ==
  ASSUME NEW h \in Seq(HistoryEntry), NEW e \in HistoryEntry,
         Explains(h, e.from), e.cause # "created"
  PROVE  Explains(Append(h, e), e.to)
<1> DEFINE a == Append(h, e)
           n == Len(h)
<1>1. /\ n \in Nat /\ DOMAIN h = 1 .. n /\ DOMAIN a = 1 .. n + 1
      /\ \A i \in DOMAIN h : a[i] = h[i]
      /\ a[n + 1] = e
  BY AppendProperties
<1>2. Transition(a, n + 1)
  BY <1>1 DEF Transition
<1>3. \A i \in DOMAIN h : Transition(h, i) <=> Transition(a, i)
  BY <1>1 DEF Transition
<1> HIDE DEF a, n
<1> SUFFICES ASSUME NEW i \in DOMAIN a, Transition(a, i)
             PROVE  /\ \A j \in DOMAIN a :
                         /\ i < j /\ Transition(a, j)
                         /\ \A k \in DOMAIN a : i < k /\ k < j => ~Transition(a, k)
                         => a[i].to = a[j].from
                    /\ (\A k \in DOMAIN a : i < k => ~Transition(a, k)) => a[i].to = e.to
  BY DEF Explains, a
<1>4. CASE i = n + 1
  BY <1>1, <1>4
<1>5. CASE i \in DOMAIN h
  <2>1. ASSUME NEW j \in DOMAIN a, i < j, Transition(a, j),
               \A k \in DOMAIN a : i < k /\ k < j => ~Transition(a, k)
        PROVE  a[i].to = a[j].from
    <3>1. CASE j \in DOMAIN h
      BY <1>1, <1>3, <1>5, <2>1, <3>1 DEF Explains
    <3>2. CASE j = n + 1
      <4>1. \A k \in DOMAIN h : i < k => ~Transition(h, k)
        BY <1>1, <1>3, <2>1, <3>2
      <4>2. h[i].to = e.from
        BY <1>3, <1>5, <4>1 DEF Explains
      <4> QED
        BY <1>1, <1>5, <3>2, <4>2
    <3> QED
      BY <1>1, <3>1, <3>2
  <2>2. ~(\A k \in DOMAIN a : i < k => ~Transition(a, k))
    BY <1>1, <1>2, <1>5
  <2> QED
    BY <2>1, <2>2
<1> QED
  BY <1>1, <1>4, <1>5

\* Dropping the oldest entries does not hurt.
LEMMA ExplainsTrimmed ==
  ASSUME NEW h \in Seq(HistoryEntry), NEW st, Explains(h, st)
  PROVE  Explains(Trimmed(h), st)
<1>1. CASE Len(h) <= MaxHistory
  BY <1>1, EngineFacts DEF Trimmed
<1>2. CASE Len(h) > MaxHistory
  <2> DEFINE n == Len(h)
             m == n - MaxHistory
             g == SubSeq(h, m + 1, n)
  <2>1. n \in Nat /\ MaxHistory \in Nat /\ m \in Nat /\ m <= n /\ DOMAIN h = 1 .. n
    BY <1>2, EngineFacts
  <2>2. \A i \in m + 1 .. n : h[i] \in HistoryEntry
    BY <2>1
  <2>3. /\ g \in Seq(HistoryEntry)
        /\ Len(g) = n - m
        /\ \A i \in 1 .. n - m : g[i] = h[m + i]
    <3>1. /\ g \in Seq(HistoryEntry)
          /\ Len(g) = IF m + 1 <= n THEN n - (m + 1) + 1 ELSE 0
          /\ \A i \in 1 .. n - (m + 1) + 1 : g[i] = h[(m + 1) + i - 1]
      BY <2>1, <2>2, SubSeqProperties
    <3> HIDE DEF g
    <3> QED
      BY <2>1, <3>1
  <2>4. Trimmed(h) = g
    BY <1>2, EngineFacts DEF Trimmed
  <2> HIDE DEF n, m, g
  <2>5. DOMAIN g = 1 .. n - m
    BY <2>3
  <2>6. \A i \in DOMAIN g : m + i \in DOMAIN h /\ (Transition(g, i) <=> Transition(h, m + i))
    BY <2>1, <2>3, <2>5 DEF Transition
  <2>7. \A k \in DOMAIN h : k > m => k - m \in DOMAIN g /\ m + (k - m) = k
    BY <2>1, <2>5
  <2>8. ASSUME NEW i \in DOMAIN g, Transition(g, i)
        PROVE  /\ \A j \in DOMAIN g :
                    /\ i < j /\ Transition(g, j)
                    /\ \A k \in DOMAIN g : i < k /\ k < j => ~Transition(g, k)
                    => g[i].to = g[j].from
               /\ (\A k \in DOMAIN g : i < k => ~Transition(g, k)) => g[i].to = st
    <3>1. m + i \in DOMAIN h /\ Transition(h, m + i) /\ g[i] = h[m + i] /\ i \in Nat
      BY <2>3, <2>5, <2>6, <2>8
    <3>2. ASSUME NEW j \in DOMAIN g, i < j, Transition(g, j),
                 \A k \in DOMAIN g : i < k /\ k < j => ~Transition(g, k)
          PROVE  g[i].to = g[j].from
      <4>1. m + j \in DOMAIN h /\ Transition(h, m + j) /\ g[j] = h[m + j] /\ m + i < m + j
        BY <2>1, <2>3, <2>5, <2>6, <3>2
      <4>2. ASSUME NEW k \in DOMAIN h, m + i < k, k < m + j
            PROVE  ~Transition(h, k)
        <5>1. k - m \in DOMAIN g /\ m + (k - m) = k /\ i < k - m /\ k - m < j
          BY <2>1, <2>5, <2>7, <4>2
        <5> QED
          BY <2>6, <3>2, <5>1
      <4> QED
        BY <3>1, <4>1, <4>2 DEF Explains
    <3>3. ASSUME \A k \in DOMAIN g : i < k => ~Transition(g, k)
          PROVE  g[i].to = st
      <4>1. ASSUME NEW k \in DOMAIN h, m + i < k
            PROVE  ~Transition(h, k)
        <5>1. k - m \in DOMAIN g /\ m + (k - m) = k /\ i < k - m
          BY <2>1, <2>5, <2>7, <4>1
        <5> QED
          BY <2>6, <3>3, <5>1
      <4> QED
        BY <3>1, <4>1 DEF Explains
    <3> QED
      BY <3>2, <3>3
  <2> QED
    BY <2>4, <2>8 DEF Explains
<1> QED
  BY <1>1, <1>2, EngineFacts

-----------------------------------------------------------------------------
(* The steps that change a session's state.                                   *)

LEMMA EnterTypes ==
  /\ \A sc \in Scenario, st \in State : Enter[sc][st] \in Seq(State \cup {NoState})
  /\ <<>> \in Seq(State \cup {NoState})
BY EngineAssumption

\* Client c works on a session that has been made, and has it locked.
LEMMA AtWork ==
  ASSUME TypeInv, IInv, EngineInv, NEW c \in Client,
         pc[c] \in {"created", "found", "locked", "entering", "entered"}
  PROVE  /\ cur[c] \in Session /\ cur[c] <= made
         /\ scenario[cur[c]] \in Scenario /\ {state[cur[c]], start[cur[c]]} \subseteq State
         /\ pc[c] \in Inside => lock[cur[c]] = c
BY EngineTypes DEF Busy, EngineInv, RunOK, LockOK

LEMMA CreatedInv ==
  ASSUME TypeInv, IInv, EngineInv, NEW c \in Client, Created(c)
  PROVE  EngineInv'
<1> USE EngineTypes, EngineFacts DEF runVars, enterVars, replayVars, indexVars, sessionVars, localVars
<1> DEFINE o == cur[c]
           e == Entry(NoState, start[o], "created")
<1>1. /\ pc[c] = "created" /\ pc' = [pc EXCEPT ![c] = "entering"] /\ lock[o] = NoThread
      /\ lock' = [lock EXCEPT ![o] = c]
      /\ history' = [history EXCEPT ![o] = Trimmed(Append(history[o], e))]
      /\ left' = [left EXCEPT ![c] = Enter[scenario[o]][state[o]]]
      /\ UNCHANGED <<state, start, epoch, moves, room, recorded, replays, made, scenario, pending,
                     hook, cur, req>>
  BY DEF Created, LockNew, Goto, RecordLocked, RunEnter
<1>2. /\ o \in Session /\ o <= made /\ scenario[o] \in Scenario
      /\ state[o] \in State /\ start[o] \in State
  BY <1>1, AtWork
<1>3. pc'[c] = "entering" /\ \A d \in Client : d # c => pc'[d] = pc[d]
  BY <1>1
<1>4. LockOK'
  BY <1>1, <1>2, <1>3, LockFrame DEF EngineInv, Inside
<1>5. RunOK'
  <2>1. e \in HistoryEntry
    BY <1>2 DEF Entry, HistoryEntry
  <2>2. history[o] \in Seq(HistoryEntry)
    BY <1>2 DEF EngineInv, RunOK
  <2>3. Trimmed(Append(history[o], e)) \in Seq(HistoryEntry)
    BY <2>1, <2>2, TrimmedType
  <2> HIDE DEF e
  <2>4. history' \in [Session -> Seq(HistoryEntry)] /\ \A q \in Session : q > made => history'[q] = <<>>
    BY <1>1, <1>2, <2>3, StoreFacts DEF EngineInv, RunOK
  <2> QED
    BY <1>1, <2>4 DEF EngineInv, RunOK
<1>6. EnterOK'
  <2>1. c \notin room
    BY <1>1 DEF EngineInv, EnterOK
  <2> QED
    BY <1>1, <1>2, <1>3, <2>1, EnterTypes DEF EngineInv, EnterOK
<1>7. \A h : Remembers(h)' = Remembers(h)
  BY <1>1 DEF Remembers
<1>8. PendingOK' /\ RoomOK'
  BY <1>1, <1>7 DEF EngineInv, PendingOK, RoomOK, EnteredOf, PendingOf
<1>9. HookOK'
  BY <1>1, <1>3, <1>7 DEF EngineInv, HookOK
<1> QED
  BY <1>4, <1>5, <1>6, <1>8, <1>9 DEF EngineInv

\* Every delivery of the session belongs to an earlier entry from here on.
LEMMA EnterStateInv ==
  ASSUME TypeInv, IInv, EngineInv, NEW c \in Client, NEW to \in State,
         NEW cause \in {"request", "webhook", "admin"}, EnterState(c, to, cause)
  PROVE  EngineInv'
<1> USE EngineTypes, EngineFacts DEF runVars, enterVars, replayVars, indexVars, sessionVars, localVars
<1> DEFINE o == cur[c]
           e == Entry(state[o], to, cause)
<1>1. /\ pc[c] = "locked" /\ pc' = [pc EXCEPT ![c] = "entered"]
      /\ moves' = IF cause = "webhook" THEN moves ELSE moves + 1
      /\ history' = [history EXCEPT ![o] = Trimmed(Append(history[o], e))]
      /\ state' = [state EXCEPT ![o] = to]
      /\ epoch' = [epoch EXCEPT ![o] = epoch[o] + 1]
      /\ left' = [left EXCEPT ![c] = Enter[scenario[o]][to]]
      /\ UNCHANGED <<room, start, recorded, replays, made, scenario, pending, hook, cur, req, lock>>
  BY DEF EnterState, Goto, RecordLocked, RunEnter
<1>2. o \in Session /\ o <= made /\ scenario[o] \in Scenario /\ state[o] \in State
  BY <1>1, AtWork
<1>3. pc'[c] = "entered" /\ \A d \in Client : d # c => pc'[d] = pc[d]
  BY <1>1
<1>4. LockOK'
  BY <1>1, <1>2, <1>3, LockFrame DEF EngineInv, Inside
<1>5. epoch \in [Session -> Nat] /\ epoch' \in [Session -> Nat]
  <2>1. epoch \in [Session -> Nat] /\ epoch[o] + 1 \in Nat
    BY <1>2 DEF EngineInv, RunOK
  <2> QED
    BY <1>1, <2>1
<1>6. RunOK'
  <2>1. e \in HistoryEntry
    BY <1>2 DEF Entry, HistoryEntry
  <2>2. history[o] \in Seq(HistoryEntry)
    BY <1>2 DEF EngineInv, RunOK
  <2>3. Trimmed(Append(history[o], e)) \in Seq(HistoryEntry)
    BY <2>1, <2>2, TrimmedType
  <2> HIDE DEF e
  <2>4. history' \in [Session -> Seq(HistoryEntry)] /\ \A q \in Session : q > made => history'[q] = <<>>
    BY <1>1, <1>2, <2>3, StoreFacts DEF EngineInv, RunOK
  <2>5. /\ state' \in [Session -> State \cup {NoState}] /\ moves' \in Nat
        /\ \A q \in Session : q <= made => state'[q] \in State
    BY <1>1, <1>2 DEF EngineInv, RunOK
  <2> QED
    BY <1>1, <1>5, <2>4, <2>5 DEF EngineInv, RunOK
<1>7. EnterOK'
  <2>1. c \notin room
    BY <1>1 DEF EngineInv, EnterOK
  <2> QED
    BY <1>1, <1>2, <1>3, <2>1, EnterTypes DEF EngineInv, EnterOK
<1>8. \A h \in Hook : Remembers(h) => Remembers(h)'
  <2> TAKE h \in Hook
  <2> HAVE Remembers(h)
  <2>1. h.s \in Session /\ h.epoch \in Nat /\ h.epoch <= epoch[h.s] /\ epoch[h.s] \in Nat
    BY <1>5 DEF Hook, Remembers
  <2>2. CASE h.s = o
    <3>1. epoch'[h.s] = epoch[h.s] + 1 /\ h.s <= made
      BY <1>1, <1>2, <1>5, <2>2
    <3>2. h.epoch <= epoch'[h.s] /\ h.epoch # epoch'[h.s]
      BY <2>1, <3>1
    <3> QED
      BY <1>1, <3>1, <3>2 DEF Remembers
  <2>3. CASE h.s # o
    <3>1. epoch'[h.s] = epoch[h.s] /\ state'[h.s] = state[h.s]
      BY <1>1, <1>5, <2>1, <2>3 DEF EngineInv, RunOK
    <3> QED
      BY <1>1, <3>1 DEF Remembers
  <2> QED
    BY <2>2, <2>3
<1>9. PendingOK' /\ RoomOK'
  BY <1>1, <1>8 DEF EngineInv, PendingOK, RoomOK, EnteredOf, PendingOf
<1>10. HookOK'
  BY <1>1, <1>3, <1>8 DEF EngineInv, HookOK
<1> QED
  BY <1>4, <1>6, <1>7, <1>9, <1>10 DEF EngineInv

-----------------------------------------------------------------------------
(* The steps that schedule and attempt deliveries.                            *)

LEMMA FreshIdType ==
  ASSUME PendingOK
  PROVE  FreshId \in Nat \ {0}
<1> DEFINE K == Cardinality(pending) + 1
<1>1. IsFiniteSet(pending) /\ Cardinality(pending) \in Nat
  BY FS_CardinalityType DEF PendingOK
<1>2. \E n \in 1 .. K : \A d \in pending : d.n # n
  <2> SUFFICES ASSUME \A n \in 1 .. K : \E d \in pending : d.n = n
               PROVE  FALSE
    OBVIOUS
  <2> DEFINE f == [n \in 1 .. K |-> CHOOSE d \in pending : d.n = n]
  <2>1. \A n \in 1 .. K : f[n] \in pending /\ f[n].n = n
    OBVIOUS
  <2>2. f \in Injection(1 .. K, pending)
    <3> HIDE DEF K
    <3>1. f \in [1 .. K -> pending]
      BY <2>1
    <3> HIDE DEF f
    <3> QED
      BY <2>1, <3>1 DEF Injection, IsInjective
  <2>3. Cardinality(1 .. K) <= Cardinality(pending)
    BY <1>1, <2>2, FS_Injection
  <2>4. Cardinality(1 .. K) = K
    BY <1>1, FS_Interval
  <2> QED
    BY <1>1, <2>3, <2>4
<1> QED
  BY <1>1, <1>2 DEF FreshId

\* Between the look at the limit and Schedule, the session's lock keeps everyone
\* else out.
LEMMA ScheduleInv ==
  ASSUME TypeInv, IInv, EngineInv, NEW c \in Client,
         PassLimit(c) \/ SkipAction(c) \/ ScheduleAction(c)
  PROVE  EngineInv'
<1> USE EngineTypes, EngineFacts DEF runVars, enterVars, replayVars, indexVars, sessionVars, localVars, storeVars
<1> DEFINE o == cur[c]
<1>1. /\ pc[c] \in {"entering", "entered"} /\ left[c] # <<>>
      /\ UNCHANGED <<state, start, epoch, history, moves, hook, replays, made, scenario, pc, lock,
                     cur, req>>
      /\ recorded' \in {recorded, recorded \cup {o}}
  BY DEF PassLimit, SkipAction, ScheduleAction, Entering
<1>2. o \in Session /\ o <= made /\ state[o] \in State
  BY <1>1, AtWork
<1>3. LockOK' /\ RunOK'
  <2>1. /\ recorded' \in SUBSET Session /\ \A p \in recorded' : p <= made
    BY <1>1, <1>2 DEF EngineInv, RunOK
  <2> QED
    BY <1>1, <2>1 DEF EngineInv, LockOK, RunOK
<1>4. \A h : Remembers(h)' = Remembers(h)
  BY <1>1 DEF Remembers
<1>5. HookOK'
  BY <1>1, <1>4 DEF EngineInv, HookOK
<1>6. left[c] \in Seq(State \cup {NoState}) /\ left \in [Client -> Seq(State \cup {NoState})]
  BY DEF EngineInv, EnterOK
<1>7. Head(left[c]) \in State \cup {NoState} /\ Tail(left[c]) \in Seq(State \cup {NoState})
  BY <1>1, <1>6, HeadTailProperties
<1>8. CASE PassLimit(c)
  <2>1. room' = room \cup {c} /\ UNCHANGED <<pending, left, recorded>> /\ HasRoom(o)
    BY <1>8 DEF PassLimit
  <2>2. EnterOK' /\ PendingOK'
    BY <1>1, <1>4, <2>1 DEF EngineInv, EnterOK, PendingOK
  <2>3. \A p : EnteredOf(p)' = EnteredOf(p)
    BY <2>1 DEF EnteredOf, PendingOf
  <2>4. MaxPending > 0 => Cardinality(EnteredOf(o)) < MaxPending
    BY <2>1, PendingFinite DEF EngineInv, HasRoom
  <2>5. RoomOK'
    BY <1>1, <2>1, <2>3, <2>4 DEF EngineInv, RoomOK
  <2> QED
    BY <1>3, <1>5, <2>1, <2>2, <2>5 DEF EngineInv
<1>9. CASE SkipAction(c)
  <2>1. /\ c \notin room /\ left' = [left EXCEPT ![c] = Tail(left[c])]
        /\ UNCHANGED <<pending, room, recorded>>
    BY <1>9 DEF SkipAction
  <2>2. EnterOK'
    BY <1>1, <1>6, <1>7, <2>1 DEF EngineInv, EnterOK
  <2>3. PendingOK' /\ RoomOK'
    BY <1>1, <1>4, <2>1 DEF EngineInv, PendingOK, RoomOK, EnteredOf, PendingOf
  <2> QED
    BY <1>3, <1>5, <2>2, <2>3 DEF EngineInv
<1>10. CASE ScheduleAction(c)
  <2> DEFINE x == NewHook(FreshId, o, Head(left[c]))
  <2>1. /\ c \in room /\ left' = [left EXCEPT ![c] = Tail(left[c])] /\ room' = room \ {c}
        /\ pending' = pending \cup {x}
    BY <1>10 DEF ScheduleAction
  <2>2. EnterOK'
    BY <1>1, <1>6, <1>7, <2>1 DEF EngineInv, EnterOK
  <2>3. x \in Hook /\ x.s = o /\ x.from # NoState /\ Remembers(x)
    <3>1. FreshId \in Nat \ {0}
      BY FreshIdType DEF EngineInv
    <3>2. epoch[o] \in Nat
      BY <1>2 DEF EngineInv, RunOK
    <3>3. x \in Hook
      BY <1>2, <1>7, <3>1, <3>2 DEF NewHook, Hook
    <3> QED
      BY <1>2, <3>2, <3>3, EngineFacts DEF NewHook, Remembers
  <2> HIDE DEF x
  <2>4. PendingOK'
    <3>1. IsFiniteSet(pending')
      BY <2>1, FS_AddElement DEF EngineInv, PendingOK
    <3> QED
      BY <1>4, <2>1, <2>3, <3>1 DEF EngineInv, PendingOK
  <2>5. ASSUME MaxPending > 0
        PROVE  /\ \A p \in Session : Cardinality(Entered(pending', p)) <= MaxPending
               /\ \A d \in room' : Cardinality(Entered(pending', cur[d])) < MaxPending
    <3>1. \A p \in Session : p # o => Entered(pending', p) = EnteredOf(p)
      BY <2>1, <2>3 DEF PendingOf, EnteredOf, Entered
    <3>2. Entered(pending', o) = EnteredOf(o) \cup {x}
      BY <2>1, <2>3 DEF PendingOf, EnteredOf, Entered
    <3>3. IsFiniteSet(EnteredOf(o)) /\ Cardinality(EnteredOf(o)) \in Nat
      BY PendingFinite DEF EngineInv
    <3>4. Cardinality(EnteredOf(o) \cup {x}) \in {Cardinality(EnteredOf(o)), Cardinality(EnteredOf(o)) + 1}
      BY <3>3, FS_AddElement
    <3>5. Cardinality(EnteredOf(o)) < MaxPending
      BY <2>1, <2>5 DEF EngineInv, RoomOK
    <3>6. Cardinality(EnteredOf(o) \cup {x}) <= MaxPending
      BY <3>3, <3>4, <3>5
    <3>7. ASSUME NEW d \in room' PROVE cur[d] \in Session /\ cur[d] # o
      <4>1. d \in Client /\ d # c /\ pc[d] \in {"entering", "entered"}
        BY <2>1, <3>7 DEF EngineInv, EnterOK
      <4>2. cur[d] \in Session /\ lock[cur[d]] = d /\ lock[o] = c
        BY <1>1, <4>1, AtWork DEF Inside
      <4> QED
        BY <4>1, <4>2
    <3>8. \A d \in room' : d \in room
      BY <2>1
    <3> QED
      BY <2>5, <3>1, <3>2, <3>6, <3>7, <3>8 DEF EngineInv, RoomOK
  <2>6. \A p : EnteredOf(p)' = Entered(pending', p)
    BY DEF EnteredOf, PendingOf, Entered
  <2>7. RoomOK'
    BY <1>1, <2>5, <2>6 DEF RoomOK
  <2> QED
    BY <1>3, <1>5, <2>2, <2>4, <2>7 DEF EngineInv
<1> QED
  BY <1>8, <1>9, <1>10

\* A replay takes no room from those who passed the check.
LEMMA ReplayInv ==
  ASSUME TypeInv, IInv, EngineInv, NEW o \in Session, Replay(o)
  PROVE  EngineInv'
<1> USE EngineTypes, EngineFacts
        DEF runVars, enterVars, indexVars, sessionVars, localVars, storeVars
<1> DEFINE x == NewReplay(FreshId, o)
<1>1. /\ o \in recorded /\ pending' = pending \cup {x} /\ replays' = replays + 1
      /\ UNCHANGED <<state, start, epoch, history, moves, left, room, hook, recorded, made,
                     scenario, pc, lock, cur, req>>
  BY DEF Replay
<1>2. /\ x \in Hook /\ x.from = NoState /\ Remembers(x)
  <2>1. FreshId \in Nat \ {0}
    BY FreshIdType DEF EngineInv
  <2>2. x \in Hook
    BY <2>1 DEF NewReplay, Hook
  <2>3. o <= made /\ epoch[o] \in Nat
    BY <1>1 DEF EngineInv, RunOK
  <2> QED
    BY <2>2, <2>3 DEF NewReplay, Remembers
<1> HIDE DEF x
<1>3. LockOK' /\ RunOK' /\ EnterOK'
  BY <1>1 DEF EngineInv, LockOK, RunOK, EnterOK
<1>4. \A h : Remembers(h)' = Remembers(h)
  BY <1>1 DEF Remembers
<1>5. PendingOK'
  <2>1. IsFiniteSet(pending')
    BY <1>1, FS_AddElement DEF EngineInv, PendingOK
  <2> QED
    BY <1>1, <1>2, <1>4, <2>1 DEF EngineInv, PendingOK
<1>6. HookOK'
  BY <1>1, <1>4 DEF EngineInv, HookOK
<1>7. RoomOK'
  <2>1. \A p : EnteredOf(p)' = EnteredOf(p)
    BY <1>1, <1>2 DEF EnteredOf, PendingOf
  <2> QED
    BY <1>1, <2>1 DEF EngineInv, RoomOK
<1> QED
  BY <1>3, <1>5, <1>6, <1>7 DEF EngineInv

\* A delivery that is to be retried stays, with its first attempt behind it.
LEMMA FirstAttemptInv ==
  ASSUME TypeInv, IInv, EngineInv, NEW w \in Worker, NEW d \in pending, FirstAttempt(w, d)
  PROVE  EngineInv'
<1> USE EngineTypes, EngineFacts DEF runVars, enterVars, replayVars, indexVars, sessionVars, localVars
<1> DEFINE r == [d EXCEPT !.first = FALSE]
<1>1. /\ pc[w] = "idle" /\ d \in Hook /\ Remembers(d)
      /\ pending' = pending \ {d} \/ pending' = (pending \ {d}) \cup {r}
      /\ \/ /\ d.goto # NoState /\ hook' = [hook EXCEPT ![w] = d]
            /\ pc' = [pc EXCEPT ![w] = "callback"]
         \/ UNCHANGED <<hook, pc>>
      /\ UNCHANGED <<state, start, epoch, history, moves, left, room, recorded, replays, made, scenario, cur, req, lock>>
  BY DEF FirstAttempt, Calls, Goto, EngineInv, PendingOK
<1>2. r \in Hook /\ r.s = d.s /\ r.epoch = d.epoch /\ r.from = d.from /\ r.goto = d.goto
  BY <1>1 DEF Hook
<1>3. \A h : Remembers(h)' = Remembers(h)
  BY <1>1 DEF Remembers
<1>4. Remembers(r)
  BY <1>1, <1>2 DEF Remembers
<1> HIDE DEF r
<1>5. w \in Client /\ \A c \in Client : c # w => pc'[c] = pc[c] /\ hook'[c] = hook[c]
  BY <1>1 DEF EngineInv, HookOK
<1>6. LockOK'
  <2>1. pc[w] \notin Inside /\ pc'[w] \notin Inside
    BY <1>1 DEF Inside
  <2> QED
    BY <1>1, <1>5, <2>1, LockFrame DEF EngineInv
<1>7. RunOK'
  BY <1>1 DEF EngineInv, RunOK
<1>8. EnterOK'
  <2>1. left[w] = <<>>
    BY <1>1 DEF EngineInv, EnterOK
  <2> QED
    BY <1>1, <1>5, <2>1 DEF EngineInv, EnterOK
<1>9. PendingOK'
  <2>1. IsFiniteSet(pending)
    BY DEF EngineInv, PendingOK
  <2>2. IsFiniteSet(pending \ {d})
    BY <2>1, FS_RemoveElement
  <2>3. IsFiniteSet((pending \ {d}) \cup {r})
    BY <2>2, FS_AddElement
  <2>4. IsFiniteSet(pending')
    BY <1>1, <2>2, <2>3
  <2> QED
    BY <1>1, <1>2, <1>3, <1>4, <2>4 DEF EngineInv, PendingOK
<1>10. HookOK'
  <2>1. hook[w] = NoHook
    BY <1>1 DEF EngineInv, HookOK
  <2>2. CASE UNCHANGED <<hook, pc>>
    BY <1>1, <1>3, <2>2 DEF EngineInv, HookOK
  <2>3. CASE /\ d.goto # NoState /\ hook' = [hook EXCEPT ![w] = d]
             /\ pc' = [pc EXCEPT ![w] = "callback"]
    <3>1. d # NoHook
      BY <1>1 DEF Hook, NoHook
    <3>2. d.goto \in State
      BY <1>1, <2>3 DEF Hook
    <3>3. hook' \in [Client -> Hook \cup {NoHook}] /\ hook'[w] = d /\ pc'[w] = "callback"
      BY <1>1, <1>5, <2>3 DEF EngineInv, HookOK
    <3> QED
      BY <1>1, <1>3, <1>5, <3>1, <3>2, <3>3 DEF EngineInv, HookOK
  <2> QED
    BY <1>1, <2>2, <2>3
<1>11. RoomOK'
  <2>1. ASSUME NEW o
        PROVE  Cardinality(Entered(pending', o)) <= Cardinality(EnteredOf(o))
    <3> DEFINE P == EnteredOf(o)
               Q == Entered(pending', o)
    <3>1. IsFiniteSet(P) /\ Cardinality(P) \in Nat
      BY PendingFinite DEF EngineInv
    <3>2. CASE d.s # o \/ d.from = NoState
      <4>1. Q \subseteq P
        BY <1>1, <1>2, <3>2 DEF PendingOf, EnteredOf, Entered
      <4> QED
        BY <3>1, <4>1, FS_Subset
    <3>3. CASE d.s = o /\ d.from # NoState
      <4>1. d \in P /\ (Q = P \ {d} \/ Q = (P \ {d}) \cup {r})
        BY <1>1, <1>2, <3>3 DEF PendingOf, EnteredOf, Entered
      <4> HIDE DEF P, Q
      <4>2. IsFiniteSet(P \ {d}) /\ Cardinality(P \ {d}) = Cardinality(P) - 1
        BY <3>1, <4>1, FS_RemoveElement
      <4>3. \/ Cardinality((P \ {d}) \cup {r}) = Cardinality(P \ {d})
            \/ Cardinality((P \ {d}) \cup {r}) = Cardinality(P \ {d}) + 1
        BY <4>2, FS_AddElement
      <4>4. Cardinality(Q) \in {Cardinality(P \ {d}), Cardinality(P \ {d}) + 1}
        <5>1. CASE Q = P \ {d}
          BY <5>1
        <5>2. CASE Q = (P \ {d}) \cup {r}
          BY <4>3, <5>2
        <5> QED
          BY <4>1, <5>1, <5>2
      <4>5. Cardinality(Q) <= Cardinality(P)
        BY <3>1, <4>2, <4>4
      <4> QED
        BY <4>5 DEF P, Q
    <3> QED
      BY <3>2, <3>3
  <2>2. /\ PendingOK /\ RoomOK /\ room' \subseteq room /\ \A c \in room : cur'[c] = cur[c]
    BY <1>1 DEF EngineInv
  <2> QED
    BY <1>9, <2>1, <2>2, RoomFrame
<1> QED
  BY <1>6, <1>7, <1>8, <1>9, <1>10, <1>11 DEF EngineInv

-----------------------------------------------------------------------------
(* The invariant, and what follows from it.                                   *)

LEMMA EngineInitInv == EngineInit => TypeInv /\ IInv /\ EngineInv
<1> SUFFICES ASSUME EngineInit PROVE EngineInv
  BY TypeInit, IInit DEF EngineInit
<1> USE EngineFacts, StoreFacts, EnterTypes DEF EngineInit, StoreInit
<1>1. LockOK /\ EnterOK
  BY DEF LockOK, EnterOK, Inside
<1>2. RunOK
  <2>1. \A o \in Session : ~(o <= made)
    BY DEF Session
  <2> QED
    BY <2>1 DEF RunOK
<1>3. IsFiniteSet({}) /\ Cardinality({}) = 0
  BY FS_EmptySet
<1>4. PendingOK
  BY <1>3 DEF PendingOK
<1>5. HookOK
  BY DEF HookOK
<1>6. RoomOK
  <2>1. \A o : EnteredOf(o) = {}
    BY DEF PendingOf, EnteredOf
  <2>2. \A o : Cardinality(EnteredOf(o)) = 0
    BY <1>3, <2>1
  <2>3. room = {} /\ (MaxPending > 0 => 0 <= MaxPending)
    OBVIOUS
  <2> QED
    BY <2>2, <2>3 DEF RoomOK
<1> QED
  BY <1>1, <1>2, <1>4, <1>5, <1>6 DEF EngineInv

LEMMA StutterEngine ==
  ASSUME EngineInv, UNCHANGED vars
  PROVE  EngineInv'
<1> USE DEF vars, storeVars, engineVars, runVars, enterVars, replayVars, indexVars, sessionVars, localVars, EngineInv
<1>1. LockOK' /\ RunOK' /\ EnterOK'
  BY DEF LockOK, RunOK, EnterOK
<1>2. \A h : Remembers(h)' = Remembers(h)
  BY DEF Remembers
<1>3. PendingOK' /\ HookOK' /\ RoomOK'
  BY <1>2 DEF PendingOK, HookOK, RoomOK, EnteredOf, PendingOf
<1> QED
  BY <1>1, <1>3

LEMMA EngineNextInv ==
  ASSUME TypeInv, IInv, EngineInv, [Next]_vars
  PROVE  EngineInv'
<1>1. CASE Begin
  BY <1>1, BeginQuiet, InsertInv DEF Begin
<1>2. ASSUME NEW c \in Client, ClientStep(c) PROVE EngineInv'
  BY <1>2, StoreGoesOnQuiet, CreatedInv, LockInv, EnterStateInv, ScheduleInv, UnlockInv,
     CallbackInv DEF ClientStep
<1>3. CASE SweeperStep
  BY <1>3, SweeperQuiet
<1>4. CASE Attempts
  BY <1>4, SweeperQuiet, FirstAttemptInv DEF Attempts
<1>5. CASE \E o \in Session : Replay(o)
  BY <1>5, ReplayInv
<1>6. CASE UNCHANGED vars
  BY <1>6, StutterEngine
<1> QED
  BY <1>1, <1>2, <1>3, <1>4, <1>5, <1>6 DEF Next

\* The inductive invariant of the engine: that of the store, whose indices the
\* engine's steps leave consistent, and who holds which lock, what enter actions,
\* deliveries and callbacks know of their session, and who has room for another
\* delivery (engine.go:134-470).
THEOREM EngineInvariant == Spec => [](TypeInv /\ IInv /\ EngineInv)
<1>1. TypeInv /\ IInv /\ EngineInv /\ [Next]_vars => (TypeInv /\ IInv /\ EngineInv)'
  BY StoreNextInv, EngineNextInv
<1> QED
  BY <1>1, EngineInitInv, PTL DEF Spec

\* The store's indices agree and its length is exact also where the engine calls it
\* between steps of its own: lookups, locked sections, callbacks and the sweeper
\* (createSession and DeleteSession, engine.go:152 and 420; store.go).
THEOREM EngineKeepsIndices == Spec => [](IndexesAgree /\ LengthExact)
<1>1. IInv => IndexesAgree /\ LengthExact
  BY DEF IInv
<1> QED
  BY <1>1, EngineInvariant, PTL

\* Every variable of the engine has its type, and a client holds the lock of the
\* session it works on exactly while it handles a request, an administrative call
\* or a callback in it.
THEOREM EngineTypeCorrect == Spec => []TypeOK
<1>1. TypeInv /\ IInv /\ EngineInv => TypeOK
  <2> SUFFICES ASSUME TypeInv, IInv, EngineInv PROVE TypeOK
    OBVIOUS
  <2>1. /\ DataTypeOK
        /\ pc \in [Thread -> ClientPlace \cup SweeperPlace \cup {"entered", "callback"}]
    BY DEF TypeInv, WideTypeOK, OuterPlace
  <2>2. \A o \in Session : \A i \in DOMAIN history[o] : history[o][i] \in HistoryEntry
    BY DEF EngineInv, RunOK
  <2> QED
    BY <2>1, <2>2 DEF TypeOK, EngineInv, LockOK, Inside, RunOK, EnterOK, PendingOK, HookOK
<1> QED
  BY <1>1, EngineInvariant, PTL

\* However many requests, administrative calls and callbacks run enter actions, and
\* whatever is replayed meanwhile, the webhooks that a session's enter actions have
\* pending never are more than the limit (runEnterLocked, engine.go:264; replays
\* may come on top, admin.go:539).
THEOREM PendingBoundedHolds == Spec => []PendingBounded
<1>1. EngineInv => PendingBounded
  BY DEF EngineInv, RoomOK, PendingBounded
<1> QED
  BY <1>1, EngineInvariant, PTL

\* A webhook moves a session only out of the entry into a state that scheduled it
\* (advance, engine.go:419; docs/dsl.md:184).
THEOREM StaleGotoDroppedHolds == Spec => StaleGotoDropped
<1>1. ASSUME TypeInv, IInv, EngineInv, [Next]_vars, NEW o \in Session, epoch'[o] # epoch[o],
             hook[lock[o]] # NoHook
      PROVE  hook[lock[o]].from = state[o] /\ hook[lock[o]].epoch = epoch[o]
  <2>1. PICK c \in Client, to \in State, cause \in {"request", "webhook", "admin"} :
          EnterState(c, to, cause)
    BY <1>1 DEF Next, Begin, ClientStep, StoreGoesOn, Created, Lock, PassLimit, SkipAction,
       ScheduleAction, EngineUnlock, Callback, CancelSession, SweeperStep, CancelSwept, Attempts,
       LastAttempt, FirstAttempt, Replay, vars, engineVars, runVars
  <2>2. /\ pc[c] = "locked" /\ Moves(c, to, cause)
        /\ epoch' = [epoch EXCEPT ![cur[c]] = epoch[cur[c]] + 1]
    BY <2>1 DEF EnterState
  <2>3. cur[c] = o /\ lock[o] = c
    BY <1>1, <2>2, AtWork DEF EngineInv, RunOK, Inside
  <2>4. /\ req[c] = NoRequest /\ hook[c].s = o /\ Remembers(hook[c]) /\ hook[c].goto \in State
    BY <1>1, <2>2, <2>3 DEF EngineInv, HookOK
  <2>5. epoch[o] = hook[c].epoch
    BY <1>1, <2>2, <2>3, <2>4 DEF Moves, Current
  <2> QED
    BY <2>3, <2>4, <2>5, EngineFacts DEF Remembers
<1>2. TypeInv /\ IInv /\ EngineInv /\ [Next]_vars =>
        [\A o \in Session :
           epoch'[o] # epoch[o] /\ hook[lock[o]] # NoHook
             => /\ hook[lock[o]].from = state[o]
                /\ hook[lock[o]].epoch = epoch[o]]_vars
  BY <1>1
<1> QED
  BY <1>2, EngineInvariant, PTL DEF StaleGotoDropped, Spec

\* A history is left alone while its session stays in its state.
LEMMA ExplainsStep ==
  ASSUME TypeInv, IInv, EngineInv, [Next]_vars, HistoryExplainsState
  PROVE  HistoryExplainsState'
<1> USE EngineTypes
<1>1. history \in [Session -> Seq(HistoryEntry)] /\ state \in [Session -> State \cup {NoState}]
      /\ \A o \in Session : o > made => history[o] = <<>>
  BY DEF EngineInv, RunOK
<1>2. CASE UNCHANGED <<history, state>>
  BY <1>2 DEF HistoryExplainsState, Explains, Transition
<1>3. ASSUME NEW c \in Caller, NEW sc \in Scenario, NEW k \in Key, NEW st \in State,
             InsertKey(c, sc, k), state' = [state EXCEPT ![made'] = st], history' = history
      PROVE  HistoryExplainsState'
  <2>1. made' = made + 1 /\ made' \in Session
    BY <1>3 DEF InsertKey
  <2>2. history[made'] = <<>>
    BY <1>1, <2>1, StoreFacts
  <2>3. \A x : Explains(<<>>, x)
    BY DEF Explains
  <2>4. \A o \in Session : o # made' => state'[o] = state[o]
    BY <1>1, <1>3, <2>1
  <2>5. \A o \in Session : Explains(history[o], state'[o])
    BY <2>2, <2>3, <2>4 DEF HistoryExplainsState
  <2> QED
    BY <1>3, <2>5 DEF HistoryExplainsState
<1>4. ASSUME NEW c \in Client, NEW e \in HistoryEntry, NEW st,
             history' = [history EXCEPT ![cur[c]] = Trimmed(Append(history[cur[c]], e))],
             state' = [state EXCEPT ![cur[c]] = st],
             cur[c] \in Session,
             \/ e.cause = "created" /\ st = state[cur[c]]
             \/ e.cause # "created" /\ e.from = state[cur[c]] /\ e.to = st
      PROVE  HistoryExplainsState'
  <2> DEFINE o == cur[c]
  <2>1. Explains(history[o], state[o]) /\ history[o] \in Seq(HistoryEntry)
    BY <1>1, <1>4 DEF HistoryExplainsState
  <2>2. Explains(Append(history[o], e), st)
    <3>1. CASE e.cause = "created" /\ st = state[o]
      BY <2>1, <3>1, ExplainsCreated
    <3>2. CASE e.cause # "created" /\ e.from = state[o] /\ e.to = st
      BY <2>1, <3>2, ExplainsMove
    <3> QED
      BY <1>4, <3>1, <3>2
  <2>3. Explains(Trimmed(Append(history[o], e)), st)
    BY <2>1, <2>2, TrimmedType, ExplainsTrimmed
  <2>4. /\ history'[o] = Trimmed(Append(history[o], e)) /\ state'[o] = st
        /\ \A p \in Session : p # o => history'[p] = history[p] /\ state'[p] = state[p]
    BY <1>1, <1>4
  <2>5. \A p \in Session : Explains(history'[p], state'[p])
    BY <2>3, <2>4 DEF HistoryExplainsState
  <2> QED
    BY <2>5 DEF HistoryExplainsState
<1>5. ASSUME NEW c \in Client, Created(c) PROVE HistoryExplainsState'
  <2>1. cur[c] \in Session /\ state[cur[c]] \in State /\ start[cur[c]] \in State
    BY <1>5, AtWork DEF Created, LockNew
  <2>2. /\ history' = [history EXCEPT ![cur[c]] =
                          Trimmed(Append(history[cur[c]], Entry(NoState, start[cur[c]], "created")))]
        /\ state' = [state EXCEPT ![cur[c]] = state[cur[c]]]
    BY <1>1, <1>5, <2>1 DEF Created, RecordLocked
  <2>3. Entry(NoState, start[cur[c]], "created") \in HistoryEntry
        /\ Entry(NoState, start[cur[c]], "created").cause = "created"
    BY <2>1 DEF Entry, HistoryEntry
  <2> QED
    BY <1>4, <2>1, <2>2, <2>3
<1>6. ASSUME NEW c \in Client, NEW to \in State, NEW cause \in {"request", "webhook", "admin"},
             EnterState(c, to, cause)
      PROVE  HistoryExplainsState'
  <2>1. cur[c] \in Session /\ state[cur[c]] \in State
    BY <1>6, AtWork DEF EnterState
  <2> DEFINE e == Entry(state[cur[c]], to, cause)
  <2>2. /\ history' = [history EXCEPT ![cur[c]] = Trimmed(Append(history[cur[c]], e))]
        /\ state' = [state EXCEPT ![cur[c]] = to]
    BY <1>6 DEF EnterState, RecordLocked
  <2>3. e \in HistoryEntry /\ e.cause # "created" /\ e.from = state[cur[c]] /\ e.to = to
    BY <2>1 DEF Entry, HistoryEntry
  <2> HIDE DEF e
  <2> QED
    BY <1>4, <2>1, <2>2, <2>3
<1> QED
  BY <1>2, <1>3, <1>5, <1>6
     DEF Next, Begin, ClientStep, StoreGoesOn, Lock, PassLimit, SkipAction, ScheduleAction,
         EngineUnlock, Callback, CancelSession, SweeperStep, CancelSwept, Attempts, LastAttempt,
         FirstAttempt, Replay, vars, engineVars, runVars

\* The transitions a session remembers lead, one after the other, to the state it
\* is in, also when older ones were dropped (recordLocked, engine.go:448).
THEOREM HistoryExplainsHolds == Spec => []HistoryExplainsState
<1>1. EngineInit => HistoryExplainsState
  BY DEF EngineInit, HistoryExplainsState, Explains
<1>2. TypeInv /\ IInv /\ EngineInv /\ [Next]_vars /\ HistoryExplainsState => HistoryExplainsState'
  BY ExplainsStep
<1> QED
  BY <1>1, <1>2, EngineInvariant, PTL DEF Spec
=============================================================================
