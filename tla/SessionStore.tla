---------------------------- MODULE SessionStore ----------------------------
(***************************************************************************)
(* The in-memory session store (src/internal/engine/store.go) and how the  *)
(* engine uses it: finding the session of a request, creating one, sliding *)
(* its TTL, deleting it, and the sweeper (engine.go).                      *)
(*                                                                         *)
(* The store keeps four indices, each under a lock of its own: sessions by *)
(* key, sessions by id, their number, and the key selectors of the live    *)
(* sessions.  Create and Delete visit them one after the other, so other   *)
(* goroutines run between any two of these critical sections, which are    *)
(* the actions of this module.  What a session does while its lock is held *)
(* is Engine's; here it is locked and unlocked.                            *)
(*                                                                         *)
(* Sessions are numbered in the order Create inserts them; 0 is nil.  Time *)
(* is reduced to whether a session's ExpiresAt has passed.  Two compiled   *)
(* forms of the same scenario text are one Scenario.                       *)
(***************************************************************************)
EXTENDS Integers, FiniteSets

CONSTANTS
  Client,        \* goroutines of requests and administrative calls
  Sweeper,       \* the goroutine of RunSweeper
  Key,           \* session keys
  NoKey,         \* what Extract yields when it finds nothing
  Scenario,      \* compiled scenarios
  Selector,      \* key selectors, in their String() form
  SelectorOf,    \* Scenario.KeySelector
  PathSelector,  \* the selectors of kind "path"
  Path,          \* request paths
  PathsOf,       \* the paths that the rule patterns of a scenario match
  MaxSessions,   \* limits.max_sessions; 0 is no limit
  Uses,          \* what the environment does: subset of AllUses
  MaxMade        \* bound: sessions ever created

AllUses == {"reload", "expire", "start", "admin"}

ASSUME StoreAssumption ==
  /\ Uses \subseteq AllUses
  /\ Sweeper \notin Client
  /\ IsFiniteSet(Client)
  /\ NoKey \notin Key
  /\ IsFiniteSet(Key)
  /\ SelectorOf \in [Scenario -> Selector]
  /\ PathSelector \subseteq Selector
  /\ PathsOf \in [Scenario -> SUBSET Path]
  /\ MaxSessions \in Nat
  /\ MaxMade \in Nat

Session == 1 .. MaxMade
NoSession == 0
Thread == Client \cup {Sweeper}

\* A request carries a key where one selector looks for it.
Request == [selector : Selector, key : Key, path : Path]
NoRequest == [selector |-> "none", key |-> NoKey, path |-> "none"]

VARIABLES
  byKey,     \* Store.shards: the session of each key
  byID,      \* Store.byID
  length,    \* Store.length
  refs,      \* Store.selectors: the entries' refs, 0 where there is none
  pinned,    \* Store.selectors: the entries' scenarios
  made,      \* how many sessions there have been
  key,       \* Session.Key
  scenario,  \* Session.Scenario
  expired,   \* the sessions whose ExpiresAt has passed
  lock,      \* Session.mu: the thread that holds it
  loaded,    \* the scenarios of the current snapshot
  pc,        \* where each thread is
  cur,       \* the session a thread works on
  req,       \* the request a client handles
  snap,      \* the snapshot it handles it with
  todo,      \* Sweep: the sessions it has yet to look at, then to delete
  found      \* Sweep: the expired ones

indexVars   == <<byKey, byID, length, refs, pinned>>
sessionVars == <<made, key, scenario>>
localVars   == <<req, snap>>
sweepVars   == <<todo, found>>
storeVars   == <<indexVars, sessionVars, expired, lock, loaded, pc, cur,
                 localVars, sweepVars>>

NoThread == "none"
NoScenario == "none"

StoreInit ==
  /\ byKey = [k \in Key |-> NoSession]
  /\ byID = {}
  /\ length = 0
  /\ refs = [sel \in Selector |-> 0]
  /\ pinned = [sel \in Selector |-> NoScenario]
  /\ made = 0
  /\ key = [o \in Session |-> NoKey]
  /\ scenario = [o \in Session |-> NoScenario]
  /\ expired = {}
  /\ lock = [o \in Session |-> NoThread]
  /\ loaded \in SUBSET Scenario
  /\ pc = [t \in Thread |-> "idle"]
  /\ cur = [t \in Thread |-> NoSession]
  /\ req = [c \in Client |-> NoRequest]
  /\ snap = [c \in Client |-> {}]
  /\ todo = {}
  /\ found = {}

Goto(t, place) == pc' = [pc EXCEPT ![t] = place]

\* A client is done: its locals are gone.
Leave(c) ==
  /\ Goto(c, "idle")
  /\ cur' = [cur EXCEPT ![c] = NoSession]
  /\ req' = [req EXCEPT ![c] = NoRequest]
  /\ snap' = [snap EXCEPT ![c] = {}]

-----------------------------------------------------------------------------
(* The outside world. *)

\* A reload stores a new snapshot.
Reload(scs) ==
  /\ "reload" \in Uses
  /\ loaded' = scs
  /\ UNCHANGED <<indexVars, sessionVars, expired, lock, pc, cur, localVars,
                 sweepVars>>

\* The TTL of a session runs out.
Expire(o) ==
  /\ "expire" \in Uses
  /\ o <= made /\ o \notin expired
  /\ expired' = expired \cup {o}
  /\ UNCHANGED <<indexVars, sessionVars, lock, loaded, pc, cur, localVars,
                 sweepVars>>

-----------------------------------------------------------------------------
(* Finding a session. *)

\* KeySelector.Extract: only a path selector looks at the scenario.
Extract(sel, sc, r) ==
  IF r.selector = sel /\ (sel \in PathSelector => r.path \in PathsOf[sc])
    THEN r.key ELSE NoKey

\* The first loop of findSession: the scenarios of the snapshot.
ByLoaded(scs, r) ==
  {byKey[r.key] : sc \in {x \in scs : Extract(SelectorOf[x], x, r) # NoKey}}
    \ {NoSession}

\* The second loop: LiveSelectors, each with the scenario its entry was made for.
ByLive(r) ==
  {byKey[r.key] : sel \in {x \in Selector :
                            refs[x] > 0 /\ Extract(x, pinned[x], r) # NoKey}}
    \ {NoSession}

\* findSession's two loops, each one action.
FindLoaded(c, r) ==
  /\ pc[c] = "idle"
  /\ req' = [req EXCEPT ![c] = r]
  /\ snap' = [snap EXCEPT ![c] = loaded]
  /\ \/ /\ ByLoaded(loaded, r) = {}
        /\ Goto(c, "live") /\ cur' = cur
     \/ \E o \in ByLoaded(loaded, r) :
          Goto(c, "found") /\ cur' = [cur EXCEPT ![c] = o]
  /\ UNCHANGED <<indexVars, sessionVars, expired, lock, loaded, sweepVars>>

FindLive(c) ==
  /\ pc[c] = "live"
  /\ \/ /\ ByLive(req[c]) = {}
        /\ Goto(c, "none") /\ cur' = cur
     \/ \E o \in ByLive(req[c]) :
          Goto(c, "found") /\ cur' = [cur EXCEPT ![c] = o]
  /\ UNCHANGED <<indexVars, sessionVars, expired, lock, loaded, localVars,
                 sweepVars>>

\* GetByID, of an administrative call.
GetByID(c, o) ==
  /\ pc[c] = "idle" /\ o \in byID /\ "admin" \in Uses
  /\ Goto(c, "found")
  /\ cur' = [cur EXCEPT ![c] = o]
  /\ UNCHANGED <<indexVars, sessionVars, expired, lock, loaded, localVars,
                 sweepVars>>

\* The call ends without the session: no scenario header, an unknown scenario, a
\* key that does not extract, the session limit; or, with a session, a header
\* that names another scenario.
Refuse(c) ==
  /\ pc[c] \in {"none", "found"}
  /\ Leave(c)
  /\ UNCHANGED <<indexVars, sessionVars, expired, lock, loaded, sweepVars>>

-----------------------------------------------------------------------------
(* Create. *)

\* No session has the key.
FreeKey(k) == byKey[k] = NoSession

\* BUG: one session too many.
RoomForOneMore == MaxSessions > 0 => length <= MaxSessions

\* The limit allows one more session.
Room == MaxSessions > 0 => length < MaxSessions

\* Who asks for a session of scenario sc with key k: a request that found none
\* and names a scenario of its snapshot, or StartSession.
Asks(c, sc, k) ==
  \/ /\ pc[c] = "none" /\ sc \in snap[c]
     /\ k = Extract(SelectorOf[sc], sc, req[c])
  \/ pc[c] = "idle" /\ sc \in loaded /\ "start" \in Uses

\* The section under the shard's lock, with the one under lenMu inside it.
InsertKey(c, sc, k) ==
  LET o == made + 1
  IN  /\ Asks(c, sc, k)
      /\ FreeKey(k) /\ Room
      /\ o \in Session
      /\ made' = o
      /\ key' = [key EXCEPT ![o] = k]
      /\ scenario' = [scenario EXCEPT ![o] = sc]
      /\ byKey' = [byKey EXCEPT ![k] = o]
      /\ length' = length + 1
      /\ cur' = [cur EXCEPT ![c] = o]
      /\ Goto(c, "index")
      /\ UNCHANGED <<byID, refs, pinned, expired, lock, loaded, localVars,
                     sweepVars>>

\* The key is taken: a request goes on with that session; StartSession returns
\* it unchanged, which is no step.
Existing(c, sc, k) ==
  /\ pc[c] = "none" /\ Asks(c, sc, k)
  /\ ~FreeKey(k)
  /\ cur' = [cur EXCEPT ![c] = byKey[k]]
  /\ Goto(c, "found")
  /\ UNCHANGED <<indexVars, sessionVars, expired, lock, loaded, localVars,
                 sweepVars>>

\* Sweep holds idMu for reading: nobody writes byID.
Scanning == pc[Sweeper] = "scan"

IndexID(c) ==
  /\ pc[c] = "index" /\ ~Scanning
  /\ byID' = byID \cup {cur[c]}
  /\ Goto(c, "select")
  /\ UNCHANGED <<byKey, length, refs, pinned, sessionVars, expired, lock, loaded,
                 cur, localVars, sweepVars>>

\* The selector's entry counts one more session; a new one gets this scenario.
AddSelector(c) ==
  LET sc  == scenario[cur[c]]
      sel == SelectorOf[sc]
  IN  /\ pc[c] = "select"
      /\ refs' = [refs EXCEPT ![sel] = @ + 1]
      /\ pinned' = IF refs[sel] > 0 THEN pinned ELSE [pinned EXCEPT ![sel] = sc]
      /\ Goto(c, "created")
      /\ UNCHANGED <<byKey, byID, length, sessionVars, expired, lock, loaded, cur,
                     localVars, sweepVars>>

-----------------------------------------------------------------------------
(* Session.mu: the creator takes it to run the enter actions, every other     *)
(* client slides the TTL under it.                                            *)

LockNew(c) ==
  /\ pc[c] = "created" /\ lock[cur[c]] = NoThread
  /\ lock' = [lock EXCEPT ![cur[c]] = c]
  /\ Goto(c, "entering")
  /\ UNCHANGED <<indexVars, sessionVars, expired, loaded, cur, localVars,
                 sweepVars>>

LockTouch(c) ==
  /\ pc[c] = "found" /\ lock[cur[c]] = NoThread
  /\ lock' = [lock EXCEPT ![cur[c]] = c]
  /\ expired' = expired \ {cur[c]}
  /\ Goto(c, "locked")
  /\ UNCHANGED <<indexVars, sessionVars, loaded, cur, localVars, sweepVars>>

\* BUG: a branch returns without the deferred unlock.
StaysLocked(c) == lock

\* The lock map after c's unlock.
Unlocked(c) == [lock EXCEPT ![cur[c]] = NoThread]

\* A request goes on from the creation of its session to the session's rules.
Unlock(c) ==
  /\ pc[c] \in {"entering", "locked"}
  /\ lock' = Unlocked(c)
  /\ IF pc[c] = "entering" /\ req[c] # NoRequest
       THEN Goto(c, "found") /\ UNCHANGED <<cur, localVars>>
       ELSE Leave(c)
  /\ UNCHANGED <<indexVars, sessionVars, expired, loaded, sweepVars>>

-----------------------------------------------------------------------------
(* Delete, by a client or by the sweeper. *)

\* BUG: Delete goes on when another one has taken the id out already.
KnownOnce(o) == o <= made

\* Delete goes on only if the id was there.
Known(o) == o \in byID

RemoveID(t, o) ==
  /\ Known(o) /\ ~Scanning
  /\ byID' = byID \ {o}
  /\ cur' = [cur EXCEPT ![t] = o]
  /\ Goto(t, "unkey")
  /\ UNCHANGED <<byKey, length, refs, pinned, sessionVars, expired, lock, loaded,
                 localVars>>

\* DeleteSession and DeleteAllSessions.
BeginDelete(c, o) ==
  /\ pc[c] = "idle"
  /\ RemoveID(c, o)
  /\ UNCHANGED sweepVars

\* BUG: a session that has lost its id already does not lose its key.
LeadsToLive(k, o) == byKey[k] = o /\ o \in byID

\* The key still leads to the session.
LeadsTo(k, o) == byKey[k] = o

RemoveKey(t) ==
  LET k == key[cur[t]]
  IN  /\ pc[t] = "unkey"
      /\ byKey' = IF LeadsTo(k, cur[t]) THEN [byKey EXCEPT ![k] = NoSession]
                                        ELSE byKey
      /\ Goto(t, "uncount")
      /\ UNCHANGED <<byID, length, refs, pinned, sessionVars, expired, lock,
                     loaded, cur, localVars, sweepVars>>

Uncount(t) ==
  /\ pc[t] = "uncount"
  /\ length' = length - 1
  /\ Goto(t, "unselect")
  /\ UNCHANGED <<byKey, byID, refs, pinned, sessionVars, expired, lock, loaded,
                 cur, localVars, sweepVars>>

\* BUG: an entry goes with its last but one session.
DroppedEarly(n) == IF n - 1 <= 1 THEN 0 ELSE n - 1

\* One reference less; without references the entry is deleted.
Dropped(n) == IF n - 1 <= 0 THEN 0 ELSE n - 1

RemoveSelector(t) ==
  LET sel == SelectorOf[scenario[cur[t]]]
  IN  /\ pc[t] = "unselect"
      /\ refs' = [refs EXCEPT ![sel] = Dropped(@)]
      /\ Goto(t, IF t = Sweeper THEN "sweep" ELSE "deleted")
      /\ UNCHANGED <<byKey, byID, length, pinned, sessionVars, expired, lock,
                     loaded, cur, localVars, sweepVars>>

-----------------------------------------------------------------------------
(* Sweep. *)

BeginSweep ==
  /\ pc[Sweeper] = "idle" /\ "expire" \in Uses
  /\ todo' = byID
  /\ Goto(Sweeper, "scan")
  /\ UNCHANGED <<indexVars, sessionVars, expired, lock, loaded, cur, localVars,
                 found>>

\* One session is looked at, under its lock.
Look(o) ==
  /\ Scanning /\ o \in todo /\ lock[o] = NoThread
  /\ todo' = todo \ {o}
  /\ found' = IF o \in expired THEN found \cup {o} ELSE found
  /\ UNCHANGED <<indexVars, sessionVars, expired, lock, loaded, pc, cur,
                 localVars>>

EndScan ==
  /\ Scanning /\ todo = {}
  /\ todo' = found
  /\ Goto(Sweeper, "sweep")
  /\ UNCHANGED <<indexVars, sessionVars, expired, lock, loaded, cur, localVars,
                 found>>

\* Delete of the next expired session, which somebody else may have deleted.
SweepNext(o) ==
  /\ pc[Sweeper] = "sweep" /\ o \in todo
  /\ todo' = todo \ {o} /\ found' = found
  /\ IF Known(o)
       THEN RemoveID(Sweeper, o)
       ELSE UNCHANGED <<indexVars, sessionVars, expired, lock, loaded, pc, cur,
                        localVars>>

EndSweep ==
  /\ pc[Sweeper] = "sweep" /\ todo = {}
  /\ Goto(Sweeper, "swept")
  /\ cur' = [cur EXCEPT ![Sweeper] = NoSession]
  /\ UNCHANGED <<indexVars, sessionVars, expired, lock, loaded, localVars,
                 sweepVars>>

-----------------------------------------------------------------------------
(* The store alone: the callers of Delete and Sweep return. *)

DeleteReturns(c) ==
  /\ pc[c] = "deleted"
  /\ Leave(c)
  /\ UNCHANGED <<indexVars, sessionVars, expired, lock, loaded, sweepVars>>

SweepReturns ==
  /\ pc[Sweeper] = "swept"
  /\ Goto(Sweeper, "idle")
  /\ found' = {}
  /\ UNCHANGED <<indexVars, sessionVars, expired, lock, loaded, cur, localVars,
                 todo>>

\* What a client does on its own once its call has begun, up to the lock of its
\* session or the end of Delete.
StoreCallStep(c) ==
  \/ FindLive(c) \/ Refuse(c)
  \/ \E sc \in Scenario, k \in Key :
       \/ pc[c] = "none" /\ InsertKey(c, sc, k)
       \/ Existing(c, sc, k)
  \/ IndexID(c) \/ AddSelector(c) \/ LockNew(c) \/ LockTouch(c)
  \/ RemoveKey(c) \/ Uncount(c) \/ RemoveSelector(c)

StoreSweepStep ==
  \/ \E o \in Session : Look(o) \/ SweepNext(o)
  \/ EndScan \/ EndSweep
  \/ RemoveKey(Sweeper) \/ Uncount(Sweeper) \/ RemoveSelector(Sweeper)

\* The calls that begin.
StoreBegins ==
  \/ \E scs \in SUBSET Scenario : Reload(scs)
  \/ \E o \in Session : Expire(o)
  \/ \E c \in Client :
       \/ \E r \in Request : FindLoaded(c, r)
       \/ \E o \in Session : GetByID(c, o) \/ BeginDelete(c, o)
       \/ \E sc \in Scenario, k \in Key : pc[c] = "idle" /\ InsertKey(c, sc, k)
  \/ BeginSweep

StoreStep(c) == StoreCallStep(c) \/ Unlock(c) \/ DeleteReturns(c)
SweepStep == StoreSweepStep \/ SweepReturns

StoreNext ==
  \/ StoreBegins
  \/ \E c \in Client : StoreStep(c)
  \/ SweepStep

StoreSpec == StoreInit /\ [][StoreNext]_storeVars

-----------------------------------------------------------------------------
(* Type invariant. *)

ClientPlace == {"idle", "live", "none", "found", "index", "select", "created",
                "entering", "locked", "unkey", "uncount", "unselect", "deleted"}
SweeperPlace == {"idle", "scan", "sweep", "unkey", "uncount", "unselect", "swept"}

\* Every variable but pc holds what the Go declaration it models allows; the
\* number of sessions and the reference counts are never negative.
DataTypeOK ==
  /\ byKey \in [Key -> Session \cup {NoSession}]
  /\ byID \in SUBSET Session
  /\ length \in Nat
  /\ refs \in [Selector -> Nat]
  /\ pinned \in [Selector -> Scenario \cup {NoScenario}]
  /\ made \in 0 .. MaxMade
  /\ key \in [Session -> Key \cup {NoKey}]
  /\ scenario \in [Session -> Scenario \cup {NoScenario}]
  /\ expired \in SUBSET Session
  /\ lock \in [Session -> Client \cup {NoThread}]
  /\ loaded \in SUBSET Scenario
  /\ cur \in [Thread -> Session \cup {NoSession}]
  /\ req \in [Client -> Request \cup {NoRequest}]
  /\ snap \in [Client -> SUBSET Scenario]
  /\ todo \in SUBSET Session
  /\ found \in SUBSET Session

\* The types of all variables, and who can be where.
StoreTypeOK ==
  /\ DataTypeOK
  /\ pc \in [Thread -> ClientPlace \cup SweeperPlace]
  /\ \A c \in Client : pc[c] \in ClientPlace
  /\ pc[Sweeper] \in SweeperPlace

-----------------------------------------------------------------------------
(* Safety. *)

\* The keys in use.
InUse == {k \in Key : byKey[k] # NoSession}

\* The threads between two sections of Create or Delete.
At(place) == {t \in Thread : pc[t] = place}

\* The indices by key and by id agree, except for the one session a Create or a
\* Delete is between them with: a live session owns its key, and a key in use
\* belongs to a live session, so a deleted session never blocks its key
\* (docs/admin-api.md:113, "Frees the session key immediately").
IndexesAgree ==
  /\ \A o \in byID : byKey[key[o]] = o
  /\ \A k \in InUse :
       \/ byKey[k] \in byID
       \/ \E t \in At("index") \cup At("unkey") : cur[t] = byKey[k]

\* length counts the keys in use and the removed sessions whose Delete has yet to
\* count them off: the limit is neither exceeded nor reached too early.
LengthExact == length = Cardinality(InUse) + Cardinality(At("uncount"))

\* There are never more sessions than limits.max_sessions, although Create checks
\* the limit under another lock than Delete counts off under.
LimitHeld ==
  MaxSessions > 0 => /\ Cardinality(InUse) <= MaxSessions
                     /\ Cardinality(byID) <= MaxSessions

\* A Create that has yet to add its selector.
AddsSelector(sel) ==
  \E c \in At("select") : SelectorOf[scenario[cur[c]]] = sel

\* What the app may send to its session o: requests the scenario o is pinned to
\* extracts o's key from.
OwnRequests(o) ==
  {r \in Request : Extract(SelectorOf[scenario[o]], scenario[o], r) = key[o]}

\* A live session is found, whatever is loaded by now, unless its selector looks
\* at paths: the registry of selectors keeps an entry for it through any creation
\* and deletion of other sessions.  Excepted is the time a Create of a session
\* with the same selector is about to add its reference: a Delete of that session
\* may have taken another one's reference instead, until it is added.
ReachableUnlessPath ==
  \A o \in byID :
    LET sel == SelectorOf[scenario[o]]
    IN  sel \in PathSelector \/ AddsSelector(sel)
        \/ \A r \in OwnRequests(o) : o \in ByLoaded(loaded, r) \cup ByLive(r)
=============================================================================
