------------------------- MODULE SessionStoreProofs -------------------------
(***************************************************************************)
(* Proofs about SessionStore, for any number of clients, keys, scenarios   *)
(* and sessions: the type invariant, that the indices by key and by id     *)
(* agree, that the session count is exact, that the limit is kept, and     *)
(* that a session is found by its selector whatever goes on around it.     *)
(***************************************************************************)
EXTENDS SessionStore, FiniteSetTheorems, TLAPS

\* Where a thread works on a session.
Busy == {"found", "locked", "index", "select", "created", "entering", "entered",
         "unkey", "uncount", "unselect"}

\* Where Engine has a client beyond the steps of the store: its proofs use the
\* lemmas of this module.
OuterPlace == {"entered", "callback"}

\* StoreTypeOK, with clients in those places.
WideTypeOK ==
  /\ DataTypeOK
  /\ pc \in [Thread -> ClientPlace \cup SweeperPlace \cup OuterPlace]
  /\ \A c \in Client : pc[c] \in ClientPlace \cup OuterPlace
  /\ pc[Sweeper] \in SweeperPlace

BusyCur == \A t \in Thread : pc[t] \in Busy => cur[t] \in Session

\* findSession has its request.
Asking == \A c \in Client : pc[c] \in {"live", "none"} => req[c] \in Request

TypeInv == WideTypeOK /\ BusyCur /\ Asking

LEMMA StoreFacts ==
  /\ Client \subseteq Thread /\ Sweeper \in Thread /\ Sweeper \notin Client
  /\ Session \subseteq Nat /\ NoSession \notin Session
  /\ MaxMade \in Nat
  /\ \A sc \in Scenario : SelectorOf[sc] \in Selector
BY StoreAssumption DEF Thread, Session, NoSession

-----------------------------------------------------------------------------
(* Typing. *)

LEMMA TypeInit == StoreInit => TypeInv
BY StoreFacts DEF StoreInit, TypeInv, WideTypeOK, DataTypeOK, BusyCur, Asking, Busy,
   ClientPlace, SweeperPlace, OuterPlace, Thread

\* What findSession finds is a session.
LEMMA Lookups ==
  ASSUME WideTypeOK, NEW r \in Request
  PROVE  ByLoaded(loaded, r) \subseteq Session /\ ByLive(r) \subseteq Session
<1>1. byKey[r.key] \in Session \cup {NoSession}
  BY DEF WideTypeOK, DataTypeOK, Request
<1> QED
  BY <1>1 DEF ByLoaded, ByLive

\* The steps of a client that write none of the indices.
LEMMA TypeLookups ==
  ASSUME TypeInv, NEW c \in Client,
         \/ \E r \in Request : FindLoaded(c, r)
         \/ FindLive(c) \/ Refuse(c) \/ DeleteReturns(c)
         \/ \E o \in Session : GetByID(c, o)
         \/ \E sc \in Scenario, k \in Key : Existing(c, sc, k)
         \/ LockNew(c) \/ LockTouch(c) \/ Unlock(c)
  PROVE  TypeInv'
<1> USE StoreFacts DEF TypeInv, WideTypeOK, DataTypeOK, BusyCur, Asking, Busy, ClientPlace,
      SweeperPlace, OuterPlace, indexVars, sessionVars, sweepVars, localVars, Goto
<1>1. CASE \E r \in Request : FindLoaded(c, r)
  <2>1. PICK r \in Request : FindLoaded(c, r)
    BY <1>1
  <2>2. ByLoaded(loaded, r) \subseteq Session
    BY Lookups
  <2>3. req' = [req EXCEPT ![c] = r] /\ snap' = [snap EXCEPT ![c] = loaded]
        /\ UNCHANGED <<indexVars, sessionVars, expired, lock, loaded, sweepVars>>
    BY <2>1 DEF FindLoaded
  <2>4. CASE pc' = [pc EXCEPT ![c] = "live"] /\ cur' = cur
    BY <2>3, <2>4
  <2>5. CASE \E o \in Session : pc' = [pc EXCEPT ![c] = "found"]
                                /\ cur' = [cur EXCEPT ![c] = o]
    BY <2>3, <2>5
  <2> QED
    BY <2>1, <2>2, <2>4, <2>5 DEF FindLoaded
<1>2. CASE FindLive(c)
  <2>1. ByLive(req[c]) \subseteq Session
    BY <1>2, Lookups DEF FindLive
  <2>2. CASE pc' = [pc EXCEPT ![c] = "none"] /\ cur' = cur
    BY <1>2, <2>2 DEF FindLive
  <2>3. CASE \E o \in Session : pc' = [pc EXCEPT ![c] = "found"]
                                /\ cur' = [cur EXCEPT ![c] = o]
    BY <1>2, <2>3 DEF FindLive
  <2> QED
    BY <1>2, <2>1, <2>2, <2>3 DEF FindLive
<1>3. CASE Refuse(c)
  BY <1>3 DEF Refuse, Leave
<1>4. CASE DeleteReturns(c)
  BY <1>4 DEF DeleteReturns, Leave
<1>5. CASE \E o \in Session : GetByID(c, o)
  BY <1>5 DEF GetByID
<1>6. CASE \E sc \in Scenario, k \in Key : Existing(c, sc, k)
  BY <1>6 DEF Existing, FreeKey
<1>7. CASE LockNew(c)
  BY <1>7 DEF LockNew
<1>8. CASE LockTouch(c)
  BY <1>8 DEF LockTouch
<1>9. CASE Unlock(c)
  BY <1>9 DEF Unlock, Leave, Unlocked
<1> QED
  BY <1>1, <1>2, <1>3, <1>4, <1>5, <1>6, <1>7, <1>8, <1>9

\* A count that goes up stays a count.
LEMMA OneMore ==
  \A S, x : \A f \in [S -> Nat] : [f EXCEPT ![x] = f[x] + 1] \in [S -> Nat]
<1> TAKE S, x
<1> TAKE f \in [S -> Nat]
<1> DEFINE g == [f EXCEPT ![x] = f[x] + 1]
<1>1. \A y \in S : g[y] = IF y = x THEN f[x] + 1 ELSE f[y]
  OBVIOUS
<1>2. \A y \in S : g[y] \in Nat
  BY <1>1
<1> QED
  BY <1>2

\* Create.
LEMMA TypeCreate ==
  ASSUME TypeInv, NEW c \in Client,
         \/ \E sc \in Scenario, k \in Key : InsertKey(c, sc, k)
         \/ IndexID(c) \/ AddSelector(c)
  PROVE  TypeInv'
<1> USE StoreFacts DEF TypeInv, WideTypeOK, DataTypeOK, BusyCur, Asking, Busy,
      ClientPlace, SweeperPlace, OuterPlace, indexVars, sessionVars, sweepVars, localVars, Goto
<1>1. CASE \E sc \in Scenario, k \in Key : InsertKey(c, sc, k)
  BY <1>1 DEF InsertKey, Session
<1>2. CASE IndexID(c)
  BY <1>2 DEF IndexID
<1>3. CASE AddSelector(c)
  <2> DEFINE sc == scenario[cur[c]]
  <2>1. sc \in Scenario \cup {NoScenario}
    BY <1>3 DEF AddSelector
  <2>2. refs' \in [Selector -> Nat]
    <3>1. refs \in [Selector -> Nat]
      OBVIOUS
    <3>2. refs' = [refs EXCEPT ![SelectorOf[sc]] = refs[SelectorOf[sc]] + 1]
      BY <1>3 DEF AddSelector
    <3> QED
      BY <3>1, <3>2, OneMore
  <2>3. pinned' \in [Selector -> Scenario \cup {NoScenario}]
    BY <1>3, <2>1 DEF AddSelector
  <2> QED
    BY <1>3, <2>2, <2>3 DEF AddSelector
<1> QED
  BY <1>1, <1>2, <1>3

\* Delete, whoever runs it.
LEMMA TypeDelete ==
  ASSUME TypeInv, NEW t \in Thread,
         RemoveKey(t) \/ RemoveSelector(t)
  PROVE  TypeInv'
<1> USE StoreFacts DEF TypeInv, WideTypeOK, DataTypeOK, BusyCur, Asking, Busy,
      ClientPlace, SweeperPlace, OuterPlace, indexVars, sessionVars, sweepVars, localVars, Goto
<1>1. CASE RemoveKey(t)
  BY <1>1 DEF RemoveKey, LeadsTo
<1>2. CASE RemoveSelector(t)
  <2>1. \A n \in Nat : Dropped(n) \in Nat
    BY DEF Dropped
  <2>2. refs' \in [Selector -> Nat]
    BY <1>2, <2>1 DEF RemoveSelector
  <2>3. CASE t = Sweeper
    <3>1. pc' = [pc EXCEPT ![t] = "sweep"]
      BY <1>2, <2>3 DEF RemoveSelector
    <3> QED
      BY <1>2, <2>2, <2>3, <3>1 DEF RemoveSelector
  <2>4. CASE t \in Client
    <3>1. pc' = [pc EXCEPT ![t] = "deleted"]
      BY <1>2, <2>4 DEF RemoveSelector
    <3> QED
      BY <1>2, <2>2, <2>4, <3>1 DEF RemoveSelector
  <2> QED
    BY <2>3, <2>4 DEF Thread
<1> QED
  BY <1>1, <1>2

LEMMA TypeBegin ==
  ASSUME TypeInv,
         \/ \E scs \in SUBSET Scenario : Reload(scs)
         \/ \E o \in Session : Expire(o)
         \/ \E c \in Client : \E o \in Session : BeginDelete(c, o)
         \/ BeginSweep
  PROVE  TypeInv'
<1> USE StoreFacts DEF TypeInv, WideTypeOK, DataTypeOK, BusyCur, Asking, Busy,
      ClientPlace, SweeperPlace, OuterPlace, indexVars, sessionVars, sweepVars, localVars, Goto
<1>1. CASE \E scs \in SUBSET Scenario : Reload(scs)
  BY <1>1 DEF Reload
<1>2. CASE \E o \in Session : Expire(o)
  BY <1>2 DEF Expire
<1>3. CASE \E c \in Client : \E o \in Session : BeginDelete(c, o)
  BY <1>3 DEF BeginDelete, RemoveID
<1>4. CASE BeginSweep
  BY <1>4 DEF BeginSweep
<1> QED
  BY <1>1, <1>2, <1>3, <1>4

LEMMA TypeSweep ==
  ASSUME TypeInv,
         \/ \E o \in Session : Look(o) \/ SweepNext(o)
         \/ EndScan \/ EndSweep \/ SweepReturns
  PROVE  TypeInv'
<1> USE StoreFacts DEF TypeInv, WideTypeOK, DataTypeOK, BusyCur, Asking, Busy,
      ClientPlace, SweeperPlace, OuterPlace, indexVars, sessionVars, sweepVars, localVars, Goto
<1>1. CASE \E o \in Session : Look(o)
  BY <1>1 DEF Look
<1>2. CASE \E o \in Session : SweepNext(o)
  <2>1. PICK o \in Session : SweepNext(o)
    BY <1>2
  <2>2. todo' = todo \ {o} /\ found' = found
    BY <2>1 DEF SweepNext
  <2>3. CASE o \in byID
    <3>1. /\ byID' = byID \ {o} /\ cur' = [cur EXCEPT ![Sweeper] = o]
          /\ pc' = [pc EXCEPT ![Sweeper] = "unkey"]
          /\ UNCHANGED <<byKey, length, refs, pinned, sessionVars, expired, lock,
                         loaded, localVars>>
      BY <2>1, <2>3 DEF SweepNext, RemoveID, Known
    <3> QED
      BY <2>2, <3>1
  <2>4. CASE o \notin byID
    BY <2>1, <2>2, <2>4 DEF SweepNext, Known
  <2> QED
    BY <2>3, <2>4
<1>3. CASE EndScan
  BY <1>3 DEF EndScan
<1>4. CASE EndSweep
  BY <1>4 DEF EndSweep
<1>5. CASE SweepReturns
  BY <1>5 DEF SweepReturns
<1> QED
  BY <1>1, <1>2, <1>3, <1>4, <1>5

-----------------------------------------------------------------------------
(* The indices.  IndexesAgree is not inductive: that a Create or Delete owns  *)
(* the key it is about to index or to free is what keeps two of them apart.   *)

\* Between two sections, with a session only one of the indices knows.
Between == At("index") \cup At("unkey")

\* Nothing refers to a session that has not been made.
MadeOK ==
  /\ \A o \in Session : o <= made => key[o] \in Key
  /\ \A o \in byID : o <= made
  /\ \A k \in Key : byKey[k] <= made
  /\ \A t \in Thread : cur[t] <= made

KeyOfOwner == \A k \in InUse : key[byKey[k]] = k

BetweenOwns ==
  /\ \A t \in Between : cur[t] \notin byID /\ byKey[key[cur[t]]] = cur[t]
  /\ \A t, u \in Between : cur[t] = cur[u] => t = u

IInv == MadeOK /\ KeyOfOwner /\ BetweenOwns /\ IndexesAgree /\ LengthExact

LEMMA Finite ==
  /\ IsFiniteSet(Thread)
  /\ IsFiniteSet(InUse) /\ Cardinality(InUse) \in Nat
  /\ \A p : IsFiniteSet(At(p)) /\ Cardinality(At(p)) \in Nat
<1>1. IsFiniteSet(Thread)
  BY StoreAssumption, FS_AddElement DEF Thread
<1>2. IsFiniteSet(InUse)
  BY StoreAssumption, FS_Subset DEF InUse
<1>3. \A p : IsFiniteSet(At(p))
  BY <1>1, FS_Subset DEF At
<1> QED
  BY <1>1, <1>2, <1>3, FS_CardinalityType

LEMMA IInit == StoreInit => IInv
<1> SUFFICES ASSUME StoreInit PROVE IInv
  OBVIOUS
<1>1. InUse = {} /\ \A p : p # "idle" => At(p) = {}
  BY DEF StoreInit, InUse, At
<1>2. LengthExact
  <2>1. InUse = {} /\ At("uncount") = {} /\ length = 0
    BY <1>1 DEF StoreInit
  <2>2. Cardinality(InUse) = 0 /\ Cardinality(At("uncount")) = 0
    BY <2>1, FS_EmptySet
  <2> QED
    BY <2>1, <2>2 DEF LengthExact
<1>3. MadeOK
  BY StoreFacts DEF MadeOK, StoreInit, NoSession, Session
<1> QED
  BY <1>1, <1>2, <1>3 DEF IInv, KeyOfOwner, BetweenOwns, IndexesAgree, Between, StoreInit

\* A step that leaves the indices and the threads between their sections alone.
LEMMA Quiet ==
  ASSUME TypeInv, IInv,
         UNCHANGED <<byKey, byID, length, made, key>>,
         At("index")' = At("index"), At("unkey")' = At("unkey"),
         At("uncount")' = At("uncount"),
         \A t \in Between : cur'[t] = cur[t],
         \A t \in Thread : cur'[t] <= made
  PROVE  IInv'
<1>1. InUse' = InUse /\ Between' = Between
  BY DEF InUse, Between
<1>2. MadeOK' /\ KeyOfOwner'
  BY <1>1 DEF IInv, MadeOK, KeyOfOwner
<1>3. BetweenOwns' /\ IndexesAgree'
  BY <1>1 DEF IInv, BetweenOwns, IndexesAgree, Between
<1>4. LengthExact'
  BY <1>1 DEF IInv, LengthExact
<1> QED
  BY <1>2, <1>3, <1>4 DEF IInv

\* The steps of one thread that only move it, outside those sections.
LEMMA QuietStep ==
  ASSUME TypeInv, IInv, NEW t \in Thread, NEW p, NEW o \in Session \cup {NoSession},
         o <= made,
         UNCHANGED <<byKey, byID, length, made, key>>,
         pc[t] \notin {"index", "unkey", "uncount"},
         p \notin {"index", "unkey", "uncount"},
         pc' = [pc EXCEPT ![t] = p],
         cur' = cur \/ cur' = [cur EXCEPT ![t] = o]
  PROVE  IInv'
<1>1. pc \in [Thread -> ClientPlace \cup SweeperPlace \cup OuterPlace]
      /\ cur \in [Thread -> Session \cup {NoSession}]
  BY DEF TypeInv, WideTypeOK, DataTypeOK
<1>2. \A q \in {"index", "unkey", "uncount"} : At(q)' = At(q)
  BY <1>1 DEF At
<1>3. \A u \in Between : cur'[u] = cur[u]
  BY <1>1 DEF Between, At
<1>4. \A u \in Thread : cur'[u] <= made
  BY <1>1 DEF IInv, MadeOK
<1> QED
  BY <1>2, <1>3, <1>4, Quiet

LEMMA IInsert ==
  ASSUME TypeInv, IInv, NEW c \in Client, NEW sc \in Scenario, NEW k \in Key,
         InsertKey(c, sc, k)
  PROVE  IInv'
<1> DEFINE o == made + 1
<1>1. /\ o \in Session /\ byKey[k] = NoSession /\ made' = o
      /\ key' = [key EXCEPT ![o] = k] /\ byKey' = [byKey EXCEPT ![k] = o]
      /\ length' = length + 1 /\ byID' = byID
      /\ cur' = [cur EXCEPT ![c] = o] /\ pc' = [pc EXCEPT ![c] = "index"]
      /\ pc[c] \in {"idle", "none"}
  BY DEF InsertKey, Asks, FreeKey, Goto
<1>2. /\ pc \in [Thread -> ClientPlace \cup SweeperPlace \cup OuterPlace]
      /\ cur \in [Thread -> Session \cup {NoSession}]
      /\ byKey \in [Key -> Session \cup {NoSession}] /\ byID \in SUBSET Session
      /\ key \in [Session -> Key \cup {NoKey}] /\ made \in Nat /\ length \in Nat
      /\ c \in Thread
  BY StoreFacts DEF TypeInv, WideTypeOK, DataTypeOK
<1>3. /\ \A x \in byID : x # o /\ x <= made
      /\ \A j \in Key : byKey[j] # o /\ byKey[j] <= made
      /\ \A t \in Thread : cur[t] # o /\ cur[t] <= made
  BY <1>2, StoreFacts DEF IInv, MadeOK, NoSession
<1>4. At("index")' = At("index") \cup {c} /\ At("unkey")' = At("unkey")
      /\ At("uncount")' = At("uncount") /\ c \notin Between
  BY <1>1, <1>2 DEF At, Between
<1>5. InUse' = InUse \cup {k} /\ k \notin InUse
  BY <1>1, <1>2, StoreFacts DEF InUse
<1>6. MadeOK'
  <2>1. \A x \in Session : x <= o => x = o \/ x <= made
    BY <1>2, StoreFacts
  <2>2. \A x \in Session : x <= o => key'[x] \in Key
    BY <1>1, <1>2, <2>1 DEF IInv, MadeOK
  <2>3. (\A x \in byID : x <= o) /\ (\A j \in Key : byKey'[j] <= o)
        /\ (\A t \in Thread : cur'[t] <= o)
    <3>1. \A x \in Session \cup {NoSession} : x <= made => x <= o
      BY <1>2, StoreFacts DEF NoSession
    <3>2. o <= o
      BY <1>2
    <3> QED
      BY <3>1, <3>2, <1>1, <1>2, <1>3
  <2> QED
    BY <2>2, <2>3, <1>1 DEF MadeOK
<1>7. KeyOfOwner'
  BY <1>1, <1>2, <1>3, <1>5 DEF IInv, KeyOfOwner, InUse
<1>8. \A t \in Between : /\ cur'[t] = cur[t] /\ cur[t] \in Session /\ cur[t] <= made
                         /\ key'[cur[t]] = key[cur[t]] /\ key[cur[t]] \in Key
                         /\ key[cur[t]] # k
  <2> TAKE t \in Between
  <2>1. t \in Thread /\ t # c /\ pc[t] \in {"index", "unkey"}
    BY <1>4 DEF Between, At
  <2>2. cur[t] \in Session /\ cur[t] <= made /\ cur[t] # o
    BY <2>1, <1>3 DEF TypeInv, BusyCur, Busy
  <2>3. cur'[t] = cur[t] /\ key'[cur[t]] = key[cur[t]]
    BY <2>1, <2>2, <1>1, <1>2
  <2>4. key[cur[t]] \in Key /\ byKey[key[cur[t]]] = cur[t]
    BY <2>2 DEF IInv, MadeOK, BetweenOwns
  <2>5. key[cur[t]] # k
    BY <2>2, <2>4, <1>1, StoreFacts
  <2> QED
    BY <2>2, <2>3, <2>4, <2>5
<1>9. Between' = Between \cup {c}
  BY <1>4 DEF Between
<1>10. cur'[c] = o /\ key'[o] = k /\ byKey'[k] = o
  BY <1>1, <1>2
<1>11. BetweenOwns'
  <2>1. \A t \in Between : cur'[t] \notin byID /\ byKey'[key'[cur'[t]]] = cur'[t]
                           /\ cur'[t] # o
    BY <1>1, <1>2, <1>3, <1>8 DEF IInv, BetweenOwns, Between, At
  <2> QED
    BY <2>1, <1>1, <1>3, <1>8, <1>9, <1>10 DEF IInv, BetweenOwns
<1>12. IndexesAgree'
  <2>1. \A x \in byID : byKey'[key'[x]] = x
    BY <1>1, <1>2, <1>3, StoreFacts DEF IInv, IndexesAgree, MadeOK
  <2>2. \A j \in InUse : byKey'[j] = byKey[j]
    BY <1>1, <1>2, <1>5
  <2>3. \A j \in InUse : byKey'[j] \in byID \/ \E t \in Between : cur'[t] = byKey'[j]
    BY <2>2, <1>8 DEF IInv, IndexesAgree, Between
  <2> QED
    BY <2>1, <2>3, <1>1, <1>5, <1>9, <1>10 DEF IndexesAgree, Between
<1>13. LengthExact'
  <2>1. Cardinality(InUse') = Cardinality(InUse) + 1
    BY <1>5, Finite, FS_AddElement
  <2> QED
    BY <2>1, <1>1, <1>2, <1>4, Finite DEF IInv, LengthExact
<1> QED
  BY <1>6, <1>7, <1>11, <1>12, <1>13 DEF IInv

LEMMA IIndexID ==
  ASSUME TypeInv, IInv, NEW c \in Client, IndexID(c)
  PROVE  IInv'
<1>1. /\ pc[c] = "index" /\ byID' = byID \cup {cur[c]}
      /\ pc' = [pc EXCEPT ![c] = "select"]
      /\ UNCHANGED <<byKey, length, made, key, cur>>
  BY DEF IndexID, Goto, sessionVars
<1>2. /\ pc \in [Thread -> ClientPlace \cup SweeperPlace \cup OuterPlace] /\ c \in Thread
  BY StoreFacts DEF TypeInv, WideTypeOK, DataTypeOK
<1>3. /\ At("index")' = At("index") \ {c} /\ At("unkey")' = At("unkey")
      /\ At("uncount")' = At("uncount") /\ c \in Between
      /\ Between' = Between \ {c} /\ InUse' = InUse
  BY <1>1, <1>2 DEF At, Between, InUse
<1>4. MadeOK' /\ KeyOfOwner'
  BY <1>1, <1>2, <1>3 DEF IInv, MadeOK, KeyOfOwner
<1>5. BetweenOwns'
  BY <1>1, <1>3 DEF IInv, BetweenOwns
<1>6. IndexesAgree'
  <2>1. \A k \in InUse : byKey[k] \in byID \/ \E t \in Between : cur[t] = byKey[k]
    BY DEF IInv, IndexesAgree, Between
  <2> QED
    BY <2>1, <1>1, <1>3 DEF IInv, IndexesAgree, BetweenOwns, Between
<1>7. LengthExact'
  BY <1>1, <1>3 DEF IInv, LengthExact
<1> QED
  BY <1>4, <1>5, <1>6, <1>7 DEF IInv

LEMMA IRemoveID ==
  ASSUME TypeInv, IInv, NEW t \in Thread, NEW o \in Session, RemoveID(t, o),
         pc[t] \in {"idle", "sweep"}
  PROVE  IInv'
<1>1. /\ o \in byID /\ byID' = byID \ {o}
      /\ pc' = [pc EXCEPT ![t] = "unkey"] /\ cur' = [cur EXCEPT ![t] = o]
      /\ UNCHANGED <<byKey, length, made, key>>
  BY DEF RemoveID, Known, Goto, sessionVars
<1>2. /\ pc \in [Thread -> ClientPlace \cup SweeperPlace \cup OuterPlace]
      /\ cur \in [Thread -> Session \cup {NoSession}]
  BY DEF TypeInv, WideTypeOK, DataTypeOK
<1>3. /\ At("index")' = At("index") /\ At("unkey")' = At("unkey") \cup {t}
      /\ At("uncount")' = At("uncount") /\ t \notin Between
      /\ Between' = Between \cup {t} /\ InUse' = InUse
  BY <1>1, <1>2 DEF At, Between, InUse
<1>4. \A u \in Between : cur'[u] = cur[u] /\ cur[u] # o
  BY <1>1, <1>2, <1>3 DEF IInv, BetweenOwns, Between, At
<1>5. cur'[t] = o /\ byKey[key[o]] = o
  BY <1>1, <1>2 DEF IInv, IndexesAgree
<1>6. MadeOK' /\ KeyOfOwner'
  BY <1>1, <1>2, <1>3 DEF IInv, MadeOK, KeyOfOwner
<1>7. BetweenOwns'
  BY <1>1, <1>3, <1>4, <1>5 DEF IInv, BetweenOwns
<1>8. IndexesAgree'
  <2>1. \A k \in InUse : byKey[k] \in byID \/ \E u \in Between : cur[u] = byKey[k]
    BY DEF IInv, IndexesAgree, Between
  <2> QED
    BY <2>1, <1>1, <1>3, <1>4, <1>5 DEF IInv, IndexesAgree, Between
<1>9. LengthExact'
  BY <1>1, <1>3 DEF IInv, LengthExact
<1> QED
  BY <1>6, <1>7, <1>8, <1>9 DEF IInv

LEMMA IRemoveKey ==
  ASSUME TypeInv, IInv, NEW t \in Thread, RemoveKey(t)
  PROVE  IInv'
<1> DEFINE o == cur[t]
           k == key[o]
<1>1. /\ pc \in [Thread -> ClientPlace \cup SweeperPlace \cup OuterPlace]
      /\ cur \in [Thread -> Session \cup {NoSession}]
      /\ byKey \in [Key -> Session \cup {NoSession}] /\ byID \in SUBSET Session
      /\ pc[t] = "unkey" /\ pc' = [pc EXCEPT ![t] = "uncount"]
      /\ UNCHANGED <<byID, length, made, key, cur>>
  BY DEF RemoveKey, LeadsTo, Goto, sessionVars, TypeInv, WideTypeOK, DataTypeOK
<1>2. t \in Between
  BY <1>1 DEF Between, At
<1>3. o \in Session /\ o <= made /\ k \in Key /\ byKey[k] = o /\ o \notin byID
  BY <1>1, <1>2 DEF TypeInv, BusyCur, Busy, IInv, MadeOK, BetweenOwns
<1>4. byKey' = [byKey EXCEPT ![k] = NoSession]
  BY <1>3 DEF RemoveKey, LeadsTo
<1>5. /\ At("index")' = At("index") /\ At("unkey")' = At("unkey") \ {t}
      /\ At("uncount")' = At("uncount") \cup {t} /\ t \notin At("uncount")
      /\ t \notin At("index") /\ Between' = Between \ {t}
  BY <1>1 DEF At, Between
<1>6. InUse' = InUse \ {k} /\ k \in InUse
  BY <1>1, <1>3, <1>4, StoreFacts DEF InUse
<1>7. \A u \in Between \ {t} : key[cur[u]] # k
  BY <1>2, <1>3 DEF IInv, BetweenOwns
<1>8. \A x \in byID : key[x] # k
  BY <1>3 DEF IInv, IndexesAgree
<1> HIDE DEF o, k
<1>9. MadeOK'
  <2>1. made \in Nat /\ NoSession <= made
    BY DEF TypeInv, WideTypeOK, DataTypeOK, NoSession
  <2> QED
    BY <2>1, <1>1, <1>3, <1>4 DEF IInv, MadeOK
<1>10. KeyOfOwner'
  BY <1>1, <1>4, <1>6 DEF IInv, KeyOfOwner, InUse
<1>11. BetweenOwns'
  BY <1>1, <1>4, <1>5, <1>7 DEF IInv, BetweenOwns
<1>12. IndexesAgree'
  <2>1. \A x \in byID : byKey'[key'[x]] = x
    BY <1>1, <1>4, <1>8 DEF IInv, IndexesAgree
  <2>2. \A j \in InUse \ {k} : byKey'[j] = byKey[j] /\ byKey[j] # o
    BY <1>1, <1>4 DEF IInv, KeyOfOwner, k, InUse
  <2>3. \A j \in InUse \ {k} : byKey[j] \in byID
                               \/ \E u \in Between \ {t} : cur[u] = byKey[j]
    BY <2>2 DEF IInv, IndexesAgree, Between, o
  <2> QED
    BY <2>1, <2>2, <2>3, <1>1, <1>5, <1>6 DEF IndexesAgree, Between
<1>13. LengthExact'
  <2>1. Cardinality(InUse') = Cardinality(InUse) - 1
    BY <1>6, Finite, FS_RemoveElement
  <2>2. Cardinality(At("uncount")') = Cardinality(At("uncount")) + 1
    BY <1>5, Finite, FS_AddElement
  <2> QED
    BY <2>1, <2>2, <1>1, Finite DEF IInv, LengthExact
<1> QED
  BY <1>9, <1>10, <1>11, <1>12, <1>13 DEF IInv

LEMMA IUncount ==
  ASSUME TypeInv, IInv, NEW t \in Thread, Uncount(t)
  PROVE  TypeInv' /\ IInv'
<1>1. /\ pc \in [Thread -> ClientPlace \cup SweeperPlace \cup OuterPlace]
      /\ pc[t] = "uncount" /\ pc' = [pc EXCEPT ![t] = "unselect"]
      /\ length' = length - 1 /\ length \in Nat
      /\ UNCHANGED <<byKey, byID, made, key, cur>>
  BY DEF Uncount, Goto, sessionVars, TypeInv, WideTypeOK, DataTypeOK
<1>2. /\ At("index")' = At("index") /\ At("unkey")' = At("unkey")
      /\ At("uncount")' = At("uncount") \ {t} /\ t \in At("uncount")
      /\ Between' = Between /\ InUse' = InUse
  BY <1>1 DEF At, Between, InUse
<1>3. Cardinality(At("uncount")') = Cardinality(At("uncount")) - 1
  BY <1>2, Finite, FS_RemoveElement
<1>4. Cardinality(At("uncount")') \in Nat
  BY <1>2, Finite, FS_RemoveElement, FS_CardinalityType
<1>5. LengthExact' /\ length' \in Nat
  BY <1>1, <1>2, <1>3, <1>4, Finite DEF IInv, LengthExact
<1>6. MadeOK' /\ KeyOfOwner' /\ BetweenOwns' /\ IndexesAgree'
  BY <1>1, <1>2 DEF IInv, MadeOK, KeyOfOwner, BetweenOwns, IndexesAgree, Between
<1>7. TypeInv'
  BY <1>1, <1>5, StoreFacts
     DEF Uncount, TypeInv, WideTypeOK, DataTypeOK, BusyCur, Asking, Busy,
         ClientPlace, SweeperPlace, OuterPlace, indexVars, sessionVars, sweepVars, localVars, Goto
<1> QED
  BY <1>5, <1>6, <1>7 DEF IInv

\* Found sessions have been made.
LEMMA LookupsMade ==
  ASSUME TypeInv, IInv, NEW r \in Request
  PROVE  /\ \A o \in ByLoaded(loaded, r) : o \in Session /\ o <= made
         /\ \A o \in ByLive(r) : o \in Session /\ o <= made
<1>1. r.key \in Key
  BY DEF Request
<1>2. byKey[r.key] <= made
  BY <1>1 DEF IInv, MadeOK
<1> QED
  BY <1>2, Lookups DEF TypeInv, ByLoaded, ByLive

LEMMA IQuietClient ==
  ASSUME TypeInv, IInv, NEW c \in Client,
         \/ \E r \in Request : FindLoaded(c, r)
         \/ FindLive(c) \/ Refuse(c) \/ DeleteReturns(c)
         \/ \E o \in Session : GetByID(c, o)
         \/ \E sc \in Scenario, k \in Key : Existing(c, sc, k)
         \/ LockNew(c) \/ LockTouch(c) \/ Unlock(c) \/ AddSelector(c)
  PROVE  IInv'
<1> USE DEF indexVars, sessionVars, Goto
<1>1. c \in Thread /\ NoSession <= made
  BY StoreFacts DEF TypeInv, WideTypeOK, DataTypeOK, NoSession
<1>2. CASE \E r \in Request : FindLoaded(c, r)
  <2>1. PICK r \in Request : FindLoaded(c, r)
    BY <1>2
  <2> QED
    BY <2>1, <1>1, LookupsMade, QuietStep DEF FindLoaded
<1>3. CASE FindLive(c)
  <2>1. req[c] \in Request
    BY <1>3 DEF FindLive, TypeInv, Asking
  <2> QED
    BY <2>1, <1>1, <1>3, LookupsMade, QuietStep DEF FindLive
<1>4. CASE Refuse(c)
  BY <1>1, <1>4, QuietStep DEF Refuse, Leave
<1>5. CASE DeleteReturns(c)
  BY <1>1, <1>5, QuietStep DEF DeleteReturns, Leave
<1>6. CASE \E o \in Session : GetByID(c, o)
  <2>1. \A o \in byID : o <= made
    BY DEF IInv, MadeOK
  <2> QED
    BY <2>1, <1>1, <1>6, QuietStep DEF GetByID
<1>7. CASE \E sc \in Scenario, k \in Key : Existing(c, sc, k)
  <2>1. \A k \in Key : byKey[k] \in Session \cup {NoSession} /\ byKey[k] <= made
    BY DEF IInv, MadeOK, TypeInv, WideTypeOK, DataTypeOK
  <2> QED
    BY <2>1, <1>1, <1>7, QuietStep DEF Existing
<1>8. CASE LockNew(c)
  BY <1>1, <1>8, QuietStep DEF LockNew
<1>9. CASE LockTouch(c)
  BY <1>1, <1>9, QuietStep DEF LockTouch
<1>10. CASE Unlock(c)
  BY <1>1, <1>10, QuietStep DEF Unlock, Leave
<1>11. CASE AddSelector(c)
  BY <1>1, <1>11, QuietStep DEF AddSelector
<1> QED
  BY <1>2, <1>3, <1>4, <1>5, <1>6, <1>7, <1>8, <1>9, <1>10, <1>11

LEMMA IQuietRest ==
  ASSUME TypeInv, IInv,
         \/ \E scs \in SUBSET Scenario : Reload(scs)
         \/ \E o \in Session : Expire(o) \/ Look(o)
         \/ BeginSweep \/ EndScan \/ EndSweep \/ SweepReturns
         \/ \E t \in Thread : RemoveSelector(t)
  PROVE  IInv'
<1> USE DEF indexVars, sessionVars, Goto
<1>1. Sweeper \in Thread /\ NoSession <= made /\ \A t \in Thread : cur[t] <= made
  BY StoreFacts DEF TypeInv, WideTypeOK, DataTypeOK, NoSession, IInv, MadeOK
<1>2. CASE \/ \E scs \in SUBSET Scenario : Reload(scs)
           \/ \E o \in Session : Expire(o) \/ Look(o)
  <2>1. UNCHANGED <<byKey, byID, length, made, key, pc, cur>>
    BY <1>2 DEF Reload, Expire, Look
  <2>2. \A q : At(q)' = At(q)
    BY <2>1 DEF At
  <2> QED
    BY <2>1, <2>2, <1>1, Quiet
<1>3. CASE BeginSweep
  BY <1>1, <1>3, QuietStep DEF BeginSweep
<1>4. CASE EndScan
  BY <1>1, <1>4, QuietStep DEF EndScan, Scanning
<1>5. CASE EndSweep
  BY <1>1, <1>5, QuietStep DEF EndSweep
<1>6. CASE SweepReturns
  BY <1>1, <1>6, QuietStep DEF SweepReturns
<1>7. CASE \E t \in Thread : RemoveSelector(t)
  BY <1>1, <1>7, QuietStep DEF RemoveSelector
<1> QED
  BY <1>2, <1>3, <1>4, <1>5, <1>6, <1>7

LEMMA StutterInv ==
  ASSUME TypeInv, IInv, UNCHANGED storeVars
  PROVE  TypeInv' /\ IInv'
<1> USE DEF storeVars, indexVars, sessionVars, sweepVars, localVars
<1>1. TypeInv'
  BY DEF TypeInv, WideTypeOK, DataTypeOK, BusyCur, Asking
<1>2. (\A q : At(q)' = At(q)) /\ \A t \in Thread : cur'[t] <= made
  BY DEF At, IInv, MadeOK
<1> QED
  BY <1>1, <1>2, Quiet

LEMMA SweepNextInv ==
  ASSUME TypeInv, IInv, NEW o \in Session, SweepNext(o)
  PROVE  IInv'
<1>1. CASE Known(o)
  BY <1>1, IRemoveID, StoreFacts DEF SweepNext
<1>2. CASE ~Known(o)
  <2>1. UNCHANGED <<byKey, byID, length, made, key, pc, cur>>
    BY <1>2 DEF SweepNext, indexVars, sessionVars
  <2>2. (\A q : At(q)' = At(q)) /\ \A t \in Thread : cur'[t] <= made
    BY <2>1 DEF At, IInv, MadeOK
  <2> QED
    BY <2>1, <2>2, Quiet
<1> QED
  BY <1>1, <1>2

LEMMA StoreStepInv == TypeInv /\ IInv /\ [StoreNext]_storeVars => TypeInv' /\ IInv'
<1> SUFFICES ASSUME TypeInv, IInv, [StoreNext]_storeVars PROVE TypeInv' /\ IInv'
  OBVIOUS
<1>1. CASE StoreBegins
  <2>1. CASE \E scs \in SUBSET Scenario : Reload(scs)
    BY <2>1, TypeBegin, IQuietRest
  <2>2. CASE \E o \in Session : Expire(o)
    BY <2>2, TypeBegin, IQuietRest
  <2>3. CASE BeginSweep
    BY <2>3, TypeBegin, IQuietRest
  <2>4. CASE \E c \in Client : \E r \in Request : FindLoaded(c, r)
    BY <2>4, TypeLookups, IQuietClient
  <2>5. CASE \E c \in Client : \E o \in Session : GetByID(c, o)
    BY <2>5, TypeLookups, IQuietClient
  <2>6. CASE \E c \in Client : \E o \in Session : BeginDelete(c, o)
    <3>1. IInv'
      BY <2>6, IRemoveID, StoreFacts DEF BeginDelete
    <3> QED
      BY <2>6, <3>1, TypeBegin
  <2>7. CASE \E c \in Client : \E sc \in Scenario, k \in Key : InsertKey(c, sc, k)
    BY <2>7, TypeCreate, IInsert
  <2> QED
    BY <1>1, <2>1, <2>2, <2>3, <2>4, <2>5, <2>6, <2>7 DEF StoreBegins
<1>2. ASSUME NEW c \in Client, StoreStep(c) PROVE TypeInv' /\ IInv'
  <2>1. CASE FindLive(c) \/ Refuse(c) \/ DeleteReturns(c) \/ LockNew(c)
             \/ LockTouch(c) \/ Unlock(c)
    BY <2>1, TypeLookups, IQuietClient
  <2>2. CASE \E sc \in Scenario, k \in Key : Existing(c, sc, k)
    BY <2>2, TypeLookups, IQuietClient
  <2>3. CASE \E sc \in Scenario, k \in Key : InsertKey(c, sc, k)
    BY <2>3, TypeCreate, IInsert
  <2>4. CASE IndexID(c)
    BY <2>4, TypeCreate, IIndexID
  <2>5. CASE AddSelector(c)
    BY <2>5, TypeCreate, IQuietClient
  <2>6. CASE RemoveKey(c)
    BY <2>6, TypeDelete, IRemoveKey, StoreFacts
  <2>7. CASE Uncount(c)
    BY <2>7, IUncount, StoreFacts
  <2>8. CASE RemoveSelector(c)
    BY <2>8, TypeDelete, IQuietRest, StoreFacts
  <2> QED
    BY <1>2, <2>1, <2>2, <2>3, <2>4, <2>5, <2>6, <2>7, <2>8
       DEF StoreStep, StoreCallStep
<1>3. CASE SweepStep
  <2>1. CASE \E o \in Session : Look(o)
    BY <2>1, TypeSweep, IQuietRest
  <2>2. CASE \E o \in Session : SweepNext(o)
    BY <2>2, TypeSweep, SweepNextInv
  <2>3. CASE EndScan \/ EndSweep \/ SweepReturns
    BY <2>3, TypeSweep, IQuietRest
  <2>4. CASE RemoveKey(Sweeper)
    BY <2>4, TypeDelete, IRemoveKey, StoreFacts
  <2>5. CASE Uncount(Sweeper)
    BY <2>5, IUncount, StoreFacts
  <2>6. CASE RemoveSelector(Sweeper)
    BY <2>6, TypeDelete, IQuietRest, StoreFacts
  <2> QED
    BY <1>3, <2>1, <2>2, <2>3, <2>4, <2>5, <2>6 DEF SweepStep, StoreSweepStep
<1>4. CASE UNCHANGED storeVars
  BY <1>4, StutterInv
<1> QED
  BY <1>1, <1>2, <1>3, <1>4 DEF StoreNext

\* The inductive invariant holds: the indices of the store are consistent in
\* every interleaving of Create, Delete and Sweep.
THEOREM StoreInvariant == StoreSpec => [](TypeInv /\ IInv)
<1>1. StoreInit => TypeInv /\ IInv
  BY TypeInit, IInit
<1>2. TypeInv /\ IInv /\ [StoreNext]_storeVars => (TypeInv /\ IInv)'
  BY StoreStepInv
<1> QED
  BY <1>1, <1>2, PTL DEF StoreSpec

\* The store alone has no client in another module's places.
LEMMA StorePlaces ==
  ASSUME TypeInv, StoreTypeOK, [StoreNext]_storeVars, TypeInv'
  PROVE  StoreTypeOK'
<1> USE StoreFacts DEF ClientPlace, Goto
<1>1. pc' \in [Thread -> ClientPlace \cup SweeperPlace \cup OuterPlace]
      /\ DataTypeOK' /\ pc'[Sweeper] \in SweeperPlace
  BY DEF TypeInv, WideTypeOK
<1>2. pc \in [Thread -> ClientPlace \cup SweeperPlace] /\ \A c \in Client : pc[c] \in ClientPlace
  BY DEF StoreTypeOK
<1>3. ASSUME NEW c \in Client
      PROVE  pc'[c] \in ClientPlace
  <2>1. CASE StoreBegins
    BY <1>2, <2>1 DEF StoreBegins, Reload, Expire, BeginSweep, FindLoaded, GetByID, BeginDelete,
       RemoveID, InsertKey
  <2>2. CASE \E b \in Client : StoreStep(b)
    BY <1>2, <2>2 DEF StoreStep, StoreCallStep, FindLive, Refuse, DeleteReturns, LockNew,
       LockTouch, Unlock, Existing, IndexID, AddSelector, RemoveKey, Uncount, RemoveSelector,
       InsertKey, Leave
  <2>3. CASE SweepStep
    BY <1>2, <2>3 DEF SweepStep, StoreSweepStep, Look, SweepNext, EndScan, EndSweep,
       SweepReturns, RemoveKey, Uncount, RemoveSelector, RemoveID
  <2> QED
    BY <1>2, <2>1, <2>2, <2>3 DEF StoreNext, storeVars
<1>4. pc' \in [Thread -> ClientPlace \cup SweeperPlace]
  BY <1>1, <1>3 DEF Thread
<1> QED
  BY <1>1, <1>3, <1>4 DEF StoreTypeOK

\* Type correctness of the store (store.go's declarations): counts never go
\* below zero.
THEOREM StoreTypeCorrect == StoreSpec => []StoreTypeOK
<1>1. StoreInit => StoreTypeOK
  BY StoreFacts DEF StoreInit, StoreTypeOK, DataTypeOK, ClientPlace, SweeperPlace, Thread
<1>2. TypeInv /\ StoreTypeOK /\ [StoreNext]_storeVars /\ TypeInv' => StoreTypeOK'
  BY StorePlaces
<1> QED
  BY <1>1, <1>2, StoreInvariant, PTL DEF StoreSpec

\* A live session owns its key, and no deleted session blocks one (Create and
\* Delete of store.go).
THEOREM IndexesAgreeHolds == StoreSpec => []IndexesAgree
<1>1. TypeInv /\ IInv => IndexesAgree
  BY DEF IInv
<1> QED
  BY <1>1, StoreInvariant, PTL

\* Store.length is exact up to the Deletes that have yet to count off.
THEOREM LengthExactHolds == StoreSpec => []LengthExact
<1>1. TypeInv /\ IInv => LengthExact
  BY DEF IInv
<1> QED
  BY <1>1, StoreInvariant, PTL

-----------------------------------------------------------------------------
(* The session limit. *)

\* length never exceeds the limit: Create looks before it counts.
UnderLimit == MaxSessions > 0 => length <= MaxSessions

LEMMA UnderLimitStep ==
  ASSUME TypeInv, [StoreNext]_storeVars, UnderLimit PROVE UnderLimit'
<1> USE DEF indexVars, sessionVars, sweepVars, localVars
<1>1. length \in Nat /\ MaxSessions \in Nat
  BY StoreAssumption DEF TypeInv, WideTypeOK, DataTypeOK
<1>2. ASSUME NEW c \in Client, NEW sc \in Scenario, NEW k \in Key, InsertKey(c, sc, k)
      PROVE  UnderLimit'
  BY <1>1, <1>2 DEF InsertKey, Room, UnderLimit
<1>3. ASSUME NEW t \in Thread, Uncount(t) PROVE UnderLimit'
  BY <1>1, <1>3 DEF Uncount, UnderLimit
<1>4. CASE length' = length
  BY <1>4 DEF UnderLimit
<1>5. CASE StoreBegins
  BY <1>2, <1>4, <1>5
     DEF StoreBegins, Reload, Expire, BeginSweep, FindLoaded, GetByID, BeginDelete,
         RemoveID
<1>6. ASSUME NEW c \in Client, StoreStep(c) PROVE UnderLimit'
  BY <1>2, <1>3, <1>4, <1>6, StoreFacts
     DEF StoreStep, StoreCallStep, FindLive, Refuse, DeleteReturns, LockNew,
         LockTouch, Unlock, Existing, IndexID, AddSelector, RemoveKey,
         RemoveSelector
<1>7. CASE SweepStep
  BY <1>3, <1>4, <1>7, StoreFacts
     DEF SweepStep, StoreSweepStep, Look, SweepNext, EndScan, EndSweep,
         SweepReturns, RemoveKey, RemoveSelector, RemoveID
<1>8. CASE UNCHANGED storeVars
  BY <1>4, <1>8 DEF storeVars
<1> QED
  BY <1>5, <1>6, <1>7, <1>8 DEF StoreNext

\* As many sessions by id as keys in use, at most: each live one owns a key.
LEMMA LiveByKey ==
  ASSUME TypeInv, IInv
  PROVE  IsFiniteSet(byID) /\ Cardinality(byID) <= Cardinality(InUse)
<1> DEFINE f == [o \in byID |-> key[o]]
<1>1. \A o \in byID : o \in Session /\ key[o] \in Key /\ byKey[key[o]] = o
  BY DEF TypeInv, WideTypeOK, DataTypeOK, IInv, MadeOK, IndexesAgree
<1>2. \A o \in byID : key[o] \in InUse
  BY <1>1, StoreFacts DEF InUse
<1>3. f \in Injection(byID, InUse)
  BY <1>1, <1>2 DEF Injection, IsInjective
<1> QED
  BY <1>3, Finite, FS_Injection

\* There are never more sessions than limits.max_sessions (Create, store.go:163).
THEOREM LimitHolds == StoreSpec => []LimitHeld
<1>1. StoreInit => UnderLimit
  BY StoreAssumption DEF StoreInit, UnderLimit
<1>2. TypeInv /\ IInv /\ [StoreNext]_storeVars /\ UnderLimit => UnderLimit'
  BY UnderLimitStep
<1>3. TypeInv /\ IInv /\ UnderLimit => LimitHeld
  <2> SUFFICES ASSUME TypeInv, IInv, UnderLimit, MaxSessions > 0
               PROVE  Cardinality(InUse) <= MaxSessions
                      /\ Cardinality(byID) <= MaxSessions
    BY DEF LimitHeld
  <2>1. length \in Nat /\ MaxSessions \in Nat
    BY StoreAssumption DEF TypeInv, WideTypeOK, DataTypeOK
  <2>2. Cardinality(InUse) <= length
    BY <2>1, Finite DEF IInv, LengthExact
  <2>3. Cardinality(byID) \in Nat /\ Cardinality(InUse) \in Nat
    BY LiveByKey, Finite, FS_CardinalityType
  <2> QED
    BY <2>1, <2>2, <2>3, LiveByKey DEF UnderLimit
<1> QED
  BY <1>1, <1>2, <1>3, StoreInvariant, PTL DEF StoreSpec

-----------------------------------------------------------------------------
(* The registry of selectors.  A Delete may come between the two sections of  *)
(* the Create of its session and drop a reference that is another session's,  *)
(* so the references cover the sessions only together with the Creates that   *)
(* have yet to add theirs.                                                    *)

Leaving == {"unkey", "uncount", "unselect"}

SelectorFor(o) == SelectorOf[scenario[o]]

LiveWith(sel) == {o \in byID : SelectorFor(o) = sel}
AddingWith(sel) == {t \in Thread : pc[t] = "select" /\ SelectorFor(cur[t]) = sel}
LeavingWith(sel) == {t \in Thread : pc[t] \in Leaving /\ SelectorFor(cur[t]) = sel}

Covered(sel) ==
  Cardinality(LiveWith(sel)) + Cardinality(LeavingWith(sel))
    <= refs[sel] + Cardinality(AddingWith(sel))

RefInv ==
  /\ \A o \in Session : o <= made => scenario[o] \in Scenario
  /\ \A sel \in Selector : Covered(sel)

LEMMA RefTypes ==
  ASSUME TypeInv, IInv
  PROVE  /\ pc \in [Thread -> ClientPlace \cup SweeperPlace \cup OuterPlace]
         /\ cur \in [Thread -> Session \cup {NoSession}]
         /\ refs \in [Selector -> Nat]
         /\ scenario \in [Session -> Scenario \cup {NoScenario}]
         /\ made \in 0 .. MaxMade
         /\ \A t \in Thread : pc[t] \in Busy => cur[t] \in Session
         /\ \A t \in Thread : cur[t] <= made
         /\ \A o \in byID : o \in Session /\ o <= made
BY DEF TypeInv, WideTypeOK, DataTypeOK, BusyCur, IInv, MadeOK

LEMMA RefFinite ==
  ASSUME TypeInv, IInv
  PROVE  \A sel : /\ IsFiniteSet(LiveWith(sel)) /\ Cardinality(LiveWith(sel)) \in Nat
                  /\ IsFiniteSet(AddingWith(sel)) /\ Cardinality(AddingWith(sel)) \in Nat
                  /\ IsFiniteSet(LeavingWith(sel)) /\ Cardinality(LeavingWith(sel)) \in Nat
<1>1. IsFiniteSet(byID) /\ IsFiniteSet(Thread)
  BY LiveByKey, StoreAssumption, FS_AddElement DEF Thread
<1>2. \A sel : /\ LiveWith(sel) \subseteq byID /\ AddingWith(sel) \subseteq Thread
               /\ LeavingWith(sel) \subseteq Thread
  BY DEF LiveWith, AddingWith, LeavingWith
<1> QED
  BY <1>1, <1>2, FS_Subset, FS_CardinalityType

\* A step outside the sections that count.
LEMMA RefQuiet ==
  ASSUME TypeInv, IInv, RefInv, UNCHANGED <<byID, refs>>,
         \A o \in Session : o <= made => scenario'[o] = scenario[o],
         \A o \in Session : o <= made' => scenario'[o] \in Scenario,
         \A t \in Thread :
           /\ pc'[t] = "select" <=> pc[t] = "select"
           /\ pc'[t] \in Leaving <=> pc[t] \in Leaving
           /\ pc[t] \in Leaving \cup {"select"} => cur'[t] = cur[t]
  PROVE  RefInv'
<1>1. ASSUME NEW t \in Thread, pc[t] \in Leaving \cup {"select"}
      PROVE  SelectorFor(cur[t])' = SelectorFor(cur[t])
  BY <1>1, RefTypes DEF SelectorFor, Leaving, Busy
<1>2. \A o \in byID : SelectorFor(o)' = SelectorFor(o)
  BY RefTypes DEF SelectorFor
<1>3. \A sel : /\ LiveWith(sel)' = LiveWith(sel) /\ AddingWith(sel)' = AddingWith(sel)
               /\ LeavingWith(sel)' = LeavingWith(sel)
  BY <1>1, <1>2 DEF LiveWith, AddingWith, LeavingWith
<1> QED
  BY <1>3 DEF RefInv, Covered

\* The step of one thread outside them.
LEMMA RefQuietStep ==
  ASSUME TypeInv, IInv, RefInv, NEW t \in Thread, NEW p, NEW o,
         UNCHANGED <<byID, refs, made, scenario>>,
         pc' = [pc EXCEPT ![t] = p],
         \/ pc[t] \notin Leaving \cup {"select"} /\ p \notin Leaving \cup {"select"}
            /\ (cur' = cur \/ cur' = [cur EXCEPT ![t] = o])
         \/ pc[t] \in Leaving /\ p \in Leaving /\ cur' = cur
  PROVE  RefInv'
<1>1. /\ \A o1 \in Session : o1 <= made => scenario'[o1] = scenario[o1]
      /\ \A o1 \in Session : o1 <= made' => scenario'[o1] \in Scenario
  BY DEF RefInv
<1>2. \A u \in Thread :
        /\ pc'[u] = "select" <=> pc[u] = "select"
        /\ pc'[u] \in Leaving <=> pc[u] \in Leaving
        /\ pc[u] \in Leaving \cup {"select"} => cur'[u] = cur[u]
  BY RefTypes DEF Leaving
<1> QED
  BY <1>1, <1>2, RefQuiet

LEMMA RefIndexID ==
  ASSUME TypeInv, IInv, RefInv, NEW c \in Client, IndexID(c)
  PROVE  RefInv'
<1> DEFINE o == cur[c]
           s == SelectorFor(o)
<1>1. /\ pc[c] = "index" /\ pc' = [pc EXCEPT ![c] = "select"] /\ byID' = byID \cup {o}
      /\ UNCHANGED <<refs, made, scenario, cur>> /\ c \in Thread
  BY StoreFacts DEF IndexID, Goto, sessionVars
<1>2. o \notin byID
  BY <1>1 DEF IInv, BetweenOwns, Between, At
<1>3. \A x : SelectorFor(x)' = SelectorFor(x)
  BY <1>1 DEF SelectorFor
<1>4. \A sel : /\ LeavingWith(sel)' = LeavingWith(sel)
               /\ LiveWith(sel)' = LiveWith(sel) \cup (IF sel = s THEN {o} ELSE {})
               /\ AddingWith(sel)' = AddingWith(sel) \cup (IF sel = s THEN {c} ELSE {})
               /\ o \notin LiveWith(sel) /\ c \notin AddingWith(sel)
  BY <1>1, <1>2, <1>3, RefTypes DEF LiveWith, AddingWith, LeavingWith, Leaving
<1> HIDE DEF o, s
<1>5. ASSUME NEW sel \in Selector PROVE Covered(sel)'
  <2>1. refs[sel] \in Nat /\ refs'[sel] = refs[sel]
    BY <1>1, RefTypes
  <2>2. CASE sel # s
    BY <1>4, <2>1, <2>2 DEF RefInv, Covered
  <2>3. CASE sel = s
    <3>1. /\ Cardinality(LiveWith(sel) \cup {o}) = Cardinality(LiveWith(sel)) + 1
          /\ Cardinality(AddingWith(sel) \cup {c}) = Cardinality(AddingWith(sel)) + 1
      BY <1>4, RefFinite, FS_AddElement
    <3>2. /\ LiveWith(sel)' = LiveWith(sel) \cup {o} /\ AddingWith(sel)' = AddingWith(sel) \cup {c}
          /\ LeavingWith(sel)' = LeavingWith(sel)
      BY <1>4, <2>3
    <3> QED
      BY <2>1, <3>1, <3>2, RefFinite DEF RefInv, Covered
  <2> QED
    BY <2>2, <2>3
<1> QED
  BY <1>1, <1>5 DEF RefInv

LEMMA RefAddSelector ==
  ASSUME TypeInv, IInv, RefInv, NEW c \in Client, AddSelector(c)
  PROVE  RefInv'
<1> DEFINE s == SelectorFor(cur[c])
<1>1. /\ pc[c] = "select" /\ pc' = [pc EXCEPT ![c] = "created"]
      /\ refs' = [refs EXCEPT ![s] = refs[s] + 1]
      /\ UNCHANGED <<byID, made, scenario, cur>> /\ c \in Thread
  BY StoreFacts DEF AddSelector, Goto, sessionVars, SelectorFor
<1>2. \A x : SelectorFor(x)' = SelectorFor(x)
  BY <1>1 DEF SelectorFor
<1>3. \A sel : /\ LeavingWith(sel)' = LeavingWith(sel) /\ LiveWith(sel)' = LiveWith(sel)
               /\ AddingWith(sel)' = AddingWith(sel) \ (IF sel = s THEN {c} ELSE {})
  BY <1>1, <1>2, RefTypes DEF LiveWith, AddingWith, LeavingWith, Leaving
<1>4. c \in AddingWith(s)
  BY <1>1 DEF AddingWith
<1> HIDE DEF s
<1>5. ASSUME NEW sel \in Selector PROVE Covered(sel)'
  <2>1. refs[sel] \in Nat /\ refs'[sel] = IF sel = s THEN refs[sel] + 1 ELSE refs[sel]
    BY <1>1, RefTypes
  <2>2. CASE sel # s
    BY <1>3, <2>1, <2>2 DEF RefInv, Covered
  <2>3. CASE sel = s
    <3>1. Cardinality(AddingWith(sel) \ {c}) = Cardinality(AddingWith(sel)) - 1
      BY <1>4, <2>3, RefFinite, FS_RemoveElement
    <3>2. /\ AddingWith(sel)' = AddingWith(sel) \ {c} /\ LiveWith(sel)' = LiveWith(sel)
          /\ LeavingWith(sel)' = LeavingWith(sel)
      BY <1>3, <2>3
    <3> QED
      BY <2>1, <2>3, <3>1, <3>2, RefFinite DEF RefInv, Covered
  <2> QED
    BY <2>2, <2>3
<1> QED
  BY <1>1, <1>5 DEF RefInv

LEMMA RefRemoveID ==
  ASSUME TypeInv, IInv, RefInv, NEW t \in Thread, NEW o \in Session, RemoveID(t, o),
         pc[t] \in {"idle", "sweep"}
  PROVE  RefInv'
<1> DEFINE s == SelectorFor(o)
<1>1. /\ o \in byID /\ byID' = byID \ {o}
      /\ pc' = [pc EXCEPT ![t] = "unkey"] /\ cur' = [cur EXCEPT ![t] = o]
      /\ UNCHANGED <<refs, made, scenario>>
  BY DEF RemoveID, Known, Goto, sessionVars
<1>2. \A x : SelectorFor(x)' = SelectorFor(x) /\ SelectorFor(cur'[t]) = s
  BY <1>1, RefTypes DEF SelectorFor
<1>3. \A u \in Thread : u # t => pc'[u] = pc[u] /\ cur'[u] = cur[u]
  BY <1>1, RefTypes
<1>4. pc'[t] = "unkey" /\ cur'[t] = o
  BY <1>1, RefTypes
<1>5. \A u \in Thread : SelectorFor(cur[u])' = SelectorFor(cur'[u])
  BY <1>1 DEF SelectorFor
<1>6. \A sel : /\ AddingWith(sel)' = AddingWith(sel)
               /\ LiveWith(sel)' = LiveWith(sel) \ (IF sel = s THEN {o} ELSE {})
               /\ LeavingWith(sel)' = LeavingWith(sel) \cup (IF sel = s THEN {t} ELSE {})
               /\ t \notin LeavingWith(sel)
  BY <1>1, <1>2, <1>3, <1>4, <1>5 DEF LiveWith, AddingWith, LeavingWith, Leaving
<1>7. o \in LiveWith(s)
  BY <1>1 DEF LiveWith
<1> HIDE DEF s
<1>8. ASSUME NEW sel \in Selector PROVE Covered(sel)'
  <2>1. refs[sel] \in Nat /\ refs'[sel] = refs[sel]
    BY <1>1, RefTypes
  <2>2. CASE sel # s
    BY <1>6, <2>1, <2>2 DEF RefInv, Covered
  <2>3. CASE sel = s
    <3>1. /\ Cardinality(LiveWith(sel) \ {o}) = Cardinality(LiveWith(sel)) - 1
          /\ Cardinality(LeavingWith(sel) \cup {t}) = Cardinality(LeavingWith(sel)) + 1
      BY <1>6, <1>7, <2>3, RefFinite, FS_AddElement, FS_RemoveElement
    <3>2. /\ LiveWith(sel)' = LiveWith(sel) \ {o} /\ LeavingWith(sel)' = LeavingWith(sel) \cup {t}
          /\ AddingWith(sel)' = AddingWith(sel)
      BY <1>6, <2>3
    <3> QED
      BY <2>1, <3>1, <3>2, RefFinite DEF RefInv, Covered
  <2> QED
    BY <2>2, <2>3
<1> QED
  BY <1>1, <1>8 DEF RefInv

LEMMA RefRemoveSelector ==
  ASSUME TypeInv, IInv, RefInv, NEW t \in Thread, RemoveSelector(t)
  PROVE  RefInv'
<1> DEFINE s == SelectorFor(cur[t])
<1>1. /\ pc[t] = "unselect" /\ refs' = [refs EXCEPT ![s] = Dropped(refs[s])]
      /\ \E p \in {"sweep", "deleted"} : pc' = [pc EXCEPT ![t] = p]
      /\ UNCHANGED <<byID, made, scenario, cur>>
  BY DEF RemoveSelector, Goto, sessionVars, SelectorFor
<1>2. \A x : SelectorFor(x)' = SelectorFor(x)
  BY <1>1 DEF SelectorFor
<1>3. pc'[t] \in {"sweep", "deleted"} /\ \A u \in Thread : u # t => pc'[u] = pc[u]
  BY <1>1, RefTypes
<1>4. \A sel : /\ AddingWith(sel)' = AddingWith(sel) /\ LiveWith(sel)' = LiveWith(sel)
               /\ LeavingWith(sel)' = LeavingWith(sel) \ (IF sel = s THEN {t} ELSE {})
  BY <1>1, <1>2, <1>3, RefTypes DEF LiveWith, AddingWith, LeavingWith, Leaving
<1>5. t \in LeavingWith(s)
  BY <1>1 DEF LeavingWith, Leaving
<1> HIDE DEF s
<1>6. ASSUME NEW sel \in Selector PROVE Covered(sel)'
  <2>1. /\ refs[sel] \in Nat /\ refs'[sel] = IF sel = s THEN Dropped(refs[sel]) ELSE refs[sel]
        /\ Dropped(refs[sel]) \in Nat /\ Dropped(refs[sel]) >= refs[sel] - 1
    BY <1>1, RefTypes DEF Dropped
  <2>2. CASE sel # s
    BY <1>4, <2>1, <2>2 DEF RefInv, Covered
  <2>3. CASE sel = s
    <3>1. Cardinality(LeavingWith(sel) \ {t}) = Cardinality(LeavingWith(sel)) - 1
      BY <1>5, <2>3, RefFinite, FS_RemoveElement
    <3>2. /\ LeavingWith(sel)' = LeavingWith(sel) \ {t} /\ LiveWith(sel)' = LiveWith(sel)
          /\ AddingWith(sel)' = AddingWith(sel)
      BY <1>4, <2>3
    <3> QED
      BY <2>1, <2>3, <3>1, <3>2, RefFinite DEF RefInv, Covered
  <2> QED
    BY <2>2, <2>3
<1> QED
  BY <1>1, <1>6 DEF RefInv

LEMMA RefInsert ==
  ASSUME TypeInv, IInv, RefInv, NEW c \in Client, NEW sc \in Scenario, NEW k \in Key,
         InsertKey(c, sc, k)
  PROVE  RefInv'
<1>1. /\ made' = made + 1 /\ made' \in Session /\ scenario' = [scenario EXCEPT ![made'] = sc]
      /\ pc[c] \in {"none", "idle"} /\ pc' = [pc EXCEPT ![c] = "index"]
      /\ cur' = [cur EXCEPT ![c] = made'] /\ UNCHANGED <<byID, refs>> /\ c \in Thread
  BY StoreFacts DEF InsertKey, Asks, Goto
<1>2. /\ \A o \in Session : o <= made => scenario'[o] = scenario[o]
      /\ \A o \in Session : o <= made' => scenario'[o] \in Scenario
  <2>1. \A o \in Session : o <= made => o # made'
    BY <1>1, RefTypes, StoreFacts
  <2>2. \A o \in Session : o <= made' => o <= made \/ o = made'
    BY <1>1, RefTypes, StoreFacts
  <2> QED
    BY <1>1, <2>1, <2>2, RefTypes DEF RefInv
<1>3. \A t \in Thread :
        /\ pc'[t] = "select" <=> pc[t] = "select"
        /\ pc'[t] \in Leaving <=> pc[t] \in Leaving
        /\ pc[t] \in Leaving \cup {"select"} => cur'[t] = cur[t]
  BY <1>1, RefTypes DEF Leaving
<1> QED
  BY <1>1, <1>2, <1>3, RefQuiet

\* The other steps of a client.
LEMMA RefClient ==
  ASSUME TypeInv, IInv, RefInv, NEW c \in Client,
         \/ \E r \in Request : FindLoaded(c, r)
         \/ \E o \in Session : GetByID(c, o)
         \/ \E sc \in Scenario, k \in Key : Existing(c, sc, k)
         \/ FindLive(c) \/ Refuse(c) \/ DeleteReturns(c)
         \/ LockNew(c) \/ LockTouch(c) \/ Unlock(c)
  PROVE  RefInv'
<1>1. UNCHANGED <<byID, refs, made, scenario>> /\ c \in Thread
  BY StoreFacts DEF FindLoaded, GetByID, Existing, FindLive, Refuse, DeleteReturns, LockNew,
     LockTouch, Unlock, indexVars, sessionVars
<1>2. pc[c] \notin Leaving \cup {"select"}
  BY DEF FindLoaded, GetByID, Existing, FindLive, Refuse, DeleteReturns, LockNew,
     LockTouch, Unlock, Leaving
<1>3. cur' = cur \/ \E o : cur' = [cur EXCEPT ![c] = o]
  BY DEF FindLoaded, GetByID, Existing, FindLive, Refuse, DeleteReturns, LockNew,
     LockTouch, Unlock, Leave
<1>4. \E p \in {"live", "none", "found", "idle", "entering", "locked"} :
        pc' = [pc EXCEPT ![c] = p]
  BY DEF FindLoaded, GetByID, Existing, FindLive, Refuse, DeleteReturns, LockNew,
     LockTouch, Unlock, Leave, Goto
<1>5. \A p \in {"live", "none", "found", "idle", "entering", "locked"} :
        p \notin Leaving \cup {"select"}
  BY DEF Leaving
<1> QED
  BY <1>1, <1>2, <1>3, <1>4, <1>5, RefQuietStep

\* The steps of Delete between its two sections that count, and of Sweep.
LEMMA RefSweep ==
  ASSUME TypeInv, IInv, RefInv,
         \/ \E t \in Thread : RemoveKey(t) \/ Uncount(t)
         \/ \E o \in Session : Look(o) \/ SweepNext(o)
         \/ EndScan \/ EndSweep \/ SweepReturns \/ BeginSweep
  PROVE  RefInv'
<1> USE DEF indexVars, sessionVars
<1>1. ASSUME NEW t \in Thread, RemoveKey(t) \/ Uncount(t) PROVE RefInv'
  <2>1. /\ UNCHANGED <<byID, refs, made, scenario, cur>> /\ pc[t] \in Leaving
        /\ \E p \in Leaving : pc' = [pc EXCEPT ![t] = p]
    BY <1>1 DEF RemoveKey, Uncount, Goto, Leaving
  <2> QED
    BY <2>1, RefQuietStep
<1>2. ASSUME NEW o \in Session, SweepNext(o), Known(o) PROVE RefInv'
  BY <1>2, RefRemoveID, StoreFacts DEF SweepNext
<1>3. CASE EndScan \/ EndSweep \/ SweepReturns \/ BeginSweep
  <2>1. /\ UNCHANGED <<byID, refs, made, scenario>>
        /\ pc[Sweeper] \in {"idle", "scan", "sweep", "swept"}
        /\ \E p \in {"idle", "scan", "sweep", "swept"} : pc' = [pc EXCEPT ![Sweeper] = p]
        /\ cur' = cur \/ cur' = [cur EXCEPT ![Sweeper] = NoSession]
    BY <1>3 DEF EndScan, EndSweep, SweepReturns, BeginSweep, Scanning, Goto
  <2>2. \A p \in {"idle", "scan", "sweep", "swept"} : p \notin Leaving \cup {"select"}
    BY DEF Leaving
  <2> QED
    BY <2>1, <2>2, StoreFacts, RefQuietStep
<1>4. CASE \E o \in Session : Look(o) \/ (SweepNext(o) /\ ~Known(o))
  <2>1. UNCHANGED <<byID, refs, made, scenario, pc, cur>>
    BY <1>4 DEF Look, SweepNext
  <2>2. \A o \in Session : o <= made' => scenario'[o] \in Scenario
    BY <2>1 DEF RefInv
  <2> QED
    BY <2>1, <2>2, RefQuiet
<1> QED
  BY <1>1, <1>2, <1>3, <1>4

LEMMA RefStep ==
  ASSUME TypeInv, IInv, RefInv, [StoreNext]_storeVars
  PROVE  RefInv'
<1>1. CASE UNCHANGED <<byID, refs, made, scenario, pc, cur>>
  <2>1. \A o \in Session : o <= made' => scenario'[o] \in Scenario
    BY <1>1 DEF RefInv
  <2> QED
    BY <1>1, <2>1, RefQuiet
<1>2. CASE StoreBegins
  <2>1. CASE (\E scs \in SUBSET Scenario : Reload(scs)) \/ \E o \in Session : Expire(o)
    BY <1>1, <2>1 DEF Reload, Expire, indexVars, sessionVars
  <2>2. ASSUME NEW c \in Client, NEW o \in Session, BeginDelete(c, o) PROVE RefInv'
    BY <2>2, RefRemoveID, StoreFacts DEF BeginDelete
  <2> QED
    BY <1>2, <2>1, <2>2, RefInsert, RefClient, RefSweep DEF StoreBegins
<1>3. ASSUME NEW c \in Client, StoreStep(c) PROVE RefInv'
  BY <1>3, RefClient, RefInsert, RefIndexID, RefAddSelector, RefSweep, RefRemoveSelector, StoreFacts
     DEF StoreStep, StoreCallStep
<1>4. CASE SweepStep
  BY <1>4, RefSweep, RefRemoveSelector, StoreFacts DEF SweepStep, StoreSweepStep
<1>5. CASE UNCHANGED storeVars
  BY <1>1, <1>5 DEF storeVars, indexVars, sessionVars
<1> QED
  BY <1>2, <1>3, <1>4, <1>5 DEF StoreNext

LEMMA RefInit == StoreInit => RefInv
<1> SUFFICES ASSUME StoreInit PROVE RefInv
  OBVIOUS
<1>1. \A o \in Session : ~(o <= made)
  BY DEF StoreInit, Session
<1>2. ASSUME NEW sel \in Selector PROVE Covered(sel)
  <2>1. LiveWith(sel) = {} /\ AddingWith(sel) = {} /\ LeavingWith(sel) = {}
    BY DEF StoreInit, LiveWith, AddingWith, LeavingWith, Leaving
  <2>2. refs[sel] = 0 /\ Cardinality({}) = 0
    BY FS_EmptySet DEF StoreInit
  <2> QED
    BY <2>1, <2>2 DEF Covered
<1> QED
  BY <1>1, <1>2 DEF RefInv

\* A session can be found by its own requests, whatever is loaded by now, unless
\* its selector looks at paths or a Create is about to add a reference to it
\* (LiveSelectors, store.go:295; Create and Delete, store.go:155).
THEOREM ReachableHolds == StoreSpec => []ReachableUnlessPath
<1>1. TypeInv /\ IInv /\ RefInv => ReachableUnlessPath
  <2> SUFFICES ASSUME TypeInv, IInv, RefInv, NEW o \in byID,
                      SelectorOf[scenario[o]] \notin PathSelector,
                      ~AddsSelector(SelectorOf[scenario[o]]),
                      NEW r \in OwnRequests(o)
               PROVE  o \in ByLive(r)
    BY DEF ReachableUnlessPath
  <2> DEFINE sel == SelectorOf[scenario[o]]
  <2>1. o \in Session /\ key[o] \in Key /\ byKey[key[o]] = o /\ sel \in Selector
    BY RefTypes, StoreFacts DEF RefInv, IInv, MadeOK, IndexesAgree
  <2>2. r.selector = sel /\ r.key = key[o]
    BY <2>1, StoreAssumption DEF OwnRequests, Extract
  <2>3. AddingWith(sel) = {} /\ o \in LiveWith(sel)
    BY DEF AddsSelector, At, AddingWith, SelectorFor, LiveWith
  <2>4. LiveWith(sel) # {} /\ Cardinality({}) = 0
    BY <2>3, FS_EmptySet
  <2>5. Cardinality(LiveWith(sel)) # 0
    BY <2>4, RefFinite, FS_EmptySet
  <2>6. refs[sel] \in Nat /\ refs[sel] > 0
    <3> HIDE DEF sel
    <3>1. Covered(sel) /\ refs[sel] \in Nat
      BY <2>1, RefTypes DEF RefInv
    <3>2. Cardinality(LiveWith(sel)) \in Nat /\ Cardinality(LeavingWith(sel)) \in Nat
      BY RefFinite
    <3>3. Cardinality(AddingWith(sel)) = 0
      BY <2>3, <2>4
    <3> QED
      BY <2>5, <3>1, <3>2, <3>3 DEF Covered
  <2>7. Extract(sel, pinned[sel], r) # NoKey
    BY <2>1, <2>2, StoreAssumption DEF Extract
  <2> HIDE DEF sel
  <2>8. o # NoSession
    BY <2>1, StoreFacts
  <2> QED
    BY <2>1, <2>2, <2>6, <2>7, <2>8 DEF ByLive
<1> QED
  BY <1>1, RefInit, RefStep, StoreInvariant, PTL DEF StoreSpec
=============================================================================
