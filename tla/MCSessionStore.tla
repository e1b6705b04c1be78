--------------------------- MODULE MCSessionStore ---------------------------
(* Small instances of SessionStore for TLC. *)
EXTENDS SessionStore, TLC

CONSTANTS k1, k2, sc1, sc2, header, path, p1, p2

\* Two scenarios with one selector and different rule paths, as two versions of
\* one file are.
SameHeader == [sc \in Scenario |-> header]
SamePath   == [sc \in Scenario |-> path]
MovedPaths == sc1 :> {p1} @@ sc2 :> {p2}
OnePath    == [sc \in Scenario |-> {p1}]

Symmetry == Permutations(Client) \cup Permutations(Key)

-----------------------------------------------------------------------------
(* Sessions nothing refers to any more count as one. *)

Referenced(o) ==
  \/ o \in byID \cup todo \cup found
  \/ \E k \in Key : byKey[k] = o
  \/ \E t \in Thread : cur[t] = o

View ==
  <<byKey, byID, length, refs, made,
    [sel \in Selector |-> IF refs[sel] > 0 THEN pinned[sel] ELSE NoScenario],
    [o \in Session |->
       IF Referenced(o) THEN <<key[o], scenario[o], o \in expired>> ELSE <<>>],
    lock, loaded, pc, cur, localVars, sweepVars>>
=============================================================================
