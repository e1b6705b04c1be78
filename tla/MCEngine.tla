------------------------------ MODULE MCEngine ------------------------------
(* Small instances of Engine for TLC. *)
EXTENDS Engine, TLC

CONSTANTS header, p1, new, processing, succeeded

OneSelector == [sc \in Scenario |-> header]
OnePath     == [sc \in Scenario |-> {p1}]
StartsNew   == [sc \in Scenario |-> new]

\* The scenario of docs/dsl.md: a payment is processed and succeeds.  A request
\* may process it once more, and processing schedules two webhooks.
PaymentRules ==
  [sc \in Scenario |-> new :> {processing} @@ processing :> {processing}
                         @@ succeeded :> {}]
PaymentEnter ==
  [sc \in Scenario |-> new :> <<>> @@ processing :> <<succeeded, NoState>>
                         @@ succeeded :> <<>>]

-----------------------------------------------------------------------------
(* Sessions and deliveries nothing refers to any more count as one. *)

Symmetry == Permutations(Client \ Worker)

Referenced(o) ==
  \/ o \in byID \cup todo \cup found
  \/ \E k \in Key : byKey[k] = o
  \/ \E t \in Thread : cur[t] = o

\* createSession is yet to record where it started.
Starting(o) == \E c \in Client : cur[c] = o /\ pc[c] \in {"index", "select", "created"}

\* The pending deliveries but for their numbers, each with how often it is there.
Unnumbered(d) == [d EXCEPT !.n = 1]
PendingBag ==
  [e \in {Unnumbered(d) : d \in pending} |->
     Cardinality({d \in pending : Unnumbered(d) = e})]

View ==
  <<byKey, byID, length, refs, made,
    [o \in Session |->
       IF Referenced(o)
         THEN <<key[o], scenario[o], o \in expired, state[o], epoch[o], history[o]>>
         ELSE <<>>],
    lock, loaded, pc, cur, localVars, sweepVars,
    [o \in Session |-> IF Starting(o) THEN start[o] ELSE NoState],
    PendingBag, left, room, IF replays < MaxReplays THEN recorded ELSE {},
    [c \in Client |-> IF hook[c] = NoHook THEN NoHook ELSE Unnumbered(hook[c])],
    moves, replays>>
=============================================================================
