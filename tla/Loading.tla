------------------------------ MODULE Loading -------------------------------
(***************************************************************************)
(* Loading a config (src/internal/config/load.go, validate.go and Compile  *)
(* of src/internal/snapshot): the files are merged, defaults applied, the  *)
(* structure validated, the states no session enters warned about, and the *)
(* result compiled into a snapshot, or the load fails; a null in a list    *)
(* makes it panic.                                                         *)
(*                                                                         *)
(* Validation collects every error; only whether there is one matters      *)
(* here.  Everything else runs in one step, but the search for unreachable *)
(* states takes one per element of its queue.                              *)
(***************************************************************************)
EXTENDS Matching

CONSTANTS
  None,
  HardMaxPending, HardMaxAfter, HardMaxStates, HardMaxTTL,
  DefaultLimit,    \* what applyDefaults makes of a limit of 0
  DefaultAttempts  \* and of retry.attempts

ASSUME LoadingAssumption ==
  /\ HardMaxPending \in Nat \ {0} /\ HardMaxAfter \in Nat
  /\ HardMaxStates \in Nat /\ HardMaxTTL \in Nat
  /\ DefaultLimit \in 1 .. HardMaxPending /\ DefaultAttempts \in Nat \ {0}

VARIABLES
  stage,    \* of the load: idle, walking, rejected, accepted or panicked
  cfg,      \* the merged config being loaded
  todo,     \* scenarios whose states are still to be searched
  queue, visited,  \* of unreachableStates
  warned    \* the warnings: <<position of the scenario, state>>

loadVars == <<stage, cfg, todo, queue, visited, warned>>

LoadInit ==
  /\ stage = "idle" /\ cfg = None
  /\ todo = <<>> /\ queue = <<>> /\ visited = {} /\ warned = {}

-----------------------------------------------------------------------------
(* Files: a sequence, the root first and then what its globs include.  The *)
(* root also has targets, limits and the scenario header.                  *)

IsSeq(s) == s \in Seq(ToSet(s))

IsAction(a) ==
  a = [target |-> a.target, after |-> a.after, template |-> a.template, goto |-> a.goto]

IsState(st) ==
  /\ st = [enter |-> st.enter, on |-> st.on] /\ IsSeq(st.enter) /\ IsSeq(st.on)
  /\ \A i \in DOMAIN st.enter : st.enter[i] = None \/ IsAction(st.enter[i])

IsScenario(s) ==
  /\ s = [id |-> s.id, key |-> s.key, ttl |-> s.ttl, initial |-> s.initial,
          states |-> s.states]
  /\ \A n \in DOMAIN s.states : s.states[n] = None \/ IsState(s.states[n])

IsTarget(t) ==
  /\ t = [url |-> t.url, signing |-> t.signing, attempts |-> t.attempts,
          backoff |-> t.backoff]
  /\ t.attempts \in Int

\* The shape of what the decoder makes of files, whatever they say.  A null makes
\* a None of a list's item, of a state, a target or a reply.
AreFiles(files) ==
  /\ files # <<>> /\ IsSeq(files)
  /\ \A i \in DOMAIN files :
       /\ IsSeq(files[i].endpoints) /\ IsSeq(files[i].scenarios)
       /\ \A j \in DOMAIN files[i].scenarios :
            files[i].scenarios[j] = None \/ IsScenario(files[i].scenarios[j])
  /\ "pending" \in DOMAIN files[1].limits
  /\ \A l \in DOMAIN files[1].limits : files[1].limits[l] \in Int
  /\ \A t \in DOMAIN files[1].targets :
       files[1].targets[t] = None \/ IsTarget(files[1].targets[t])

\* Every file decodes strictly and says version: 1.
Decodes(files) == \A i \in DOMAIN files : files[i].decodes /\ files[i].version = 1

\* The load gets as far as markSources of the i-th file.
Reads(files, i) ==
  \A j \in 1 .. i : files[j].decodes /\ (j > 1 => files[j].version = 1)

\* A state with a null for an action or a rule.
NullInState(st) == st # None /\ None \in ToSet(st.enter) \cup ToSet(st.on)

\* markSources uses every item of the lists it gets, and validate every action and
\* rule of every state, whatever else is wrong.
Panics(files) ==
  \/ \E i \in DOMAIN files :
       Reads(files, i) /\ None \in ToSet(files[i].endpoints) \cup ToSet(files[i].scenarios)
  \/ /\ Reads(files, Len(files))
     /\ \E i \in DOMAIN files : \E s \in ToSet(files[i].scenarios) :
          \E n \in DOMAIN s.states : NullInState(s.states[n])

Defaulted(n) == IF n = 0 THEN DefaultLimit ELSE n

\* resolveIncludes, applyDefaults.
Merge(files) ==
  LET root == files[1]
  IN  [header    |-> root.header,
       limits    |-> [l \in DOMAIN root.limits |-> Defaulted(root.limits[l])],
       targets   |-> [t \in DOMAIN root.targets |->
                       IF root.targets[t] = None THEN None
                       ELSE [root.targets[t] EXCEPT
                               !.attempts = IF @ = 0 THEN DefaultAttempts ELSE @]],
       endpoints |-> FlattenSeq([i \in DOMAIN files |-> files[i].endpoints]),
       scenarios |-> FlattenSeq([i \in DOMAIN files |-> files[i].scenarios])]

-----------------------------------------------------------------------------
(* validate. *)

ValidTarget(t) ==
  /\ t # None
  /\ t.url = "http"
  /\ t.signing \in {"none", "complete"}
  /\ t.attempts >= 1 /\ t.backoff >= 0

\* BUG: the limits are only capped.
LimitsCapped(l) == l.pending <= HardMaxPending

ValidLimits(l) == l.pending <= HardMaxPending /\ \A k \in DOMAIN l : l[k] >= 0

\* Exactly one operator per body condition; a path of it starts with $.
ValidWhen(w) ==
  /\ w.method # Empty /\ w.path.slash
  /\ \A i \in DOMAIN w.body : w.body[i].path.dollar /\ Cardinality(w.body[i].ops) = 1

\* 1 to 99 pass too, whatever the message says.
ValidReply(r) ==
  /\ r # None
  /\ r.status # None => r.status \in 0 .. 599
  /\ r.template # "huge"

\* A body selector's path is looked at up to its $, and compiled nowhere.  What a
\* path selector names is written like the parameter of a pattern.
ValidSelector(sel) ==
  /\ sel.kind \in {"body", "header", "query", "path"}
  /\ sel.kind = "body" => sel.arg.dollar
  /\ sel.kind = "path" => sel.arg.kind = "param"
  /\ sel.kind \in {"header", "query"} => sel.arg # Empty

\* BUG: a goto is not looked up.
AnyGoto(s, g) == TRUE

ValidGoto(s, g) == g # Empty => g \in DOMAIN s.states

\* An action without a webhook has no target.
ValidAction(c, s, a) ==
  /\ a.target \in DOMAIN c.targets \ {Empty}
  /\ a.after \in 0 .. HardMaxAfter
  /\ a.template # "huge"
  /\ ValidGoto(s, a.goto)

ValidRule(s, r) == ValidWhen(r.when) /\ ValidReply(r.reply) /\ ValidGoto(s, r.goto)

ValidScenario(c, s) ==
  /\ s.id # Empty /\ ValidSelector(s.key)
  /\ s.ttl \in 0 .. HardMaxTTL
  /\ DOMAIN s.states # {} /\ Cardinality(DOMAIN s.states) <= HardMaxStates
  /\ s.initial \in DOMAIN s.states
  /\ \A n \in DOMAIN s.states :
       /\ s.states[n] # None
       /\ \A i \in DOMAIN s.states[n].enter : ValidAction(c, s, s.states[n].enter[i])
       /\ \A i \in DOMAIN s.states[n].on : ValidRule(s, s.states[n].on[i])

DistinctIDs(seq) == \A i, j \in DOMAIN seq : seq[i].id = seq[j].id => i = j

Valid(c) ==
  /\ \A t \in DOMAIN c.targets : ValidTarget(c.targets[t])
  /\ ValidLimits(c.limits)
  /\ DistinctIDs(c.endpoints) /\ DistinctIDs(c.scenarios)
  /\ \A i \in DOMAIN c.endpoints :
       /\ c.endpoints[i].id # Empty
       /\ ValidWhen(c.endpoints[i].when) /\ ValidReply(c.endpoints[i].reply)
  /\ \A i \in DOMAIN c.scenarios : ValidScenario(c, c.scenarios[i])

\* Load returns a config.
Loads(files) == ~Panics(files) /\ Decodes(files) /\ Valid(Merge(files))

-----------------------------------------------------------------------------
(* Compile. *)

CompilesReply(r) == r.template # "bad"

CompilesScenario(s) ==
  \A n \in DOMAIN s.states :
    /\ \A i \in DOMAIN s.states[n].enter : s.states[n].enter[i].template # "bad"
    /\ \A i \in DOMAIN s.states[n].on :
         /\ WhenCompiles(s.states[n].on[i].when)
         /\ CompilesReply(s.states[n].on[i].reply)

Compiles(c) ==
  /\ \A i \in DOMAIN c.endpoints :
       WhenCompiles(c.endpoints[i].when) /\ CompilesReply(c.endpoints[i].reply)
  /\ \A i \in DOMAIN c.scenarios : CompilesScenario(c.scenarios[i])

\* Actions get hold of their target.
CompileState(c, st) ==
  [st EXCEPT !.enter = [i \in DOMAIN st.enter |->
                          [st.enter[i] EXCEPT !.target = c.targets[@]]]]

Compile(c) ==
  [c EXCEPT !.scenarios = [i \in DOMAIN c.scenarios |->
     [c.scenarios[i] EXCEPT !.states =
        [n \in DOMAIN @ |-> CompileState(c, @[n])]]]]

-----------------------------------------------------------------------------
(* unreachableStates. *)

\* What is left of a sequence without the members of a set.
Without(s, set) ==
  LET left[i \in 0 .. Len(s)] ==
        IF i = 0 THEN <<>>
        ELSE IF s[i] \in set THEN left[i - 1] ELSE Append(left[i - 1], s[i])
  IN  left[Len(s)]

RuleGotos(st)  == [i \in DOMAIN st.on |-> st.on[i].goto]
EnterGotos(st) == [i \in DOMAIN st.enter |-> st.enter[i].goto]

\* The gotos of a state in the order of the search, enter actions first.
GotosOf(st) == Without(EnterGotos(st) \o RuleGotos(st), {Empty})

\* BUG: only rules lead to other states.
RuleGotosOf(st) == Without(RuleGotos(st), {Empty})

Successors(st) == GotosOf(st)

\* BUG: a state seen before stays at the head of the queue.
RestUnlessSeen(q) == IF Head(q) \in visited THEN q ELSE Tail(q)

Rest(q) == Tail(q)

\* The search begins for the scenario at the head of todo.
Start(scenarios) ==
  /\ todo' = scenarios
  /\ queue' = IF scenarios = <<>> THEN <<>> ELSE <<Head(scenarios).initial>>
  /\ visited' = {}

BeginLoad(files) ==
  /\ stage \notin {"walking", "panicked"}
  /\ warned' = {}
  /\ IF Loads(files)
       THEN /\ stage' = "walking"
            /\ cfg' = Merge(files)
            /\ Start(Merge(files).scenarios)
       ELSE /\ stage' = IF Panics(files) THEN "panicked" ELSE "rejected"
            /\ cfg' = None /\ todo' = <<>> /\ queue' = <<>> /\ visited' = {}

WalkState ==
  /\ stage = "walking" /\ queue # <<>>
  /\ LET n == Head(queue)
         st == Head(todo).states
         next == Without(IF n \in DOMAIN st THEN Successors(st[n]) ELSE <<>>,
                         visited \cup {n})
     IN  /\ queue' = Rest(queue) \o (IF n \in visited THEN <<>> ELSE next)
         /\ visited' = visited \cup {n}
  /\ UNCHANGED <<stage, cfg, todo, warned>>

\* What the search has not visited is warned about.
WalkedScenario ==
  /\ stage = "walking" /\ queue = <<>> /\ todo # <<>>
  /\ warned' = warned \cup {<<Head(todo).id, n>> :
                              n \in DOMAIN Head(todo).states \ visited}
  /\ Start(Tail(todo))
  /\ UNCHANGED <<stage, cfg>>

EndLoad ==
  /\ stage = "walking" /\ todo = <<>>
  /\ stage' = IF Compiles(cfg) THEN "accepted" ELSE "rejected"
  /\ UNCHANGED <<cfg, todo, queue, visited, warned>>

LoadStep == WalkState \/ WalkedScenario \/ EndLoad

-----------------------------------------------------------------------------
(* Properties. *)

LoadTypeOK ==
  /\ stage \in {"idle", "walking", "rejected", "accepted", "panicked"}
  /\ \A i \in DOMAIN queue : queue[i] \in DOMAIN Head(todo).states
  /\ visited # {} => visited \subseteq DOMAIN Head(todo).states
  /\ warned # {} => cfg # None

\* The states of a scenario that can be entered from the initial one: the least
\* set that holds it and every state an action or a rule of a member leads to.
Reachable(s) ==
  LET closed == {S \in SUBSET DOMAIN s.states :
                   /\ s.initial \in S
                   /\ \A n \in S : \A i \in DOMAIN GotosOf(s.states[n]) :
                        GotosOf(s.states[n])[i] \in S}
  IN  {n \in DOMAIN s.states : \A S \in closed : n \in S}

\* validate.go:257: the search, which keeps no record of what is already queued,
\* warns about exactly the states that no transition leads to.
WarningsExact ==
  stage = "accepted" =>
    warned = UNION {{<<cfg.scenarios[i].id, n>> : n \in DOMAIN cfg.scenarios[i].states
                                                    \ Reachable(cfg.scenarios[i])} :
                      i \in DOMAIN cfg.scenarios}
=============================================================================
