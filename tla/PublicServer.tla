---------------------------- MODULE PublicServer ----------------------------
(***************************************************************************)
(* The public mock server (src/internal/server), which asks the scenario   *)
(* engine first, then the stateless endpoints, and answers the rest with a *)
(* 404 that explains itself and is kept in the 404 log                     *)
(* (src/internal/misslog).                                                 *)
(*                                                                         *)
(* One request is followed from the snapshot it reads to its answer, while *)
(* configs are loaded and other clients start, move and delete sessions.   *)
(* What those do to each other is in SessionStore and Engine; here a       *)
(* session is a key bound to a state of the scenario it pinned.            *)
(***************************************************************************)
EXTENDS Loading

CONSTANTS
  Disk,           \* what the config files may be at first
  Edited,         \* and what they may become
  Requests,       \* requests the app sends
  SessionKeys,    \* keys of sessions
  MaxSessions,    \* limits.max_sessions
  MaxCandidates,  \* 10 in write404
  LogSize,        \* the 404 log's ring
  MaxRequests,    \* bound: requests
  MaxReloads,     \* bound: loads after the first
  MaxMoves        \* bound: sessions others start or delete

ASSUME PublicServerAssumption ==
  /\ LogSize \in Nat \ {0} /\ MaxCandidates \in Nat /\ MaxSessions \in Nat
  /\ MaxRequests \in Nat /\ MaxReloads \in Nat /\ MaxMoves \in Nat
  /\ Empty \notin SessionKeys

VARIABLES
  snap,      \* the current snapshot, None before the first load
  sessions,  \* key -> session or None
  pc, req,   \* the request being handled, and where it is
  mine,      \* the snapshot it read
  mySession, \* the key of its session, Empty if it has none
  orphan,    \* that session, once it was deleted
  seen,      \* Outcome.State, once no rule of that state took the request
  known,     \* ghost: the sessions there were when it looked for its own
  answer,    \* the last answer, None while a request is handled
  misses,    \* Misses.ring, next and count, each miss the number of its request
  requests, reloads, moves  \* bounds

callVars == <<pc, req, mine, mySession, orphan, seen, known>>
bounds   == <<requests, reloads, moves>>
vars     == <<loadVars, snap, sessions, callVars, answer, misses, bounds>>

\* What the files compile to, if they are valid, and the sessions of that.
Files == Disk \cup Edited
Snapshots == {Compile(Merge(f)) : f \in {g \in Files : Loads(g)}}
Scenarios == UNION {ToSet(c.scenarios) : c \in Snapshots}

NewSession(sc, k, state) == [key |-> k, scenario |-> sc, state |-> state]

Sessions ==
  UNION {{NewSession(sc, k, n) : k \in SessionKeys, n \in DOMAIN sc.states} :
           sc \in Scenarios}

ASSUME FilesAssumption ==
  /\ \A files \in Files : AreFiles(files) /\ Merge(files) # None
  /\ IsSeq(StateOrder)
  /\ None \notin Snapshots \cup Sessions

R == INSTANCE Ring WITH Size <- LogSize, NoEntry <- None

NoSessions == [k \in SessionKeys |-> None]

Init ==
  /\ LoadInit
  /\ snap = None /\ sessions = NoSessions
  /\ pc = "idle" /\ req = None /\ mine = None
  /\ mySession = Empty /\ orphan = None /\ seen = Empty /\ known = NoSessions
  /\ answer = None /\ misses = R!EmptyRing
  /\ requests = 0 /\ reloads = 0 /\ moves = 0

-----------------------------------------------------------------------------
(* Loads: the first one starts the app; one that fails changes nothing. *)

Load ==
  /\ IF snap = None
       THEN stage = "idle" /\ UNCHANGED reloads /\ \E files \in Disk : BeginLoad(files)
       ELSE /\ reloads < MaxReloads /\ reloads' = reloads + 1
            /\ \E files \in Edited : BeginLoad(files)
  /\ UNCHANGED <<snap, sessions, callVars, answer, misses, requests, moves>>

LoadGoesOn ==
  /\ LoadStep
  /\ snap' = IF stage' = "accepted" THEN Compile(cfg) ELSE snap
  /\ UNCHANGED <<sessions, callVars, answer, misses, bounds>>

\* The admin API answers 500 when the load it asked for panics (Recoverer); a
\* panic at the start or of the watcher's reload ends the process.
Recover ==
  /\ stage = "panicked" /\ snap # None
  /\ stage' = "rejected"
  /\ UNCHANGED <<cfg, todo, queue, visited, warned, snap, sessions, callVars, answer,
                 misses, bounds>>

-----------------------------------------------------------------------------
(* Sessions. *)

Live == {k \in SessionKeys : sessions[k] # None}

HasRoom == Cardinality(Live) < MaxSessions

\* The first of some rules or endpoints, in declaration order, that takes a
\* request; 0 if none does.
Taker(rules, r) == SelectInSeq(rules, LAMBDA x : Match(x.when, r))

\* The rules of the state a session is in.
Rules(s) == s.scenario.states[s.state].on

\* findSession: the selectors of the loaded scenarios, in order, then those of
\* live sessions, in any.  The result holds every key that may be found.
FindSession(c, store, r) ==
  LET leads(sc) == LET k == Extract(sc, r) IN k \in SessionKeys /\ store[k] # None
      loaded == SelectInSeq(c.scenarios, leads)
  IN  IF loaded # 0 THEN {Extract(c.scenarios[loaded], r)}
      ELSE {Extract(store[k].scenario, r) :
              k \in {j \in SessionKeys : store[j] # None /\ leads(store[j].scenario)}}

\* Another client starts a session or deletes one.
OthersStart ==
  /\ snap # None /\ moves < MaxMoves /\ HasRoom
  /\ \E k \in SessionKeys \ Live, i \in DOMAIN snap.scenarios :
       \E n \in DOMAIN snap.scenarios[i].states :
         sessions' = [sessions EXCEPT ![k] = NewSession(snap.scenarios[i], k, n)]
  /\ moves' = moves + 1
  /\ UNCHANGED <<loadVars, snap, callVars, answer, misses, requests, reloads>>

OthersDelete ==
  /\ moves < MaxMoves
  /\ \E k \in Live :
       /\ sessions' = [sessions EXCEPT ![k] = None]
       /\ orphan' = IF k = mySession /\ orphan = None THEN sessions[k] ELSE orphan
  /\ moves' = moves + 1
  /\ UNCHANGED <<loadVars, snap, pc, req, mine, mySession, seen, known, answer,
                 misses, requests, reloads>>

\* Another request, or a webhook with a goto that was answered, moves one.
OthersMove ==
  /\ \E k \in Live :
       LET gotos == GotosOf(sessions[k].scenario.states[sessions[k].state])
       IN  \E i \in DOMAIN gotos : sessions' = [sessions EXCEPT ![k].state = gotos[i]]
  /\ UNCHANGED <<loadVars, snap, callVars, answer, misses, bounds>>

-----------------------------------------------------------------------------
(* handle, and Handle of the engine. *)

\* The name in the scenario header, Empty without one.
Header == Get(req.headers, mine.header)

\* A step of the request that leaves the rest of the server alone.
Quietly == UNCHANGED <<loadVars, snap, misses, bounds>>

Goto(label) ==
  /\ pc' = label
  /\ UNCHANGED <<req, mine, orphan, answer>>

Reply(a) ==
  /\ answer' = a
  /\ pc' = "idle" /\ mySession' = Empty /\ orphan' = None /\ seen' = Empty
  /\ UNCHANGED <<req, mine, known>>

Error(status) == [by |-> "error", status |-> status]

Arrive(r) ==
  /\ snap # None /\ pc = "idle" /\ requests < MaxRequests
  /\ requests' = requests + 1
  /\ req' = r /\ mine' = snap /\ pc' = "find" /\ answer' = None
  /\ UNCHANGED <<loadVars, snap, sessions, mySession, orphan, seen, known, misses,
                 reloads, moves>>

TooLarge ==
  /\ pc = "find" /\ req.body.kind = "huge"
  /\ Reply(Error(413)) /\ Quietly /\ UNCHANGED sessions

\* Without a session and a header the endpoints are next.
Find ==
  /\ pc = "find" /\ req.body.kind # "huge"
  /\ known' = sessions
  /\ LET found == FindSession(mine, sessions, req)
     IN  IF found # {} THEN Goto("session") /\ mySession' \in found
         ELSE Goto(IF Header = Empty THEN "endpoints" ELSE "create") /\ UNCHANGED mySession
  /\ Quietly /\ UNCHANGED <<sessions, seen>>

\* The scenario the header names, 0 if there is none of that name.
Named == SelectInSeq(mine.scenarios, LAMBDA sc : sc.id = Header)

NamedScenario == mine.scenarios[Named]

\* The key this request has for it.
NamedKey == Extract(NamedScenario, req)

\* There is no scenario of that name, no key for it, or no room.
CreateFails ==
  /\ pc = "create"
  /\ \/ Named = 0 /\ Reply(Error(404))
     \/ Named # 0 /\ NamedKey = Empty /\ Reply(Error(422))
     \/ /\ Named # 0 /\ NamedKey \in SessionKeys \ Live /\ ~HasRoom
        /\ Reply(Error(429))
  /\ Quietly /\ UNCHANGED sessions

\* Create returns the session that another call bound to the key meanwhile.
Create ==
  /\ pc = "create" /\ Named # 0
  /\ LET k == NamedKey
         new == NewSession(NamedScenario, k, NamedScenario.initial)
     IN  /\ k \in Live \/ (k \in SessionKeys /\ HasRoom)
         /\ sessions' = IF k \in Live THEN sessions ELSE [sessions EXCEPT ![k] = new]
         /\ mySession' = k
  /\ Goto("session") /\ Quietly /\ UNCHANGED <<seen, known>>

\* The request's session, which may have been deleted since it was found.
Mine == IF orphan = None THEN sessions[mySession] ELSE orphan

\* BUG: a session that was found is not compared with the header.
NoConflict == FALSE

\* The header names another scenario than the session's.
Conflict == Header \notin {Empty, Mine.scenario.id}

HeaderConflict ==
  /\ pc = "session" /\ Conflict
  /\ Reply(Error(409)) /\ Quietly /\ UNCHANGED sessions

\* WriteHeader of net/http panics below 100, which the router makes a 500.
Written(reply) ==
  IF reply.status = None THEN 200
  ELSE IF reply.status \in 1 .. 99 THEN 500 ELSE reply.status

\* handleInSession, under the session's lock.
HandleInSession ==
  /\ pc = "session" /\ ~Conflict /\ Taker(Rules(Mine), req) # 0
  /\ LET rule == Rules(Mine)[Taker(Rules(Mine), req)]
     IN  /\ sessions' = IF orphan # None \/ rule.goto = Empty THEN sessions
                        ELSE [sessions EXCEPT ![mySession].state = rule.goto]
         /\ Reply([by |-> "rule", status |-> Written(rule.reply),
                   scenario |-> Mine.scenario.id])
  /\ Quietly

\* Rendering the reply fails, of a rule or of an endpoint.
TemplateFails ==
  /\ \/ pc = "session" /\ ~Conflict /\ Taker(Rules(Mine), req) # 0
     \/ pc = "endpoints" /\ Taker(mine.endpoints, req) # 0
  /\ Reply(Error(500)) /\ Quietly /\ UNCHANGED sessions

\* No rule of the session's state takes the request.
FallThrough ==
  /\ pc = "session" /\ ~Conflict /\ Taker(Rules(Mine), req) = 0
  /\ seen' = Mine.state
  /\ Goto("endpoints") /\ Quietly /\ UNCHANGED <<sessions, mySession, known>>

-----------------------------------------------------------------------------
(* Endpoints, and the 404. *)

InSession == mySession # Empty

\* Outcome.ScenarioID.
ScenarioID == IF InSession THEN Mine.scenario.id ELSE Empty

HandleEndpoint ==
  /\ pc = "endpoints" /\ Taker(mine.endpoints, req) # 0
  /\ Reply([by |-> "endpoint", scenario |-> ScenarioID,
            status |-> Written(mine.endpoints[Taker(mine.endpoints, req)].reply)])
  /\ Quietly /\ UNCHANGED sessions

NoEndpoint ==
  /\ pc = "endpoints" /\ Taker(mine.endpoints, req) = 0
  /\ Goto("miss") /\ Quietly /\ UNCHANGED <<sessions, mySession, seen, known>>

\* BUG: the scenario of that name in the snapshot, whatever the session pinned.
LoadedScenario == SelectSeq(mine.scenarios, LAMBDA sc : sc.id = ScenarioID)

\* The scenario whose rules are explained: the session's, or after its deletion
\* the one of that name in the snapshot, if there is one.
Explained ==
  IF orphan = None THEN <<Mine.scenario>>
  ELSE SelectSeq(mine.scenarios, LAMBDA sc : sc.id = ScenarioID)

\* Why each rule of the state seen, and each endpoint while there is room, did
\* not take the request.
Reasons ==
  LET rules == IF InSession /\ Explained # <<>> /\ seen \in DOMAIN Head(Explained).states
                 THEN Head(Explained).states[seen].on ELSE <<>>
      room  == IF Len(rules) < MaxCandidates THEN MaxCandidates - Len(rules) ELSE 0
      all   == rules \o SubSeq(mine.endpoints, 1, IF room < Len(mine.endpoints) THEN room ELSE Len(mine.endpoints))
  IN  [i \in DOMAIN all |-> Explain(all[i].when, req)]

\* BUG: a state would take a request to the path of one of its rules.
PathMatchesState(st, r) ==
  \E i \in DOMAIN st.on : MatchPath(st.on[i].when.path, r.path)

MatchesState(st, r) == Taker(st.on, r) # 0

\* sessionlessRule: a scenario whose initial state would take the request, else
\* one any state of which would, the states sorted by name.
Advice ==
  LET starting == SelectInSeq(mine.scenarios,
                              LAMBDA sc : MatchesState(sc.states[sc.initial], req))
      taking(sc) == SelectInSeq(StateOrder, LAMBDA n :
                      n \in DOMAIN sc.states /\ MatchesState(sc.states[n], req))
      other == SelectInSeq(mine.scenarios, LAMBDA sc : taking(sc) # 0)
      advise(sc, state) == [scenario |-> sc, state |-> state, key |-> Extract(sc, req)]
  IN  IF starting # 0
        THEN advise(mine.scenarios[starting], mine.scenarios[starting].initial)
      ELSE IF other # 0
        THEN advise(mine.scenarios[other], StateOrder[taking(mine.scenarios[other])])
      ELSE None

\* write404, and misslog's Add.
Miss ==
  /\ pc = "miss"
  /\ Reply([by |-> "miss", status |-> 404, scenario |-> ScenarioID,
            reasons |-> Reasons, deleted |-> orphan # None,
            advice |-> IF InSession THEN None ELSE Advice])
  /\ misses' = R!Push(misses, [id |-> requests])
  /\ UNCHANGED <<loadVars, snap, sessions, bounds>>

\* A reset of the admin API.
ClearMisses ==
  /\ misses' = R!EmptyRing
  /\ UNCHANGED <<loadVars, snap, sessions, callVars, answer, bounds>>

-----------------------------------------------------------------------------
(* The specification. *)

Serve ==
  \/ \E r \in Requests : Arrive(r)
  \/ TooLarge \/ Find \/ CreateFails \/ Create
  \/ HeaderConflict \/ HandleInSession \/ TemplateFails \/ FallThrough
  \/ HandleEndpoint \/ NoEndpoint \/ Miss

\* What a load does before it ends nobody else sees, so nothing else needs to
\* happen meanwhile: it would be the same before or after.  One that panics may
\* be the end of everything.
Next ==
  \/ LoadGoesOn \/ Recover
  \/ /\ stage \notin {"walking", "panicked"}
     /\ Load \/ Serve \/ ClearMisses \/ OthersStart \/ OthersDelete \/ OthersMove

Spec == Init /\ [][Next]_vars

\* A load goes on by itself; requests come or not.
FairSpec == Spec /\ WF_vars(LoadGoesOn)

-----------------------------------------------------------------------------
(* Properties. *)

TypeOK ==
  /\ LoadTypeOK
  /\ pc \in {"idle", "find", "create", "session", "endpoints", "miss"}
  /\ mySession \in SessionKeys \cup {Empty}
  /\ pc = "session" => mySession # Empty /\ Mine # None
  /\ orphan # None => mySession # Empty /\ pc # "idle"
  /\ misses.next \in R!Slot /\ misses.count \in 0 .. LogSize

\* validate.go:219: what a config that was accepted leads sessions to is defined:
\* no session is ever in a state that its scenario lacks (handleInSession answers
\* 500 "internal" then, engine.go:185; that branch is not an action here because
\* of this), and each action it may run has its target.
SessionsRunnable ==
  \A k \in Live :
    LET s == sessions[k]
    IN  /\ s.state \in DOMAIN s.scenario.states
        /\ \A i \in DOMAIN s.scenario.states[s.state].enter :
             s.scenario.states[s.state].enter[i].target # None

\* load.go:130 and validate.go:91: a snapshot's limits are usable, given or by
\* default: without a worker nothing is sent, without a slot nothing is journaled,
\* and without an attempt a delivery has no outcome.
LimitsUsable ==
  snap # None =>
    /\ \A l \in DOMAIN snap.limits : snap.limits[l] >= 1
    /\ snap.limits.pending <= HardMaxPending
    /\ \A t \in DOMAIN snap.targets : snap.targets[t].attempts >= 1

\* engine.go:117: a request that names a scenario is never answered by a session
\* of another one, nor by an endpoint on behalf of such a session, also when
\* another call bound its key after it looked for a session.
HeaderHonoured ==
  answer # None /\ answer.by \in {"rule", "endpoint", "miss"} =>
    Header \in {Empty, answer.scenario}

\* server.go:161: "why each one rejected the request": a 404 lists no rule and no
\* endpoint that would take the request, although the session may have moved on
\* or a new version of its scenario been loaded meanwhile.  If the session was
\* deleted meanwhile as well, it may.
CandidatesRejected ==
  answer # None /\ answer.by = "miss" /\ ~answer.deleted =>
    \A i \in DOMAIN answer.reasons : answer.reasons[i] # NoReason

\* server.go:213: the 404 of a request without a session says which session to
\* start.  Started in the state it names, if that is the initial one, under the
\* key it names, that session is the one the same request then reaches, and one
\* of its rules takes it.
AdviceWorks ==
  answer # None /\ answer.by = "miss" /\ answer.advice # None =>
    LET a == answer.advice
        s == NewSession(a.scenario, a.key, a.state)
    IN  a.key \in SessionKeys =>
          /\ FindSession(mine, [known EXCEPT ![a.key] = s], req) = {a.key}
          /\ Taker(Rules(s), req) # 0

\* A config that was accepted can be run, and its warnings are right.
ConfigUsable == TypeOK /\ WarningsExact /\ SessionsRunnable /\ LimitsUsable

\* An answer names the right scenario, the true reasons and a way out.
AnswersHold == HeaderHonoured /\ CandidatesRejected /\ AdviceWorks

Recent == R!NewestFirst(misses)

Listed == INSTANCE RecentLog WITH Size <- LogSize, recent <- Recent

\* misslog.go:32: the 404 log is the list of the last LogSize misses since it was
\* cleared, newest first.
MissesAreRecent == Listed!RecentSpec

\* Every load ends, also that of a scenario whose states lead in circles.
LoadEnds == stage = "walking" ~> stage # "walking"
=============================================================================
