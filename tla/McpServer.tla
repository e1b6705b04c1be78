----------------------------- MODULE McpServer ------------------------------
(***************************************************************************)
(* The MCP server (src/internal/mcp): tool calls of an agent, which run    *)
(* concurrently, choose an engine on first use, an external one or one     *)
(* embedded in this process; load_config replaces the embedded engine.     *)
(*                                                                         *)
(* One action per section under Server.mu and, while load_config or the    *)
(* first call holds the lock, one per step that looks at files, ports or   *)
(* the external engine, which change meanwhile.  The engine itself is only *)
(* a port and the config it serves.                                        *)
(***************************************************************************)
EXTENDS Integers, FiniteSets

CONSTANTS
  Call,        \* tool calls in progress
  Path,        \* config files an agent may load
  Default,     \* Options.ConfigPath
  ConfigSet,   \* Options.ConfigSet: a missing Default is an error
  External,    \* the external engine
  Served,      \* its config file
  Port,        \* TCP ports
  ConfigPort,  \* the public port every config names
  None,
  Engine,      \* embedded engines; the name of a stopped one is used again
  MaxChanges   \* bound: changes of the outside world

ASSUME McpAssumption ==
  /\ Default \in Path /\ Served \in Path
  /\ ConfigSet \in BOOLEAN
  /\ ConfigPort \in Port /\ "any" \notin Port
  /\ None \notin Path \cup Port \cup Call \cup Engine
  /\ IsFiniteSet(Engine) /\ Cardinality(Engine) >= 3
  /\ External \notin Engine /\ MaxChanges \in Nat

\* config.Load rejects a file, or only snapshot.Compile does, or it is missing.
FileKind == {"good", "rejected", "uncompilable", "missing"}

VARIABLES
  file,        \* what each config file is like
  busy,        \* ports other processes have
  up,          \* the external engine answers
  changes,     \* bound: changes so far
  writer,      \* who holds Server.mu exclusively
  readers,     \* who holds it for reading
  ready,       \* Server.ready
  mode,        \* Server.mode
  cl,          \* Server.cl: the engine the client talks to
  app,         \* Server.app
  configPath,  \* Server.configPath
  configErr,   \* Server.configErr is set
  alive,       \* the embedded engines that run
  port,        \* their public ports
  conf,        \* what they serve: a path, or None for the placeholder
  pc, local,   \* where each call is, and its locals
  panicked,    \* a call dereferenced a nil pointer
  told         \* ghost: the port the app was told, by an engine with a config

world  == <<file, busy, up, changes>>
lock   == <<writer, readers>>
choice == <<ready, mode, cl, app, configPath, configErr>>
engines == <<alive, port, conf, told>>
calls  == <<pc, local, panicked>>
vars   == <<world, lock, choice, engines, calls>>

\* The tool, load_config's path, startEmbedded's explicit flag, port and path,
\* and what the call answered.
NoLocal == [op |-> "none", path |-> None, explicit |-> FALSE, want |-> None,
            use |-> None, answer |-> "none"]

Init ==
  /\ file \in [Path -> FileKind]
  /\ busy \in SUBSET {ConfigPort}
  /\ up \in BOOLEAN
  /\ changes = 0
  /\ writer = None /\ readers = {}
  /\ ready \in BOOLEAN   \* Options.AdminURL is given
  /\ mode = IF ready THEN "external" ELSE "none"
  /\ cl = IF ready THEN External ELSE None
  /\ app = None /\ configPath = None /\ configErr = FALSE
  /\ alive = {} /\ told = None
  /\ port = [e \in Engine |-> None]
  /\ conf = [e \in Engine |-> None]
  /\ pc = [c \in Call |-> "idle"]
  /\ local = [c \in Call |-> NoLocal]
  /\ panicked = FALSE

-----------------------------------------------------------------------------
(* The outside world. *)

Used == busy \cup {port[e] : e \in alive}

Change ==
  /\ changes < MaxChanges
  /\ changes' = changes + 1
  /\ \/ \E p \in Path, k \in FileKind :
          file' = [file EXCEPT ![p] = k] /\ UNCHANGED <<busy, up>>
     \/ \E q \in Port \ Used : busy' = busy \cup {q} /\ UNCHANGED <<file, up>>
     \/ \E q \in busy : busy' = busy \ {q} /\ UNCHANGED <<file, up>>
     \/ up' = ~up /\ UNCHANGED <<file, busy>>
  /\ UNCHANGED <<lock, choice, engines, calls>>

-----------------------------------------------------------------------------
(* Calls, and the lock. *)

Goto(c, from, to) == pc[c] = from /\ pc' = [pc EXCEPT ![c] = to]

\* Any tool that needs an engine, except load_config.
ToolCall(c) ==
  /\ Goto(c, "idle", "resolve")
  /\ local' = [local EXCEPT ![c] = [NoLocal EXCEPT !.op = "tool"]]
  /\ UNCHANGED <<world, lock, choice, engines, panicked>>

\* loadConfig goes on only with a file that validateConfig loads and compiles.
LoadCall(c, p) ==
  /\ file[p] = "good"
  /\ Goto(c, "idle", "resolve")
  /\ local' = [local EXCEPT ![c] = [NoLocal EXCEPT !.op = "load", !.path = p]]
  /\ UNCHANGED <<world, lock, choice, engines, panicked>>

\* BUG: load_config does not wait for the tools that use the engine.
NoWriter == writer = None

\* mu.Lock() succeeds.
Unlocked == writer = None /\ readers = {}

\* Where a call goes once the engine is chosen.
Then(c) == IF local[c].op = "load" THEN "load" ELSE "use"

\* The call is over; answer is what it tells the agent.
Answer(c, answer) ==
  /\ pc' = [pc EXCEPT ![c] = "idle"]
  /\ local' = [local EXCEPT ![c] = [NoLocal EXCEPT !.answer = answer]]

-----------------------------------------------------------------------------
(* resolve. *)

ResolveReady(c) ==
  /\ writer = None
  /\ Goto(c, "resolve", IF ready THEN Then(c) ELSE "choose")
  /\ UNCHANGED <<world, lock, choice, engines, local, panicked>>

ChooseLock(c) ==
  /\ Unlocked
  /\ Goto(c, "choose", "choosing")
  /\ writer' = c
  /\ UNCHANGED <<world, readers, choice, engines, local, panicked>>

\* BUG: the second look at ready, under the lock, is forgotten.
ForgottenLook == FALSE

\* Another call was first.
Chosen == ready

AlreadyChosen(c) ==
  /\ Chosen
  /\ Goto(c, "choosing", Then(c))
  /\ writer' = None
  /\ UNCHANGED <<world, readers, choice, engines, local, panicked>>

UseExternal(c) ==
  /\ ~Chosen /\ up
  /\ Goto(c, "choosing", Then(c))
  /\ writer' = None
  /\ ready' = TRUE /\ mode' = "external" /\ cl' = External
  /\ UNCHANGED <<world, readers, app, configPath, configErr, engines, local,
                 panicked>>

UseEmbedded(c) ==
  /\ ~Chosen /\ ~up
  /\ Goto(c, "choosing", "starting")
  /\ local' = [local EXCEPT ![c].use = Default, ![c].explicit = ConfigSet]
  /\ UNCHANGED <<world, lock, choice, engines, panicked>>

-----------------------------------------------------------------------------
(* startEmbedded.  local[c].want is its port: None for 0, "any" for -1. *)

\* The config is looked at, and the port chosen.
StartCheck(c) ==
  LET l == local[c]
      usable == file[l.use] \in {"good", "uncompilable"}
      taken == ConfigPort \in Used
  IN  /\ Goto(c, "starting", "building")
      /\ configErr' = (~usable /\ (file[l.use] # "missing" \/ l.explicit))
      /\ local' = [local EXCEPT
           ![c].use = IF usable THEN @ ELSE None,
           ![c].want = IF @ = None /\ (~usable \/ taken) THEN "any" ELSE @]
      /\ UNCHANGED <<world, lock, ready, mode, cl, app, configPath, engines,
                     panicked>>

\* app.New loads and compiles what is there by now.
Builds(c) == local[c].use # None => file[local[c].use] = "good"

\* BUG: the port asked for is taken for the one the listener got.
AskedPort(c) == {local[c].want} \ Used

\* The ports the public listener can bind.
Bindable(c) ==
  CASE local[c].want = "any" -> Port \ Used
    [] local[c].want = None  -> {ConfigPort} \ Used
    [] OTHER                 -> {local[c].want} \ Used

Build(c) ==
  /\ Builds(c)
  /\ Goto(c, "building", "binding")
  /\ UNCHANGED <<world, lock, choice, engines, local, panicked>>

\* An error of app.New or Start: nothing of Server changes.  A first call leaves
\* ready unset; load_config has stopped the old engine before.
StartFails(c) ==
  /\ \/ pc[c] = "building" /\ ~Builds(c)
     \/ pc[c] = "binding" /\ Bindable(c) = {}
  /\ Answer(c, "failed")
  /\ writer' = None
  /\ UNCHANGED <<world, readers, choice, engines, panicked>>

\* BUG: load_config answers without a look at configErr.
AnswersLoaded(c) == "loaded"

\* What load_config answers once the new engine runs.
LoadAnswer(c) == IF configErr THEN "failed" ELSE "loaded"

\* BUG: the path asked for is published, though the engine runs without it.
AskedConfig(c) == IF local[c].op = "load" THEN local[c].path ELSE Default

\* What the new engine serves, for twinstub_status and the next load_config.
NamedConfig(c) == local[c].use

\* Start succeeds: the engine is published.
Bind(c) ==
  LET e == CHOOSE x \in Engine : x \notin alive \cup {cl}
  IN  /\ pc[c] = "binding"
      /\ \E q \in Bindable(c) :
           /\ port' = [port EXCEPT ![e] = q]
           /\ told' = IF local[c].use = None THEN None ELSE q
      /\ alive' = alive \cup {e}
      /\ conf' = [conf EXCEPT ![e] = local[c].use]
      /\ app' = e /\ cl' = e /\ configPath' = NamedConfig(c)
      /\ writer' = None
      /\ IF ready
           THEN Answer(c, LoadAnswer(c)) /\ UNCHANGED <<ready, mode>>
           ELSE /\ ready' = TRUE /\ mode' = "embedded"
                /\ pc' = [pc EXCEPT ![c] = Then(c)]
                /\ local' = [local EXCEPT ![c].use = None, ![c].want = None]
      /\ UNCHANGED <<world, readers, configErr, panicked>>

-----------------------------------------------------------------------------
(* loadConfig, and the other tools. *)

LoadLock(c) ==
  /\ Unlocked
  /\ Goto(c, "load", "loading")
  /\ writer' = c
  /\ UNCHANGED <<world, readers, choice, engines, local, panicked>>

\* An external engine reloads its own file, and no other.
LoadExternal(c) ==
  /\ pc[c] = "loading" /\ mode = "external"
  /\ Answer(c, IF up /\ local[c].path = Served /\ file[Served] = "good"
                 THEN "loaded" ELSE "failed")
  /\ writer' = None
  /\ UNCHANGED <<world, readers, choice, engines, panicked>>

\* BUG: the port is kept only if it is the config's.
PortOfConfig == None

\* The port the app points at, unless the engine had no config yet.
KeptPort == IF configPath = None THEN None ELSE port[app]

\* The old engine is stopped before the new one starts.
LoadEmbedded(c) ==
  /\ mode = "embedded" /\ app # None
  /\ Goto(c, "loading", "starting")
  /\ local' = [local EXCEPT ![c].use = local[c].path, ![c].explicit = TRUE,
                            ![c].want = KeptPort]
  /\ alive' = alive \ {app}
  /\ app' = None
  /\ port' = [port EXCEPT ![app] = None]
  /\ conf' = [conf EXCEPT ![app] = None]
  /\ UNCHANGED <<world, lock, ready, mode, cl, configPath, configErr, told,
                 panicked>>

\* s.app.PublicPort() with a nil app.
LoadPanics(c) ==
  /\ pc[c] = "loading" /\ mode = "embedded" /\ app = None
  /\ panicked' = TRUE
  /\ UNCHANGED <<world, lock, choice, engines, pc, local>>

\* engine(): the client is read, and kept, under the read lock.
UseLock(c) ==
  /\ writer = None
  /\ Goto(c, "use", "using")
  /\ readers' = readers \cup {c}
  /\ UNCHANGED <<world, writer, choice, engines, local, panicked>>

EngineAnswers == cl \in alive \/ (cl = External /\ up)

\* BUG: a tool that got an error returns without done().
DoneOnSuccess(c) == IF EngineAnswers THEN readers \ {c} ELSE readers

\* Every tool defers done().
Done(c) == readers \ {c}

Use(c) ==
  /\ pc[c] = "using"
  /\ Answer(c, IF EngineAnswers THEN "done" ELSE "failed")
  /\ readers' = Done(c)
  /\ UNCHANGED <<world, writer, choice, engines, panicked>>

-----------------------------------------------------------------------------
(* The specification. *)

CallStep(c) ==
  \/ ResolveReady(c) \/ ChooseLock(c)
  \/ AlreadyChosen(c) \/ UseExternal(c) \/ UseEmbedded(c)
  \/ StartCheck(c) \/ Build(c) \/ StartFails(c) \/ Bind(c)
  \/ LoadLock(c) \/ LoadExternal(c) \/ LoadEmbedded(c) \/ LoadPanics(c)
  \/ UseLock(c) \/ Use(c)

\* A panic ends the process.
Next ==
  /\ ~panicked
  /\ \/ Change
     \/ \E c \in Call :
          ToolCall(c) \/ (\E p \in Path : LoadCall(c, p)) \/ CallStep(c)

Spec == Init /\ [][Next]_vars

\* Every call goes on; a mutex is not withheld from one for ever.
Fairness == \A c \in Call : SF_vars(~panicked /\ CallStep(c))

FairSpec == Spec /\ Fairness

-----------------------------------------------------------------------------
(* Types. *)

TypeOK ==
  /\ writer \in Call \cup {None} /\ readers \in SUBSET Call
  /\ mode \in {"none", "external", "embedded"}
  /\ cl \in Engine \cup {External, None}
  /\ app \in Engine \cup {None}
  /\ configPath \in Path \cup {None}
  /\ alive \in SUBSET Engine
  /\ port \in [Engine -> Port \cup {None}]
  /\ conf \in [Engine -> Path \cup {None}]

-----------------------------------------------------------------------------
(* Safety. *)

\* There is one engine: calls that come first at the same time do not start two,
\* load_config leaves no old one behind, and none is started beside an external
\* one (resolve, mcp.go:254).
OneEngine ==
  /\ Cardinality(alive) <= 1
  /\ mode = "external" => alive = {}

\* Once an engine is chosen and no call holds the lock, client, config path and
\* the running engine belong together; only after a restart that failed is there
\* none, and then the client leads nowhere (startEmbedded and loadConfig).
ChoiceConsistent ==
  ready /\ writer = None =>
    /\ mode = "external" => cl = External /\ app = None
    /\ mode = "embedded" =>
         IF app = None THEN alive = {} /\ cl \in Engine
         ELSE alive = {app} /\ cl = app /\ conf[app] = configPath

\* The choice of an engine and the engines that run agree.
EngineAgrees == TypeOK /\ OneEngine /\ ChoiceConsistent

\* mcp.go:281: the engine is not swapped underneath a call that uses it.
NoSwapUnderneath ==
  [][readers # {} => UNCHANGED <<cl, app, alive>>]_vars

\* A restart keeps the port the app was told, also when the file has become
\* invalid since it was checked; only an engine without a config may be replaced
\* on another port (tools.go:330).
PortKept ==
  [][app' \notin {app, None} /\ told # None => port'[app'] = told]_vars

\* load_config answers "loaded" only when the chosen engine serves the file it
\* was asked to load, although the file may have changed since it was validated
\* (tools.go:295).
LoadedIsServed ==
  [][\A c \in Call :
       local[c].op = "load" /\ local'[c].answer = "loaded" =>
         IF mode = "external" THEN local[c].path = Served
         ELSE app' \in alive' /\ conf'[app'] = local[c].path]_vars

\* load_config disturbs no other tool, keeps the app's port and does not lie.
LoadSafe == NoSwapUnderneath /\ PortKept /\ LoadedIsServed

-----------------------------------------------------------------------------
(* Liveness. *)

\* Every tool call returns, whatever the others do with the lock and whatever
\* fails on the way.
CallsReturn == \A c \in Call : pc[c] # "idle" ~> pc[c] = "idle" \/ panicked

-----------------------------------------------------------------------------
(* What a comment promises and the code does not keep. *)

\* mcp.go:252 and 141: "A failed start is retried on the next call", and an agent
\* can fix the file and load it "instead of facing a dead server": an embedded
\* engine that was chosen is there whenever a call gets the lock.
NeverDeadServer ==
  ready /\ mode = "embedded" /\ writer = None => app # None
=============================================================================
