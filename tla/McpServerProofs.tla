-------------------------- MODULE McpServerProofs --------------------------
(***************************************************************************)
(* Proofs about McpServer: there is one engine and the choice agrees with  *)
(* it, and load_config swaps it under nobody, keeps the port the app was   *)
(* told and does not lie; for any number of calls, files, ports and        *)
(* changes of the outside world.                                           *)
(***************************************************************************)
EXTENDS McpServer, FiniteSetTheorems, TLAPS

\* Where a call holds Server.mu exclusively, and where it starts an engine.
Starting == {"starting", "building", "binding"}
Holding  == Starting \cup {"choosing", "loading"}
Place    == Holding \cup {"idle", "resolve", "choose", "load", "use", "using"}

Local == [op : {"none", "tool", "load"}, path : Path \cup {None},
          explicit : BOOLEAN, want : Port \cup {None, "any"},
          use : Path \cup {None}, answer : {"none", "done", "failed", "loaded"}]

\* Types, also of what TypeOK leaves out.
Types ==
  /\ TypeOK
  /\ ready \in BOOLEAN /\ configErr \in BOOLEAN
  /\ told \in Port \cup {None}
  /\ pc \in [Call -> Place]
  /\ local \in [Call -> Local]

\* What is chosen, and what runs.  A failed restart leaves the client behind.
Agrees ==
  /\ ready <=> mode # "none"
  /\ mode # "embedded" => app = None
  /\ mode = "external" => cl = External
  /\ mode = "embedded" => cl \in Engine
  /\ alive = IF app = None THEN {} ELSE {app}
  /\ app # None => /\ cl = app /\ conf[app] = configPath
                   /\ told # None => port[app] = told
  /\ told # None <=> configPath # None
  /\ told # None => ready

\* What a call that starts an engine relies on: no engine runs, the port it asks
\* for is the one the app was told, and after the first start it is a load_config
\* that runs its own file unless configErr says otherwise.
StartOK(c) ==
  /\ app = None
  /\ told # None => local[c].want = told
  /\ ready =>
       /\ mode = "embedded" /\ local[c].op = "load" /\ local[c].explicit
       /\ local[c].use = local[c].path
            \/ (pc[c] # "starting" /\ configErr /\ local[c].use = None)

\* Where a call is agrees with the lock and with the choice.
CallOK(c) ==
  /\ local[c].op = "none" <=> pc[c] = "idle"
  /\ local[c].op # "none" => local[c].answer = "none"
  /\ local[c].op = "load" => local[c].path \in Path
  /\ pc[c] \in Holding <=> writer = c
  /\ pc[c] = "using" <=> c \in readers
  /\ pc[c] \in {"load", "loading", "use", "using"} => ready
  /\ pc[c] \in {"load", "loading"} => local[c].op = "load"
  /\ pc[c] \in Starting => StartOK(c)

IInv ==
  /\ Types /\ Agrees
  /\ writer # None => readers = {}
  /\ \A c \in Call : CallOK(c)

-----------------------------------------------------------------------------
(* Initially. *)

LEMMA McpInit == Init => IInv
<1> SUFFICES ASSUME Init
             PROVE  IInv
  OBVIOUS
<1>1. NoLocal \in Local
  BY DEF NoLocal, Local
<1>2. Types
  BY <1>1 DEF Init, Types, TypeOK, Place
<1>3. Agrees
  BY DEF Init, Agrees
<1>4. \A c \in Call : CallOK(c)
  BY McpAssumption DEF Init, CallOK, NoLocal, Holding, Starting
<1> QED
  BY <1>2, <1>3, <1>4 DEF Init, IInv

-----------------------------------------------------------------------------
(* The other calls, while c makes a step. *)

\* A step of c that leaves the engines alone disturbs no other call.
LEMMA OthersKept ==
  ASSUME IInv, NEW c \in Call,
         UNCHANGED <<choice, engines>>,
         \A b \in Call \ {c} : /\ pc'[b] = pc[b] /\ local'[b] = local[b]
                               /\ writer' = b <=> writer = b
                               /\ b \in readers' <=> b \in readers
  PROVE  \A b \in Call \ {c} : CallOK(b)'
BY DEF IInv, CallOK, StartOK, choice, engines

\* Nor does a step of the writer, whatever it does to them.
LEMMA OthersWait ==
  ASSUME IInv, NEW c \in Call, writer = c, writer' \in {c, None},
         ready => ready', readers' = readers,
         \A b \in Call \ {c} : pc'[b] = pc[b] /\ local'[b] = local[b]
  PROVE  \A b \in Call \ {c} : CallOK(b)'
BY McpAssumption DEF IInv, CallOK, Holding

\* Steps that change neither the choice nor the engines.
LEMMA QuietStep ==
  ASSUME IInv, NEW c \in Call, UNCHANGED <<choice, engines>>,
         pc' \in [Call -> Place], local' \in [Call -> Local],
         \A b \in Call \ {c} : /\ pc'[b] = pc[b] /\ local'[b] = local[b]
                               /\ writer' = b <=> writer = b
                               /\ b \in readers' <=> b \in readers,
         writer' \in Call \cup {None}, readers' \in SUBSET Call,
         writer' # None => readers' = {},
         CallOK(c)'
  PROVE  IInv'
<1>1. Types' /\ Agrees'
  BY DEF IInv, Types, TypeOK, Agrees, choice, engines
<1>2. \A b \in Call : CallOK(b)'
  BY OthersKept
<1> QED
  BY <1>1, <1>2 DEF IInv

-----------------------------------------------------------------------------
(* Before and after the engine is chosen. *)

LEMMA ChangeStep ==
  ASSUME IInv, Change
  PROVE  IInv'
BY DEF Change, IInv, Types, TypeOK, Agrees, CallOK, StartOK, lock, choice, engines, calls

LEMMA CallBegins ==
  ASSUME IInv, NEW c \in Call, NEW l \in Local,
         l.op # "none", l.answer = "none", l.op = "load" => l.path \in Path,
         Goto(c, "idle", "resolve"), local' = [local EXCEPT ![c] = l],
         UNCHANGED <<lock, choice, engines>>
  PROVE  IInv'
<1>1. pc[c] = "idle" /\ pc' = [pc EXCEPT ![c] = "resolve"]
  BY DEF Goto
<1>2. pc' \in [Call -> Place] /\ local' \in [Call -> Local]
  BY <1>1 DEF IInv, Types, Place
<1>3. CallOK(c)'
  BY <1>1 DEF IInv, Types, CallOK, Holding, Starting, lock
<1> QED
  BY <1>1, <1>2, <1>3, QuietStep DEF IInv, Types, TypeOK, lock

LEMMA BeginStep ==
  ASSUME IInv, NEW c \in Call, ToolCall(c) \/ \E p \in Path : LoadCall(c, p)
  PROVE  IInv'
<1>1. CASE ToolCall(c)
  <2>1. [NoLocal EXCEPT !.op = "tool"] \in Local
    BY DEF NoLocal, Local
  <2> QED
    BY <1>1, <2>1, CallBegins DEF ToolCall, NoLocal
<1>2. ASSUME NEW p \in Path, LoadCall(c, p)
      PROVE  IInv'
  <2>1. [NoLocal EXCEPT !.op = "load", !.path = p] \in Local
    BY DEF NoLocal, Local
  <2> QED
    BY <1>2, <2>1, CallBegins DEF LoadCall, NoLocal
<1> QED
  BY <1>1, <1>2

LEMMA ThenPlace ==
  ASSUME NEW c
  PROVE  /\ Then(c) \in {"load", "use"}
         /\ Then(c) = "load" <=> local[c].op = "load"
BY DEF Then

\* The steps that only take or give up the lock.
LEMMA LockStep ==
  ASSUME IInv, NEW c \in Call,
         \/ ResolveReady(c) \/ ChooseLock(c) \/ AlreadyChosen(c)
         \/ LoadLock(c) \/ UseLock(c)
  PROVE  IInv'
<1> USE McpAssumption, ThenPlace DEF Goto, Holding, Starting, Place
<1>1. /\ UNCHANGED <<choice, engines, local>>
      /\ pc' = [pc EXCEPT ![c] = pc'[c]] /\ pc'[c] \in Place
  BY DEF ResolveReady, ChooseLock, AlreadyChosen, LoadLock, UseLock, IInv, Types
<1>2. CallOK(c) /\ local'[c] = local[c] /\ ready' = ready /\ local[c].op # "none" /\ pc[c] # "idle"
  BY <1>1 DEF IInv, ResolveReady, ChooseLock, AlreadyChosen, LoadLock, UseLock, CallOK, choice
<1>3. CASE ResolveReady(c)
  BY <1>1, <1>2, <1>3, QuietStep DEF ResolveReady, IInv, Types, TypeOK, CallOK, lock
<1>4. CASE ChooseLock(c) \/ LoadLock(c)
  <2>1. /\ writer = None /\ readers = {} /\ writer' = c /\ readers' = {}
        /\ pc[c] \in {"choose", "load"}
        /\ pc'[c] = IF pc[c] = "choose" THEN "choosing" ELSE "loading"
    BY <1>4 DEF ChooseLock, LoadLock, Unlocked, IInv, Types
  <2> QED
    BY <1>1, <1>2, <2>1, QuietStep DEF IInv, Types, TypeOK, CallOK
<1>5. CASE AlreadyChosen(c)
  <2>1. /\ writer = c /\ readers = {} /\ writer' = None /\ readers' = {}
        /\ ready /\ pc'[c] = Then(c)
    BY <1>2, <1>5 DEF AlreadyChosen, Chosen, IInv, Types, CallOK
  <2> QED
    BY <1>1, <1>2, <2>1, QuietStep DEF IInv, Types, TypeOK, CallOK
<1>6. CASE UseLock(c)
  <2>1. /\ writer = None /\ writer' = None /\ readers' = readers \cup {c}
        /\ pc[c] = "use" /\ pc'[c] = "using"
    BY <1>2, <1>6 DEF UseLock, IInv, Types
  <2> QED
    BY <1>1, <1>2, <2>1, QuietStep DEF IInv, Types, TypeOK, CallOK
<1> QED
  BY <1>3, <1>4, <1>5, <1>6

\* The steps that end a call and leave the choice alone.
LEMMA EndStep ==
  ASSUME IInv, NEW c \in Call, StartFails(c) \/ LoadExternal(c) \/ Use(c)
  PROVE  IInv'
<1> USE McpAssumption DEF Holding, Starting, Place
<1>1. /\ UNCHANGED <<choice, engines>>
      /\ pc' = [pc EXCEPT ![c] = "idle"]
      /\ \E a \in {"done", "failed", "loaded"} :
           local' = [local EXCEPT ![c] = [NoLocal EXCEPT !.answer = a]]
  BY DEF StartFails, LoadExternal, Use, Answer
<1>2. PICK a \in {"done", "failed", "loaded"} :
        local' = [local EXCEPT ![c] = [NoLocal EXCEPT !.answer = a]]
  BY <1>1
<1>3. [NoLocal EXCEPT !.answer = a] \in Local
  BY DEF NoLocal, Local
<1>4. /\ writer' \in Call \cup {None} /\ readers' \in SUBSET Call
      /\ writer' # None => readers' = {}
      /\ writer' # c /\ c \notin readers'
      /\ \A b \in Call \ {c} : /\ writer' = b <=> writer = b
                               /\ b \in readers' <=> b \in readers
  BY DEF StartFails, LoadExternal, Use, Done, IInv, Types, TypeOK, CallOK
<1>5. CallOK(c)'
  BY <1>1, <1>2, <1>4 DEF IInv, Types, CallOK, NoLocal
<1> QED
  BY <1>1, <1>2, <1>3, <1>4, <1>5, QuietStep DEF IInv, Types

-----------------------------------------------------------------------------
(* The writer. *)

LEMMA ExternalStep ==
  ASSUME IInv, NEW c \in Call, UseExternal(c)
  PROVE  IInv'
<1> USE McpAssumption, ThenPlace
    DEF UseExternal, Goto, Chosen, Holding, Starting, Place, engines
<1>1. Types'
  BY DEF IInv, Types, TypeOK
<1>2. Agrees'
  BY DEF IInv, Agrees
<1>3. \A b \in Call \ {c} : CallOK(b)'
  BY OthersWait DEF IInv, Types, CallOK
<1>4. CallOK(c)'
  BY DEF IInv, Types, TypeOK, CallOK
<1> QED
  BY <1>1, <1>2, <1>3, <1>4 DEF IInv

LEMMA EmbeddedStep ==
  ASSUME IInv, NEW c \in Call, UseEmbedded(c) \/ Build(c)
  PROVE  IInv'
<1> USE McpAssumption
    DEF UseEmbedded, Build, Goto, Chosen, Holding, Starting, Place, engines, lock
<1>1. local' \in [Call -> Local]
  BY DEF IInv, Types, Local
<1>2. \A b \in Call \ {c} : pc'[b] = pc[b] /\ local'[b] = local[b]
  BY DEF IInv, Types
<1>3. /\ local'[c].op = local[c].op /\ local'[c].answer = local[c].answer
      /\ local'[c].path = local[c].path
  BY DEF IInv, Types, Local
<1>4. CallOK(c)'
  BY <1>3 DEF IInv, Types, CallOK, StartOK, Agrees, choice
<1> QED
  BY <1>1, <1>2, <1>4, QuietStep DEF IInv, Types, TypeOK, choice

LEMMA CheckStep ==
  ASSUME IInv, NEW c \in Call, StartCheck(c)
  PROVE  IInv'
<1> USE McpAssumption DEF Goto, Holding, Starting, Place
<1>1. /\ UNCHANGED <<lock, ready, mode, cl, app, configPath, engines>>
      /\ pc[c] = "starting" /\ pc' = [pc EXCEPT ![c] = "building"]
      /\ configErr' \in BOOLEAN
  BY DEF StartCheck
<1>2. PICK w \in Port \cup {None, "any"}, u \in Path \cup {None} :
        /\ local' = [local EXCEPT ![c].use = u, ![c].want = w]
        /\ local[c].want # None => w = local[c].want
        /\ local[c].explicit => u = IF configErr' THEN None ELSE local[c].use
  <2> DEFINE l == local[c]
             usable == file[l.use] \in {"good", "uncompilable"}
             u == IF usable THEN l.use ELSE None
             w == IF l.want = None /\ (~usable \/ ConfigPort \in Used)
                    THEN "any" ELSE l.want
  <2>1. l \in Local
    BY DEF IInv, Types
  <2>2. u \in Path \cup {None} /\ w \in Port \cup {None, "any"}
    BY <2>1 DEF Local
  <2>3. local' = [local EXCEPT ![c].use = u, ![c].want = w]
    BY DEF StartCheck
  <2>4. l.want # None => w = l.want
    OBVIOUS
  <2>5. l.explicit => u = IF configErr' THEN None ELSE l.use
    BY DEF StartCheck
  <2> HIDE DEF u, w
  <2> QED
    BY <2>2, <2>3, <2>4, <2>5
<1>3. local' \in [Call -> Local]
  <2>1. local[c] \in Local
    BY DEF IInv, Types
  <2>2. [local[c] EXCEPT !.use = u, !.want = w] \in Local
    BY <1>2, <2>1 DEF Local
  <2>3. local' = [local EXCEPT ![c] = [local[c] EXCEPT !.use = u, !.want = w]]
    BY <1>2
  <2> QED
    BY <2>2, <2>3 DEF IInv, Types
<1>4. \A b \in Call \ {c} : pc'[b] = pc[b] /\ local'[b] = local[b]
  BY <1>1, <1>2 DEF IInv, Types
<1>5. /\ local'[c].op = local[c].op /\ local'[c].answer = local[c].answer
      /\ local'[c].path = local[c].path /\ local'[c].explicit = local[c].explicit
      /\ local'[c].use = u /\ local'[c].want = w /\ pc'[c] = "building"
  BY <1>1, <1>2 DEF IInv, Types, Local
<1>6. writer = c /\ writer' = c /\ readers' = {}
  BY <1>1 DEF IInv, CallOK, lock
<1>7. Types' /\ Agrees'
  BY <1>1, <1>3 DEF IInv, Types, TypeOK, Agrees, lock, engines
<1>8. CallOK(c) /\ StartOK(c)
  BY <1>1 DEF IInv, CallOK
<1>9. told # None => local[c].want # None
  BY <1>8 DEF StartOK
<1>10. StartOK(c)'
  BY <1>1, <1>2, <1>5, <1>8, <1>9 DEF StartOK, engines
<1>11. CallOK(c)'
  BY <1>1, <1>5, <1>6, <1>8, <1>10 DEF CallOK
<1>12. \A b \in Call \ {c} : CallOK(b)'
  BY <1>1, <1>4, <1>6, OthersWait DEF lock
<1> QED
  BY <1>6, <1>7, <1>11, <1>12 DEF IInv

LEMMA LoadStep ==
  ASSUME IInv, NEW c \in Call, LoadEmbedded(c)
  PROVE  IInv'
<1> USE McpAssumption DEF Goto, Holding, Starting, Place
<1>1. /\ UNCHANGED <<lock, ready, mode, cl, configPath, configErr, told>>
      /\ pc[c] = "loading" /\ pc' = [pc EXCEPT ![c] = "starting"]
      /\ mode = "embedded" /\ app # None /\ app' = None
      /\ alive' = alive \ {app}
      /\ local' = [local EXCEPT ![c].use = local[c].path, ![c].explicit = TRUE,
                                ![c].want = KeptPort]
  BY DEF LoadEmbedded
<1>2. CallOK(c) /\ local[c] \in Local /\ app \in Engine /\ alive = {app}
  BY <1>1 DEF IInv, Types, TypeOK, Agrees
<1>3. KeptPort \in Port \cup {None} /\ (told # None => KeptPort = told)
  BY <1>1, <1>2 DEF KeptPort, IInv, Types, TypeOK, Agrees
<1>4. local' \in [Call -> Local] /\ pc' \in [Call -> Place]
  BY <1>1, <1>2, <1>3 DEF IInv, Types, Local
<1>5. \A b \in Call \ {c} : pc'[b] = pc[b] /\ local'[b] = local[b]
  BY <1>1 DEF IInv, Types
<1>6. /\ local'[c].op = local[c].op /\ local'[c].answer = local[c].answer
      /\ local'[c].path = local[c].path /\ local'[c].explicit
      /\ local'[c].use = local[c].path /\ local'[c].want = KeptPort
      /\ pc'[c] = "starting"
  BY <1>1, <1>2 DEF IInv, Types, Local
<1>7. writer = c /\ writer' = c /\ readers' = {}
  BY <1>1, <1>2 DEF IInv, CallOK, lock
<1>8. Types'
  <2>1. /\ port' = [port EXCEPT ![app] = None] /\ conf' = [conf EXCEPT ![app] = None]
        /\ alive' = {}
    BY <1>1, <1>2 DEF LoadEmbedded
  <2> QED
    BY <1>1, <1>4, <2>1 DEF IInv, Types, TypeOK, lock
<1>9. Agrees'
  BY <1>1, <1>2 DEF IInv, Agrees
<1>10. StartOK(c)'
  BY <1>1, <1>2, <1>3, <1>6 DEF StartOK, CallOK
<1>11. CallOK(c)'
  BY <1>1, <1>2, <1>6, <1>7, <1>10 DEF CallOK
<1>12. \A b \in Call \ {c} : CallOK(b)'
  BY <1>1, <1>5, <1>7, OthersWait DEF lock
<1> QED
  BY <1>7, <1>8, <1>9, <1>11, <1>12 DEF IInv

\* There is a name left for the new engine.
LEMMA FreeEngine ==
  ASSUME IInv, app = None
  PROVE  \E e \in Engine : e \notin alive \cup {cl}
<1> SUFFICES ASSUME Engine \subseteq {cl}
             PROVE  FALSE
  BY DEF IInv, Agrees
<1>1. IsFiniteSet({cl}) /\ Cardinality({cl}) = 1
  BY FS_Singleton
<1>2. Cardinality(Engine) <= Cardinality({cl}) /\ Cardinality(Engine) \in Nat
  BY <1>1, FS_Subset, FS_CardinalityType, McpAssumption
<1> QED
  BY <1>1, <1>2, McpAssumption

\* What Bind does, by name.
Published(c, e, q) ==
  /\ e \in Engine /\ e \notin alive \cup {cl} /\ q \in Port
  /\ pc[c] = "binding" /\ q \in Bindable(c)
  /\ port' = [port EXCEPT ![e] = q]
  /\ told' = IF local[c].use = None THEN None ELSE q
  /\ alive' = {e}
  /\ conf' = [conf EXCEPT ![e] = local[c].use]
  /\ app' = e /\ cl' = e /\ configPath' = local[c].use
  /\ writer = c /\ writer' = None
  /\ UNCHANGED <<readers, configErr>>
  /\ IF ready
       THEN Answer(c, LoadAnswer(c)) /\ UNCHANGED <<ready, mode>>
       ELSE /\ ready' = TRUE /\ mode' = "embedded"
            /\ pc' = [pc EXCEPT ![c] = Then(c)]
            /\ local' = [local EXCEPT ![c].use = None, ![c].want = None]

LEMMA BindPublishes ==
  ASSUME IInv, NEW c \in Call, Bind(c)
  PROVE  \E e, q : Published(c, e, q)
<1>1. pc[c] = "binding" /\ CallOK(c) /\ local[c] \in Local
  BY DEF Bind, IInv, Types
<1>2. writer = c /\ app = None /\ alive = {}
  BY <1>1 DEF CallOK, StartOK, Holding, Starting, IInv, Agrees
<1> DEFINE e == CHOOSE x \in Engine : x \notin alive \cup {cl}
<1>3. e \in Engine /\ e \notin alive \cup {cl}
  BY <1>2, FreeEngine
<1>4. PICK q \in Bindable(c) : /\ port' = [port EXCEPT ![e] = q]
                               /\ told' = IF local[c].use = None THEN None ELSE q
  BY DEF Bind
<1>5. q \in Port
  BY <1>1, <1>4, McpAssumption DEF Bindable, Local
<1> HIDE DEF e
<1>6. alive' = {e}
  BY <1>2 DEF Bind, e
<1>7. Published(c, e, q)
  BY <1>1, <1>2, <1>3, <1>4, <1>5, <1>6 DEF Bind, NamedConfig, Published, e
<1> QED
  BY <1>7

LEMMA BindStep ==
  ASSUME IInv, NEW c \in Call, Bind(c)
  PROVE  IInv'
<1> USE McpAssumption DEF Holding, Starting, Place
<1> PICK e, q : Published(c, e, q)
  BY BindPublishes
<1>1. CallOK(c) /\ local[c] \in Local /\ StartOK(c) /\ readers = {}
  BY DEF Published, IInv, Types, CallOK
<1>2. pc' \in [Call -> Place]
  BY ThenPlace DEF Published, Answer, IInv, Types
<1>3. local' \in [Call -> Local]
  <2>1. LoadAnswer(c) \in {"failed", "loaded"}
    BY DEF LoadAnswer
  <2>2. [NoLocal EXCEPT !.answer = LoadAnswer(c)] \in Local
    BY <2>1 DEF NoLocal, Local
  <2> QED
    BY <1>1, <2>2 DEF Published, Answer, IInv, Types, Local
<1>4. Types'
  BY <1>1, <1>2, <1>3 DEF Published, IInv, Types, TypeOK, Local
<1>5. Agrees'
  <2>1. mode' = "embedded" /\ ready'
    BY <1>1 DEF Published, IInv, Agrees, StartOK
  <2>2. /\ app' = e /\ cl' = e /\ alive' = {e} /\ e # None /\ e \in Engine
        /\ conf'[e] = configPath' /\ port'[e] = q /\ q # None
    BY DEF Published, IInv, Types, TypeOK
  <2> QED
    BY <2>1, <2>2 DEF Published, Agrees
<1>6. \A b \in Call \ {c} : CallOK(b)'
  <2>1. \A b \in Call \ {c} : pc'[b] = pc[b] /\ local'[b] = local[b]
    BY DEF Published, Answer, IInv, Types
  <2>2. ready => ready'
    BY DEF Published
  <2> QED
    BY <2>1, <2>2, OthersWait DEF Published
<1>7. CallOK(c)'
  <2>1. CASE ready
    <3>1. pc'[c] = "idle" /\ local'[c].op = "none"
      BY <2>1 DEF Published, Answer, NoLocal, IInv, Types
    <3> QED
      BY <1>1, <3>1 DEF Published, CallOK
  <2>2. CASE ~ready
    <3>1. /\ pc'[c] = Then(c) /\ local'[c].op = local[c].op /\ ready'
          /\ local'[c].answer = local[c].answer /\ local'[c].path = local[c].path
      BY <1>1, <2>2 DEF Published, IInv, Types, Local
    <3> QED
      BY <1>1, <3>1, ThenPlace DEF Published, CallOK
  <2> QED
    BY <2>1, <2>2
<1> QED
  BY <1>1, <1>4, <1>5, <1>6, <1>7 DEF Published, IInv

-----------------------------------------------------------------------------
(* Every step. *)

LEMMA McpNext == IInv /\ [Next]_vars => IInv'
<1> SUFFICES ASSUME IInv, [Next]_vars
             PROVE  IInv'
  OBVIOUS
<1>1. CASE UNCHANGED vars
  BY <1>1 DEF vars, lock, choice, engines, calls, IInv, Types, TypeOK, Agrees, CallOK,
              StartOK
<1>2. ASSUME NEW c \in Call, LoadPanics(c)
      PROVE  IInv'
  BY <1>2 DEF LoadPanics, lock, choice, engines, IInv, Types, TypeOK, Agrees, CallOK,
              StartOK
<1> QED
  BY <1>1, <1>2, ChangeStep, BeginStep, LockStep, EndStep, ExternalStep, EmbeddedStep,
     CheckStep, LoadStep, BindStep DEF Next, CallStep

\* The inductive invariant holds in every reachable state.
THEOREM McpInvariant == Spec => []IInv
BY McpInit, McpNext, PTL DEF Spec

\* There is one engine, and client, config path and mode belong to it
\* (resolve, startEmbedded and loadConfig, mcp.go:254).
THEOREM EngineAgreesHolds == Spec => []EngineAgrees
<1>1. IInv => EngineAgrees
  <2> SUFFICES ASSUME IInv
               PROVE  EngineAgrees
    OBVIOUS
  <2>1. Cardinality({}) = 0 /\ Cardinality({app}) = 1
    BY FS_EmptySet, FS_Singleton
  <2>2. OneEngine
    BY <2>1 DEF IInv, Agrees, OneEngine
  <2>3. ChoiceConsistent
    BY DEF IInv, Agrees, ChoiceConsistent
  <2> QED
    BY <2>2, <2>3 DEF IInv, Types, EngineAgrees
<1> QED
  BY <1>1, McpInvariant, PTL

-----------------------------------------------------------------------------
(* Action properties. *)

\* Only the writer touches the engine and the client.
LEMMA WriterSwaps ==
  ASSUME IInv, [Next]_vars, ~UNCHANGED <<cl, app, alive>>
  PROVE  /\ writer # None
         /\ \E c \in Call : UseExternal(c) \/ LoadEmbedded(c) \/ Bind(c)
<1>1. \E c \in Call : UseExternal(c) \/ LoadEmbedded(c) \/ Bind(c)
  BY DEF Next, Change, ToolCall, LoadCall, CallStep, ResolveReady, ChooseLock,
         AlreadyChosen, UseEmbedded, StartCheck, Build, StartFails, LoadLock,
         LoadExternal, LoadPanics, UseLock, Use, vars, choice, engines
<1> QED
  BY <1>1, McpAssumption DEF UseExternal, LoadEmbedded, Bind, Goto, IInv, CallOK,
     Holding, Starting

\* Only two steps answer "loaded".
LEMMA AnswersLoad ==
  ASSUME IInv, [Next]_vars, NEW c \in Call, local[c].op = "load",
         local[c].answer = "none", local'[c].answer = "loaded"
  PROVE  LoadExternal(c) \/ Bind(c)
<1>1. local[c] \in Local
  BY DEF IInv, Types
<1>2. ASSUME NEW b \in Call, b # c, ToolCall(b) \/ (\E p \in Path : LoadCall(b, p)) \/ CallStep(b)
      PROVE  local'[c] = local[c]
  BY <1>2 DEF ToolCall, LoadCall, CallStep, ResolveReady, ChooseLock, AlreadyChosen,
     UseExternal, UseEmbedded, StartCheck, Build, StartFails, Bind, Answer, LoadLock,
     LoadExternal, LoadEmbedded, LoadPanics, UseLock, Use, IInv, Types
<1>3. CASE ToolCall(c) \/ \E p \in Path : LoadCall(c, p)
  BY <1>3 DEF ToolCall, LoadCall, NoLocal, IInv, Types
<1>4. CASE UseEmbedded(c) \/ StartCheck(c) \/ LoadEmbedded(c)
  BY <1>1, <1>4 DEF UseEmbedded, StartCheck, LoadEmbedded, IInv, Types, Local
<1>5. CASE StartFails(c) \/ Use(c)
  BY <1>5 DEF StartFails, Use, Answer, NoLocal, IInv, Types
<1>6. CASE \/ ResolveReady(c) \/ ChooseLock(c) \/ AlreadyChosen(c) \/ UseExternal(c)
           \/ Build(c) \/ LoadLock(c) \/ LoadPanics(c) \/ UseLock(c)
  BY <1>6 DEF ResolveReady, ChooseLock, AlreadyChosen, UseExternal, Build, LoadLock,
     LoadPanics, UseLock
<1>7. CASE Change \/ UNCHANGED vars
  BY <1>7 DEF Change, vars, calls
<1> QED
  BY <1>2, <1>3, <1>4, <1>5, <1>6, <1>7 DEF Next, CallStep

\* load_config swaps the engine under no tool that uses it (mcp.go:281), keeps the
\* port the app was told (tools.go:330) and answers "loaded" only when the engine
\* serves the file (tools.go:295).
THEOREM LoadSafeHolds == Spec => LoadSafe
<1>1. IInv /\ [Next]_vars => [readers # {} => UNCHANGED <<cl, app, alive>>]_vars
  BY WriterSwaps DEF IInv
<1>2. IInv /\ [Next]_vars =>
        [app' \notin {app, None} /\ told # None => port'[app'] = told]_vars
  <2> SUFFICES ASSUME IInv, [Next]_vars, app' \notin {app, None}, told # None
               PROVE  port'[app'] = told
    OBVIOUS
  <2>1. PICK c \in Call : Bind(c)
    BY WriterSwaps DEF UseExternal, LoadEmbedded
  <2>2. PICK e, q : Published(c, e, q)
    BY <2>1, BindPublishes
  <2>3. local[c].want = told /\ told \in Port
    BY <2>2 DEF Published, IInv, Types, CallOK, StartOK, Starting
  <2>4. q = told
    BY <2>2, <2>3, McpAssumption DEF Published, Bindable
  <2> QED
    BY <2>2, <2>4 DEF Published, IInv, Types, TypeOK
<1>3. IInv /\ [Next]_vars =>
        [\A c \in Call :
           local[c].op = "load" /\ local'[c].answer = "loaded" =>
             IF mode = "external" THEN local[c].path = Served
             ELSE app' \in alive' /\ conf'[app'] = local[c].path]_vars
  <2> SUFFICES ASSUME IInv, [Next]_vars, NEW c \in Call,
                      local[c].op = "load", local'[c].answer = "loaded"
               PROVE  IF mode = "external" THEN local[c].path = Served
                      ELSE app' \in alive' /\ conf'[app'] = local[c].path
    OBVIOUS
  <2>1. local[c].answer = "none"
    BY DEF IInv, CallOK
  <2>2. LoadExternal(c) \/ Bind(c)
    BY <2>1, AnswersLoad
  <2>3. CASE LoadExternal(c)
    <3>1. local'[c].answer = IF up /\ local[c].path = Served /\ file[Served] = "good"
                               THEN "loaded" ELSE "failed"
      BY <2>3 DEF LoadExternal, Answer, NoLocal, IInv, Types
    <3> QED
      BY <2>3, <3>1 DEF LoadExternal
  <2>4. CASE Bind(c)
    <3>1. PICK e, q : Published(c, e, q)
      BY <2>4, BindPublishes
    <3>2. CallOK(c) /\ StartOK(c) /\ local[c] \in Local
      BY <3>1 DEF Published, IInv, Types, CallOK, Starting
    <3>3. ready /\ ~configErr
      <4>1. CASE ~ready
        BY <2>1, <3>1, <3>2, <4>1 DEF Published, IInv, Types, Local
      <4>2. CASE ready
        BY <3>1, <4>2 DEF Published, Answer, NoLocal, LoadAnswer, IInv, Types
      <4> QED
        BY <4>1, <4>2
    <3>4. mode = "embedded" /\ local[c].use = local[c].path
      BY <3>2, <3>3 DEF StartOK
    <3> QED
      BY <3>1, <3>4 DEF Published, IInv, Types, TypeOK
  <2> QED
    BY <2>2, <2>3, <2>4
<1> QED
  BY <1>1, <1>2, <1>3, McpInvariant, PTL
     DEF Spec, LoadSafe, NoSwapUnderneath, PortKept, LoadedIsServed

=============================================================================
