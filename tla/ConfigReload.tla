---------------------------- MODULE ConfigReload ----------------------------
(***************************************************************************)
(* Hot reload: the file watcher (src/internal/config/watch.go) and         *)
(* App.Reload (src/internal/app/app.go), which the watcher's goroutine and *)
(* requests to POST /reload run at the same time.                          *)
(*                                                                         *)
(* A configuration is read file by file while somebody edits the files.    *)
(* One action per atomic operation of Reload; the loop of the watcher has  *)
(* one action per case of its select.                                      *)
(***************************************************************************)
EXTENDS Integers, FiniteSets

CONSTANTS
  File,        \* the root config and its includes, in watched directories
  Watcher,     \* the goroutine of Watch
  Request,     \* requests to POST /reload
  MaxEdits,    \* bound: changes to the files
  MaxReloads   \* bound: requests to POST /reload ever made

ASSUME ReloadAssumption ==
  /\ Watcher \notin Request
  /\ MaxEdits \in Nat
  /\ MaxReloads \in Nat

Reloader == Request \cup {Watcher}
Version  == 0 .. MaxEdits

\* What an edit leaves behind: a valid file, one that config.Load rejects, one
\* that only snapshot.Compile rejects.
Kind == {"good", "rejected", "uncompilable"}

VARIABLES
  disk,      \* which edit each file is from
  kind,      \* what kind of file each edit left
  edits,     \* edits so far
  event,     \* fsnotify has an event for the watcher
  timer,     \* the debounce timer is running
  token,     \* the debounced channel is full
  stop,      \* stopWatch is closed
  pc,        \* where each reload is, and the watcher's loop
  read,      \* Load's local: the files read so far
  ver,       \* Reload's local ver
  current,   \* App.current: version and content; ghost: did its reload run alone
  configVer, \* App.configVer
  alone,     \* ghost: no other reload has overlapped with this one
  requests   \* bound: requests made so far

watchVars == <<event, timer, token, stop>>
reloadVars == <<pc, read, ver, current, configVer, alone>>
vars == <<disk, kind, edits, requests, watchVars, reloadVars>>

NoFiles == [f \in {} |-> 0]

Init ==
  /\ disk = [f \in File |-> 0]
  /\ kind = [v \in Version |-> "good"]
  /\ edits = 0 /\ requests = 0
  /\ event = FALSE /\ timer = FALSE /\ token = FALSE /\ stop = FALSE
  /\ pc = [r \in Reloader |-> "idle"]
  /\ read = [r \in Reloader |-> NoFiles]
  /\ ver = [r \in Reloader |-> 0]
  /\ current = [ver |-> 1, conf |-> [f \in File |-> 0], alone |-> TRUE]
  /\ configVer = 1
  /\ alone = [r \in Reloader |-> TRUE]

-----------------------------------------------------------------------------
(* The watcher. *)

\* BUG: events that arrive during a reload are drained.
NoticedWhenIdle == event \/ pc[Watcher] = "idle"

\* Events queue up while the loop is busy.
Noticed == TRUE

\* Somebody writes, replaces or renames a YAML file.
Edit(f, k) ==
  /\ edits < MaxEdits
  /\ edits' = edits + 1
  /\ disk' = [disk EXCEPT ![f] = edits + 1]
  /\ kind' = [kind EXCEPT ![edits + 1] = k]
  /\ event' = Noticed
  /\ UNCHANGED <<timer, token, stop, reloadVars, requests>>

\* An event restarts the timer.  timer.Stop does not take back a token.
TakeEvent ==
  /\ pc[Watcher] = "idle" /\ event
  /\ event' = FALSE
  /\ timer' = TRUE
  /\ UNCHANGED <<disk, kind, edits, requests, token, stop, reloadVars>>

\* The timer's function, on a goroutine of its own, fills the one-slot channel.
Fire ==
  /\ timer
  /\ timer' = FALSE
  /\ token' = TRUE
  /\ UNCHANGED <<disk, kind, edits, requests, event, stop, reloadVars>>

\* Shutdown closes stopWatch.
StopWatch ==
  /\ ~stop
  /\ stop' = TRUE
  /\ UNCHANGED <<disk, kind, edits, requests, event, timer, token, reloadVars>>

\* BUG: the loop looks at stop only after a change.
ExitAfterChange ==
  /\ pc[Watcher] = "idle" /\ stop /\ token
  /\ pc' = [pc EXCEPT ![Watcher] = "exited"]
  /\ UNCHANGED <<disk, kind, edits, requests, watchVars, read, ver, current,
                 configVer, alone>>

WatcherExit ==
  /\ pc[Watcher] = "idle" /\ stop
  /\ pc' = [pc EXCEPT ![Watcher] = "exited"]
  /\ UNCHANGED <<disk, kind, edits, requests, watchVars, read, ver, current,
                 configVer, alone>>

-----------------------------------------------------------------------------
(* Reload. *)

Reloading == {r \in Reloader : pc[r] \in {"load", "compile"}}

Begin(r) ==
  /\ pc[r] = "idle"
  /\ pc' = [pc EXCEPT ![r] = "load"]
  /\ alone' = [x \in Reloader |->
                 IF x = r THEN Reloading = {}
                 ELSE alone[x] /\ x \notin Reloading]
  /\ UNCHANGED <<read, ver, current, configVer>>

\* onChange: the watcher's loop does nothing else until Reload returns.
TakeToken ==
  /\ token
  /\ token' = FALSE
  /\ Begin(Watcher)
  /\ UNCHANGED <<disk, kind, edits, requests, event, timer, stop>>

\* reloadHandler
PostReload(r) ==
  /\ requests < MaxReloads
  /\ requests' = requests + 1
  /\ Begin(r)
  /\ UNCHANGED <<disk, kind, edits, watchVars>>

\* config.Load reads the next file.
ReadFile(r, f) ==
  /\ pc[r] = "load" /\ f \notin DOMAIN read[r]
  /\ read' = [read EXCEPT ![r] = [g \in DOMAIN @ \cup {f} |->
                                    IF g = f THEN disk[f] ELSE @[g]]]
  /\ UNCHANGED <<disk, kind, edits, requests, watchVars, pc, ver, current,
                 configVer, alone>>

Contains(r, k) == \E f \in File : kind[read[r][f]] = k

\* BUG: files once read are not read again.
EndedWithCache(r) ==
  /\ pc' = [pc EXCEPT ![r] = "idle"]
  /\ read' = read
  /\ ver' = [ver EXCEPT ![r] = 0]
  /\ alone' = [alone EXCEPT ![r] = TRUE]

\* Reload returns; an error leaves everything as it is.
Ended(r) ==
  /\ pc' = [pc EXCEPT ![r] = "idle"]
  /\ read' = [read EXCEPT ![r] = NoFiles]
  /\ ver' = [ver EXCEPT ![r] = 0]
  /\ alone' = [alone EXCEPT ![r] = TRUE]

\* BUG: the version is counted from the current snapshot.
NextOfCurrent == current.ver + 1

\* configVer.Add(1)
NextVersion == configVer + 1

\* Everything is read: Load rejects it, or Reload takes the next version.
Loaded(r) ==
  /\ pc[r] = "load" /\ DOMAIN read[r] = File
  /\ IF Contains(r, "rejected")
       THEN Ended(r) /\ UNCHANGED configVer
       ELSE /\ pc' = [pc EXCEPT ![r] = "compile"]
            /\ ver' = [ver EXCEPT ![r] = NextVersion]
            /\ configVer' = NextVersion
            /\ UNCHANGED <<read, alone>>
  /\ UNCHANGED <<disk, kind, edits, requests, watchVars, current>>

\* BUG: a snapshot that failed to compile is stored.
StoresAlways(r) == TRUE

\* Compile succeeds.
Stores(r) == ~Contains(r, "uncompilable")

\* Compile and current.Store: a compile error has used up the version.
Compiled(r) ==
  /\ pc[r] = "compile"
  /\ current' = IF Stores(r)
                  THEN [ver |-> ver[r], conf |-> read[r], alone |-> alone[r]]
                  ELSE current
  /\ Ended(r)
  /\ UNCHANGED <<disk, kind, edits, requests, watchVars, configVer>>

-----------------------------------------------------------------------------
(* The specification. *)

ReloadStep(r) ==
  (\E f \in File : ReadFile(r, f)) \/ Loaded(r) \/ Compiled(r)

Next ==
  \/ \E f \in File, k \in Kind : Edit(f, k)
  \/ TakeEvent \/ Fire \/ TakeToken \/ StopWatch \/ WatcherExit
  \/ \E r \in Request : PostReload(r)
  \/ \E r \in Reloader : ReloadStep(r)

Spec == Init /\ [][Next]_vars

\* Goroutines keep running, the timer fires, and select, which picks among its
\* ready cases at random, neglects none of them for ever.
Fairness ==
  /\ WF_vars(Fire)
  /\ SF_vars(TakeEvent) /\ SF_vars(TakeToken) /\ SF_vars(WatcherExit)
  /\ \A r \in Reloader : WF_vars(ReloadStep(r))

FairSpec == Spec /\ Fairness

-----------------------------------------------------------------------------
(* Types. *)

\* Locals of a reload have values only while it runs.
TypeOK ==
  /\ disk \in [File -> Version]
  /\ kind \in [Version -> Kind]
  /\ pc \in [Reloader -> {"idle", "load", "compile", "exited"}]
  /\ \A r \in Reloader :
       /\ DOMAIN read[r] \subseteq File
       /\ pc[r] \in {"idle", "exited"} => read[r] = NoFiles
       /\ pc[r] = "compile" => DOMAIN read[r] = File /\ ver[r] \in 2 .. configVer
  /\ current.ver \in 1 .. configVer
  /\ current.conf \in [File -> Version]

-----------------------------------------------------------------------------
(* Safety. *)

\* Two snapshots never share a version, however reloads overlap: what runs holds
\* the last version that was taken by it alone (sessions and answers tell
\* configurations apart by it; app.go:152).
VersionsUnique ==
  \A r, x \in Reloader :
    pc[r] = "compile" => /\ ver[r] # current.ver
                         /\ pc[x] = "compile" /\ x # r => ver[x] # ver[r]

\* A reload that overlapped with no other never goes back: neither to an older
\* file nor to an older version.  Overlapping ones may (app.go:152).
NeverBackwards ==
  [][current' # current /\ current'.alone =>
       /\ current'.ver > current.ver
       /\ \A f \in File : current'.conf[f] >= current.conf[f]]_vars

\* A rejected configuration leaves the running one in place: whatever is current
\* was loaded and compiled (Reload, app.go:143).
OnlyValidRuns ==
  \A f \in File : kind[current.conf[f]] = "good"

\* What runs is valid and told apart by its version.
ReloadSafe == TypeOK /\ VersionsUnique /\ OnlyValidRuns

-----------------------------------------------------------------------------
(* Liveness. *)

AllGood == \A f \in File : kind[disk[f]] = "good"

\* What runs is in the end what is on disk: the watcher notices every edit, also
\* one made during a reload, during the debounce time, or between the files of
\* one load; unless the files do not make a valid configuration, the last store
\* was by a reload that overlapped with another, or the watcher is stopped
\* (Watch, watch.go:43).
Settles ==
  <>[](current.conf = disk \/ ~AllGood \/ ~current.alone \/ stop)

\* Shutdown ends the watcher, whatever it is doing.
StopEndsWatch == stop ~> pc[Watcher] = "exited"

\* The watcher neglects no edit and does not outlive the app.
WatcherLive == Settles /\ StopEndsWatch
=============================================================================
