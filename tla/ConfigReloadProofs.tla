------------------------- MODULE ConfigReloadProofs -------------------------
(***************************************************************************)
(* Proofs about ConfigReload: what runs is valid, versions are unique, and *)
(* a reload that overlapped with no other never goes backwards; for any    *)
(* number of files, requests and edits.                                    *)
(***************************************************************************)
EXTENDS ConfigReload, TLAPS

USE DEF Reloader, Version, Kind

Busy(r) == pc[r] \in {"load", "compile"}

\* Types; the files a reload has read are no newer than those on disk.
Types ==
  /\ edits \in 0 .. MaxEdits
  /\ disk \in [File -> 0 .. edits]
  /\ kind \in [Version -> Kind]
  /\ pc \in [Reloader -> {"idle", "load", "compile", "exited"}]
  /\ read = [r \in Reloader |-> read[r]]
  /\ ver \in [Reloader -> Nat]
  /\ configVer \in Nat
  /\ current \in [ver : 1 .. configVer, conf : [File -> 0 .. edits],
                  alone : BOOLEAN]
  /\ alone \in [Reloader -> BOOLEAN]

\* The locals of a reload.
Locals ==
  \A r \in Reloader :
    /\ DOMAIN read[r] \subseteq File
    /\ read[r] \in [DOMAIN read[r] -> 0 .. edits]
    /\ \A f \in DOMAIN read[r] : read[r][f] <= disk[f]
    /\ ~Busy(r) => read[r] = NoFiles
    /\ pc[r] = "compile" =>
         /\ DOMAIN read[r] = File
         /\ ver[r] \in 2 .. configVer
         /\ ~Contains(r, "rejected")

\* What a reload that runs alone has read is no older than what runs.
Fresh ==
  /\ \A f \in File : current.conf[f] <= disk[f]
  /\ \A r \in Reloader : Busy(r) /\ alone[r] =>
       /\ \A x \in Reloader : Busy(x) => x = r
       /\ \A f \in DOMAIN read[r] : current.conf[f] <= read[r][f]
       /\ pc[r] = "compile" => current.ver < ver[r]

IInv == Types /\ Locals /\ VersionsUnique /\ OnlyValidRuns /\ Fresh

-----------------------------------------------------------------------------
(* Initially. *)

LEMMA InitIInv == Init => IInv
  BY ReloadAssumption
  DEF Init, IInv, Types, Locals, VersionsUnique, OnlyValidRuns, Fresh, NoFiles, Busy

-----------------------------------------------------------------------------
(* Steps. *)

LEMMA NoFilesRead ==
  DOMAIN NoFiles = {} /\ \A S : NoFiles \in [DOMAIN NoFiles -> S]
  BY DEF NoFiles

\* An edit only makes the files newer.
LEMMA EditStep ==
  ASSUME IInv, NEW f \in File, NEW k \in Kind, Edit(f, k)
  PROVE  IInv'
<1> USE ReloadAssumption DEF Busy
<1>1. /\ edits' \in 0 .. MaxEdits /\ edits' = edits + 1
      /\ \A g \in File : disk'[g] \in 0 .. edits' /\ disk[g] <= disk'[g]
      /\ \A v \in 0 .. edits : kind'[v] = kind[v]
  BY DEF IInv, Types, Edit
<1>2. Types'
  BY <1>1 DEF IInv, Types, Edit, reloadVars
<1>3. Locals'
  <2> SUFFICES ASSUME NEW r \in Reloader
               PROVE  /\ DOMAIN read[r] \subseteq File
                      /\ read[r] \in [DOMAIN read[r] -> 0 .. edits']
                      /\ \A g \in DOMAIN read[r] : read[r][g] <= disk'[g]
                      /\ ~Busy(r) => read[r] = NoFiles
                      /\ pc[r] = "compile" =>
                           /\ DOMAIN read[r] = File
                           /\ ver[r] \in 2 .. configVer
                           /\ ~\E g \in File : kind'[read[r][g]] = "rejected"
    BY DEF Locals, Contains, Edit, reloadVars
  <2>1. \A g \in DOMAIN read[r] :
          g \in File /\ read[r][g] \in 0 .. edits /\ read[r][g] <= disk[g]
    BY DEF IInv, Locals
  <2>2. \A g \in DOMAIN read[r] : read[r][g] \in 0 .. edits' /\ read[r][g] <= disk'[g]
    BY <1>1, <2>1 DEF IInv, Types
  <2> QED
    BY <1>1, <2>1, <2>2 DEF IInv, Locals, Contains
<1>4. VersionsUnique'
  BY DEF IInv, VersionsUnique, Edit, reloadVars
<1>5. OnlyValidRuns'
  BY <1>1 DEF IInv, Types, OnlyValidRuns, Edit, reloadVars
<1>6. Fresh'
  <2>1. \A g \in File : current.conf[g] \in Nat /\ disk[g] \in Nat /\ disk'[g] \in Nat
    BY <1>1 DEF IInv, Types
  <2>2. \A g \in File : current.conf[g] <= disk'[g]
    BY <1>1, <2>1 DEF IInv, Fresh
  <2> QED
    BY <2>2 DEF IInv, Fresh, Edit, reloadVars
<1> QED
  BY <1>2, <1>3, <1>4, <1>5, <1>6 DEF IInv

\* A step of the watcher's loop or timer that is no reload.
LEMMA QuietStep ==
  ASSUME IInv, UNCHANGED <<disk, kind, edits, read, ver, current, configVer, alone>>,
         \/ pc' = pc
         \/ pc[Watcher] = "idle" /\ pc' = [pc EXCEPT ![Watcher] = "exited"]
  PROVE  IInv'
<1> USE DEF Busy
<1>1. /\ pc' \in [Reloader -> {"idle", "load", "compile", "exited"}]
      /\ \A r \in Reloader : /\ Busy(r)' <=> Busy(r)
                             /\ pc'[r] = "compile" <=> pc[r] = "compile"
  BY DEF IInv, Types
<1>2. Types'
  BY <1>1 DEF IInv, Types
<1>3. Locals'
  BY <1>1 DEF IInv, Locals, Contains
<1>4. VersionsUnique' /\ OnlyValidRuns'
  BY <1>1 DEF IInv, VersionsUnique, OnlyValidRuns
<1>5. Fresh'
  BY <1>1 DEF IInv, Fresh
<1> QED
  BY <1>2, <1>3, <1>4, <1>5 DEF IInv

\* A reload begins: none that runs is alone any more.
LEMMA BeginStep ==
  ASSUME IInv, NEW r \in Reloader, Begin(r), UNCHANGED <<disk, kind, edits>>
  PROVE  IInv'
<1> USE DEF Busy
<1>1. /\ pc[r] = "idle" /\ pc' = [pc EXCEPT ![r] = "load"]
      /\ UNCHANGED <<read, ver, current, configVer, disk, kind, edits>>
      /\ alone' \in [Reloader -> BOOLEAN]
      /\ alone'[r] = (Reloading = {})
      /\ \A x \in Reloader \ {r} : alone'[x] = (alone[x] /\ x \notin Reloading)
  BY DEF IInv, Types, Begin
<1>2. /\ pc' \in [Reloader -> {"idle", "load", "compile", "exited"}]
      /\ \A x \in Reloader : /\ pc'[x] = "compile" <=> pc[x] = "compile"
                             /\ x # r => pc'[x] = pc[x]
      /\ pc'[r] = "load"
  BY <1>1 DEF IInv, Types
<1>3. Types'
  BY <1>1, <1>2 DEF IInv, Types
<1>4. Locals'
  BY <1>1, <1>2 DEF IInv, Locals, Contains
<1>5. VersionsUnique' /\ OnlyValidRuns'
  BY <1>1, <1>2 DEF IInv, VersionsUnique, OnlyValidRuns
<1>6. Fresh'
  <2>1. DOMAIN read[r] = {}
    BY <1>1 DEF IInv, Locals, NoFiles
  <2>2. ASSUME NEW x \in Reloader, Busy(x)', alone'[x]
        PROVE  x = r /\ Reloading = {}
    BY <1>1, <1>2, <2>2 DEF Reloading
  <2>3. \A x \in Reloader : Reloading = {} /\ Busy(x)' => x = r
    BY <1>2 DEF Reloading
  <2> QED
    BY <1>1, <1>2, <2>1, <2>2, <2>3 DEF IInv, Fresh
<1> QED
  BY <1>3, <1>4, <1>5, <1>6 DEF IInv

\* A file is read: no older than what runs, since that is no newer than the disk.
LEMMA ReadStep ==
  ASSUME IInv, NEW r \in Reloader, NEW f \in File, ReadFile(r, f)
  PROVE  IInv'
<1> USE DEF Busy
<1> DEFINE D == DOMAIN read[r] \cup {f}
<1>1. /\ pc[r] = "load"
      /\ UNCHANGED <<disk, kind, edits, pc, ver, current, configVer, alone>>
      /\ read' = [x \in Reloader |-> read'[x]]
      /\ \A x \in Reloader \ {r} : read'[x] = read[x]
      /\ read'[r] = [g \in D |-> IF g = f THEN disk[f] ELSE read[r][g]]
  BY DEF IInv, Types, ReadFile
<1>2. /\ D \subseteq File /\ DOMAIN read'[r] = D
      /\ read'[r] \in [D -> 0 .. edits]
      /\ \A g \in D : read'[r][g] <= disk[g]
  <2>1. disk[f] \in 0 .. edits /\ disk[f] \in Int
    BY DEF IInv, Types
  <2>2. /\ DOMAIN read[r] \subseteq File
        /\ \A g \in DOMAIN read[r] :
             read[r][g] \in 0 .. edits /\ read[r][g] <= disk[g]
    BY DEF IInv, Locals
  <2> QED
    BY <1>1, <2>1, <2>2
<1>3. Types'
  BY <1>1 DEF IInv, Types
<1>4. Locals'
  BY <1>1, <1>2 DEF IInv, Locals, Contains
<1>5. VersionsUnique' /\ OnlyValidRuns'
  BY <1>1 DEF IInv, VersionsUnique, OnlyValidRuns
<1>6. Fresh'
  <2>1. alone[r] => \A g \in D : current.conf[g] <= read'[r][g]
    BY <1>1, <1>2 DEF IInv, Fresh
  <2> QED
    BY <1>1, <2>1 DEF IInv, Fresh
<1> QED
  BY <1>3, <1>4, <1>5, <1>6 DEF IInv

\* A reload is over and has changed nothing.
LEMMA EndStep ==
  ASSUME IInv, NEW r \in Reloader, Busy(r), Ended(r),
         UNCHANGED <<disk, kind, edits, current, configVer>>
  PROVE  IInv'
<1> USE DEF Busy
<1>1. /\ pc' \in [Reloader -> {"idle", "load", "compile", "exited"}]
      /\ ver' \in [Reloader -> Nat] /\ alone' \in [Reloader -> BOOLEAN]
      /\ read' = [x \in Reloader |-> read'[x]]
      /\ pc'[r] = "idle" /\ read'[r] = NoFiles
      /\ \A x \in Reloader \ {r} :
           /\ pc'[x] = pc[x] /\ read'[x] = read[x] /\ ver'[x] = ver[x]
           /\ alone'[x] = alone[x]
  BY DEF IInv, Types, Ended
<1>2. Types'
  BY <1>1 DEF IInv, Types
<1>3. Locals'
  <2>1. DOMAIN read'[r] = {} /\ read'[r] \in [DOMAIN read'[r] -> 0 .. edits]
    BY <1>1, NoFilesRead
  <2>2. ~Busy(r)' /\ UNCHANGED <<disk, kind, edits, configVer>>
    BY <1>1
  <2>3. ASSUME NEW x \in Reloader, x # r
        PROVE  /\ DOMAIN read'[x] \subseteq File
               /\ read'[x] \in [DOMAIN read'[x] -> 0 .. edits']
               /\ \A f \in DOMAIN read'[x] : read'[x][f] <= disk'[f]
               /\ ~Busy(x)' => read'[x] = NoFiles
               /\ pc'[x] = "compile" => /\ DOMAIN read'[x] = File
                                        /\ ver'[x] \in 2 .. configVer'
                                        /\ ~Contains(x, "rejected")'
    BY <1>1, <2>2, <2>3 DEF IInv, Locals, Contains
  <2> QED
    BY <1>1, <2>1, <2>2, <2>3 DEF Locals
<1>4. VersionsUnique' /\ OnlyValidRuns'
  BY <1>1 DEF IInv, VersionsUnique, OnlyValidRuns
<1>5. Fresh'
  BY <1>1 DEF IInv, Fresh
<1> QED
  BY <1>2, <1>3, <1>4, <1>5 DEF IInv

\* A reload takes the next version.
LEMMA VersionStep ==
  ASSUME IInv, NEW r \in Reloader, Loaded(r), ~Contains(r, "rejected")
  PROVE  IInv'
<1> USE DEF Busy
<1>1. /\ pc[r] = "load" /\ DOMAIN read[r] = File
      /\ UNCHANGED <<disk, kind, edits, read, current, alone>>
      /\ configVer \in Nat /\ configVer' = configVer + 1
      /\ pc' \in [Reloader -> {"idle", "load", "compile", "exited"}]
      /\ ver' \in [Reloader -> Nat]
      /\ pc'[r] = "compile" /\ ver'[r] = configVer + 1
      /\ \A x \in Reloader \ {r} : pc'[x] = pc[x] /\ ver'[x] = ver[x]
  <2>1. /\ pc[r] = "load" /\ DOMAIN read[r] = File
        /\ pc' = [pc EXCEPT ![r] = "compile"]
        /\ ver' = [ver EXCEPT ![r] = configVer + 1]
        /\ configVer' = configVer + 1
        /\ UNCHANGED <<disk, kind, edits, read, current, alone>>
    BY DEF Loaded, NextVersion
  <2> QED
    BY <2>1 DEF IInv, Types
<1>2. current.ver \in 1 .. configVer
  BY DEF IInv, Types
<1>3. \A x \in Reloader \ {r} : pc[x] = "compile" => ver[x] \in 2 .. configVer
  BY DEF IInv, Locals
<1>4. Types'
  BY <1>1, <1>2 DEF IInv, Types
<1>5. Locals'
  BY <1>1, <1>2, <1>3 DEF IInv, Locals, Contains
<1>6. VersionsUnique' /\ OnlyValidRuns'
  BY <1>1, <1>2, <1>3 DEF IInv, VersionsUnique, OnlyValidRuns
<1>7. Fresh'
  BY <1>1, <1>2 DEF IInv, Fresh
<1> QED
  BY <1>4, <1>5, <1>6, <1>7 DEF IInv

\* A reload stores what it has read.
LEMMA StoreStep ==
  ASSUME IInv, NEW r \in Reloader, Compiled(r), Stores(r)
  PROVE  IInv'
<1> USE DEF Busy
<1>1. /\ pc[r] = "compile"
      /\ UNCHANGED <<disk, kind, edits, configVer>>
      /\ current' = [ver |-> ver[r], conf |-> read[r], alone |-> alone[r]]
      /\ pc' \in [Reloader -> {"idle", "load", "compile", "exited"}]
      /\ ver' \in [Reloader -> Nat] /\ alone' \in [Reloader -> BOOLEAN]
      /\ read' = [x \in Reloader |-> read'[x]]
      /\ pc'[r] = "idle" /\ read'[r] = NoFiles
      /\ \A x \in Reloader \ {r} :
           /\ pc'[x] = pc[x] /\ read'[x] = read[x] /\ ver'[x] = ver[x]
           /\ alone'[x] = alone[x]
  BY DEF IInv, Types, Compiled, Ended
<1>2. /\ DOMAIN read[r] = File /\ read[r] \in [File -> 0 .. edits]
      /\ \A g \in File : read[r][g] <= disk[g]
      /\ ver[r] \in 2 .. configVer
      /\ ~Contains(r, "rejected") /\ ~Contains(r, "uncompilable")
  BY <1>1 DEF IInv, Locals, Stores
<1>3. current' \in [ver : 1 .. configVer, conf : [File -> 0 .. edits], alone : BOOLEAN]
  BY <1>1, <1>2 DEF IInv, Types
<1>4. Types'
  BY <1>1, <1>3 DEF IInv, Types
<1>5. Locals'
  <2>1. DOMAIN read'[r] = {} /\ read'[r] \in [DOMAIN read'[r] -> 0 .. edits]
    BY <1>1, NoFilesRead
  <2>2. ~Busy(r)' /\ UNCHANGED <<disk, kind, edits, configVer>>
    BY <1>1
  <2>3. ASSUME NEW x \in Reloader, x # r
        PROVE  /\ DOMAIN read'[x] \subseteq File
               /\ read'[x] \in [DOMAIN read'[x] -> 0 .. edits']
               /\ \A f \in DOMAIN read'[x] : read'[x][f] <= disk'[f]
               /\ ~Busy(x)' => read'[x] = NoFiles
               /\ pc'[x] = "compile" => /\ DOMAIN read'[x] = File
                                        /\ ver'[x] \in 2 .. configVer'
                                        /\ ~Contains(x, "rejected")'
    BY <1>1, <2>2, <2>3 DEF IInv, Locals, Contains
  <2> QED
    BY <1>1, <2>1, <2>2, <2>3 DEF Locals
<1>6. VersionsUnique'
  BY <1>1 DEF IInv, VersionsUnique
<1>7. OnlyValidRuns'
  <2>1. \A g \in File : read[r][g] \in Version
    BY <1>2, ReloadAssumption DEF IInv, Types
  <2> QED
    BY <1>1, <1>2, <2>1 DEF IInv, Types, OnlyValidRuns, Contains
<1>8. Fresh'
  <2>1. \A x \in Reloader \ {r} : Busy(x) => ~alone[x]
    BY <1>1 DEF IInv, Fresh
  <2> QED
    BY <1>1, <1>2, <2>1 DEF IInv, Fresh
<1> QED
  BY <1>4, <1>5, <1>6, <1>7, <1>8 DEF IInv

LEMMA NextIInv ==
  ASSUME IInv, [Next]_vars
  PROVE  IInv'
<1>1. ASSUME NEW f \in File, NEW k \in Kind, Edit(f, k) PROVE IInv'
  BY <1>1, EditStep
<1>2. CASE TakeEvent
  BY <1>2, QuietStep DEF TakeEvent, reloadVars
<1>3. CASE Fire
  BY <1>3, QuietStep DEF Fire, reloadVars
<1>4. CASE StopWatch
  BY <1>4, QuietStep DEF StopWatch, reloadVars
<1>5. CASE WatcherExit
  BY <1>5, QuietStep DEF WatcherExit
<1>6. CASE TakeToken
  BY <1>6, BeginStep DEF TakeToken
<1>7. ASSUME NEW r \in Request, PostReload(r) PROVE IInv'
  BY <1>7, BeginStep DEF PostReload
<1>8. ASSUME NEW r \in Reloader, NEW f \in File, ReadFile(r, f) PROVE IInv'
  BY <1>8, ReadStep
<1>9. ASSUME NEW r \in Reloader, Loaded(r) PROVE IInv'
  <2>1. CASE Contains(r, "rejected")
    BY <1>9, <2>1, EndStep DEF Loaded, Busy
  <2>2. CASE ~Contains(r, "rejected")
    BY <1>9, <2>2, VersionStep
  <2> QED
    BY <2>1, <2>2
<1>10. ASSUME NEW r \in Reloader, Compiled(r) PROVE IInv'
  <2>1. CASE Stores(r)
    BY <1>10, <2>1, StoreStep
  <2>2. CASE ~Stores(r)
    BY <1>10, <2>2, EndStep DEF Compiled, Busy
  <2> QED
    BY <2>1, <2>2
<1>11. CASE UNCHANGED vars
  BY <1>11, QuietStep DEF vars, reloadVars
<1> QED
  BY <1>1, <1>2, <1>3, <1>4, <1>5, <1>6, <1>7, <1>8, <1>9, <1>10, <1>11
  DEF Next, ReloadStep

-----------------------------------------------------------------------------
(* The theorems. *)

\* The inductive invariant: among others, nothing that is read or runs is newer
\* than the disk, and a reload that runs alone has read nothing older than what
\* runs (Reload, app.go:143).
THEOREM ReloadInvariant == Spec => []IInv
  BY InitIInv, NextIInv, PTL DEF Spec

LEMMA IInvIsSafe == IInv => ReloadSafe
<1> SUFFICES ASSUME IInv PROVE ReloadSafe
  OBVIOUS
<1>1. TypeOK
  <2>1. disk \in [File -> Version] /\ current.conf \in [File -> Version]
    BY ReloadAssumption DEF IInv, Types
  <2> QED
    BY <2>1 DEF IInv, Types, Locals, Busy, TypeOK
<1> QED
  BY <1>1 DEF IInv, ReloadSafe

\* However many reloads overlap, and whatever the files become meanwhile, only
\* configurations that were loaded and compiled run, and no two snapshots have
\* one version (app.go:143).
THEOREM ReloadSafeHolds == Spec => []ReloadSafe
  BY ReloadInvariant, IInvIsSafe, PTL

\* No reload that ran alone puts back an older file or an older version
\* (app.go:152).
THEOREM NeverBackwardsHolds == Spec => NeverBackwards
<1> DEFINE Step ==
      current' # current /\ current'.alone =>
        /\ current'.ver > current.ver
        /\ \A f \in File : current'.conf[f] >= current.conf[f]
<1>1. ASSUME IInv, [Next]_vars PROVE [Step]_vars
  <2> SUFFICES ASSUME current' # current, current'.alone PROVE Step
    OBVIOUS
  <2>1. PICK r \in Reloader : Compiled(r) /\ Stores(r)
    BY <1>1 DEF Next, ReloadStep, Edit, TakeEvent, Fire, TakeToken, StopWatch,
                WatcherExit, PostReload, ReadFile, Loaded, Compiled, Begin,
                reloadVars, vars
  <2>2. /\ pc[r] = "compile"
        /\ current' = [ver |-> ver[r], conf |-> read[r], alone |-> alone[r]]
    BY <2>1 DEF Compiled
  <2>3. /\ DOMAIN read[r] = File /\ ver[r] \in Nat /\ current.ver \in Nat
        /\ \A f \in File : read[r][f] \in Nat /\ current.conf[f] \in Nat
        /\ \A f \in File : current.conf[f] <= read[r][f]
        /\ current.ver < ver[r]
    <3>1. Busy(r) /\ alone[r]
      BY <2>2 DEF Busy
    <3>2. /\ DOMAIN read[r] = File /\ ver[r] \in Nat /\ current.ver \in Nat
          /\ \A f \in File : read[r][f] \in Nat /\ current.conf[f] \in Nat
      <4>1. /\ DOMAIN read[r] = File /\ ver[r] \in 2 .. configVer
            /\ read[r] \in [DOMAIN read[r] -> 0 .. edits]
        BY <1>1, <2>2 DEF IInv, Locals
      <4>2. /\ current.ver \in 1 .. configVer /\ configVer \in Nat
            /\ edits \in Nat /\ current.conf \in [File -> 0 .. edits]
        BY <1>1 DEF IInv, Types
      <4> QED
        BY <4>1, <4>2
    <3> QED
      BY <1>1, <2>2, <3>1, <3>2 DEF IInv, Fresh
  <2> QED
    BY <2>2, <2>3
<1> QED
  BY <1>1, ReloadInvariant, PTL DEF Spec, NeverBackwards
=============================================================================
