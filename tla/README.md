# TwinStub in TLA+

TwinStub is a mock server for payment-like APIs: HTTP requests move *sessions*
through the states of a *scenario*, entering a state schedules *webhooks*, and
the first attempt of a webhook may move its session again. Tests advance a
session's virtual clock instead of waiting. Nothing is persisted; everything
hard about the program is concurrency inside one process.

These modules model it from its Go source, check it with TLC on small instances
and prove with TLAPS that the safety properties hold for all instances.

| file | what it is |
|---|---|
| `Outbox.tla` | abstract: what the dispatcher promises of one delivery |
| `Dispatcher.tla` | `internal/webhook`: scheduler, workers, retries, session clocks, cancellation; implements `Outbox` |
| `SessionStore.tla` | `internal/engine/store.go` and the store's use by the engine |
| `Engine.tla` | `internal/engine/engine.go` on top of `SessionStore`: transitions, enter actions, gotos |
| `RecentLog.tla` | abstract: a list of the newest entries |
| `Ring.tla` | the ring buffer of the journal and of the 404 log |
| `Journal.tla` | `webhook/log.go` between `Outbox` and the admin API's handlers; implements `RecentLog` |
| `ConfigReload.tla` | `config/watch.go`, `App.Reload` and `POST /reload` |
| `McpServer.tla` | `internal/mcp`: the choice of an engine, `load_config`, every other tool |
| `Matching.tla` | `internal/match` and key selectors, as operators |
| `Loading.tla` | `config/load.go`, `validate.go` and `snapshot.Compile`, on `Matching` |
| `PublicServer.tla` | `internal/server` and `misslog`, on `Loading` and `Ring`; implements `RecentLog` |
| `MC*.tla`, `*.cfg` | instances, symmetry and views for TLC |
| `*Proofs.tla` | theorems about every component: the safety properties, action properties and refinements TLC checks, for all instances |

## 1. The system

| component | source (`src/internal/…`) | state | operations | hard behaviour | what makes it correct |
|---|---|---|---|---|---|
| webhook dispatcher | `webhook/dispatcher.go`, `clock.go`, `deliver.go` | heap of queued deliveries, pending per session, per-session clock offsets, sessions reserved by a call, sessions canceled meanwhile, wake/stop channels | `Schedule`, `run`, `worker`/`attempt`, `Advance`, `DeliverNow`, `CancelSession`, `CancelAll`, `Stop` | one scheduler, a pool and any number of callers hand a delivery around; a lock is released between every two steps; retries; timeouts; shutdown | one holder per delivery, none lost, a driven session untouched by others, stable due times, order and coverage of a window, exact retry budget, termination |
| delivery journal | `webhook/log.go` | ring of records, index by id | `Add`, `update`, `Get`, `Page`, `Clear` | records rotate out while still in use; paging while records are added | newest records present, pages without duplicates |
| session store | `engine/store.go` | sessions by key (shards), by id, their number, registry of live key selectors | `Create`, `Delete`, `GetByKey`, `GetByID`, `LiveSelectors`, `Sweep` | four indices under four locks; check-then-delete sweeper | indices agree, exact count and limit, live sessions found |
| scenario engine | `engine/engine.go` | state, epoch, variables, history and TTL of each session | `Handle`, `StartSession`, `AdvanceTo`, `advance`, `Touch`, `DeleteSession`, `SweepExpired` | requests, admin calls and callbacks race for a session's lock; pointers looked up before the lock | limit on pending webhooks, history, stale gotos dropped, every goto fires |
| snapshot compiler | `snapshot/snapshot.go` | none (immutable result) | `Compile`, `KeySelector.Extract` | – | compiled form equals configuration |
| application | `app/app.go` | current snapshot, version counter | `Reload`, `Start`, `Shutdown` | overlapping reloads | the newest valid configuration is current |
| configuration watcher | `config/watch.go` | debounce timer, one-slot channel | `Watch` | changes during a reload | a change is followed by a reload |
| admin API | `admin/admin.go` | none | one handler per route | sequences of calls on session and dispatcher with deletions in between | a call answers for one session |
| public server | `server/server.go` | none | scenario engine, then stateless endpoints, then 404 | – | routing order |
| matching | `match/match.go`, `jsonpath.go` | none | path patterns, JSONPath | – | agreement with the grammar |
| configuration | `config/load.go`, `validate.go`, `env.go` | none | load, merge, validate | – | what is accepted can run, warnings are exact |
| templates | `tmpl/tmpl.go` | seeded random source | render | – | determinism under a seed |
| 404 log | `misslog/misslog.go` | ring | `Add`, `List`, `Clear` | – | newest first |
| MCP server | `mcp/*.go` | the running server, under a RWMutex | tools, `load_config` | swap while tools run | at most one server |
| signing, SSRF guard, durations, CLI, scaffold, examples | `webhook/sign.go`, `ssrf.go`, `xtime`, `cli`, … | none | – | – | – |

How they interact: a request goes server → `Engine.Handle` → store lookup →
the session's lock; under that lock the engine calls the dispatcher
(`PendingCount`, `Schedule`). The dispatcher calls back into the engine
(`advance`) from a worker, or from an `Advance`/`DeliverNow` call, after a first
attempt, holding no lock. The admin API calls engine and dispatcher in turn.
A reload replaces the snapshot pointer; sessions keep the scenario they started
with, and requests find those of older snapshots through the selector registry.
The sweeper is one goroutine that deletes expired sessions and then cancels
their webhooks. Lock order: `idMu` (read, by `Sweep`) → `Session.mu` →
`Dispatcher.mu`; the shard's lock → `lenMu`.

The journal is written by `Schedule`, `attempt` and the cancellations and read by
the admin API, each time under the journal's own lock. `config.Watch` calls
`App.Reload` from its loop, `POST /reload` calls it from a request. The MCP server
starts an `App` of its own, or talks to one over the admin API.

The hazards of this code, each at its line, are listed in `PROJECT.json` with
the properties that cover them, or with the reason why none does yet.

## 2. The modules

### Outbox and Dispatcher

`Outbox` is the promise: a delivery is enqueued once, taken up while it is open,
not canceled, not on its way and within its budget; what is taken up is sent, even
if it is canceled before that; the answer is recorded once; exactly the last
request of the budget makes a refusal final. `Dispatcher` implements it
(`ImplementsOutbox`): the abstract `state` is the journal's status, `taken` the
deliveries some goroutine has found uncanceled and not yet sent, `sending` those
some goroutine is sending, `tries` the attempts, `dropped` the canceled flags.

State and actions follow the fields and functions of the code, see the comments
on `VARIABLES` and the names of the actions. A worker or a caller (`Executor`)
has a program counter; the scheduler has `run`. The grain is one action per
section under `Dispatcher.mu`, plus one for each step others can see in between.

| code | actions |
|---|---|
| `Schedule` | `Schedule` (up to the lock: clock, id, journal), `ScheduleQueues` (under the lock, and `kick`) |
| `run` | `Scan` (one pass over the heap), `Hand` (`workCh <-`), `Arm`, `Wakeup`, `Exit` |
| `attempt` | `SkipCanceled`, `TakeUp` (the flag is not set), `StartAttempt` (after `ClockOffset`), `Answer` (any outcome), `Settle` (requeue or retire), `Callback` and `CallbackQueues` (`onFirst`, which calls `Schedule`) |
| `acquire`, `release` | `Begin`, `Acquired`, `AcquireTimeout`, `Release` |
| `Advance` | `PickNext`, `Covered`, `GiveUp`, `Finish` |
| `DeliverNow` | `DeliverNext`, `DeliverEnd` |
| `CancelSession`, `CancelAll` | `BeginCancel`, `BeginCancelAll`, `Mark`, `CancelEnd` |
| `Stop` | `StopDispatcher`, then `Exit` |

`Schedule` stamps a delivery with the clock and writes its journal record before it
takes `d.mu`. What others do in between it cannot see: an `Advance` may fire later
deliveries, a cancel or a reset may finish. Such a delivery is `fresh`, and
`DriveInOrder`, `WindowCovered` and `ResetCancelsQueued` say what holds of it: a call
that fires something may fire afterwards, out of order, only what was `fresh` then
(`late`, a ghost); a covered window and a reset reach what is queued.

Abstractions: `kick()` is merged with the section before it: a later token only
makes the scheduler scan once more. Reading the clock, the new id and the journal
record are one step: the dispatcher's other goroutines see none of the three.
`canceled.Store` and the journal update that follows it are one `Mark`; nothing
reads both. The heap is a set, its order is `fireAt` with ties in any order.
`DeliverNow`'s items are chosen one by one instead of being a list given in
advance. Jitter is any integer within 20 %. The context of a call may end at any
time when `Ops` contains `"expire"`. A refused call (`ErrSessionBusy`) changes
nothing and is no step. The callback is external to the dispatcher: it schedules
one more delivery or none; what it really does is `Engine`'s.

### SessionStore

One action per critical section. `Create` is `InsertKey` (the shard's lock with
`lenMu` inside), `IndexID` and `AddSelector`; `Delete` is `RemoveID`,
`RemoveKey`, `Uncount` and `RemoveSelector`; `Sweep` is `BeginSweep`, a `Look` at
each session under its lock, `EndScan` and a `SweepNext` for each expired one.
While the sweeper scans it holds `idMu` for reading, so `IndexID` and `RemoveID`
wait. `findSession`'s two loops are one action each, `FindLoaded` and `FindLive`;
within a loop the session may be any one a selector yields. `Existing`, `Refuse`
and `GetByID` are the other ways a call gets or loses its session; `LockNew`,
`LockTouch` and `Unlock` are the session's lock, whose inside is `Engine`'s.

A request carries one key, at the place one selector looks at, and one path.
`Extract` is the code's: only path selectors look at the scenario's patterns.
Time is the set of sessions whose TTL has passed. `List`, `Len` and the views
only read and are left out, like the shards: keys never interact.

### Engine

`Engine` extends `SessionStore` and adds what happens under `Session.mu`:
`Created` (the creation's history entry and the start of the enter actions),
`EnterState` (`enterStateLocked`, for a rule, a callback or `AdvanceTo`),
the loop of `runEnterLocked` as `PassLimit`/`SkipAction`/`ScheduleAction` (the
limit check and the scheduling are two sections of the dispatcher's lock), and
`EngineUnlock`. `CancelSession` and `CancelSwept` follow the deletions.

The dispatcher is reduced to its set of pending deliveries. `FirstAttempt` ends
a first attempt, retired or kept for a retry, and starts the callback, which
looks the session up (`Callback`) before it waits for the lock; `LastAttempt`
ends the retries of a delivery. An attempt in flight whose delivery is canceled
is left out: its callback finds the session deleted. A delivery's `from` is a
ghost, the state that scheduled it. Variables, replies and template contexts are
left out; a body that fails to render, or the limit, is `SkipAction`. `Replay` is
`deliveryReplay` (`admin.go:539`): it schedules a delivery of a recorded session once
more, whatever became of that session, without its lock and without the limit;
`PendingCount` counts it like any other. The journal's rotation is left out there: a
session whose delivery was once recorded may be replayed. `/trigger` deliveries have
no session and are left to `Dispatcher`. `start` is the local `start` of
`createSession`, the state its history entry names. A read-only administrative call is `GetByID` followed
by `Refuse`.

### Journal, Ring, RecentLog

`Ring` is the buffer that `DeliveryLog` and `Misses` both have: `Push`, and the
backwards index of their listings. `RecentLog` is what a reader may rely on, a
list of the newest entries; both logs are shown to implement it.

`Journal` extends `Outbox`, which stands for the dispatcher (it is proved to
implement it): each of its steps takes the journal's share with it, `Log` in
`Schedule`, `Update` in `Attempted` and `Canceled`, nothing in `TakeUp` and `Attempt`. A record is named by its
delivery's id; whoever holds a pointer to a record that rotated out may go on
with it. The handlers are clients: `deliveries` as `BeginWalk`, `ReadPage`,
`WalkExpired` (a cursor that rotated out), `deliveryReplay` as `BeginReplay` (it
copies the source), `ReplaySchedule`, and the wait for a first attempt as
`WaitAnswered` and `WaitTimeout`; `resetAll` clears. `stayed` is a ghost: the
records a walk must not miss. `canceled` is recorded once per delivery: the calls
find the flag set, or the delivery gone from pending.

### ConfigReload

The files are numbered by the edit they come from, and an edit leaves a file that
loads, one that `config.Load` rejects, or one that only `Compile` rejects.
`Reload` is one `ReadFile` per file, `Loaded` (validation, `configVer.Add`) and
`Compiled` (`Compile`, `current.Store`), run by the watcher's goroutine and by
requests at once. The watcher's loop has one action per case of its `select`;
`Fire` is the function of `time.AfterFunc`, which `timer.Stop` may come too late
for. Which directories are watched and which files are included is fixed.

### McpServer

The sections under `Server.mu`. `resolve` is `ResolveReady`, `ChooseLock`,
`AlreadyChosen`, `UseExternal`, `UseEmbedded`; `startEmbedded` is `StartCheck`
(`config.Load`, and `freePort`, which nothing separates from it but the closing of
a probe), `Build` (`app.New`), `Bind` (`Start`, and publishing the engine) or
`StartFails`; `loadConfig` is `LoadCall` (the validation), `LoadLock` and one of
`LoadExternal`, `LoadEmbedded`, `LoadPanics`; every other tool is `UseLock`, `Use`
(its answer, and `done()`). Files, foreign ports and the external engine change
at any time between these. An engine is its port and the file it serves. A
panic ends the process; nothing after it is modelled.

### Matching and Loading

`Matching` holds what `internal/match` decides: which patterns, JSON paths and
regular expressions compile, whether a request matches, and which check fails
first (`Explain`, in the order of `match.go`). A path is the sequence of parts
between its slashes, an expected text the set of texts it accepts, a JSON value
the text it prints as and the number it is taken for.

`Loading` merges the files, applies the defaults, validates by every rule of
`validate.go`, searches for unreachable states one queue element per step, and
compiles. Which error is reported is not modelled, so the search runs only for
configs without one. Environment variables and the text of warnings are left out.
`AreFiles` is the shape the decoder gives files (`config/types.go`); nothing else is
assumed of what they say. Lists are lists of pointers, and a null among their items
is a nil pointer (`None`): `markSources` dereferences each endpoint and scenario
(`load.go:126`, `129`), validation each action and rule (`validate.go:205`, `229`), so
such a load panics, in the order in which the code gets there (`Panics`); a null
where validation looks first (a state, a target, a reply) is rejected. `Without` is the test in front of each `append` to the
search's queue, over a whole list of gotos.

### PublicServer

One request is followed from `Arrive` (it loads the snapshot pointer) over
`Find`, `Create`/`CreateFails`, `HeaderConflict`, `HandleInSession`,
`FallThrough`, `HandleEndpoint`, `NoEndpoint` to `Miss` (`write404` with its
candidates and advice, and `misslog.Add`). Between these a load ends, and others
start, move and delete sessions (`OthersStart`, `OthersMove`, `OthersDelete`). A
session is a key bound to a state of the scenario it pinned; `orphan` is the
request's session once it was deleted, `known` a ghost. A rule's reply is its
status, as `net/http` writes it. While a load walks, nothing else happens: nobody
sees it before it ends. A load that panics leaves the running config alone: the admin
API's `Recoverer` answers 500 (`Recover`); at the start, or in the watcher's
goroutine, the panic ends the process, and nothing after it is modelled. A body beyond the limit is answered 413; the other
errors of reading a body are left out. `MaxCandidates` stands for the 10 of
`write404`.

## 3. What TLC checks

Every cfg says `CHECK_DEADLOCK FALSE`: an idle server sleeps, and the bounded
environment (`MaxCalls`, `MaxDelivery`, `MaxMade`, `MaxMoves`, `MaxEdits`, ...)
runs out of requests. That nothing hangs is what the liveness properties say.

Passing runs:

| run | distinct states | question |
|---|---|---|
| `dispatch_clock` | 1.7 M | one `Advance` against scheduler, worker, callbacks and retries on two deliveries: ownership, clock, order, coverage, wake-ups, `Outbox` |
| `dispatch_calls` | 1.2 M | two callers mix `Advance`, `DeliverNow`, deletions and resets over one delivery with a retry: nothing is stranded, taken up after it was canceled, or missed by a reset |
| `dispatch_live` | 190 k | deliveries settle, calls return, `Stop` drains |
| `store_indices` | 280 k | create, find, touch, delete, sweep, reload: indices, count, limit, reachability |
| `engine_moves` | 760 k | requests, admin calls, a callback and a replay on one session, started in any state: limit, history, stale gotos |
| `engine_live` | 30 k | calls, callbacks and sweeps end, gotos fire |
| `journal` | 590 k | four deliveries through a ring of two: index, records, pages, duplicates, `RecentLog` |
| `reload` | 220 k | two edits of two files, the watcher and overlapping reload requests: versions, validity, order, and what runs in the end |
| `mcp_calls` | 150 k | two tool calls, and one change of files, ports or the external engine: one engine, no swap underneath, the port kept, every call returns |
| `public_server` | 420 k | every kind of config, nulls in lists included, seven kinds of request, a second load: usable configs, true answers, `RecentLog`, loads end |

Properties that say several things at once are conjunctions of named parts:

- `Ownership`: `OneHolder` and `DriveAlone`.
- `IndexMatchesRing`: the journal's types, the index is the ring, no id twice.
- `WalkSound`: `WalkInOrder` and `WalkComplete`.
- `ReloadSafe`: types, `VersionsUnique`, `OnlyValidRuns`; `WatcherLive`:
  `Settles` and `StopEndsWatch`.
- `EngineAgrees`: types, `OneEngine`, `ChoiceConsistent`; `LoadSafe`:
  `NoSwapUnderneath`, `PortKept`, `LoadedIsServed`.
- `ConfigUsable`: types, `WarningsExact`, `SessionsRunnable`, `LimitsUsable`;
  `AnswersHold`: `HeaderHonoured`, `CandidatesRejected`, `AdviceWorks`.

### Why the bounds are enough for what is asked

Dispatcher: a fault of ownership needs two goroutines and one delivery, and a
third one (the scheduler) is always there; order and coverage need a second
delivery, which the callback of the first or a request schedules, and a retry
(`MaxAttempts = 2`). In `dispatch_clock` every delivery of a session has a callback:
one without only does less. The window is twice the delay, so that a delivery scheduled
at its start falls inside and one scheduled at its end outside. Where a delivery
without a session matters (`trigger`, `reset`), `dispatch_calls` has one.

Store and engine: two keys with room for one session let a deletion overlap the
next creation, so that two sessions share a selector although only one is
counted. Two sessions suffice for the indices: their faults are about one session
that frees or blocks another one's key. In `engine_moves` a limit of one delivery
and a history of two entries are reached by the payment scenario of
`docs/dsl.md`, whose middle state schedules two webhooks and may be entered
again; one replay is enough to take the last room, or to come between the test of
the limit and its use. Expiry and the sweeper are in `engine_live`, which has no
replay: it waits for nobody.

Journal: a ring of two is full, wraps, and rotates out a cursor, a replay's source
and a delivery under way when four deliveries pass through it; a page of one
record makes every walk continue. `MaxAttempts = 1`: retries are `Dispatcher`'s.
`Session` is empty there: a filter by session never changes its mind about a
record, one by status does.

Reload: an include and a root let a load read one of them before and the other
after an edit, and a second edit falls into the reload the first one caused. The
one request may overlap with the watcher, or not.

MCP: two calls suffice for who chooses and who swaps; three engine names let an
old one stop while a client still names it; two ports give a restart a wrong one
to land on. One change of the world is enough for a file that changes between two
looks.

Public server: the configs are small ones with every shape validation
distinguishes, each kind of mistake once, and all graphs of three states that the
search for unreachable states could stumble over. Three requests may all miss, one
more than the 404 log has slots, so that it evicts. Requests and configs are chosen
so that every check of `Explain` decides some of them.

`MaxNow` bounds the wall clock only while nothing waits for it: the time a
sleeping scheduler waits for always comes.

Symmetry is used in safety runs only. The views drop what nothing can read any
more (a settled delivery's times, a deleted session's fields, the status of a
record that left the journal, but not its header and body, which duplicates
repeat) and, in `MCDispatcher`, count time from the present: the code compares
times only with each other.

Each property is also run against a fault put into one mapped definition (the
operators marked `BUG`), which it must reject.

### Fairness

- `Dispatcher`: weak fairness of time and of every goroutine: Go runs them, a
  request ends by its answer or by `target.Timeout`, a call's context has a
  deadline (`admin.go:331`, `380`).
- `Engine`: strong fairness per goroutine, because sessions' locks and `idMu` are
  taken again and again by others: Go's mutexes hand over to a starving waiter,
  and a waiting writer of a `RWMutex` holds back new readers.
- `ConfigReload`: weak fairness of the timer and of each reload; strong fairness
  of each case of the watcher's `select`, which picks at random among ready ones.
- `McpServer`: strong fairness of every call, for the reason given for `Engine`.
- `PublicServer`: weak fairness of a load; it waits for nobody.

Nothing forces the outside world to act.

### Where code and documentation disagree

Two runs expect a violation; each refutes one sentence of a document or comment.

| run | what happens |
|---|---|
| `transition_before_clock` | `attempt` clears `running` before it calls `onFirst`; `acquire` waits for running attempts only, so `Advance` can pass its whole window before the transition of a first attempt runs |
| `mcp_restart` | `load_config` stops the old engine before it starts the new one; if the file was changed after its check, or the port was taken, there is no engine left, and no later call starts one (`mcp.go:139`, `252`) |

Seen while modelling, without a run of their own:

- A `/trigger` delivery the scheduler has popped is neither in the heap nor in
  pending: a reset does not cancel it (`dispatcher.go:293`;
  `docs/admin-api.md:286` says every queued webhook). `ResetCancelsQueued`
  excepts it.
- The selector registry keeps the scenario of the first session with a selector
  text; a later session with other paths is not found after two reloads
  (`store.go:181`; `docs/admin-api.md:303`). `ReachableUnlessPath` excepts path
  selectors.
- A request between the sweeper's test and its deletion slides the TTL of a
  session that is deleted nevertheless (`store.go:284`; `docs/dsl.md:214`).
- A second request can move a new session before its creator has its lock: the
  entry "created" comes second, and the enter actions of the second state are
  scheduled twice (`engine.go:164`; `docs/dsl.md:181`).
- A request that looked a session up before its deletion schedules webhooks after
  they were canceled (`engine.go:425`; `docs/dsl.md:215`).
- An attempt in flight overwrites the journal's "canceled" with "retrying", for
  good, and one whose flag was looked at before the cancel is sent after it
  (`dispatcher.go:399`, `443`); `Outbox` allows both. The heap ignores `seq` on ties.
- A `Schedule` overtaken by an `Advance` between its clock and its lock queues a
  delivery that is due before what was fired (`dispatcher.go:179`, `210`;
  `docs/admin-api.md:122` says "in order"). `DriveInOrder` excepts it. Overtaken by a
  reset, its delivery is not canceled; `ResetCancelsQueued` excepts that.
- Replays pass by the limit on pending webhooks, which is "enforced at runtime"
  (`admin.go:539`; `docs/dsl.md:280`), and take room from the enter actions.
  `PendingBounded` is about the enter actions, with replays on top.
- A null item in `endpoints`, `scenarios`, `enter` or `on` makes a load panic instead of
  failing (`load.go:126`, `validate.go:205`): answered 500 by `POST /reload`, the end of
  the process at the start and in the watcher.
- A deletion between `IndexID` and `AddSelector` hides another session of that
  selector for a moment and leaves a reference behind.
- Overlapping reloads may leave the older files, with the lower version, running
  (`app.go:152`); `NeverBackwards` and `Settles` except them.
- Validation accepts a reply status of 1 to 99, which `net/http` refuses with a
  panic (its message says 100 to 599, `validate.go:146`), a body selector whose
  JSON path does not parse, and the pattern `//`, which matches nothing.
- A 404 after the session was deleted and its scenario reloaded may list a rule
  that would take the request, with an empty reason.
- A replay that waits for its first attempt waits in vain once its record has
  rotated out; its context ends the wait.
- The first MCP call with a default config that only `snapshot.Compile` rejects
  fails, and so does every later one, `load_config` included, until the file is
  mended. After a restart that failed, the next `load_config` calls a method of a
  nil `App` (`tools.go:332`).

## 4. What is proved

All theorems are about a `Spec` without fairness, under the assumptions named in
the modules (`ConstantsAssumption`, `OutboxAssumption`, `StoreAssumption`,
`EngineAssumption`, `JournalAssumption`, `ReloadAssumption`, `McpAssumption`,
`LoadingAssumption`, `PublicServerAssumption`, `FilesAssumption`): distinct kinds of
constants, natural bounds, positive sizes. They hold for any number of goroutines,
deliveries, sessions, files, clients, edits and calls, and every size of a ring, a
page or a limit. Invariants are
proved by a stronger, inductive one, which is named below with the reason for
each of its parts; refinements and action properties step by step from it.

### DispatcherProofs

- `TypeCorrect`: `TypeOK`. The inductive form `TypeInv` adds which values the
  locals of a goroutine have at each place (`AtOK`, `WorkerOK`, `CallOK`): the
  delivery attempted is a delivery, a call that drives has a session.
- `OneHolderHolds`, `DriveAloneHolds` and both together, `OwnershipHolds`, from
  `OwnershipInvariant`. Neither is inductive: that acquire may start once no
  pending delivery is running needs that whoever holds a delivery has it marked
  running, and that nothing of a reserved session enters the heap. `IInv` says
  so: what is not yet queued is nowhere but with its `Schedule` (`Fresh`), the scheduler's slice is
  empty when it scans or sleeps (`SliceOK`), queued deliveries of a reserved
  session are not in the heap (`Parked`), every call past `acquire` has its
  session reserved, alone (`Held`), and a running delivery of a driven session is
  the caller's own (`Alone`).
- `NothingStrandedHolds`: `NothingStranded`, from `StrandedInvariant`. Being
  tracked is not inductive: an attempt that ends while a call has its session
  reserved is left to pending, and `Release` queues only what it finds there.
  `SInv` adds that a session's live deliveries are in pending or not queued yet
  (`Queued`), that an
  attempt goes on with the outcome it recorded unless its delivery was canceled
  meanwhile (`OutcomeKept`), and that only the cancellations have deliveries left
  to mark (`MarksIdle`). Steps that neither schedule a delivery nor answer an
  attempt are *steady*: they drop nothing that is still owed (`SteadyStep`).
- `NoLostWakeupHolds`: `NoLostWakeup`, from `WakeInv`: from its scan on, and unless
  a token is in the channel, the scheduler knows of nothing in the heap that is due
  before `scanned + wait`. Whoever puts something into the heap leaves a token,
  also when one was there.

### DispatcherStepProofs

- `ImplementsOutboxHolds`: `Dispatcher` implements `Outbox`. Most steps are
  *quiet*: they make nothing live that was not, and begin and end no attempt
  (`QuietStep`). The others map to one step of `Outbox`: `EnqueueStep`,
  `TakeStep`, `SendStep`, `RecordStep`, `CancelStep`. Taking up is allowed because what is
  in heap, pending or running, not canceled and not being sent is open and within its
  budget (`Sendable`), which requeueing preserves because an attempt about to
  requeue has recorded its delivery as retrying (`WillRetry`). That nobody else
  sends the same delivery is `OneHolder`.
- `CanceledClockHolds` and `ResetHolds`: the action properties `CanceledClockStops`
  and `ResetCancelsQueued`, from `TypeInv` and `IInv`; the second also from `SInv`,
  without which something unsettled could be nowhere, and from what an idle caller
  holds (`IdleCalls`).
- `DueTimeHolds`, `DriveInOrderHolds`, `WindowCoveredHolds` from `ClockInvariant`.
  That a call fires in order needs that nothing in pending, or on its way there
  (`Waiting`), is due before what it fired last, except what was on its way when it
  fired (`late`), and that what it fired last is not later than its session's clock
  (`Firing`, `InOrder`: what is scheduled meanwhile is due from that clock on).
  `EarliestOf` picks by time and then by number, which are distinct (`Numbered`). That its
  window is covered needs that clock and rest of the window add up to the target
  (`Reaches`). A clock that is dropped must not make anything due in the past
  (`DueNat`). Every step is one of three kinds for a delivery, `DueKept`,
  `DueAnew`, `DueReset`, and `ClockFrame` is the induction over those. That there
  is an earliest delivery as long as one is due (`EarliestExists`) is the
  minimum of a well-founded order: session times are natural numbers.

### SessionStoreProofs

- `StoreTypeCorrect`: `StoreTypeOK`; that `length` stays natural is from
  `LengthExact`, so types and indices are one induction.
- `IndexesAgreeHolds` and `LengthExactHolds` from `StoreInvariant`. `IndexesAgree`
  alone is not inductive: a goroutine between two sections must own the key it
  is about to index or to free, and no two may be there with one session
  (`BetweenOwns`); the session a key leads to has that key (`KeyOfOwner`); and
  nothing refers to a session that is not made yet (`MadeOK`).
- `LimitHolds` from `LengthExact` and the induction `length <= MaxSessions`: the
  keys in use are at most `length`, and live sessions have different keys.
- `ReachableHolds`: `ReachableUnlessPath`. The registry's counters are not the
  numbers of live sessions: `Create` adds its reference two sections after the
  session can be deleted, and `Delete` drops one that may be another session's. What
  is inductive is the inequality `Covered`: live sessions with a selector and
  `Delete`s that have not dropped their reference are at most the references and
  the `Create`s that have not added theirs. It is about cardinalities, so clients
  and sessions are finite sets.

### EngineProofs

The store's invariants are proved for its actions, not for its next-state
relation; `EngineProofs` uses those lemmas and adds `EngineInv`, in
`EngineInvariant`:

- `EngineKeepsIndices`: `IndexesAgree` and `LengthExact` hold under the engine too.
- `EngineTypeCorrect`: `TypeOK`, which says who may be in a session's lock
  (`LockOK`), and the fields of a session (`RunOK`).
- `PendingBoundedHolds`: `PendingBounded`. The limit is tested in one section and
  used in the next. `RoomOK` says that whoever passed the test still has room:
  only the holder of a session's lock schedules its enter actions, and it alone has
  passed (`EnterOK`). A replay comes without the lock, and may leave no room at all; it
  does not count here (`Entered`), but whoever then tests the limit finds less room.
- `StaleGotoDroppedHolds`: `StaleGotoDropped`. A delivery remembers the epoch of the
  entry that scheduled it. That an equal epoch means the same entry, and so the
  same state, is `Remembers`, kept for pending deliveries (`PendingOK`) and for
  callbacks under way (`HookOK`), which look up the session and lock it later.
- `HistoryExplainsHolds`: `HistoryExplainsState`. It speaks of two neighbours in the
  history and of its end, so that it survives the loss of the oldest entries
  (`ExplainsTrimmed`).

### JournalProofs

- `IndexMatchesRingHolds`, `JournalTellsTruthHolds` and `DuplicateIsIdenticalHolds`
  from `JournalInvariant`. That a slot given up takes exactly its own id out of the
  index needs that ids in different slots differ and that the next delivery's is in
  none; that a duplicate is identical needs that the copy a replay works from
  still has the header and body of its record, which nothing changes.
- `ImplementsRecentLogHolds`: the journal implements `RecentLog`, for any size. The
  arithmetic of the ring comes first: which slot is the i-th newest (`NthSlot`),
  and that a push makes each entry older by one (`NthOfPush`). Then each step
  prepends, amends one record where it is, forgets all, or does nothing.
- `WalkSoundHolds`: `WalkSound`, for any size of a page, any filter and any number
  of readers. Deliveries are scheduled in the order of their ids (`Prefix`), so
  the listing goes down (`ListingDown`) and has every record once
  (`AllListed`). Then a walk's cursor stands between what it has shown and what it
  still has to show (`Reader`), which records that rotate out or change their
  status cannot disturb: a walk whose cursor is gone ends by `WalkExpired`, and
  only what matched all along is owed. A page is the first `PageLen` places, in
  order, that a walk has left (`Pages`); `PageCovers` says that a page which is the
  last one leaves nothing out.

### ConfigReloadProofs

- `ReloadSafeHolds` and `NeverBackwardsHolds` from `ReloadInvariant`, which adds
  that nothing read or running is newer than the disk, and that a reload that has
  overlapped with none has read nothing older than what runs: nobody else has
  stored since it began.

### McpServerProofs

- `EngineAgreesHolds` from `McpInvariant`. `Agrees` ties what is chosen to what is
  alive, with the one exception of a restart that failed, which leaves a client
  without an app. It is inductive only together with where each call is: writer
  and readers of `Server.mu` are exactly the calls in their sections (`CallOK`),
  and a call that starts an engine does so when none is up (`StartOK`).
- `LoadSafeHolds`: the action property `LoadSafe`. `StartOK` says why a restart keeps
  the port (it asks for the one the app was told) and why "loaded" is true (from
  the second start on a `load_config` runs its own file, or recorded that it does
  not).

### PublicServerProofs

`MissesAreRecentHolds` is about the 404 log alone: that a request misses once, and
every miss has the number of its request, is `MissInv`; the ring's arithmetic is
as in `JournalProofs`. The other theorems are from `ServerInvariant`, for any files,
requests and sessions. It has two parts, which share only the snapshot.

- `LoadInv`, of a load. The search meets reachable states only, and what a visited
  state leads to is visited or queued (`Search`); so a search whose queue is empty
  has visited exactly the reachable states (`SearchExact`), the least set closed
  under gotos. `Walked` says that the warnings so far are those of the scenarios
  searched so far.
- `CallInv`, of a request. Once it has fallen through its session, no rule of the
  state it *saw* takes it, and once through the endpoints, none of these does
  (`Rejected`): both stay true because it keeps its snapshot, and its session keeps
  the scenario it pinned, whoever moves it or deletes it. A request without a
  session found none in the store it looked at, so starting the advised one makes
  exactly that one found (`StartedIsFound`).

`ConfigUsableHolds` and `AnswersHoldHolds` follow. Below them is what is true of every
snapshot (`SnapshotFacts`, `ScenarioFacts`): what validation establishes of the
merged config survives compilation, so every goto of a compiled scenario leads to a
state (`Closed`) and every action has a target (`Targeted`). A load that did not panic
has met no null in a list (`LoadedWhole`). What the files say is arbitrary, nulls
included; `FilesAssumption` only says that they have the shape the decoder gives
them (a list is a list, a number a number) and that `None` is none of the values
it stands beside.

The searches and merges are recursive functions. That such a function exists is
proved, not assumed: `IterationExists` builds it for every length, by an induction
that rests on the well-foundedness of finite sets under inclusion
(`NatsBySuccessor`), since the library's induction theorems cannot be used. From it
come what `FlattenSeq` (`FlattenedSeq`) and `Without` (`WithoutOf`) return.

Constants of different kinds must differ for some of this: `McpServer` assumes that
"any" is no port, `Engine` that nobody's name is `NoThread`.

### What is only model-checked

- Liveness: `EventuallySettled`, `CallsReturn`, `StopDrains`, `GotoFires`,
  `WatcherLive`, `LoadEnds` and the others under fairness. TLAPS proves neither
  liveness under fairness nor `ENABLED`.
- What the operators of `Matching` compute: that `Explain` names the first check that
  fails, that a pattern matches exactly the paths meant. `Match`, `Explain` and
  `Extract` are opaque in the proofs, which hold for any way of deciding them; TLC
  evaluates them on the requests of `MCPublicServer`.
- `TransitionBeforeClock` and `NeverDeadServer`, which TLC finds violated: there is
  nothing to prove about them.

Every invariant, action property and refinement of the passing runs has a theorem.

## 5. Not modelled

- Text: HTTP headers and bodies, YAML and JSON decoding, templates, signatures,
  durations, logging, the wording of errors and warnings. They compute; nothing
  in them depends on order. Where they can fail, the failure is a choice.
- The SSRF guard: one predicate on an address at dial time.
- Nulls in lists, for `ConfigReload` and `McpServer`: there a file loads or is rejected.
  The panic of such a load ends the process, but for one asked for over the admin API,
  which ends as a rejected one does.
- Views of the admin API. They read without the dispatcher's discipline
  (`PendingForSession` reads `attempts` and `fireAt` under `mu`, workers write
  them without it); what they show is not used for any decision.
- The admin API's compositions of a session call with a dispatcher call (Touch
  then Advance, AdvanceTo then GetByID). A model of both exists in parts only:
  `Engine` and `Dispatcher` in one state space are beyond an exhaustive run, and a
  smaller one would leave out what could go wrong.
- Listening sockets, the five-second drain of `Shutdown`, start-up wiring, the
  command line, the scaffold and the examples: no state of their own.
- The journal's contents beyond id, session, status, attempts and replay fields.

## 6. What is left

Proofs: `LimitHeld` and `ReachableUnlessPath` for the engine's `Spec` as well, or better
that it implements `StoreSpec` under a mapping of its places; lemmas about
`Matching`, of which `Trim` and `Explain` decide most. Models: the admin compositions
named above, on a dispatcher reduced to one session's clock, with the store's
`Touch` between a lookup and the call.
