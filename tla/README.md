# dig2browser: a verification development

TLA+ models, TLC runs and TLAPS proofs for dig2browser: the browser worker, the station
that leases workers to many callers, the services built on it (tasks, collections, crawls,
monitors, live sessions), its server and daemon, the clients and connections, and what all
of them keep on disk. Everything is written from the Rust source; a definition names the
lines it stands for in `PROJECT.json` ("map"). All paths below are paths of the repository;
`lib.rs` without more is `crates/dig2browser-station/src/lib.rs`.

Contents: 1 the system, 2 the models and how they correspond to the code, 3 the runs, their
bounds and the fairness assumed, 4 the proofs, 5 findings, 6 what is not modelled, 7 the
plan.

## 1. The system

dig2browser drives real browsers over CDP and WebDriver BiDi. `src/agentic/` wraps one
browser into a *worker*: an actor task with a bounded command queue. The *station*
(`crates/dig2browser-station`) is a multi-tenant service over many workers: it leases
them by identity, opens visible browsers for authentication, runs tasks, collections,
crawls, monitors and live sessions, and is itself served over a pipe by
`dig2browser-stationd`. On Windows the daemon runs its browsers from a private mirror of the
browser's directory, behind filters that an elevated broker installs.

### Inventory

For each component: its state; its operations; what is hard; what makes it correct; the
module that models it.

| Component (source) | State | Operations | Hard behaviour | Correct when | Module |
|---|---|---|---|---|---|
| Worker actor (`src/agentic/worker.rs`, `contract.rs`) | published snapshot (lifecycle, page epoch, failure), command queue, DevTools side channel, emergency / stopped / finished watches, JoinHandle in a mutex | start, commands, `shutdown()`, `abort_now()`, `wait_aborted()`, `subscribe_devtools()` | every await races the emergency; timeouts after which nobody knows what happened; cancelled callers; one JoinHandle, several waiters | stale elements are never used; nothing is sent to a browser that failed; closed once and released before anybody is told so; every call returns | `Worker` |
| Station: leases and authentication (`lib.rs`) | `state.slots`, `state.auth_sessions`, `emergency_workers`, `operation_gate`, `shutting_down`, lease counts | `lease`, `begin_auth_session`, `finish_auth_session`, `execute`, `subscribe_devtools`, both shutdowns, drop of a lease | two locks and many awaits between check and use; eviction; dropped futures; emergency next to everything | residency bound; one browser per profile; leased workers stay; shutdown leaves nothing | `Station` |
| Session tasks (same file, `BrowserLease`) | `session_gate` of a worker, `command_slots`, `command_waiters` | `run_task_controlled`, waits, retry, cancel | tasks of several leases on one page; retry of what was done; cancellation while holding guards | a task owns its page; steps take effect once; admission is bounded and counted | `SessionTask` |
| Collection tasks from client to runtime (`task.rs`, `ipc.rs`, `runtime.rs`, `contract.rs`) | none: seven tables written in different places | validate, encode, gate, negotiate, run, bound the result | tables that disagree | no refusal after effects; nothing ungated | `TaskContract` |
| Identity binding and session journal (`lib.rs`, `session_import.rs`) | three manifests; append-only records | bind, update, mark unknown, read | a crash or failed write between or inside them | a profile keeps its identity; the last acknowledged transition is read | `ProfileRecords` |
| Collections (`collection.rs`), trace ledger (`crates/dig2browser-trace`) | active table; event files, artifacts, receipt per collection | begin, execute, cancel, persist, interrupt, recover, read | crash between artifact, receipt and ledger; cancel racing the spawn; damaged files, clock set back | one final outcome per collection, the same everywhere; a receipt is a proof | `Collection`, `TraceLedger` |
| Crawl engine and store (`crates/dig2browser-crawler`) | frontier, leases with tokens, attempts, event log; a snapshot in three files | claim, renew, complete, fail, requeue, recover, cancel, save, load | stale tokens, failed saves that took effect, crash in a save | pages are done once and not lost; leases exclude; saves are atomic | `CrawlJob`, `CrawlEngine`, `CrawlStore` |
| Crawl service (`crawl.rs`) | runners, bindings, the job's log | begin, run, cancel, read, reconcile, shutdown | the runner ends, the daemon restarts, a page was captured already | no capture twice; readers are not misled | `CrawlService`, `CrawlReading` |
| Shape extraction (`crates/dig2browser-shape`, `read_shaped`) | none | shape rows, page them by number | the source grows between two pages; a document that cannot be shaped | pages of rows form one sequence | `Shaping` |
| Monitors (`monitor.rs`, `journal.rs`, `sink.rs`) | session table, journal per monitor, shared payload store | begin, record, read, stop, reconcile, drain | torn journals, stop next to the reader, restart | cursors stay valid; a stopped monitor can be read | `Monitor`, `EventReading` |
| Live sessions (`live.rs`) | session map, event ring, leases | begin, read, stop, expire, shutdown | look-up, await, entry in separate steps; ring overtakes cursors | no reader or lease without a session; losses are told | `LiveSessions`, `EventReading` |
| Server and daemon (`ipc.rs`, `dig2browser-stationd.rs`, `egress.rs`) | connections, request handlers, drain timer, proxy tunnels | accept, serve, drain, stop, emergency | order of the shutdowns; what one task does not poll stands still | no service is shut down under its user; the daemon ends | `StationServer`, `StationRequests`, `DaemonRun` |
| Station client (`crates/dig2browser-client`) | one pipe in a mutex | every request, with and without progress | time-outs, dropped calls, shared use, repeated requests | a call gets its own answer; a repeat is done once | `StationClient`, `StationRequests` |
| CDP and BiDi transports (`src/cdp`, `src/bidi`) | pending calls, writer and reader tasks | call, close | reply, time-out, end of connection meet | every call is answered once | `CdpTransport`, `BidiTransport` |
| Chromium page policy (`cdp.rs`, `runtime.rs`) | attached targets, paused requests, the handler task | install, decide, switch page, clear, close | targets that open at any time; a lagging handler; a lost connection | nothing forbidden is sent, nothing left paused, loss ends the browser | `PageGuard` |
| Profile ownership (`identity/lock.rs`, both backends, `process_tree.rs`) | file lock, process trees, quarantine | launch, hand over, close, drop | ends that cannot be confirmed; cancelled launches | a running browser's profile is nobody else's | `ProfileOwner` |
| Containment (`windows_wfp_broker.rs`, `windows_containment.rs`, `windows_wfp_provider.rs`) | durable filters, leases, brokers and daemons as processes | grant, serve, close, recover; start and authenticate the broker | either side dies anywhere | no browser without filters; only the broker is terminated | `Containment`, `BrokerBootstrap` |
| Runtime mirror (`src/windows_runtime_mirror.rs`) | catalog, staging directories, file leases | build, publish, lease, reuse, remove, reclaim | several processes, crashes, an updater that changes the source | a leased mirror is complete and was one instant of its source | `RuntimeMirror`, `MirrorSource` |
| Worker process (`src/worker_ipc.rs`) | workers by profile, the pipe | request, evict, remove, drain | failing workers, a client that leaves | bounded; none left at the end | `WorkerIpc` |
| Browser stream (`src/browser_stream.rs`) | node, reader and writer tasks, evidence files | the three nodes | deadlines, a peer that does not read | evidence says what was done | `BrowserStream` |
| Page pool, probe, cookies, stealth, detection, bot authentication, crawl profiles, WebDriver client, tools | none that is shared, or nothing the station uses | sequential transformations | | values, not protocols | none (section 6) |

Vendored code (`patches/saturating-time`), examples, tools and generated data are left
aside.

### How the parts interact

A caller asks the station for a lease. The station takes the read side of a fair
`operation_gate` and then the `state` mutex, decides, and for a new identity spawns a
worker, enters it in the emergency registry, waits for its published lifecycle to
settle and puts it in a slot. Work goes from the lease through the `session_gate` of
the worker, then a global command slot, then the worker's queue. `shutdown()` takes the
write side of the gate, so it starts when every reader has left; `emergency_shutdown()`
raises `shutting_down` and every emergency watch first, and takes the gate after that.
The station learns about a worker from its snapshot and from the return of `shutdown()`
and `wait_aborted()`, never from its internals.

Collections run tasks on leases and write artifact, receipt and ledger under one mutex. The
crawl service claims a page from its engine, executes it as a collection named after job,
page and attempt, and reports to the engine; whatever it finds at its start, at its end or
after a restart it reconciles with the ledger. Monitors and live sessions each subscribe to
the DevTools events of a leased page. The server hands requests to these services and shuts
them down in order at its end; the daemon polls server and proxy in one task, inside a
`select!` that waits for the loss of the containment.

## 2. The models

| Modules | Uses | Checked in | Theorems in |
|---|---|---|---|
| `WorkerStates`, `WorkerContract`, `Worker` | `Worker` refines `WorkerContract` | `MCWorker` | `WorkerProofs` |
| `Station` | `WorkerStates` | `MCStation` | `StationProofs` |
| `SessionTask` | | `MCSessionTask` | `SessionTaskProofs` |
| `CrawlJob` | | with its users | itself (lemmas) |
| `CrawlEngine` | `CrawlJob` | `MCSharing` | `SharingProofs` |
| `SnapshotStore`, `CrawlStore` | `CrawlStore` refines `SnapshotStore` | `MCDisk` | `DiskProofs` |
| `Collection` | | `MCDaemon` | `DiskProofs`; with `CrawlService`: `ServiceProofs` |
| `CrawlService` | `CrawlJob`, `Collection` | `MCDaemon` | `ServiceProofs` |
| `LiveSessions`, `StationServer`, `DaemonRun` | `StationServer` extends `LiveSessions` | `MCDaemon` | `ServiceProofs` |
| `WorkerIpc` | `WorkerStates` | `MCDaemon` | `WorkerProofs` |
| `CdpTransport`, `BidiTransport`, `StationClient`, `PageGuard` | | `MCSharing` | `SharingProofs` |
| `TaskContract` | | `MCSharing` | `SessionTaskProofs` |
| `Monitor`, `ProfileRecords` | | `MCDisk` | `DiskProofs` |
| `Containment`, `ProfileOwner`, `RuntimeMirror`, `MirrorSource` | | `MCDisk` | `OwnershipProofs` |
| `BrokerBootstrap` | | `MCDaemon` | `OwnershipProofs` |
| `BrowserStream` | | `MCSharing` | `SessionTaskProofs` |
| `StationRequests` | | `MCSharing` | `SessionTaskProofs` |
| `EventReading` | | `MCSharing` | |
| `Shaping`, `CrawlReading`, `TraceLedger` | `CrawlReading` uses `CrawlJob` | `MCDisk` | |

Where two parts meet at a narrow border, one is checked to keep it and the other is built
on it: `Worker` implements `WorkerContract`, from whose successor sets (`WorkerStates`)
`Station` and `WorkerIpc` make their workers; `CrawlStore` implements `SnapshotStore`, which
is what `CrawlEngine` and `CrawlService` assume of a save; `CrawlService` contains
`Collection`, and `StationServer` contains `LiveSessions`, with all of their steps. So the
state spaces are not multiplied where the code does not.

`MCSharing`, `MCDaemon` and `MCDisk` each hold several modules that share no state: the
variable `part` says which of them a behaviour is about, and the others stand still at their
initial states. A property of such a run is a conjunction or a CASE over its parts. The
theorems are about each module's own specification (`CdpSpec`, `LiveSpec`, `RunSpec` and their
like), which is what the part of that name does.

The map in `PROJECT.json` names the source lines of each action, of what the mutants change and
of every operator that stands for lines of its own; an operator that only names a piece of a
mapped definition's lines has no entry beside it, nor has a specification formula or the frame
of a module's steps. Modules stand in it subject by subject.

### Worker

One step of the actor runs from one await to the next. `pc` names the await: `starting`
(runtime.start under its timeout), `select` (the biased `select!` of the main loop),
`restart` and `work` (runtime calls of a command), `devtools` (a subscription, the one
call with neither a timeout nor a race with the emergency watch), `shutdownClose`,
`finalClose`, `emergencyClose` (the three places of `runtime.close()`), `drop`,
`announce`, `return` (the synchronous tail of `run_actor`), `finished`, and `aborting`,
`aborted` for a task that was cancelled by `JoinHandle::abort`.

* `handle_command` is `RefuseCommand`, `FailOnPolicy`, `RejectArgument`, `StartCommand`,
  `StartRestart`, `StartShutdown`, with the checks of the code in their order: capability,
  unconfirmed startup, degraded lifecycle, page policy, rotation, stale element, argument.
* `restart_runtime` is `StartRestart` followed by `RestartSucceeds` or `RestartFails`; the
  epoch moves before the call, as in the code, so it moves even when the restart fails.
* A runtime call succeeds, misses (`ObservationMissing`), fails, or times out; what it
  changed by then is nondeterministic in `StartFails`, `WorkFails` and `RestartFails`: a startup
  or a restart that could not be confirmed may have launched a browser.
* `EmergencyInterrupts` is the emergency branch of every `select!`; it drops the envelope in
  hand with its reply sender.
* Callers: `Call`, `Enqueue` (a slot of the bounded queue), `SendFails`, `StopWaitEnds`,
  `FinishWaitEnds`, `AbortTooLate` and `HardAbort` (`wait_aborted` after
  EMERGENCY_ACTOR_EXIT_TIMEOUT), `TakeJoin` and `Joined` (`wait_actor_finished`), and
  `Cancel`: the caller's future is dropped at whatever await it has reached.
* `runtime.doc`, `tainted`, `closes` and `refs` are history: which document is shown,
  whether a call failed since the last (re)start, how often close() was called, which
  element references were handed out.

Abstracted: command payloads and results; a document is a number that the worker's own
navigations change (pages that navigate themselves are outside the model, as they are
outside `page_epoch`); the published failure kinds are one flag.

### Station

A step of a caller runs from one await to the next; `caller[c].pc` names the await. `lock`
is the `state` mutex (held by `lease()` from its decision to its return, given up by
`begin_auth_session()` before its victim is closed), `gate` the fair read-write lock with
its queue. `slot`, `reserved`, `auth` and `registry` are the code's maps. `worker[w].state`
is a value of `WorkerStates`; `asked` is what the worker was told, and `WorkerCloses`,
`WorkerEnds` let it obey at its own pace. The parts: entering (`CallOnIdentity` ...
`TurnedAway`), `lease()` (`LeaseRefused` ... `Retired`), room and spawn shared by `lease()`
and `begin_auth_session()` (`HasRoom` ... `Disposed`), authentication (`AuthRefused` ...
`AuthClosed`), work and subscriptions on a lease, `shutdown()`, `emergency_shutdown()`,
and the workers. Any idle resident may be evicted, not only the least recently used one.
Dropping a future (`Cancel`) releases its guards and leaves what the code leaves: a
reservation without a browser, a worker in no table.

### Session tasks

`SessionTask` is `run_task_controlled`: `Start` and `LocksSession` (the session gate),
`TakesSlot` (the command slot, with the waiter counter), then per step `Sends` and its outcome,
a failure before the step's effect (`Breaks`) or after it (`BreaksLate`: the answer was lost or
came too late), the one retry of a first navigation (`RetriesFirst`, `Restarts`), the polls of a
wait (`PollFinds`, `PollMisses`, `PollsAgain`, `WaitExpires`), cancellation by flag
(`RaisesCancel`, `SeesCancel`) and by drop (`DropsTask`). `LeaseRepairs` is the Restart that
`lease()` sends to a degraded worker without the session gate. A page is who last changed it; a
selector matches or does not (`ElementAppears`). `TaskContract` takes one task of every kind of
step, under every configuration of the operator, persona and contract, through the tables that
decide about it, in the order in which they are asked.

### Crawls

`CrawlJob` is the durable state of a job (`disk`, `mem`: frontier, leases, attempts, log,
end) with one operator per operation of the engine; `CrawlEngine` runs these for workers
that share an engine, each save succeeding, failing before or failing after its effect, and
a crash leaving what is on disk. `CrawlStore` is `FileStore` system call by system call.
`CrawlService` composes one job and its runner with `Collection`: `RunnerStep` claims,
executes, completes or fails, and reconciles what it finds; `Stop`, `Drained`, `Abort`,
`SettleJob`, `CloseCollections` are the shutdown in its order, `Restart`, `Open`,
`RecoverCollections`, `Serve` the start. `CrawlReading` is the other side: which request
began a job, what a page adds to its log and how the log is paged to a client over restarts.

### Collections and the trace ledger

`Collection`: `Admit`, `Start`, `Enter`, `TaskEnds`, the writes of
`persist_collection_result()` one by one, `Cancel`, the shutdown (`Close`, `Drained`,
`Abort`, `Interrupt`) and the start (`Recover`), with writes that fail with or without
effect, futures dropped, and crashes. `TraceLedger` has the same files with what is in them:
events with times from a clock that may be set back, artifacts that the medium damages, the
judgement every operation makes of them (`Replay`), and every reader. `Shaping` projects
what was captured onto a client's schema, page by page, while the source grows.

### Monitors, live sessions and events

`Monitor` has each durable step of a monitor (payload, journal record, definition) with torn
appends and crashes between any two, next to readers and `stop()`. `LiveSessions` has the
table, the reader tasks, leases and rings with `begin()` cut at each await. `EventReading`
follows an event from the page into a session's ring and into monitors, through filter,
bounds, address cache and wire format.

### Server, daemon, client

`StationServer` is the accept loop with its connections and the shutdown of one service
after the other. `StationRequests` is every kind of request with its gate, what the operator
configured for it, its refusals, effects and counters, asked twice: what the properties do not
tell apart (which permission a request needs, what it carries) is one choice, and a handler that
fails after its effect leaves what the code leaves (a journal without a job, a trace without a
runner, an appended record). `StationClient` is the shared pipe with its mutex, time limits and
dropped calls; `DaemonRun` the task that polls server and proxy and what its two `select!`
do when the containment is lost; `WorkerIpc` the process that keeps workers for one client.

### Connections, browsers, files

`CdpTransport` and `BidiTransport`: callers, writer, reader, pending table, end of the
connection, in the order in which the code registers, sends, answers and forgets.
`PageGuard`: targets, sessions, paused requests, the handler of the exact page policy, and
the runtime that switches or clears it. `ProfileOwner`: launches of Firefox (its setup in a
task of its own, the backend handed over in two messages) and Chromium, closes and drops,
and who holds the profile's lock at each await. `ProfileRecords`: binding manifest by
manifest, the journal record by record, each cut short after any of its parts. `Containment`:
daemons and brokers with filters and mirrors across deaths of either; `BrokerBootstrap`: how the
broker is started, recognised, armed and terminated, while its process id may be given to another
process, ordinary or elevated. `RuntimeMirror`: one content key shared by processes;
`MirrorSource`: what an updater changes while a mirror is made. `BrowserStream`: the three
nodes, their tasks and their evidence.

## 3. The runs

`tlc -config <run>.cfg <module>` for each of the following; counts are distinct states.
`CHECK_DEADLOCK FALSE` everywhere: with its bounds used up and everything closed the system
rightly stops; that calls do not get stuck is what the liveness properties are for.

| Run | Instance | Shows |
|---|---|---|
| `MCWorker_safety` | 2 callers, 4 calls of any kind, queue of 1, rotation after 1 navigation, all capabilities (1.1 M) | type; `ElementActsOnItsDocument`, `WorkOnSoundRuntime`, `OrderlyExitClosesOnce`; every step is a step of the contract |
| `MCWorker_live` | 2 callers that may be cancelled at any await, 2 calls of any kind, subscriptions that may never be answered (92 k) | `ReturnMeansReleased`, `EveryCallReturns`, `EmergencyReleases`, the contract with its fairness |
| `MCStation_safety` | 2 callers, 2 identities, 2 runtimes, room for 1, 4 orderly calls (725 k) | type; `ReservationOwned`, `BrowserBound`, `ProfileIsFree`, `LeaseKeepsBrowser` |
| `MCStation_cancel` | 2 cancellable callers, 3 identities of 2 profiles, room for 2, 3 calls of any kind, a finished close ends its browser (1.5 M) | `OneFormPerProfile`, `RegistryIsShutdownSet`, `ShutdownReleasesAll` after either shutdown |
| `MCStation_live` | 2 callers, 3 calls of any kind, subscriptions are answered (35 k) | `EveryCallReturns` |
| `MCSessionTask_slots` | 2 callers, 2 workers, 1 command slot, failures, repairs, cancellations (145 k) | `AdmissionIsCounted`, `StepsTakeEffectOnce`, `TasksKeepApart`, `EveryTaskEnds` |
| `MCSessionTask_wait` | one wait, an element that appears later | finding: `WaitFindsElement` is violated |
| `MCSharing_safety` | crawl engine (4 pages, 2 workers, time to 2, one failed save); CDP and BiDi connections (3 calls, room 1); client (2 sharers, 2 pipes, 3 requests); page policy; requests asked twice; one task through every table; events with one session and two monitors; a streaming node (856 k together) | types; `PendingIsClaimable`, `LeasesExclude`, `AckedIsDurable`, `ConnectionsHold`, `TasksAgree` |
| `MCDaemon_services` | crawl service (1 page, 2 attempts, 1 failed write, 2 starts); clients' collections, with room and with a full table; live sessions (2 ids, room 1, ring 1); server; daemon's run; broker's start; worker process (567 k together) | types; `ReceiptsAreBacked`, `ServicesHold`, `PagesFetchedOnce`, `ReadersAreTold`, `OutcomeIsFinal`, `WorkEnds` |
| `MCDaemon_loss` | the daemon's run | finding: `LossEndsDaemon` is violated |
| `MCDisk_safety` | crawl store (generations to 5); 2 monitors, 2 frames; mirror (3 processes, 2 builds) and its source (2 changes); filters (3 daemons, 2 scopes); profile (4 identities, 2 appends, 2 manifests or records cut short); 5 launches; rows, crawl log, ledger (616 k together) | types; `RecordsHold`, `SharedFilesAreKept`, `BrowsersAreConfined`, `SavesAreAtomic` |
| `MCDisk_journal` | monitors with one failed append | finding: `JournalsStayConsistent` is violated |

### Bounds, and why they are enough

* `MaxCalls`, `MaxRuns`, `MaxFaults`, `MaxStarts`, `MaxCrashes`, `MaxTime` and their like bound
  behaviours, not states of the code. Two callers and four calls let one caller resolve an
  element, the other navigate or restart, the first use the stale reference, and one of
  them shut down or abort meanwhile: every hazard of the worker takes at most four calls. The
  proofs remove these bounds for the safety properties they state.
* A queue of one makes senders wait; a longer one only lengthens the wait. The same goes for
  the queues of the connections, the broadcast channel of events, the ring and the table of
  sessions: each is full as soon as it can be.
* Room for one resident makes every second lease evict or be refused; room for two with
  identities of a shared profile exercises the persona check.
* `RestartAfter` 1 reaches a rotation after one navigation; 0 turns rotation off.
* One failed write and two starts reach every place where a write can be cut, the recovery
  after it, and a crash in that recovery. Two attempts reach a page that was captured, lost
  and claimed again.
* Three processes on one mirror are the one that builds it, one that reuses it and one that
  reclaims; three daemons are two with one profiles root after each other, and another.
* `MaxGeneration` 5 writes each slot of the crawl store twice after the first journal.
* Bounds of state: `navigations` stays at `RestartAfter`; the side channel has the code's
  capacity 4; a station caller holds at most one lease; sizes of rows, cells and log pages
  are counted in units of which few fit.
* Callers of the worker and of the station, and the processes of the mirror, are symmetric
  (`SYMMETRY`) in runs without liveness.

### Fairness, and why the code justifies it

* `Worker`: weak fairness of the actor's steps (its task is scheduled, and every runtime
  call but the subscription is under a timeout), of each caller's own steps, and strong
  fairness of `Enqueue` (the channel serves its senders in order). `DevtoolsAnswers` is
  never fair, as the code sets no timeout there and does not race it with the emergency: the
  liveness properties say what is lost by that. `EveryCallReturns` asks of the behaviour that
  the actor leaves that await again and again, but for `wait_aborted()`, which returns by its
  own time limit; `EmergencyReleases` excepts an actor that stays there for ever, until
  `wait_aborted()` aborts it. New calls, cancellations, emergencies and policy failures are
  never fair.
* `Station`: strong fairness of each caller (the gate and the mutex are FIFO), weak
  fairness of each worker, which is what `ImplementsContract` establishes of `Worker`, and of
  the end of a subscription when `DevtoolsBounded`.
* `SessionTask`: strong fairness of each task, which enters its gates or takes its next step
  whenever it can again and again, and of the deadline of a wait, which comes however often it
  has polled.
* The daemon: weak fairness of the crawl's runner and of the flags a shutdown sets, of the
  server's steps with its drain timeout, of the daemon's own task, of the broker with its
  time limits, and of the worker process with workers that settle. Requests, crashes, faults,
  peers and losses are never fair.

### Counterexamples kept by hand

Findings that no run of the project carries. Each is the instance of a run with the changes
named; TLC finds the property violated. `Parts <- X` and `SPECIFICATION` restrict an instance
to one module.

| Instance | Changes | Violated |
|---|---|---|
| `MCWorker_live` | `ReturnMeansReleased` without `join.dropped` | `ReturnMeansReleased` |
| `MCStation_safety` | `Runtimes = {r1}`, `MaxResident = 2`, `Offered <- EmergencyCalls`, `MaxCalls = 3` | `RegistryIsShutdownSet` |
| `MCStation_safety` | `FairSpec`, `Runtimes = {r1}`, `Offered <- SubscribeCalls`, `DevtoolsBounded = FALSE`, `MaxCalls = 3` | `EmergencyEnds` |
| `MCStation_safety` | three identities with a profile each, `Runtimes = {r1}`, `MaxResident = 2`, `Offered = {"Lease", "BeginAuth"}` | `VictimsAreGone` |
| `MCSessionTask_slots` | `Spec`, `Workers = {w1}` | `TaskOwnsPage` |
| `MCSharing_safety` | `ClientSpec` | `NeverDesynced` |
| `MCSharing_safety` | (none) | `SurfaceIsCovered`, `TasksSurviveEncoding`, `WorkIsAnswered` |
| `MCSharing_safety` | `GuardSpec` | `HealthyIsHandled`, `SomebodyAnswersLoss` |
| `MCSharing_safety` | `RequestSpec` | `NoMonitorIsOrphaned`, `LiveRetriesAgree`, `CrawlRetriesAgree` |
| `MCSharing_safety` | `EventSpec` | `NothingIsSwallowed`, `GapsAreDrops`, `UrlIsCurrent`, `FramesAreRecorded`, `EndIsTold` |
| `MCSharing_safety` | `StreamSpec` | `ReadyIsFresh`, `EffectIsShown`, `DeadlineHolds`, `TasksEndWithNode` |
| `MCDaemon_services` | `Parts <- CrawlPart` | `SuccessHasArtifact`, `SettlesAlways` |
| `MCDaemon_services` | `Parts <- LivePart`, `RingCapacity = 2`, `MaxCursor = 3` | `PagesAreReadable` |
| `MCDaemon_services` | (none) | `NobodyElseIsTerminated` |
| `MCDisk_safety` | `Parts <- MirrorPart`, `RemovalInterrupted = TRUE` | `SharedFilesAreKept` |
| `MCDisk_safety` | `Parts <- SourcePart` | `LeasedIsUnchanged` |
| `MCDisk_safety` | `Parts <- ProfilePart`, `MaxWriteFaults = 1`, `MaxCrashes = 1` | `InterruptedCanBeBound`, `StatusIsNeverWrong` |
| `MCDisk_safety` | `Parts <- OwnerPart`, `MaxWriteFaults = 1`, `MaxCrashes = 1` | `FreeIsEmpty` |
| `MCDisk_safety` | `Parts <- RowsPart` | `RefusedForCause`, `FinishedIsAll`; with `WideCell = 4` also `NextRowFits` |
| `MCDisk_safety` | `Parts <- ReadingPart` | `NextEventFits`, `StartsAlways` |
| `MCDisk_safety` | `Parts <- LedgerPart`, `MaxTroubles = 2` | `DamageIsContained`, `BoundsKeepAdmission`, `InterruptIsWritten`, `NotReadyMeansOpen`, `LedgerOpens`, `ReceiptsDecode` |

## 4. The proofs

The theorems hold for every value of the constants that the named assumptions allow: any
sets of callers, identities, profiles, pages, daemons, launches, any capacities and bounds,
and with the bounds of behaviour (`MaxCalls` and its like) at any number.
Every inductive invariant was model-checked on the instance of its run, or a smaller one,
before it was proved.

**Worker** (`WorkerProofs`). `Invariance`: `Spec => []IInv` with `IInv == TypeOK /\ Control
/\ Sound /\ ClosesOnce /\ Traced /\ Current`. None of the safety properties is inductive.
`Control` ties the published lifecycle to the await the actor is at; `Sound` adds that a
serving, ready worker has an untainted browser; `ClosesOnce` counts `close()` by await; `Traced`
says every reference in an envelope or in a call that waits was handed out by this worker;
`Current` says a reference of the present epoch, in a ready worker, is of the present
document: the epoch moves before the restart call, a failed call leaves Ready, and nothing
was handed out before the startup. From it `ElementsAreCurrent`, `WorkIsSound`,
`UnconfirmedIsFinal`, `ClosedOnce`, `ClosingIsFinal`. `WorkerImplementsContract`: `Phased` gives
the phase each action starts and ends in, `AllowedSteps` the contract's step from one to the
other. `ReturnsAreReleased` holds whoever gives up: `Pending` says that every envelope whose caller
still waits is that caller's only one, `Waits` who holds the JoinHandle's lock and that a free
lock with a taken handle means that the actor ended, or that the handle was dropped by a caller
that gave up while it awaited it. That case the theorem excepts, as the code returns too early
in it (section 5).

**Station** (`StationProofs`). The invariant comes in layers. `Types`; `Gates`: who is
inside the gate and holds the mutex at each `pc`; `Tables`: what slots, reservations,
authentications and the registry say of workers; `Owned` and `Accounted`: each caller's own
worker, victim and reservation, and that every live worker is in a table or some caller's;
`Apart` and `Silent`: no two of them are of one profile; `Room`: the count of slots,
reservations and sessions against `max_resident`; `Shutdowns`: what each step of a shutdown
has seen to. `Evolution` says how a worker's record may change, once, for all actions.
`TypeCorrect`, `ProfilesHaveOneForm` and the action property `LeasesAreKept` hold without
further assumptions, cancellation and emergencies included. `ReservationsOwned`,
`ProfilesAreFree` and `BrowsersAreBounded` need that no future is dropped
(`Cancellable = {}`): a dropped `begin_auth_session()`, `finish_auth_session()` or `lease()`
leaves a reservation or a worker behind, and they are then false. `RegistryIsComplete` and
`ShutdownReleases` need `Dependable`: that a finished close has ended its browser, or that
nothing is dropped and no emergency asked for; without it the registry forgets a browser
(section 3).

**Session tasks and the tables they pass** (`SessionTaskProofs`). `Sound` ties each caller's
step to its gates and its command, `Gates` the gates to their holders; from them
`AdmissionCounted`, `TasksApart`, `EffectsOnce`. For the last, `Sound` counts how often each
step took effect while its command may fail on either side of that: at most once before it was
retried, which only the navigation that opens the task is, and at least once behind the task.
`TablesAgree` is about `TaskContract`, for any set of tasks that are sequences of steps
(`InputsAreTasks`): its invariant says for each stage what the tables before it have let pass,
so that nothing later refuses it, every command that runs has its gate open and its capability
granted, and the runtime is the configured one with all the steps need.

**Crawls** (`DiskProofs`, `SharingProofs`, `ServiceProofs`). The store: which file is whole, cut or
absent at each step of a save, and that generations grow along it; `AtomicReplacement` is the
refinement of `SnapshotStore`, with `NoConflictEver` and `LatestSpared`. `CrawlJob`: a sound
snapshot stays sound, keeps its completions and never takes an attempt back, for each operation
of the engine, as lemmas that the engine and the service share. The engine: what is in memory
and on disk are sound and differ by one operation whose save failed; from it
`NothingIsStranded`, `AttemptsBounded`, `LeasesNeverShared`, `CompletionsLast`. The service:
`CrawlInv == TypeOK /\ Attempts /\ Final /\ Holding /\ Busy /\ Ledger /\ Writing /\ Alone /\ Known
/\ ReceiptsAreBacked /\ ReadersAreTold`. A page in flight is the runner's (`Holding`), only its
collection is on its way (`Busy`, `Alone`), what a collection has in ledger, receipt and store
at each step of its persistence (`Ledger`, `Writing`), no attempt was begun that the snapshot on
disk does not count (`Attempts`, `Known`), an ended job stays as it is (`Final`). Between the two
halves is the hard part: a save that failed may be on disk, so a start can find a page pending
whose capture is durable; `Known` says that its attempt is counted then, and the reconciliation
completes it instead of fetching it again. Theorems: `CrawlHolds`, `CrawlTypes`,
`ReceiptsBacked`, `FetchedOnce`, `ReadersTold`, `CrawlShutdownSettles`, and the action property
`CrawlEndsAreKept`.

**The daemon and its services** (`ServiceProofs`). `DaemonRun`: `Gated` says that the queue at the
station's gate is made by who is at it, the server before an emergency, and that nobody is
inside once a writer was let in; `InOrder` what each end has therefore seen. `FiltersStay` needs
no assumption; `TunnelsAreCounted` counts tunnels, so there are finitely many
(`TunnelsAreFinite`). `LiveSessions`: a reader runs only for a session in the table, and a shutdown
that began has emptied the table for good; from it `ReadersOwned`. `StationServer` keeps the same
invariant through connections that are begun and aborted around it, together with: who is
served is to be joined, a `begin()` is of a connection that waits for it, and the services are
closed in their order; from it `ServicesOutlive`. Both assume that "no session" is no connection
(`NoSessionIsNone`).

**A worker process** (`WorkerProofs`). `WorkersAreKept`: `Tabled` says that every worker that
exists is in the table for its profile or is the one the server waits for, `Counted` that there
is room before a worker is spawned, and `Recent` why the least recently used worker is never the
one that was served last: its use is the latest but for the request in hand. It assumes
`IpcBounds`: `max_resident` is positive, as the code demands of it.

**Monitors and profile records** (`DiskProofs`). Of a journal at any step, a torn record is its
last and is there only until the start has recovered it; what a client was told is a prefix of
the whole records. `ReadRecordsStay`, `StoppedCanBeRead` and `CrashesLeaveJournals` hold for any
crashes, if no write fails (`NoWriteFault`; with one they are false, finding 3) and no payload
is a record of another kind (`PayloadsAreNoTags`). `OneIdentityIsBound` and `BoundAgrees`: at
each step of a binding, the manifests before it are the identity's own or those of one that says
the same (`IdentitiesAreTold`: identities differ in what the manifests say). `LastStatusIsRead`,
with records cut short anywhere: as long as no record was begun behind a cut one (`NoneInside`),
the journal is whole records and a rest that is less than one (`RecordsAndRest`), the reader
passes the rest over, and the last whole record is an acknowledged or a possible transition;
while nothing was acknowledged, a rest alone makes a journal that is refused. With a record
behind a cut one the state that is read may be wrong (section 5).

**Clients' collections** (`DiskProofs`). `CollectionInv`: what is on disk of a collection at each
step of its task (`OnDisk`), and who answers for one that is open: its caller, the table, what
the shutdown took out of it, a failure that is kept, or the recovery (`Answered`). From it
`ReceiptsOfCollections`, which states `ReceiptsAreBacked` and `ShutdownSettles`, and the action
property `CollectionEndsAreFinal`, for any collections, failing writes and crashes. They assume
that the digest of a task is not the one of none, and the room of the table a number
(`TasksAreTold`).

**Requests to the station** (`SessionTaskProofs`). `RequestsHold`: two connections never carry
one try, and the caller waits on the one that carries its own (`Talking`); a try that changed
the station was asked and is not refused by what it has or will have as an answer (`ChangeInv`);
what the id names says whether a try made it, and a reservation or an admission is one handler's
(`OnceInv`); every answer given or on its way agrees with what the id names (`AgreeInv`), unless
that is a crawl journal that was left without a job, whose id is refused; each counter is the
number of connections at a place (`Books`). From it `RefusalsChangeNothing`, `RetriesAgree`,
`SessionsBeginOnce` and `BooksBalance`, for any number of tries and any limit of connections
(`TriesAreFinite`).

**A streamed browser** (`SessionTaskProofs`). `StreamHolds`: what runs at each step of a node
(`StreamRuns`), the inputs its page has seen (`Sees`), and which message may follow which
between the writer's hand and the peer's (`Paired`, `Ordered`); from it `PageIsAsTold`,
`FramesArePaired` and `NothingIsLeftRunning`, for any inputs. It assumes only what inputs are
(`ScriptsAreInputs`).

**Connections and clients** (`SharingProofs`). `CdpForgetsNoCall`: each call is once in the queue,
in the writer's hand or with the peer (`EachOnce`); what the peer may answer has its entry
(`EntriesAreKept`); who leaves has raised the flag, and what is entered after the reader's end is
with the writer, which has yet to look at the flag (`EndsAreSeen`). `BidiLeavesNobody`: a call has
its entry until it is settled (`HaveEntries`), and once somebody has cleared the table only a
call that has yet to look at the flag has one (`NoneIsLeft`). `ClientDesyncsByDrops`
(from `ClientInv` and the steps, by induction: whoever meets an answer that is not meant for it
does so behind a call that was dropped), `ClientIsInStep`: the mutex is held in turn, requests are
numbered once, and what is under way on the pipe in use is awaited or was given up.
`GuardSendsNothingForbidden`, `GuardAnswersLoss`: whatever target runs has its requests paused and
the targets it may open are told of (`RunningIsCovered`), during installation as far as it went
(`InstallingCovers`), and at each step of its list the handler has done what precedes it
(`Prepared`); who can end the browser is there until it has ended (`EndsAreOwned`).
`GuardLeavesNobody`: as long as the task has its client and has missed nothing (`Serving`), a
target that waits has its announcement in the queue, with nothing before it that would make the
task pass it over (`WaitingAreTold`), because the task knows every session the browser tells by
(`TappedAreKnown`) and has not heard of what has not opened (`NewAreUnheard`); and a session holds
no more requests than there are pauses of it to be answered (`PausesAreTold`). The assumptions
name the constants' shapes: `CloseIsNoCall`, `CapacityIsNatural`, `RoomIsNatural`, `ClientBounds`,
`OpenersAreSound` (a target is opened by one of a kind that opens such targets),
`BacklogIsPositive`.

**Ownership** (`OwnershipProofs`). `Containment`: what each await of a daemon's start or stop
and of its broker knows of browsers, lease and mirror (`Owned`), and that no browser runs from
what is being taken away (`NobodyRuns`); from it `Confinement`. `BrokerIsKnown`: what launcher
and broker have found out of each other at each step (`Known`), and who has seen the capability
(`Kept`). A launcher without a handle terminates whom it found at the pipe when it first looked
(`seen`): the broker, or an elevated process of the user that had its id by then.
`ProfileOwner`: who owns what at each step of a launch (`Owns`), and which steps may follow each
other (`Phases`); `ProfileIsKept` and `NothingLeft` are the properties of the run.
`RuntimeMirror`: one process removes, nobody leases what is removed, the manifest is the last of
a mirror's files; from it `MirrorIsWhole`, if no removal is cut short (else it is false, section
3), and without that assumption the action property `LeasedMirrorStays`. `MirrorSource`: of a
builder at any step, what it has looked at is as it was or its time has moved on (`Dated`),
files it holds open do not change under their copies (`CopiesHeld`), and between its first and
its second look there was an instant at which the directory was what it copied (`Seen`,
`Instant`); from it `PublishedIsASnapshot` and `GivenIsItsSource`.

Only model-checked:

* liveness under fairness (`EveryCallReturns`, `EmergencyReleases`, the fair part of
  `ImplementsContract`, `EveryTaskEnds`, `WorkEnds`): the prover does not handle ENABLED;
* the properties of `MCSharing`, `MCDaemon` and `MCDisk` that are put together from parts
  (`TypesOK`, `ConnectionsHold`, `ServicesHold`, `RecordsHold`, `SharedFilesAreKept`) as wholes.
  Theorems state their parts, each for the module's own specification: of `SharedFilesAreKept`
  all; of `ServicesHold` the crawl, clients' collections, the daemon's run, the broker, the worker
  process, the server, and `ReadersAreOwned`; of `OutcomeIsFinal` both halves; of
  `ConnectionsHold` the two transports, the client, the requests, the page policy, and
  the stream but for `EvidenceIsTrue`; of `RecordsHold` monitors and profiles;
* what folds and recursive functions over sequences compute (`Shaping`, `TraceLedger`,
  `CrawlReading`, `EventReading`, the count of lost events `LossIsCounted` of live sessions, and
  the clicks that `EvidenceIsTrue` counts in `BrowserStream`): that is induction over data.

## 5. Findings

Runs with one property quoted from the repository:

1. `MCSessionTask_wait`: `wait_for_selector()` polls with ResolveElement; with the browser runtime
   the first miss degrades the worker and later polls are refused (`lib.rs:2441`).
2. `MCDaemon_loss`: on the loss of the containment `run()` awaits `emergency_shutdown()` inside its
   `select!` branch, where the server is not polled; when the server has called
   `BrowserStation::shutdown()` it holds, or is next to hold, the gate that the emergency waits
   for, and the daemon never exits (`dig2browser-stationd.rs:590`).
3. `MCDisk_journal`: an append to a monitor's journal that fails half way leaves its bytes, the next
   frame is appended behind them, and the daemon does not start again (`monitor.rs:427`).

By hand (section 3), or seen while modelling. *Worker and station:*

* `wait_actor_finished()` takes the JoinHandle out of its mutex before it awaits it; if that
  future is dropped the next `wait_aborted()` returns at once, while the browser may be up
  (`src/agentic/worker.rs:370`; `ReturnMeansReleased` without its exception).
* `emergency_shutdown()` waits for the gate before `wait_aborted()`; a lease that awaits an
  unanswered subscription holds the read side (`lib.rs:1987`, `worker.rs:492`; `EmergencyEnds`). A
  worker at that await does not see its emergency flag either, until somebody aborts its task.
* `register_emergency_worker()` forgets workers that published Stopped, which they do before they
  drop the runtime; after a close that timed out the browser is still up (`lib.rs:1110`;
  `RegistryIsShutdownSet`).
* `begin_auth_session()` gives up the mutex with its victim's slot empty (`lib.rs:1512`); another
  call may open the victim's identity while its browser still closes, and fails on its profile
  lock (`VictimsAreGone`).
* A dropped `begin_auth_session()` or `finish_auth_session()` leaves a reservation without a
  browser until the station shuts down (`lib.rs:1550`). A finish whose close fails frees the
  reservation but answers Unavailable.
* `lease()` restarts a degraded worker without its session gate, under a task that runs there
  (`lib.rs:1286`; `TaskOwnsPage`).
* A second concurrent `shutdown()` of a worker reports an error although the worker stopped.

*Tasks, from client to runtime:*

* Firefox lacks UploadFile, WaitForDownload, ListTabs and SwitchToTab although they are granted;
  the lightweight runtime grants capabilities whose commands it lacks (`SurfaceIsCovered`).
* A first navigation whose answer came too late is sent again, so a page may be loaded twice
  (`lib.rs:2198`; what `StepsTakeEffectOnce` excepts).
* A wait of less than a millisecond passes the client's validation, is encoded as 0 ms and
  refused by the decoder (`task.rs:330`; `TasksSurviveEncoding`).
* A text above 64 KiB, an odd status or a final URL that is not http(s) loses the result of a
  task whose steps took effect; each single bound of the payloads equals the bound of the whole
  result; a download may wait longer than the command's timeout (`WorkIsAnswered`).
* Several argument errors are found only by `encode()` inside `call()` and cost the connection.
  A live or monitor stop, and a `finish_auth`, repeated after a lost answer are refused;
  collections and crawls take the repeat (`LiveRetriesAgree`). A lost answer to a monitor's begin
  leaves a monitor whose name nobody knows (`NoMonitorIsOrphaned`). A crawl's begin that fails
  after its journal was written leaves the journal without a job: the same begin is refused as a
  conflict until the daemon starts again (`CrawlRetriesAgree`).
* A dropped call with progress leaves its late answer on the shared pipe (`NeverDesynced`).

*Crawls, collections, ledger, rows:*

* A collection that ended Succeeded may have no artifact after a write that failed
  (`SuccessHasArtifact`; `collection.rs:262`), and a crawl may not settle while its saves fail
  (`SettlesAlways`; `crawl.rs:535`).
* A result whose title, status or URL is out of bounds makes the receipt fail and closes the
  admission of the whole daemon (`BoundsKeepAdmission`); a capture at an address that is not
  http(s) writes a receipt no reader takes (`ReceiptsDecode`), and a daemon that dies before the
  final event does not start again (`LedgerOpens`); one damaged artifact keeps the daemon from
  starting (`DamageIsContained`); with the clock set back, an interrupt is taken for written
  though it was refused (`InterruptIsWritten`); the receipt of an interrupted collection is "not
  ready" for ever (`NotReadyMeansOpen`).
* A collection's `begin()` dropped after its spawn loses a cancel (`collection.rs:619`).
* Links with `/../`, `/./` or a bare `?` pass the crawler but not the protocol's check of
  events: reading fails for ever past them (`NextEventFits`). A daemon started under a narrower
  navigation policy does not open with jobs of the wider one, even ended ones (`StartsAlways`).
* A cell above 64 KiB fails the whole read (`NextRowFits`); schemas are probed on `{}`, so that
  some are refused without cause (`RefusedForCause`); a read says complete while the crawl or
  monitor still goes on (`FinishedIsAll`).

*Events, monitors, live sessions:*

* An odd HTTP status, or a console level of NULs, makes an event disappear after it took its
  cursor (`NothingIsSwallowed`, `GapsAreDrops`, `PagesAreReadable`; `live.rs:400`); a redirected
  request keeps its first address (`UrlIsCurrent`); two monitors that record one payload at once
  may lose a frame on Windows (`FramesAreRecorded`; `monitor.rs:428`); an empty page after the
  end does not say that it is the end (`EndIsTold`).
* Events lost by the broadcast channel are not counted in `dropped`; a reader that ends by itself
  leaves session and lease until they expire; monitors are not drained at the daemon's shutdown.

*Browsers, profiles, mirrors, processes:*

* Switching to another tab under an exact page policy aborts the only handler and keeps the
  policy healthy (`HealthyIsHandled`), after which a lost connection leaves the browser running
  (`SomebodyAnswersLoss`); the same when clearing the policy is given up
  (`cdp.rs:2701`).
* The Chromium backend gives the profile's lock up while its processes may still be ending
  (`FreeIsEmpty`; `cdp.rs:200`).
* A session record torn after its fields and followed by another is decoded as that of the torn
  one with a far expiry (`StatusIsNeverWrong`); when the very first append fails once the file
  is there, with part of its record or with none, the journal is refused for ever
  (`lib.rs:990`). A leftover temporary manifest counts as existing state, and the profile can
  never be bound (`InterruptedCanBeBound`).
* A removal cut off after the main executable leaves a mirror that is invalid for ever
  (`SharedFilesAreKept`; `windows_runtime_mirror.rs:202`); a leased file that is a hard link, or
  opened for attributes only, may still change (`LeasedIsUnchanged`).
* A launcher without a handle takes the process that has the broker's id when it first looks at
  it: an elevated process of the same user that got the id by then may be terminated
  (`NobodyElseIsTerminated`; `windows_wfp_broker.rs:885`).
* A worker process that cannot confirm a start drops its worker without waiting for its end.
* A streaming node: sending its last frames does not watch the deadline (`DeadlineHolds`), may
  send none of them (`EffectIsShown`), takes the ready file of an earlier run for its own
  (`ReadyIsFresh`), and on an error leaves its tasks behind (`TasksEndWithNode`).
* A failing shutdown of the crawl service makes the server skip the others; after the accept loop
  a second Shutdown request waits for the drain timeout.

## 6. What is not modelled, and why

* *Sequential code without shared state*: cookies, stealth, detection, bot authentication, probe,
  crawl profiles and HTML parsing, the WebDriver client, the stand-alone crawler, the wasm test
  runner, command line tools. Their effect on the modelled parts is an outcome of a step.
* *The page pool* (`src/browser/pool.rs`): a semaphore and a round robin; nothing in the station
  uses it. (A dropped page gives its permit back but stays open.)
* *Operating system behaviour* beyond what a model needs of it: access control lists, handle checks,
  filter formats, command lines. That a Job Object ends what is in it, that a rename replaces a
  file as a whole, and that a transaction of the filtering platform is atomic are assumed, and
  marked where they are used.
* *Inside the modelled parts*: payloads and byte layouts, metrics and logging, the order of
  `last_used`, checks that read only the configuration, real time (timeouts are choices).
  Several jobs of the crawl service share nothing but the station and are one job. Journals of
  the crawler's older format, and damage to crawl snapshots from outside, are left out.

## 7. The plan

Done: every module of the plan (worker, station, tasks, engine, store, services, ledger,
records, server, transports, ownership, mirror) and the proofs of section 4. What is left: that
the workers of `Station` and `WorkerIpc` are the contract's, as a refinement per worker.
