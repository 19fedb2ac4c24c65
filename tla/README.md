# A TLA+ development for oxidhome

This directory models the host daemon of oxidhome (`src/crates/oxidhome-core`): the program that runs
home-automation plugins as WebAssembly guests, carries events between them and to API clients, and keeps
the last known state of every device. The modules are translated from the Rust source; `PROJECT.json` maps
each definition to the lines it stands for. Paths below are relative to `src/crates/oxidhome-core/src`
unless they start with `src/`.

## 1. The system

One `Engine` per daemon holds every store. Each running plugin instance is one Tokio task, its
*supervisor*, which owns the guest and runs one guest call at a time. Guests reach the stores through host
calls; API handlers reach them directly.

    guest --host calls--> PluginState --lock sections--> registry / projection / bus / event log
      ^                                                        |            |
      |  on-event, execute-command                             | wake       | reads
    supervisor <------------------------------------------- Notify       API handlers --> clients
      |                                                     subscriber queues --> tail streams
      +-- terminal state --> reaper --> sweeps registry, services, projection; unregisters

| Component | State | Operations | Interacts with | What is hard | What makes it correct |
|---|---|---|---|---|---|
| Event bus (`state/events.rs`) | subscriber map, wake registry, per-subscriber queue, `pending_lag`, `send_gate`, drop counter, `publish_sequence` | publish, publish_with_id, subscribe, subscribe_with_wake, drop of a subscription | publish_event, supervisors, tails | publishers working from stale snapshots, overflow racing the consumer, order of queue and wake, order of the three drops | exact skipped counts, order of rows, no lost wake-up, no leaked lock |
| publish_event (`runtime/state.rs`) | the gate it holds across an await | authorise, admit, record, project, fan out | event log, projection, bus | failed write after admission, waiting while others change what was checked | log, projection and subscribers agree in content and order |
| Supervisor (`runtime/lifecycle.rs`, `runtime/instance.rs`) | instance state, restart counter, stored permit | init, tick, command, drain events, shutdown, backoff, restart | every store | traps half-way, stop during load or backoff, commands in the queue of a dead guest | terminal stop, bounded restarts, every caller answered, queues drained |
| Device registry (`state/devices.rs`) | device -> info, owner | register, update, remove, remove_by_owner | projection | a lock of its own, next to the projection's | registry and projection agree outside an operation |
| Device-state projection (`state/device_state.rs`) | entries, revision, watermark, generations, epoch, cursor secret | apply_delta, replace_snapshot, reset_and_seed, the stale sweeps, cap, delta and snapshot pages | registry, lifecycle, reaper, API | old values coming back, eviction of a flip nobody saw, the shared cap | fresh means live; no change is silent; bounded |
| Device-state sync API (`api/server.rs`) | none; the cursor is the client's | state/changes, state | projection | paging against writers, daemon restart | a client that need not resync has an exact copy |
| Instance registry, reaper (`runtime/registry.rs`, `runtime.rs`) | instances, singleton slots, shutdown flags, reapers with generations | start, stop, stop_all, drain, reap | supervisors, stores | start against shutdown, reaper against the next start, a drain that gave up | at most one live instance per id, singletons alone, entries kept from earlier reapers; nothing runs after all_stopped |
| Services, dispatcher (`state/services.rs`, `runtime/dispatcher.rs`) | services, in-flight counts, call chains | register, call, remove | supervisors | concurrent opposite calls, timeouts, late execution | no self-deadlock on a chain; a service in use is not removed |
| Installed plugins (`state/installed_plugins.rs`) | rows with a grant and a digest, plugin directories, entries and quarantine entries in memory | boot scan, install, uninstall, start | KV, blobs, lifecycle lock, loader | crash between file system and SQLite, edits between boots, a client that hangs up | identity kept, recoverable by retry, nothing left of what was uninstalled, only vouched-for bytes run |
| Blobs (`state/blobs.rs`) | files, an index with usage and quota | write, delete, three reads, register, purge | database, lifecycle | a crash or a failed step between file and row, readers between row and file, quota under concurrency | no row without bytes, no orphan without a fault, usage equals the rows, quota kept |
| KV (`state/kv.rs`) | rows, quota | put, get, delete, purge | database | quota, kept by the same triggers | usage equals the rows |
| Log store (`state/log_store.rs`) | a bounded channel, a writer thread, four counters, rows | on_event, flush, trim, drop | tracing, any thread | counters read one after the other while others move them; a full channel; a writer that dies | the counters add up, a flush waits for what was there, a trim keeps its cutoff, every flush returns |
| Audit log, event log | SQLite rows | intent/outcome; record/query | API, bus | crash between the phases | every mutation has an intent |
| Tokens, scopes, bootstrap, UI tickets, MCP sessions, rate limits | small tables with expiry | issue, verify, revoke, admit | API | caps and expiry at their limit | never above the cap |
| Dashboards, DB, daemon wiring, manifest, SDK, WIT, protobuf | rows or none | CRUD, parsing, generated code | | little that interleaves | |

`PROJECT.json` lists every component with its status, and under `hazards` the places, line by line, that a
test would hardly reach. The properties below answer those hazards; the two that no property answers
say why there.

## 2. The modules

| Module | Models |
|---|---|
| `LossyChannel` | what a subscriber is promised: a bounded, lossy, honest channel (abstract specification) |
| `EventBus` | publish_event, the bus, the consumers; implements one `LossyChannel` per subscription |
| `MCEventBus` | its instances for TLC |
| `EventBus_proofs` | its theorems |
| `DeviceState` | device registry and projection, host calls, lives of an instance, reaper |
| `MCDeviceState` | its instances for TLC |
| `DeviceState_proofs` | its theorems |
| `DeviceSync` | extends `DeviceState` with the reads of the API, a client, and daemon restarts |
| `MCDeviceSync` | its instances for TLC |
| `DeviceSync_proofs` | its theorems, on top of `DeviceState_proofs` |
| `InstanceLifecycle` | the states a watcher of an instance may see, and the restarts between them (abstract specification) |
| `Supervisor` | one supervisor task, its control channel and callers, the service registry's counts, the reaper; implements `InstanceLifecycle` |
| `MCSupervisor` | its instances for TLC |
| `Supervisor_proofs` | its theorems |
| `InstanceRegistry` | which instances run: start, reaper, stop_all and the drains, over a supervisor seen from outside |
| `MCInstanceRegistry` | its instance for TLC |
| `InstanceRegistry_proofs` | its theorems |
| `InstalledPlugins` | plugin directories and rows: boot scan, install, uninstall, start and load, crashes, edits |
| `MCInstalledPlugins` | its instance for TLC |
| `InstalledPlugins_proofs` | its theorems: what an uninstall purges, then directories, rows and maps on top of those |
| `BlobStore` | the blobs of one instance: files, index and quota, with crashes and power losses |
| `MCBlobStore` | its instance for TLC |
| `BlobStore_proofs` | its theorems |
| `LogStore` | the channel, the counters and the writer of the log store; flush, trim and drop polling them |
| `MCLogStore` | its instance for TLC |
| `LogStore_proofs` | its theorems |

`EventBus` and `DeviceState` overlap in `publish_event`. `EventBus` has every step of it and knows of the
projection only which rows it has applied; `DeviceState` has what the delta does to a slot and knows of the
gate only that time passes between the admission check and the delta. No step of one depends on what the
other abstracts: the bus never reads the projection and the projection never reads the bus.

### EventBus

State: `eventLog` (committed rows), `projected` (rows applied to the projection), `seqHolder`
(`publish_sequence`), per publisher `pc, ev, targets, cur, claimed` (position in `publish_event` /
`publish_with_id`, the event, the rest of its snapshot, the subscriber at hand, the swapped-out lag), per
subscription `stage, queue, lag, dropped, gate`, per plugin `permit, sup, todo` (the stored permit of its
`Notify`, where its supervisor is, the subscriptions `collect_pending_events` has still to visit), and two
history variables, `since` and `offered`.

One action is one lock section or one atomic operation. `Begin` is an admitted event; `Acquire`, `Record`,
`RecordFail`, `Project` are the gated part of `publish_event`; `Snapshot` copies the map; `Claim` takes the
send_gate and swaps the lag; `SendOk`, `SendFull`, `SendClosed` are the three results of `try_send`;
`Reinject` puts the claim and the drop back; `Signal` notifies. A publisher that is not in `Sequenced`
calls `EventBus::publish` directly. A subscription goes through `unused, waking, live, closed, unwoken,
gone`: the wake is registered before the map entry, and dropped receiver first, wake second, map entry
last. A supervisor is in a guest call (`handler`), draining (`collect`, then `dispatch`), in its select
(`waiting`) or dropping a trapped instance (`dropping`). Rows are committed one by one because the gate is
held; the model does not assume this but has the holder as a variable, and the proofs use it.

### DeviceState

State: `registry` (declared capabilities per device), `entries` (per device and capability: quality,
revision, generation, fields), `rev`, `evicted`, `gens`, `inst` (where the supervisor is), `op` (the host
call of a guest between its two lock sections) and the history variable `cut`, the revision up to which the
values of a slot are void.

A host call is two steps, one per lock: `Register`/`Seed`, `Update`/`Reconcile`, `Remove`/`MarkDeviceStale`,
`Publish`/`ApplyDelta` (or `LogFails`), `CommandResult`/`ReplaceSnapshot`. A life is
`BeginLife`, `RestartGeneration`, then guest calls, then `Crash` (backoff, another life) or `End`,
`ReapDevices`, `ReapState`. `Sweep` is `stale_where_locked` with the cap enforcement at its end. The value
of a field is the revision of the write that set it, which is what the properties need to tell an old value
from a new one.

### DeviceSync

Adds `epoch` and the client: `phase, known, cursor, cache, page, token`. `PollChanges` and `PollReset` are
the two answers of `state/changes`; `FirstPage`, `NextPage`, `PageRefused` those of `state`. A handler reads
under one read lock, so it is one step. The client is external code and does what the handlers' comments
prescribe: it takes the highest revision of a page as its next cursor, on an empty page either keeps its
cursor or takes `current_revision` (the comments allow both), and resyncs when told to or when the epoch
changes. `DaemonRestart` empties everything that is in memory.

### Supervisor

State: `pc` (where `run_supervisor` and `run_one_lifecycle` are), `watch` (the state last published),
`policy`, `restarts`, `crash` (what `LifecycleOutcome::Crashed` carries to the decision), `queue` and `cur`
(the control channel and the message being served), `client` (each caller of a handle has at most one call
under way, whose future may be dropped at any time), `open` (a handle still exists), `reaper`, and of the
service registry `service`, `active` and, per dispatcher, `call`: whether its message addresses the
registration that is there now (`current`) or one that has been swept (`past`).

A step is what runs between two awaits. In the `pc`s of `Guest` the guest is running and the supervisor
waits for it; everybody else goes on, and the guest's host calls `RegisterService` and `RemoveService` may
happen. Each guest call ends in a step of its own (`InitReturns`, `InitDrainReturns`, `TickReturns`,
`DrainReturns`, `CommandReturns`, `ShutdownReturns`), with a return or with `Crashes`. `Tick`, `Wake`,
`Receive` and `Closed` are the arms of the select in `serve_loop`; `Elapsed`, `BackoffReceive` and
`BackoffClosed` those in `backoff_wait`; `Decide` and `Restart` are the restart policy. `Exit` ends the
task and drops the receiver with what is in it. `Begin`, `Enqueue`, `SendFails` and `Abandon` are the steps
of a caller; `BeginLife` and `Reap` sweep the registry.

The supervisor meets the other two models at its edges: what it does to devices and projection is the life
of an instance in `DeviceState`, how it drains its subscriptions is `Collect` and `Dispatch` in `EventBus`.

### InstanceRegistry

State: the registry's `instances`, `singletons` and `closed`, the engine's `shutting_down` and `reapers`, the
callers (`start`), per supervisor ever spawned `handle`, `sup` and `reaper`, what its guest `owned` in the two
stores that are swept by instance id, and the caller of stop_all and drain (`ctl`, `stopping`, `timed_out`,
`awaited`). The n-th supervisor is n, which is also the generation of its reaper.

`Begin` is the check of the fast flag, after which the manifest is read; `Register` is the closure that runs
under the registry's lock: the authoritative flag, duplicate and singleton checks, spawn of supervisor and
reaper, and three insertions. A supervisor is `Supervisor` seen from outside: a life begins with sweeps of its
own, a stop is acknowledged before the terminal state is published, the last crash has no stop. `Reap`,
`ReapServices`, `Unregister` and `Untrack` are the reaper, one lock section each. `BeginStop`, `Close`, `List`,
`StopReturns`/`StopTimesOut` and `Report` are `stop_all_supervised_instances`; `Drain` takes the join handles,
`DrainReturns` and `DrainGivesUp` end it. `detached` remembers that a bounded drain gave up on a reaper.

### InstalledPlugins

State, durable: `disk` (what each directory holds), `staging`, `rows` (per plugin and installation, its state
and digest), `kv`, `blobs`. In memory: `entries` and `quarantined` of the registry, the requests being served,
the lifecycle `lock`, the `running` instance. `placed`, `known`, `purged` and `gone` are history.

The boot is three parts, since it may crash between them: `Scan` builds the maps from a snapshot of directories
and rows, `SweepOrphan` tombstones rows without a directory, `InsertBackfill` inserts rows for directories
without one. What the scan makes of `plugins_root` is stated as operators over the sightings of a plugin
(`Indexed`, `Recorded`, `Orphans`, `Backfilled`) instead of a walk. A request is a chain of steps: `Install`,
`Stage`, `InsertRow`, `Rename` (or `Rollback`), `Index`; `Uninstall`, `PurgeKv`, `PurgeBlobs`, `Resolve`,
`RemoveDir` (once per directory, each of which may stop half-way), `Tombstone`, `Drop`; `Start`, `Register`,
`StartReturns`. `Load` is the supervisor's load, the first and each later one: it compares the digest of what is
on disk with the one in the row. `Crash` loses the memory at any step; `Edit` and `Degrade` change directories
and rows while the daemon is down. An entry's `dir` of the same name as a plugin holds that plugin, which is how
install names it; an operator's copy may have any other name.

### BlobStore

A blob is the id that its write mints, so the content of a file is its id. State: `row` (the index), `usage`
(the row of `blob_usage`), `tmp` and `files`, `conn` (whose transaction holds the connection), each `writer`
and `reader`; `dirs` says of the directory of the installation and of that of the instance in it whether they are
there, and durably so, `fresh` which of them a write has found missing and therefore fsyncs; `unsynced` are the earlier
states of the database that a power loss may restore, `unlinked` the files whose unlink it may take back. `undone` and
`littered` are history: a power loss took a commit or a directory back, and a crash or a failed call may have left a
file.

`write` is `FindDirs`, `MakeDirs`, `SyncDirs` when a directory is missing (`DirsFail` is the early return of each), then
`Stage`, `Admit` (BEGIN IMMEDIATE, the quota check), `Rename`, `Fsync`, `Commit`, then one of the three
arms of `finalize_write_outcome`; `Refuse`, `RenameFails`, `FsyncFails` and `CommitFails` are its errors, and the
unlinks may fail silently as they do in the code. `delete` is `Delete`, `Unlink`, `SyncUnlink`. `LookUp` and
`ReadFile` are read and read_by_name; `ReadWithInfo` opens the file under the mutex. `Load` is
register_instance, `PurgeRows` and `PurgeFiles` are purge_installation. `Crash` and `PowerLoss` come between
any two steps.

### LogStore

An event is one call of on_event, and `stage` is how far it has come: counted in `sent`, refused and then counted in
`dropped`, or queued, held by the writer, inserted (or not), and counted in `written` or `write_errors`. State
besides: `queue` (the channel), `held` and `alive` (the writer thread), the counters, `rows`, and `flush`, which has for
each thread where it is in flush and what it has read so far. A record knows only whether its timestamp is before the
cutoff (`Old`). `before`, `counted` and `overtaken` of a call and `trimmed` are history: what was in the channel or
through it at the snapshot, what was in `sent`, whether a later event was among the dropped, and what a trim
has promised to delete.

`Observe`, `TrySend`, `CountDropped` are on_event; `Receive`, `Insert`, `CountRow` one turn of writer_loop, and
`WriterPanics` its end on a poisoned connection, which takes the channel with it. flush is `Begin`, then
`LoadWritten`, `LoadErrors` and `Drained` or `NotYet`, one load each, then `GiveUp` or `Again`; `Delete` is what
trim_older_than does whatever flush returned, `Drop` the Drop of the store, which skips its flush after one that gave
up. wait_drained_for_test is a flush that cannot give up.

`InstalledPlugins`, `InstanceRegistry` and `BlobStore` meet at the edges. `InstalledPlugins` runs at most one instance per plugin and has its start
and stop as single steps, which `InstanceRegistry` refines; it knows of KV and blobs only whether an
installation has any, which `BlobStore` details. `InstanceRegistry` takes from `Supervisor` that an acknowledged
stop runs no guest code any more and that a terminal state is published after it (`StopIsFinal`).

## 3. What is checked

| Run | Instance | Properties | What it shows |
|---|---|---|---|
| `EventBusSafety` | two plugins publish through publish_event, one plugin subscribes, one tail; two topics, capacity 1, 2 publishes | `NoRowMissed`, `ProjectedFirst`, `NoLostWake` | a row committed after a subscription is offered to it or still carried to it; the projection leads every state event; a queued message always leaves the supervisor a reason to drain |
| `EventBusLive` | two gated and one ungated publisher, one subscribing plugin, capacity 1, 3 publishes, fairness | `QueuesDrained`, `EveryPublishReturns`, `HonestChannels` | every queue of a plugin empties again; no gate is leaked on any path; refinement of `LossyChannel`: exact skipped counts, drops only on a full queue, rows in order |
| `DeviceMerge` | one instance, one device, two capabilities, three keys, 2 fields per slot, stale cap 1, 4 revisions, 2 lives | `FreshIsLive`, `FieldsOfThisLife`, `RevisionsDistinct`, `StaleBounded`, `NothingTruncated`, `NoSilentChange` | what may be called fresh; no value of an earlier life, registration or snapshot comes back; an admitted delta is applied whole; the cap holds after every step; every change gets a new revision or moves the watermark |
| `DeviceSyncLive` | one instance with two devices, stale cap 0, 3 revisions, pages of one, two instance lives and two daemon lives, fairness | `ExactUpToCursor`, `Converges` | a client that is not told to resync has an exact copy up to its cursor, through coalesced pages, evictions and resyncs; a cursor or a page token of an earlier daemon life is recognised whatever its number; once the writers pause, a polling client agrees with the store |
| `SupervisorCalls` | two dispatchers, one stopper, channel of two, two restarts, every policy, with and without reaper, fairness | `StopIsFinal`, `ReapedStaysClean`, `InFlightCounted`, `LifecycleFollowed`, `EveryCallReturns` | a stop that returned is final; nothing comes back after the reaper; the in-flight count is exact through abandoned calls and restarts; published states and restarts follow `InstanceLifecycle`; no caller waits for ever |
| `InstanceRegistry` | two instance ids, one plugin that nobody declared, one caller with either flag, three supervisors, two stop_all, fairness | `RegistryTypeOK`, `Exclusive`, `OwnEntriesKept`, `NothingLeftBehind`, `DrainEnds` | a singleton slot dies with its instance; ids and singletons are exclusive; a reaper never sweeps what a successor registered; after all_stopped nothing runs, after the drain nothing is left; the unbounded drain returns |
| `InstalledPlugins` | one plugin, its directory and one for a copy, two contents, two requests, two installations, two edits | `PluginsTypeOK`, `DirHasRow`, `IdentityKept`, `GoneStaysGone`, `RunsAsInstalled`, `UninstallPurges`, `Recoverable` | rows and directories over every failure and crash: the identity does not rotate, an uninstalled plugin stays gone with its state, only vouched-for bytes run, and what blocks an install can be uninstalled |
| `BlobStore` | two writers, one reader, two names, two sizes, a quota of 3, two ids, one fault | `BlobsTypeOK`, `RowHasFile`, `NothingOrphaned`, `ReadsAnswered`, `QuotaKept` | index, files, directories and usage agree over every failed step and crash; readers find their file; the quota holds |
| `LogStore` | three events, two of them before the cutoff, a channel of one, one thread that flushes, waits, trims or drops, fairness | `LogTypeOK`, `FlushHonest`, `RetentionKept`, `FlushReturns` | every counted event is in one place; a flush that returned true has waited for what was there unless a later event was dropped; a trim keeps its cutoff; every flush returns |
| `LogFlush` | as `LogStore` | `FlushDrains` (violated) | see section 6 |
| `InstalledPluginsRetry` | as `InstalledPlugins` | `RetryConverges` (violated) | see section 6 |
| `BlobStorePower` | as `BlobStore` | `RowHasFileDurably` (violated) | see section 6 |

Every property has a mutant in `PROJECT.json`: a plausible bug in one mapped definition that makes TLC
report the property violated.

### Bounds, and why they are enough

- `Capacity = 1` (256 in the code): the queue distinguishes empty, has room and full; with one slot, every
  order of send, drop, receive and re-inject occurs within a few publishes. The theorems hold for any value.
- `MaxPublishes` 2 or 3: the order of two rows needs two, a gap before a delivered message three, and among
  three publishers one overtakes another.
- `MaxStale` 0 or 1 (4096; that one instance's sweep evicts another's entries is left to the proof), `MaxFields` 2 (64), `MaxDevices` 1 or 2 (1024), `DeltaLimit = PageLimit = 1`:
  the smallest values at which the limit is both reached and passed. With `MaxStale = 0` each flip is
  evicted in the lock section that makes it, the case the watermark exists for.
- `MaxRev` 3 or 4, `MaxGen` and `MaxEpoch` 1 or 2: enough to write, flip, evict and revive a slot, to enter
  a second life and to restart the daemon once. Revisions are `u64` in the code and do not wrap in practice.
- `QueueCap` 1 or 2 (16) and three callers: a full channel with a caller waiting for room, and a stop behind
  a call that is behind another. `MaxRestarts` 1 or 2 (10): a restart that counts, one that reaches the cap,
  and one after a healthy life that starts again from zero.
- `MaxSpawned` 3 and `MaxStops` 2: an instance, its successor under the same id while its reaper is at any step,
  and a sibling; and a shutdown after a shutdown whose bounded drain gave up.
- `InstalledPlugins`: an identity that rotates needs two installations (`MaxUuid`), a duplicate a second directory,
  a changed content two versions, and a manifest that is broken for one boot and repaired for the next two edits.
- `BlobStore`: two ids (`MaxBlobs`) are an overwrite, or two names; sizes 1 and 2 against a quota of 3 make two
  writes fit side by side or only one of them (that a reload shrinks the quota below what is used is left to the proof,
  which has any quotas). Two writers are one that makes the directories and one that finds them. `MaxFaults` 1: what a
  fault leaves (calls cut off, orphan files, restored rows) is met by everything that follows; the proofs have any
  number.
- `LogStore`: with a channel of one (1024), three events are one that the writer holds, one that is queued and one that
  is refused, in any order around a snapshot. One thread polls; that several flush and trim at the same time is
  left to the proof.
- Symmetry: the publishers in `EventBusSafety`, the two keys that no seed sets in `DeviceMerge`, the requests in
  `InstalledPlugins`, writers and names in `BlobStore`; only invariants and action properties without a choice
  between symmetric values are checked there.
- `CHECK_DEADLOCK FALSE` everywhere: publishes, revisions and lives are bounded, so a behaviour ends when
  they are used up; and the system may really be idle.

### Fairness

`EventBus!Fairness` is weak fairness of each publisher's next step, of the three internal steps of a
subscription, and of a supervisor's own steps. Tokio polls every runnable task; the std mutexes are held for
a bounded time; the Tokio mutex `publish_sequence` is a FIFO queue, of which weak fairness of the acquiring
step needs only that a bounded number of publishes is under way; the blocking log write returns; and a guest
call that does not return is ended by the watchdog. Nothing obliges a plugin to tick, publish, trap,
subscribe or unsubscribe, nor a tail client to read. `DeviceSync!FairSyncSpec` assumes that the client keeps
polling, and nothing of the writers.

`Supervisor!Fairness`: a guest call ends (by the watchdog if not by itself) and what follows is never
blocked, so `Proceed` is weakly fair; so is the backoff timer. The arms of `serve_loop` and `backoff_wait`
are strongly fair where a caller depends on them: `tokio::select!` polls its arms in random order, so an arm
that is ready each time the loop comes round is taken in the end, while it is not ready in between. Room in
the channel goes to the senders in the order they asked (Tokio's semaphore is FIFO), hence strong fairness
of `Enqueue(c) \/ SendFails(c)`. No fairness is assumed of callers, ticks, wakes, reaper or the guest's
registrations.

`InstanceRegistry!Fairness`: a supervisor that has acknowledged a stop publishes its terminal state without
waiting for anything, a reaper's steps are lock sections of its own, and an await of finished join handles
returns; these are weakly fair. A running supervisor owes nothing: `DrainEnds` holds because an unbounded drain
after all_stopped has none to wait for. `InstalledPlugins` and `BlobStore` state no fairness and no liveness.

`LogStore!Fairness`: a thread that is in on_event goes on (try_send does not wait), the writer's steps and the polling
of a flush are weakly fair, and a flush whose budget has passed gives up the next time it gets there, hence strong
fairness of `GiveUp`, which a deadline of `Duration::MAX` does not have. Nobody has to emit, flush or drop anything.

## 4. What is proved

Everything in this section holds for all values of the constants that satisfy `ConstantsAssumption`,
`StateAssumption`, `SyncAssumption`, `SupervisorAssumption`, `RegistryAssumption`, `PluginsAssumption` with
`NoneAssumption`, `BlobAssumption`, or `LogAssumption`: any sets of publishers, subscriptions, plugins, topics and callers (where
something is counted or ordered, of dispatchers, devices, capabilities, fields, plugin directories and log events, any
finite set), any capacity and any bound.
Every invariant and action property that a passing run checks has its theorem. So have the type invariants of
`EventBus`, `DeviceState`, `DeviceSync` and `Supervisor`, which no run repeats.

**`EventBus_proofs`**

- `TypeCorrect`: `Spec => []TypeOK`, with the bound of every queue.
- `Refinement`: `Spec => HonestChannels`.
- `Invariant`: `Spec => []IInv`, on which both rest. `TypeOK` and the refinement are not inductive. A
  publisher that re-injects must know that nobody else has touched the lag since its claim (`GateInv`,
  `EntryInv`: `gate[s]` is the publisher that is sending to `s`, and its `claimed` is the only count in
  flight). That rows reach a subscriber in order needs that a row being carried is the newest of the log and
  that only the holder of `publish_sequence` carries one (`HolderInv`), and that a subscriber still to be
  visited has been offered older rows only (`OfferInv`).
- `RowsReach`: `Spec => []NoRowMissed`; `ProjectionLeads`: `Spec => []ProjectedFirst`;
  `WakesKept`: `Spec => []NoLostWake`.
- `Delivery`: `Spec => []DInv`, on which these three rest, relative to `IInv`. Its `CarryInv` says that a
  publisher carries the row it committed, to matching subscriptions only; `ProjectedInv` extends `ProjectedFirst` to rows that are carried.

**`DeviceState_proofs`**

- `TypeCorrect`, `FreshIsAlwaysLive`, `FieldsAlwaysOfThisLife`, `RevisionsAlwaysDistinct`,
  `StaleAlwaysBounded`: `Spec => []P` for the five invariants the runs check.
- `ChangesAnnounced`: `Spec => NoSilentChange`; `DeltaNeverTruncated`: `Spec => NothingTruncated`.
- `StateInvariant`: `Spec => []StateInv`, on which they rest. It has two layers.
  `StoreInv` is what the lock sections of the projection preserve on their own (`SweepStore`, `SeedStore`,
  `WriteStore`): types, distinct revisions, the stale cap, the cuts. The cap is the part that needs the
  others: eviction keeps an entry when fewer than `MaxStale` stale ones are newer, which counts right only
  because no two share a revision; and the revisions of one sweep are distinct because ranks in a strict
  total order are.
  `OpReady` and `LiveOf`, per instance, are what a guest between its two lock sections may rely on: the
  registry still has what the first half put or found there, and the baseline its delta was admitted against
  has not grown. The argument is ownership: a device id has one owner for ever, an instance runs one call at
  a time, and a sweep on behalf of another instance evicts only entries that were not fresh, which count as
  an empty baseline (`Frame`, `OthersOK`). `FreshIsLive` alone is not inductive: a `Seed` or `ApplyDelta`
  writes a fresh entry for a capability that the registry was asked about one step earlier.

**`DeviceSync_proofs`**

- `CopyExact`: `SyncSpec => []ExactUpToCursor`; `SyncTypesCorrect`: `SyncSpec => []SyncTypeOK`;
  `StoreUnderClient`: `SyncSpec => []StateInv`, so that what is proved of the store holds through restarts of
  the daemon too, which `StateSpec` does not have.
- `SyncInvariant`: `SyncSpec => []SyncInv`, on which they rest. `ExactUpToCursor` is not inductive: the copy that
  becomes current at the end of a resync was assembled by pages, of a store that went on changing. `ClientInv`
  adds that the pages so far are exact for the devices they cover, up to the pinned revision, as long as nothing
  above it has been evicted, and empty for the rest; and that a client that was never answered holds nothing.
- The argument: a step of the store leaves an exact copy exact (`StillExact`) because it changes no slot silently
  (`NoSilentChange`): what changes gets a revision above the cursor, and what is evicted above it sends the client
  to a resync. A page of changes leaves no gap because it takes the lowest revisions, of which no two are equal
  (`DeltaComplete`, from `RevisionsDistinct`); a page of devices leaves none because it takes the first devices
  (`PageComplete`). That a page advances needs the limits to be positive.

**`Supervisor_proofs`**

- `SupervisorTypeCorrect`, `StopsAreFinal`, `ReapedAreClean`, `CallsAreCounted`: `Spec => []P` for the four
  invariants the run checks. `LifecycleKept`: `Spec => LifecycleFollowed`, the refinement.
- `SupervisorInvariant`: `Spec => []SupervisorInv`, on which they rest. `Control` ties the published state
  to where the supervisor is, which is all the refinement needs, and shows that a terminal state is published
  only after the guest's last call. `Serving` says whom it serves: a stop in `shutdown`, never in `command`.
  `Places` says that a call under way is in one place only, with its caller, in the channel or being served.
  Without it the count is not inductive: a guard dropped twice would be subtracted once for a call that is
  still running.

**`InstanceRegistry_proofs`**

- `RegistryTypeCorrect`, `AlwaysExclusive`, `ShutdownIsClean`: `Spec => []P` for the three invariants the run
  checks. `OwnEntriesAlwaysKept`: `Spec => OwnEntriesKept`.
- `RegistryInvariant`: `Spec => []RegistryInv`, on which they rest. `Present` is the heart: an id is in the map
  from the spawn of its supervisor until the reaper has swept, and names that supervisor only, so two live
  supervisors of one id, and a sweep of a successor's entries (`Entries`), cannot be. `Slots` ties the slots to the
  registered singletons. `Tracked` says that of every reaper that has not finished somebody has the join handle;
  `Shutdown` says what has been closed, listed and taken at each point of a shutdown. `NothingLeftBehind` alone
  says nothing of a supervisor registered after the list was taken, which `closed` excludes.

**`InstalledPlugins_proofs`**, which uses `PluginsAssumption` and `NoneAssumption`

- `UninstallAlwaysPurges`: `Spec => []UninstallPurges`; `PluginsTyped`: `Spec => []PluginsTypeOK`.
- `PurgeInvariant`: `Spec => []PurgeInv`, on which both rest. `Locked` says that who purges or starts holds the
  plugin's lock and that nothing of the plugin runs while it is uninstalled. Installs do not take that lock, so it
  is not enough: between the two purges and the tombstone an install of the same plugin may index its entry, and
  the uninstall then resolves to another installation than the one it purged. `Apart` says that this one is minted
  and not used yet, hence has no state, and `Purging` what has been purged of whatever the uninstall would resolve
  to now. `Gone` says that a purged identity is not live, and is served only between the tombstone and the drop of
  its entry, during which `OneResolves` and the lock of the entries keep the loader away.

and, relative to `PurgeInv`:

- `DirsHaveRows`, `RunsWhatWasInstalled`, `AlwaysRecoverable`, `GoneForGood`: `Spec => []P` for `DirHasRow`,
  `RunsAsInstalled`, `Recoverable` and `GoneStaysGone`; `IdentityNeverRotates`: `Spec => IdentityKept`.
- `CatalogInvariant`: `Spec => []CatalogInv`, on which they rest: `CatalogOf(p)` for each plugin, in eleven parts,
  and `RunsInstalled(p)`. None of the four invariants is inductive, and each needs parts
  that are there for another.
  - That a directory has its row (`Backed`) breaks where a row is tombstoned: whoever is about to do that must
    know of every directory that the daemon put there (`Covered`, of the maps and of an uninstall on its way), or a
    failed removal would leave one behind. An install is the other side: from its row to its entry in the map
    the plugin has nothing else on disk (`Landings`), so its rollback orphans nothing.
  - That what can be read can be resolved is `Listed`. An uninstall that has emptied a directory need not remember
    it any more; `Removals` says that it still has before it whatever can be read.
  - That what was uninstalled stays away (`GoneClean`) follows from these: when an uninstall goes through, no
    directory is left to be read, so no boot finds one.
  - That identity does not rotate is `KnownLive`: an identity that counts is that of a live row, of which there is
    one (`PluginsTypeOK`), and something on disk has it; a boot that finds both serves that one, and an install
    that lands finds none that counts (`Landings`).
  - `EntryVouched` and `QuarantineVouched` say which row stands behind an entry of the maps, `Mapped` what a boot
    has filled so far, `Owned` that no path is shared with another plugin's package.
- A step of a request is about one plugin, and keeps the rest (`Undisturbed`). An install
  that has its row is alone: its identity is the only live one, and whatever an uninstall resolved to, or the maps
  still hold, is not (`Alone`, from `Apart` and `OneLive`).
- `NoneAssumption` says that `None`, which stands for the `None` of an `Option`, is none of the values the option
  may hold.

**`BlobStore_proofs`**

- `RowAlwaysHasFile`, `ReadsAlwaysAnswered`, `NothingEverOrphaned`: `Spec => []P`; `QuotaAlwaysKept`:
  `Spec => QuotaKept`. `BlobsTyped`: `Spec => []BlobsTypeOK`.
- `BlobInvariant`: `Spec => []BlobInv`, on which they rest. `Transactions` says that who is past the quota check
  holds the connection, so row and usage are what he saw (`Charged(w) <= quota` still); `Distinct` that an id is
  once in the index, or carried by one write, or dropped by one call; `Placed` where its file is meanwhile: without
  it, an unlink of an old version might take the file of a row. `Owned` gives every file in the directory and
  under .tmp its row or its call, as long as nothing has failed that the code lets fail. `Distinct`, `Placed` and
  `Readings` hold until a power loss takes a commit or a directory back, which is where section 6 begins; types,
  transactions and quota hold through it. `Housed`, an invariant beside it, has both directories there from the step that
  makes them until a purge, so for every write that is past it.
- `AccountedInvariant`: `Spec => []Accounted`, on which `BlobsTyped` rests, relative to `BlobInv`. `Balanced(r, u, sz)`
  says of one pair of index and usage that `bytes_used` is the sum of the sizes in the index and that no two names
  share an id. That of the present pair is not inductive: `PowerLoss` goes back to any state in `unsynced`, so
  `Accounted` says it of each of those too, together with the size of every id they mention staying what it was.
  The steps take one name out of a sum (`BalancedWithout`) or put one in (`BalancedWith`), and read the old size in
  the transaction that changes it.
- The sum is a fold, and what a fold computes would be an induction with an operator as parameter. It is done by
  smallest counterexample instead: proper inclusion is well-founded on the finite sets, so if the fold and a sum
  built up by running totals (`Totals`) ever disagreed, they would on a smallest set, and on that one they do not
  (`SmallestSet`, `SumByTotals`). `SumUnfolds`, `SumAdd` and `SumRemove` follow, and are all that the steps use.
- `BlobAssumption` says that `None`, which is what `blob_usage` has for an installation without a row, is none of
  its rows.

**`LogStore_proofs`**

- `LogTyped`, `FlushIsHonest`, `RetentionIsKept`: `Spec => []P` for `LogTypeOK`, `FlushHonest` and `RetentionKept`.
- `LogInvariant`: `Spec => []LogInv`, on which they rest. `Places` and `Counts` tie the stages of the events to the
  channel, the writer and the counters; each counter is the number of events that have ended there.
- `FlushOf(f)` is what a call of flush knows. A flush compares numbers that count other events too, and reads them one
  after the other. That is sound, first, because the counters only grow (`SeenOf`: what has been read is not more
  than what there is), and, second, because the channel keeps its order (`FirstIn`): as long as one event from
  before the snapshot has not come to its end, the writer has received nothing that came later. So if nothing later
  was dropped, whatever has been counted by then was in the snapshot, that event is missing from it, and the sum
  stays below the target (`EnoughIsOver`). `FlushHonest` alone is not inductive: it says nothing before the call is over.

Every step of a next-state relation has its lemma or case. In `EventBus_proofs` the steps that only touch
subscriptions and supervisors are summed up once, in its `Frame`.

## 5. What is only model-checked

- Liveness (`QueuesDrained`, `EveryPublishReturns`, `Converges`, `EveryCallReturns`, `DrainEnds`, `FlushReturns`): temporal reasoning under fairness and
  ENABLED are outside the provers.
- That the findings of section 6 occur: each is a counterexample of one run.

## 6. Findings

`LogFlush`: the doc of `flush` (`state/log_store.rs:387`) says that it returns `true` "if the queue drained inside
`budget`", and (404) that what concurrent producers emit after the snapshot lands "on the *next* flush". The sum it
waits for counts such an event too when it is dropped for a full channel, so flush may return true with a record from before the
snapshot still queued. trim_older_than relies on it (585-592): its DELETE then runs before a row from before the cutoff
is inserted. It takes a full channel, which is when a drain matters most. `FlushHonest` and
`RetentionKept` state what does hold: without such a drop, nothing is missed.

`InstalledPluginsRetry`: the comment in `uninstall` says that after a failed `remove_dir_all` "a retry converges"
(`state/installed_plugins.rs`, the comment that begins "FS-first"). It does within one life of the daemon. When the removal stops
after manifest.toml is gone and the daemon restarts, the scan skips the directory and records its path only for an
id that is already quarantined: from then on uninstall answers NotInstalled and install AlreadyInstalled, and the
live row stays. `Recoverable` states what does hold: every directory with a manifest can be uninstalled.

`BlobStorePower`: the module comment of `state/blobs.rs` (39) calls a row that points at a missing file worse than
an orphan, and `write` fsyncs the directory before its commit to avoid it over a crash. The database runs in WAL
mode with `synchronous = NORMAL` (`state/db.rs:783`), in which a commit is not synced. `delete` unlinks the file after
such a commit and fsyncs the directory, an overwrite unlinks the old version after one: a power loss before the
next checkpoint takes the commit back and keeps the unlink. `RowHasFileDurably` looks at that alone and leaves the
directories aside. `RowHasFile` states what does hold: a crash of the process, at any step, never does that, nor does a
power loss that takes back neither a commit nor a directory.

Remarks on documents and comments, not checked as properties. The comment in `update_device` (`runtime/state.rs:958`)
has the projection reconciled "before the update lands"; the code calls `devices.update` first (965) and reconciles
after it succeeded (967), so a reader between the two lock sections finds a fresh value for a capability the device no
longer declares. `FreshIsLive` says that this is confined to the owner's own call. The comment in `handle_control`
(`runtime/lifecycle.rs:1233`) has "refcount > 0 *while wasm is running*"; a restart's `remove_by_owner`
(`state/services.rs:379`) takes the counts away while messages that hold guards are on their way, and the next life
runs such a call with nothing counted, for a service id that is gone. `InFlightCounted` says that the count is exact
for the registration that is there; ids are never reused and the late release is tolerated. The module comment of `runtime/lifecycle.rs`
(20-25) takes every crash through `Crashed` before the policy decides; when it gives up, `Failed` is published
directly, as `InstanceLifecycle!Fail` has it. In `backoff_wait` the reply to a refused service call is sent
before its guard is dropped, the reverse of the order that the comment at 1230 prescribes; only the owner's
guest consults the count, and it is not running then, so the model has one step. And
`state/services.rs:369-373` has the guards dropped before `wait_terminal()` returns, whereas a terminal state
is published before the channel is dropped: the reaper may sweep first, and `Reap` before `Exit` is checked.
`ARCHITECTURE.md:96` says an instance that stops goes through `restart_generation`; the reaper calls `mark_instance_stale` (`runtime.rs:899`), which does not bump
the generation. The next life bumps it before the guest runs, so nothing is lost. And the byte cap of a slot
given there is 64 KiB where `state/device_state.rs:1304` has 16 KiB.


Of the installed plugins and the registry. An uninstall of a plugin that has both an entry and a quarantine entry
that recorded only a path removes the entry and its directory, not the other one (`WholePlugin` excludes this from
`GoneStaysGone`), where the comment in the scan has one uninstall clean all. The orphan sweep of a boot tombstones the row of a
directory that was removed by hand and leaves its KV and blob state, whereas `Engine::uninstall_plugin`
(`runtime.rs:649-651`) has the boot sweep clean up after tombstoned installations. The scan's doc has an
orphan row logged and left; it is tombstoned. Install's doc has the next scan ignore a staging directory; it is
deleted. The mapping of `UninstallError` in `api/server.rs` calls the file system untouched for errors after which
it is not. Install takes no lifecycle lock: row, rename and index are kept apart from an uninstall by the unique
index and by the write lock of the entries. `StopAllReport` has stopped instances in a terminal state; `stop()`
returns at the acknowledgement, one step earlier. A bounded drain that times out has taken the join handles: a
later unbounded drain does not wait for those reapers (`detached` in `NothingLeftBehind`).

Of the blob store. The comment in `finalize_write_outcome` for an error that is not a failed commit says
that the rename has not happened and `final_path` is empty; after a failed fsync of the directory it has, and the
file stays (`FsyncFails` sets `littered`). And the comment at `state/blobs.rs:471` has the parents of new directories
fsynced so that a crash cannot lose a directory "even after the SQLite commit is durable". The call that finds a directory
missing does that fsync; a second call that comes between its create_dir_all and its fsync finds the directory there,
and may commit first. So may every later call when the fsync of the first failed, or the process died before it. A power
loss can then take the directory with the file of a committed row, which is why `RowHasFile` excepts `"directory"`
in `undone`; TLC shows it in nine steps when `"commit" \notin undone` is put in the place of its condition.

## 7. Abstractions

- An event is its topic; a device is a number in map order; a field's value is the revision of its write.
- Size limits in bytes are left out next to the field-count limit, which is checked and enforced at the
  same places.
- The rate limiter, scopes and other refusals that change nothing are left out: the model takes accepted
  requests and, where a refusal depends on modelled state (caps, ownership, declared capabilities), its guard.
- SQLite transactions are atomic steps that succeed or fail.
- The order of a `HashMap` iteration (the fan-out) is nondeterministic.
- An instance registers one service at a time. A message addresses the registration it was made for or an
  earlier one; of the earlier ones nothing is counted, so they need not be told apart.
- The manifest is pinned for all lives of a supervisor, so its policy is a constant of a behaviour.
- The publishing guest is not tied to the supervisor that runs it: a trap drops no publish half-way, since
  the supervisor polls the guest call to its end and the watchdog interrupts guest code, not host calls.

- A running instance is one fact in `InstalledPlugins` (per plugin) and one automaton of three states in
  `InstanceRegistry`; the control channel and the restarts behind it are `Supervisor`.
- A package is its manifest id, whether its manifest parses, and its content; a digest of sound content is that
  content. Grants are decided with the row and travel with it.
- A blob's bytes are its id, sizes are small numbers. The store's own files are changed by nobody else.
- Guest calls are not dropped half-way (no select or timeout surrounds one), so an instance is unloaded when its
  writes have returned; a crash of the process is what cuts a write short.
- A power loss restores some state between the last checkpoint and now, since the log is written in order, and
  any subset of the unlinks that no fsync of their directory has followed. A directory whose parent was not fsynced since
  it was made may be gone with all that is in it. Writes of other installations fsync the blobs' root too, which makes a
  directory durable sooner; they are left out, and the root itself is durable.

- The log store's counters are atomics with `Relaxed` ordering and are read and written in one order here. A load of
  written, write_errors or dropped that is late is only lower, so it delays a flush; a late load of sent leaves out
  events that no order puts before the call.

## 8. Not modelled

Section 1 and `PROJECT.json` name the components; the reasons are of four kinds.

- *Worth a module, not written*: call chains with cycle detection over several dispatchers (two instances that call each
  other at the same time wait for the timeout of 30 s; that it ends them is in `Supervisor`), updates of services,
  the audit log's two phases.
- *Single transactions or lock sections*: KV and dashboards, tokens, rate limits, MCP sessions.
- *Pure I/O or parsing*: migrations and event-log queries, manifest, MCP tools and resources, most of the HTTP
  mapping, generated protobuf (some 25 000 lines), SDK.
- *Stateless*: scopes and policy, UI tickets (signed, verified without a table).

## 9. Plan

1. `EventBus` with `LossyChannel` - done, with theorems.
2. `DeviceState`, `DeviceSync` - done, with theorems.
3. `Supervisor` with `InstanceLifecycle` - done, with theorems.
4. `InstanceRegistry` - done, with theorems.
5. `InstalledPlugins` - done, with theorems.
6. `BlobStore` - done, with theorems.
7. `LogStore` - done, with theorems.
8. Open: call chains over several dispatchers, audit log.

## 10. Running it

    tlc -workers 2 -config EventBusSafety.cfg MCEventBus
    tlapm EventBus_proofs.tla

Each run takes under three minutes on two workers; the proofs of each module at most five minutes.
