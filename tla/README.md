# A verification of the Vetka node agent

The repository is a node agent: an Express server (`panel/server/`) that runs on
a proxy node, keeps its users, writes the configuration of one of two proxy
services (caddy-naive or mieru's `mita`), restarts that service, and reports
telemetry to a Backend Panel. Around it are shell scripts that install, update
and remove it and that manage a static site and a cascade to another node.

This directory holds TLA+ models of its parts, the TLC configurations that check
them on small instances, and TLAPS proofs of what matters most. `PROJECT.json`
lists runs, theorems, the source lines of every definition, and the hazards the
properties are about.

    tlc -config NodeSync_naive.cfg NodeSync      # a run
    tlapm NodeSyncProofs.tla                     # the proofs of a module

## The system

| component | state it keeps | operations | hard because |
| --- | --- | --- | --- |
| Desired-state sync (`index.js` 388-1188, 2189-2268) | users cache (users.db, or memory without better-sqlite3), Caddyfile or mita-state.json, what the service runs, applied-state file | `/v1/sync`, `/v1/reload`, `applySelectedProtocolConfig` | every step can fail, the process can die between any two, requests come late and twice, nothing is re-applied at startup |
| Backend Panel (outside the repository) | latest desired state, what was acknowledged | sends its state until it hears a 200 | an unreliable network |
| Local users (`index.js` 2342-2490, 3058, 3135) | the same stores, not the applied-state file | create, change, delete, enable, disable, reset | a failed change is reverted by applying again; the node drifts from the recorded state |
| Node settings (`index.js` 70-178, 404-412, 662-723, 1305, 2328, 2513-2787) | `cfg` in memory, config.json | PATCH of the settings, ports, probe, cascade, language | fields change while the patch is validated; other programs write the file |
| Access control (`telemetry/http.js`, `ip.js`, `index.js` 1395-1430) | none of its own | `requireNodeAuth`, `requireLocalUserMutations` | reads `cfg` while it changes |
| Audit log reader (`telemetry/naiveCollector.js`) | checkpoints in users.db | one poll per collection | files are renamed, deleted, truncated under it |
| Telemetry service and shutdown (`telemetry/service.js`, `shutdown.js`) | timer, `inFlightPromise`, `stopped`, collector state | start, stop, refresh, collect, shutdown | callbacks of several starts and stops overlap |
| Telemetry store (`telemetry/storage.js`, `mieruCollector.js`, `mieruStats.js`) | `telemetry_sessions`, `latestMieruSnapshot`, throttle times | upserts, prune, listing | additive for naive, replacing for mieru; a collection can end after any step |
| Session views (`index.js` 1541-2130, `caddySessions.js`) | caches of 10 s and 30 s over the audit logs, `session_resets` | history, totals, explorer, reset of a user | one cache is filled from others; nothing invalidates them but their keys |
| Static site (`static-site.sh`) | release directories, a link | deploy, rollback | partial deploys, order of releases |
| Cascade (`cascade_mieru.sh`) | iptables, files, watchdog | setup, teardown | half-done setups |
| Installer, updater, uninstaller; browser UI; Caddyfile template | | | see "Not modelled" |

How they interact. The Backend calls the agent over HTTP. Sync, local users and
settings share the users cache and the configuration file and call the same
drivers; each handler among them is synchronous from its first to its last line,
so handlers do not interleave with each other, but a crash, a failure or a
reboot can come between any two of their calls. Telemetry is the asynchronous
part: its collections await file reads and `mita`, and settings changes and
shutdown arrive meanwhile. The proxies append to logs the agent reads; an
administrator's logrotate moves those logs.

What makes each modelled part correct:

- *Sync.* A request either takes effect as a whole (cache, file, service,
  record) or leaves no trace; older versions never undo newer ones; a recorded
  state is a served state; the Backend's retries converge.
- *Audit log reader.* Each line is stored once, in order, whatever chunk
  boundaries, rotations, truncations and crashes come between; no line is lost
  without need.
- *Local users and settings.* Between requests both services serve the users
  of the table, whatever Caddy refused and whatever was reverted, short of faults
  the agent does not undo; a failed change does not part the table from the
  recorded list; nothing Caddy refuses is left in place silently; what a script
  writes into config.json survives once the agent was restarted after it.
- *Telemetry service.* Collections never overlap; the service never dies
  silently; a shutdown ends; what is reported follows the settings.
- *Telemetry store.* Every byte is counted once, whatever failed; expired
  addresses go; panel and Backend are told the same.
- *Session views.* A reset hides what it should at once; a cached answer is never
  older than the caches allow, and lacks nothing that was logged.

## Modules

| module | models | runs |
| --- | --- | --- |
| `NodeSync` | `/v1/sync`, `/v1/reload`, both drivers, crashes and reboots | `sync_naive`, `sync_mieru` |
| `SyncContract` | the abstract promise: commit or leave no trace | implemented by `NodeSync` (`ContractSpec`) |
| `BackendSync` | `NodeSync` driven by a Backend over a network | `backend` |
| `NodeSettings` | `cfg` and config.json, patches, saves, scripts, restarts, the address list | `settings`, `patch_lockout` |
| `PanelAdmin` (`MCPanelAdmin`) | `NodeSettings` with the users, both services and every handler that applies them | `panel`, `panel_ack` |
| `AuditLogReader` | `readJsonlIncremental`, the transaction around it, the log | `audit`, `audit_skip` |
| `TelemetryService` | `service.js` scheduling, `refresh`, `shutdown.js` | `telemetry` |
| `TelemetryStore` | what a collection stores, deletes, keeps for the panel and lists | `store` |
| `SessionViews` | views of sessions and traffic and their caches | `views` |
| `NodeSyncProofs`, `BackendSyncProofs`, `PanelAdminProofs`, `TelemetryServiceProofs`, `TelemetryStoreProofs`, `SessionViewsProofs`, `AuditLogReaderProofs` | theorems | |
| `NaturalLemmas` | least elements and induction over intervals, for the proofs | |

An operator commented "Slip" is a plausible mistake in the operator that follows
it. No specification uses one; `PROJECT.json` (`mutants`) puts it in place of the
right one to see that a property notices.

### NodeSync

Variables. `users` is the users table, `file` the configuration file of the
selected protocol, `running` what the service has loaded, `applied` the
applied-state file (`version`, `hash`, `error`). A user list is an opaque
`Payload`; its hash (`desiredStateHash`) is the payload itself. `pc`, `caller`,
`req`, `prevUsers`, `prevFile` and `failed` are the position and the locals of
the handler that is running: `/v1/sync` keeps `previousUsers`, the driver keeps
the previous text of the file.

Actions. A handler is cut where it changes something outside the process:

    SyncAccept -> ReplaceUsers -> WriteConfig -> Validate -> Activate -> Record      (naive)
    SyncAccept -> ReplaceUsers -> WriteConfig -> FixPermissions -> Quiesce | Activate -> Record  (mieru)

Each has a `...Fails` action for what the code does when the call throws:
`Discard`/`Restore`, `Reactivate` are the driver's own undo, `Rollback` is the
catch block of `/v1/sync` (previous users back, driver again, result ignored),
`Note` writes `last_error`. `SyncStale`, `SyncUpToDate` and `SyncRefuse` are the
early answers. `Reload` runs the driver alone. `Crash` starts the process again
with nothing re-applied; with `Durable = FALSE` the cache comes back empty.
`Reboot` starts the service on the file it finds. Failures that the code
swallows are there too: with no users, mieru's failing permissions or a failing
stop are not reported. caddy-naive keeps a placeholder user when there is nobody
to serve, mita is stopped (`Target`).

History. `faulted` says that a step of the current request failed. `tainted`
says that there is damage the agent has no record of, which is defined by what
happened and not by what the stores look like: a second failure in one request
(the undo failed as well), a death of the process between replacing the users
and settling, a memory cache lost, an unreported failure. The promise
`SettledServesRecorded` is made for a node that is not tainted. What holds on a
tainted node as well: `RecordOnlyServed` (a request that succeeds repairs
everything), `VersionNeverGoesBack`, and, in `BackendSync`, `Converges` and
`AckedStays`.

### SyncContract

Three variables: the recorded version, the list recorded under it, and what all
layers agree on, `Unsettled` while a request is handled or after damage.
`NodeSync` refines it with `served` computed from cache, file and service.

### BackendSync

Extends `NodeSync`; the Backend issues versions one by one, one list each, and
sends the latest until it hears a 200 (`VETKA_NODE_AGENT.md`). `net` is a set
that only grows: a copy may be delivered late, twice or never. An answer that
the next one overwrites is lost. `/v1/reload`, which a Backend need not call, and
malformed requests are checked in the runs of `NodeSync` and left out here.

### AuditLogReader

The proxy writes bytes 1 .. `Last`; file contents and lines are intervals of
them, so "the same line twice" or "a line torn in two" can be said without
strings. `begin` and `end` say which bytes each file (inode) holds; truncation
moves `begin`. A poll is `Poll` (checkpoint and first stat), one of the
`Resolve...` actions (`resolveReadTarget` with its own stats and readdir),
`ReadChunk` or another read, and `Commit`, the transaction of `service.js` that
stores observations and checkpoint together. `Scanned` is `scanJsonlChunk` as a
function of chunk, discard flag and end of file, with the line limit and the
oversized records (`Scan` is its table). `Abort` is a crash, an I/O error or a
failed transaction: the locals are lost, the checkpoint stays.

Rotation is not in the repository; its tests use both `audit.log.1` and dated
names. Here each rotation renames all rotated files, the less comfortable of the
two. `Disturbances` selects what the log's owner does beyond rotating calmly
(`skip`: again before the reader saw the newest file; `delete`; `late`: the
proxy writes on to the renamed file; `truncate`; `race`: any of it in the middle
of a poll).

### TelemetryService

An action is one turn of the event loop. `armed` counts the timeouts the event
loop really holds and `timer` is what the service knows, `immediates` the
callbacks of `start()` that have not run, `runs` the collections in progress by
what they had read of the collector state, `refreshing` the `refresh()` calls
that wait inside `stop()`. `AfterCollection` is the finally block of
`collectOnceSafe` together with the `start()` of those waiting calls, which runs
in the same turn. `Patch` is a settings change that calls `refresh()`,
`PatchRefused` one that is turned away after `telemetryEnabled` was already
assigned, which nobody tells the service. `stage` and `code` are `shutdown()`.

`status` and `success` are the collector state that is read: the row of the
database when there is one (`recorded`, it may stem from an earlier process), else
what memory holds. `Persist` may fail (`MaxFailures`): the row that is there is
then read on. A read of the row that fails is not modelled.

### NodeSettings

`mem` is `cfg`, `disk` is config.json, both with four fields: the address list,
`allowAnyBackendIp`, one value for all that goes into the Caddyfile, and
`staticSite`, which only scripts write. `Legacy` are the values of the third that
lack `probeMode`, which update.sh adds and no request takes away. A patch is the set
of its fields and the first that does not validate; `PatchRejected` leaves those
before it in memory (`Patched`). `Save` replaces the file or, silently, does not.
`Restart` reads the file, or the defaults when it is `Torn`; the environment may
replace the address list.

A script is two steps or three, with the agent free to save in between:

    ScriptReads -> SetStaticSite                      (static-site.sh, os.replace)
    ScriptReads -> MigrateTruncates -> MigrateWrites  (update.sh, cat > config.json)

`copy` is what the script has read. It is written back whole, so a save in between
is undone; a script that dies leaves what it has done so far, a torn file too. Two
scripts at the same time are not modelled. Of the fields `migrate_config` adds,
`probeMode` is the one that changes what an agent started on the file runs with
(`Filled`); the log paths and telemetry fields have the values the agent assumes when
they are missing (index.js:156-175).

History: `behind` says that memory and file may have parted in what the agent
itself writes, `raced` that it saved since the script read, `unread` that
`staticSite` was written since the agent started, `edit` is the last value written
that no agent had to overwrite.

### PanelAdmin

Extends `NodeSettings`. Users are rows; what a service lists of them is
`NaiveUser` and `MieruUser`. A handler is a round over the legs Caddyfile,
reload, mita state, mita (`pc`), for one of six purposes (`op`):

    Start -> WriteCaddyfile -> ReloadCaddy -> WriteMitaState -> DriveMita -> Answer

`LegFails` tells the two kinds of handlers apart: `applyAllConfigs` goes on with
the next service and adds up at the end, a settings handler answers 500 at once.
`ReloadRefused` is `caddy validate` saying no (nothing failed, the file is bad and
stays), `ReloadFails` a reload and restart that fail and leave any of the old
configuration, the new one, or none. `WriteMitaStateThrows` is the exception that
counts as a success. `Revert` brings the row back and starts the second round,
whose result nobody looks at. A sync is one step, as `SyncContract` has it; a
single failing step of it applies the old list again, with the settings of today.

History. `hit` and `damaged`: a leg met a fault, and a round that did ended (or
died); the agent does not undo such faults, so what it promises excepts them.
A refusal by Caddy is no fault. `local`: a local change stands since the last
sync. `swept`: no sync has left the other service behind. `warned`: the round
that wrote the Caddyfile last was answered with a failure.

The `panel` run checks what services and users have to do with each other. It
looks at states without the history of `NodeSettings` (VIEW `WithoutHistory` of
`MCPanelAdmin`): no step is enabled by that history and none of the run's
invariants reads it. What does read it, `EditKept` and `RestartKeepsSettings`, is
checked by the `settings` run, which has every action that touches the
configuration, and proved for `PanelSpec`.

### TelemetryStore

A naive collection commits the two logs one after the other and awaits in
between; `Commit` takes a prefix of what is unread and the checkpoint with it,
which is what `AuditLogReader` shows of the reader. A mieru collection awaits
mita and does the rest in one turn (`MitaAnswers`), with rows that cannot be
parsed, an unusable answer, and the legacy statistics failing. `Throws`,
`PruningThrows` and `Crash` end a collection wherever it is. `Listings` is what
`listTelemetrySessions` may return: it orders by time and cuts at a limit, and
which of two sessions seen at the same time is cut is left open. The active window
(`SessionTtls`) and the history (`HistoryTtl`) are validated apart from each other in
the code, so the window may be the longer one; sessions in it which the history no
longer covers are pruned, and `ListsWhoWasSeen` claims only what the history covers.
`HistoryTtl` itself does not change in the model. A traffic record
carries one byte, so `EveryByteOnce` counts them.

### SessionViews

A log is a generation and its records; `Stat` is what the caches can see of it.
`AuthHistory`, `TrafficTotals` and `Explorer` are what a request would be answered
in a state, `ViewSessions`, `ViewTraffic` and `ViewExplorer` what it leaves in the
caches. The properties are about the answers, so that they hold whether or not
somebody asks. A cache key is a tuple of what the code concatenates.

`LogTail` is the 25 MB at the end of a log that the code reads, here `MaxTail`
records. `PatchPath` points the path of a log to another file or none, and back, so
that the log returns with the stat it had; a path that names a second log is not
modelled, its name is part of the key. An explorer made meanwhile has the
key of a log that was not read, which is the key of the history cache left from
before: for thirty seconds after the path is back it may show no sessions, which
`NothingMissing` excepts and `patched` remembers.

Two things are left out. A new log always has another stat than any older one had
(size and mtime in milliseconds differ in the code), the one idealisation the
properties rest on. The traffic totals have no age: their cache is read again after
ten seconds, but what it holds does not depend on the time.

## Runs

| run | properties | instance and what it shows |
| --- | --- | --- |
| `sync_naive` | `TypeOK`, `SettledServesRecorded`, `Inv`, `RecordOnlyServed`, `VersionNeverGoesBack`, `DriverRestores`, `ContractSpec` | two versions of three lists and a refused one, every step may fail any number of times, crashes and reboots anywhere: 508k states |
| `sync_mieru` | `SettledServesRecorded`, `RecordOnlyServed`, `DriverRestores`, `ContractSpec` | the mieru driver with the memory cache: 122k states |
| `backend` | `BackendInv`, `AckedStays`, `Converges` | two desired states, up to three mishaps, naive with users.db: 54k states |
| `panel` | `PanelInv`, `SettledServesTable`, `NoSilentDrift`, `BrokenFileWasReported` | two users, one for naive only and one for both, a setting Caddy accepts and one it refuses, an update that edits config.json; naive selected; any number of faults, crashes, reboots and syncs: 3.6M states |
| `settings` | `EditKept`, `RestartKeepsSettings` | two callers, a configuration with and one without `probeMode`, two pages, both scripts, any number of patches, failing saves and restarts: 51k states |
| `panel_ack` | `AcknowledgedIsServed`, violated | a change of users is acknowledged that mita never heard of |
| `patch_lockout` | `PatchKeepsAccess`, violated | a refused patch shuts the Backend out |
| `audit` | `TypeOK`, `ExactDelivery`, `InOrder`, `CatchesUp` | a calm log of 11 bytes, four lines of 1, 3, 1 and 2 bytes of which the second is too long, or one of 7 bytes with skipped, deleted, late and truncated files; chunks of 4 bytes, one line per poll, up to three files, one abort |
| `audit_skip` | `LossIsReported`, violated | a file lost without a warning |
| `telemetry` | `SingleFlight`, `NeverStalls`, `ServiceInv`, `SuccessIsKept`, `OffIsReported`, `Exits` | three changes of the settings, accepted or refused half-way, one failing write of the collector state, one shutdown, with and without a database and a row in it: 13k states |
| `store` | `TypeOK`, `EveryByteOnce`, `ListsWhoWasSeen`, `SnapshotAgreesWithTable`, `FreshIsLast`, `Retention` | either protocol, two sessions, three records, two ticks of the clock, a list of one, an active window shorter and one longer than the history, one crash or exception: 227k states |
| `views` | `ResetHides`, `ActiveIsRecent`, `ExplorerActiveIsRecent`, `NothingMissing` | one user, one address, two records of which the tail has one, three ticks of the clock, caches of two ticks each, two session ttls, with and without a database, two rotations, patches of a path or changes of the user: 5.2M states, about two minutes |

Why the bounds are enough. `MaxVersion = 2`: the code compares versions for order
and equality, and two give an older, an equal and a newer one (0 being "nothing
recorded"). `Payload`: the idle list, two others, so that a same-version request can
carry another list, and one the table refuses. Failures are not bounded in the
`NodeSync` runs; `MaxMishaps = 3` in `backend` lets a request fail, its undo fail
and the process die. `AuditLogReader`: short lines, one longer than `MaxLine = 2`
that can be seen whole or cut by the end of a chunk, and one exactly at the limit;
`MaxBytes = 4 > MaxLine` keeps the relation of the defaults (1 MiB, 64 KiB);
`Bootstrap = 6` makes the first read clip in some initial states and not in others;
three files are two rotations, the fewest that can hide one. `LastRough = 7` is the
length of a log whose owner is not calm: enough for a line before and after each of
two disturbances. `panel`: the two users are the kinds that matter, a user of naive
only and one of both, so that each service lists somebody the other does not and
either list can be empty; nothing but the finite sets bounds it, and the other
selected protocol is covered by the theorems. `settings`: one script at a time with
`Legacy` and pages of two values lets an old copy differ from the file in each
field. `store`: `HistoryTtl = 1` under a clock of two lets a row be seen, expire and
be deleted; `SessionTtls = {0, 2}` are one window inside the history and one beyond
it; `Limit = 1` with two sessions makes the listing cut. `views`: `MaxNow = 3` lets
an entry of a history that was one tick old when the explorer was made grow older
than the session ttl and both caches allow (the bound of `ExplorerActiveIsRecent` is
attained); two changes are a log that goes and one that comes, or a path patched
away and back. More users are covered by the theorems, which have no bounds.
`MaxPatches = 3` gives two overlapping refreshes and one after them; the theorems
remove this bound.

Fairness. `BackendSync`: a handler that began is not suspended (weak fairness of
its steps, it runs synchronously), the Backend keeps sending, and a request sent
over and over is delivered sometime (strong fairness: the node is busy now and
then). Nothing is assumed about an answer being heard. `AuditLogReader`: polls
continue (the timer of the service), and a rotation that was begun ends.
`TelemetryService`: pending callbacks and timers run; a collection ends because
each command and read it awaits has a timeout or is a bounded file read; the
forced exit timer fires. `server.close()` is given no fairness: a connection may
stay open for ever. `TelemetryStore`: collections go on (what `TelemetryService`
shows) and mita's command has a timeout; exceptions and crashes are not fair.

## What the violated runs say

1. `audit_skip`. naiveCollector.test.js:226 expects a warning when a rotated file
   is gone. After a rotated tail is drained the checkpoint names no inode, and a
   rotation before the next poll goes unnoticed.
2. `panel_ack`. The comment at index.js:1163 says `applyAllConfigs` applies the
   runtime state. An exception while mita's state is written is logged and counts
   as a success.
3. `patch_lockout`. index.js:719 refuses a patch that would let nobody in, after
   the fields of the patch were stored in the running configuration.

Other behaviours of the code that the properties except, each visible in its
model:

- With an empty list the mieru driver ignores a failing stop of mita, and the
  version is recorded while the old users are served (`tainted` in
  `NodeSync`, `StopMitaFails` in `PanelAdmin`).
- A log rotated between the stat and the open of one poll is read past the
  checkpoint that will be saved: `InOrder` fails with `"race"` in `Disturbances`.
- A `refresh()` that waits for a collection starts the service again after a
  shutdown stopped it; the process exits all the same (`Exits`).
- A sync leaves the service that is not selected on the users it had (`swept`).
- The second round of a reverted change is not looked at (`hit`, `damaged`).
- Without a database a reset answers ok and hides nothing (`db` in
  `SessionViews`).
- While telemetry is switched off nothing is deleted (`Retention` says "or not
  enabled").
- A save of the agent between a script's read and its write is undone, and an agent
  started on a torn config.json runs with the defaults (`behind` in
  `RestartKeepsSettings`, `edit = Lost` in `EditKept`).
- An active window that is longer than the history misses the sessions the history
  no longer covers (`covered` in `ListsWhoWasSeen`).
- For thirty seconds after a log path was patched back the explorer may show no
  sessions (`patched` in `NothingMissing`).
- A no-op of `/v1/sync` is decided by the applied-state file alone. After a crash
  between `replaceUsersCache` and `writeAppliedState` the cache may hold another
  list; `Converges` shows that a Backend that retries its newest version repairs it.

## Proofs

All theorems are for every value of the constants, under the named assumptions
of the modules (`EmptyAssumption`, `ValuesAssumption`, ...): the idle list is
acceptable, the special values are not lists, the bounds are naturals.

*NodeSyncProofs.* `Inv = TypeOK /\ Control /\ Progress /\ Recoverable`.
`SettledServesRecorded` is about idle states and says nothing of the states a
handler passes through; to carry it across a request one must know where the old
list is meanwhile. `Control` says who can be at which step, `Progress` how far
the new list has got, `Recoverable` that an undamaged node has the recorded list
either in its stores or in `prevUsers` and `prevFile`. There is a lemma per group
of actions and `Invariance` puts them together. From it: `SettledTheorem`,
`RecordTheorem` and `DriverTheorem` (action properties), `VersionTheorem`, and
`Implements`: every step of `NodeSync` is a step or a stutter of `SyncContract`.

*BackendSyncProofs.* For the naive driver with a durable cache (both are
hypotheses of the theorems: with mieru an unreported failure is acknowledged, with
the memory cache a restart loses what was). `BackendInv` adds to `Inv` that every
request in flight was issued, one list per version, that Backend and node are
never ahead of each other, and that a node with the latest state on record is
idle and undamaged, the step that makes `AckedStays` inductive.

*PanelAdminProofs.* `SettledServesTable` is about nodes between requests. What
carries it through a round is `PanelInv`: `RoundControl` says which purposes can be
at which leg, `RoundProgress` what each leg has done to file and service whatever
the round started from, `CaddyKeeps` and `MitaKeeps` what an undamaged node keeps
of `Base`, the table as the services had it at the start (`old` during a change,
`users` otherwise). A service is untouched until its leg, is on the new table
after it, and is back on the base after the second round; a settings round that
Caddy refuses ends before mita is touched. `TableRecorded` and `RefusalRecorded`
are inductive by themselves. `EditTheorem` and `RestartTheorem` rest on an
invariant of the settings alone, `SettingsInv`, lifted to `PanelSpec`: a file nobody
edited since the start agrees with memory in `staticSite`, and one that is not
`behind` agrees with it in the rest, but for a `probeMode` that was added. Its part
`ScriptInv` carries this over a script's steps: what a script has read is the file,
unless the agent saved since or the script is writing, so what it writes back is as
good as the file was. The theorems are for both selected protocols and with
BACKEND_ALLOWED_IPS set or not, which the run does not vary.

*TelemetryServiceProofs.* `Bookkeeping` ties the flags of the service to what the
event loop holds, `ReadsCurrent` says that the state a collection read is still
there. Both make `ServiceInv`, from which `SingleFlightTheorem`,
`NeverStallsTheorem` and `SuccessTheorem` follow.

*TelemetryStoreProofs.* `SnapshotTheorem` needs that a row is at least as recent as
what the snapshot says of its user (`Matches`): pruning then drops it no earlier
than the history loses what the snapshot shows. `MieruOnly` keeps naive collections,
whose table is a fold over the records, away from the snapshot. `FreshTheorem`
follows from the same invariant. `StoreTypeTheorem`, `ByteTheorem` and `ListTheorem`
are about the naive protocol, where a row is what the upserts of many polls left.
`NaiveInv = TypeOK /\ Room /\ Counted`: `Counted` says that the row of a session
spans the records read that are still in the history, that its last time is the time
of one that was read, and that its bytes are at least those of the records in the
history and at most those of all that were read: a row that is seen again keeps what
it counted, one that is not is deleted by a prune, and then no record of it is in
the history (`Counts`). A poll whose transaction failed moves no checkpoint and adds
nothing. One poll stores a run of records one after the other, by a recursive
function; that it exists and what it returns for each prefix of the run is proved by
induction over the interval of indices (`StoredExists`, `StoredCounts`). That `Key`
is finite is needed for the listing only, which compares numbers of sessions.
`ListTheorem` has no assumption on how the session ttls relate to the history's: an
active window beyond the history may have lost rows to a prune, and the theorem
speaks of the sessions the history still covers.

*SessionViewsProofs.* For `ResetHides`, `ActiveIsRecent` and
`ExplorerActiveIsRecent` the invariant speaks of
what the caches hold: every entry is of after the reset in force (a reset drops
the caches that could say otherwise), and was right when it was made, which the
age of the cache turns into a bound now; the explorer adds the age of the history
it was made from. That an entry has a first and a last record is a matter of
minima of sets of naturals (`LeastExists`, from the library's `WFMin`). For
`NothingMissing` the argument is that a stat names one content of a log for good:
`Former` says of the stat in a cache's key that some log had it, at this length or
shorter, and no step of a log can come back to it (`LogStep`, `FormerStays`). So a
cache with the key of today was made from the records of today, and with time
there is only less to see (`SeenShrinks`). Only an explorer may have been made
without reading the log whose stat its key names, at a time when the settings named
none. `ExplorerCurrent` therefore speaks of explorers made after the path was last
patched, and `ExplorerTtl` after a patch there are no others.

*AuditLogReaderProofs.* `InOrder` and `TypeOK`, for every log, every limit and any
number of rotations, under `NoRace`, the hypothesis the run has too. `ReaderInv`
follows one idea through the steps of a poll: every stored line lies before the
byte the next read starts from, within the file the checkpoint names (`At`), and a
renamed file is left only when all that was stored lies before its end, hence
before anything a newer file holds. An offset past the end of its file means that
the file was emptied, and then all that was stored lies before what it holds now;
that is the third conjunct of `At`, without which starting again at 0 would not be
safe. `ScanLemma` says what a scan may return, `Grown` what the owner of the log
may do to it, and there is a lemma for each step of a poll.

`ExactDelivery` is about logs nobody disturbed: the table has exactly the lines up
to the checkpoint, each once, and each line that was too long was counted once.
Its invariant is `OwnedInv`: `Calm` as long as nothing happened to the log but
appends and rotations, `ReaderInv` as long as there was no race. `Calm` says where
the reader can stand between two polls and in the middle of one (`Placed`): at the
start of a line, after the last byte of a line whose newline was not written yet,
or, with the flag `dropping`, inside a line that is too long, which was counted; and
that from the start of the reading to there everything was delivered (`Exact`). The
files of a calm log are the intervals of the stream one after the other, a rotated
one ending with a line (`CalmFiles`); so leaving a drained file for the next one
moves the place and adds no line (`NothingBetween`). That a scan which starts at a
`Placed` byte ends at one, and adds the lines and the long lines between the two and
no others, is `ScanAligned`; it needs no theory of the scan's loop, because the
model states the result of a scan by the newlines of the chunk. The proof cites
`Bootstrap > 0` and `MaxLines > 0`, which the code guarantees by its defaults
(`options.bootstrapBytes || DEFAULT_BOOTSTRAP_BYTES`, naiveCollector.js:18-21). The
invariant would be false with a bootstrap of 0: a first read would then find
nothing after the end of the log and leave the flag set there, and when the log
ends with a newline the next line, a whole one, would be dropped with it.

Every invariant and every action property that a passing run checks is stated by
one of these theorems. Where a theorem has a hypothesis that its run does not
vary, it is one the run has too: `NoRace` for `InOrder`, the naive driver with the
durable cache for `BackendSync`.

*NaturalLemmas.* The prover cannot instantiate the library's induction theorem,
whose parameter is a predicate. Over an interval of numbers a set does as well: if
the numbers at which a property fails had a least element (`LeastExists`, from the
library's `WFMin`), the property would hold just before it (`IntervalInduction`).

Only model-checked: the liveness properties `Converges`, `CatchesUp`,
`OffIsReported`, `Exits` and `Retention`. The prover has no ENABLED and no reasoning
about fairness here. Their fairness is listed above, and the safety half of what
they rest on is proved: `NeverStalls` for the service, `ExactDelivery` for the
reader, `AckedStays` for the Backend.

## Not modelled

- The text of the Caddyfile and of mita's state: only the lists and settings it
  was built from matter to the properties. The client configurations, links and
  subscriptions the panel generates are functions of a user and the settings.
- HTTP parsing, secrets, login sessions and rate limits; formatting of addresses
  (`ip.js`). They guard the handlers and keep no state the node's operations
  change.
- `mieruStats.js`, beyond that it may fail: it refreshes two columns for display.
- caddy's access log (`caddySessions.js`): parsed anew for each request, no cache.
- `app.js`, the browser page: rendering, no state the node depends on.
- `install.sh`, `uninstall.sh`, the install scripts, the cascade script and the
  deploys of `static-site.sh`: commands in a row whose effects are those of programs
  that are not in the repository. The state `install.sh` leaves is where the models
  start; what `update.sh` and `static-site.sh` do to config.json is in `NodeSettings`.
- `rebuild_caddyfile_direct` of `update.sh` (386-501), which is in the repository and
  left out all the same: it writes the Caddyfile from the users table itself, the
  disabled users included, and restarts Caddy even when the file is not valid. After
  an update, `SettledServesTable` and `BrokenFileWasReported` hold only once the agent
  has applied its configuration again.
- In the models: parsing of log records (a line is a line, a record is well
  formed); file-system failures inside `fs.rename` (taken as atomic); two scripts
  that edit config.json at the same time; reads of the collector state that fail.
