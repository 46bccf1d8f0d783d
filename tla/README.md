# TronSoftOS: a TLA+ verification project

TronSoftOS runs a Firebird database appliance on one node or on a pair of nodes. This
directory holds TLA+ models of its own core logic, the TLC configurations that check them
on small instances, and TLAPS proofs about them. Every definition is translated from the
source; `PROJECT.json` maps each definition to the lines it models and lists the runs, their
mutants, the hazards the properties are aimed at and the theorems. The disagreements between
code and documentation met on the way are in section 6; their configurations end in a violation,
are run by hand, and are not among the runs of `PROJECT.json`.

## 1. Inventory

| Component | State | Operations | Where | Module |
|---|---|---|---|---|
| Cluster guard, activation, recovery | `node-identity.json`, `cluster-lock.json`, `cluster-activation.json`, env files | `clusterGuard`, `activateLocalNode`, `putLocalNodeInRecovery`, `blockClusterPromotion`, PATCH identity and lock | `backend/src/server.mjs` 293-590 | HaCluster, Succession |
| Failover watchdog | `primaryDownSince`, `autoFailoverInProgress` | `maybeAutoFailover`, `maybeDemoteReturnedPrimary` | `server.mjs` 4815-4964 | HaCluster |
| Maintenance block, failback | `maintenance.json` | write, clear, `prepareFailback` | `server.mjs` 5078-5260 | HaCluster, HostJobs |
| TronFire operation lock | the `operation*` columns and `standbyStatus` of a database row | `acquireDatabaseOperationLock`, release, prepare/claim/release of a restore, maintenance, restore, backup | `apps/tronfire/backend/src/server.js` 1171-1473, 2214-2715 | OperationLock |
| Sync HA and the standby's databases | settings file, job table (memory), flock, catalogue rows of the standby, standby files | scheduler, ssh test, `startHaSync`, `ha-sync-to-standby.sh`, export and import, restore, validate, promote | `server.mjs` 616-873, 4699-4814, `scripts/`, TronFire `server.js` 2718-3020 | HaSync, StandbyDatabase |
| Worker routines | routine locks, circuit breakers, sweep timer (memory), `backupJob` rows | checks, automatic backups, session history, sweeps and retries | `apps/tronfire/worker/src/worker.js` 694-1900 | WorkerRoutines |
| Backup history | `backupJob` rows and files over weeks | validation plan, retention, cleanup, manual backups | `worker.js` 1203-1672, TronFire `server.js` 421-464, 2507-2573 | BackupHistory |
| Monitor gate, host runner, probe cache | admission state, backoff, cached promises, alert rows | admit, join, defer, load, invalidate | `firebird-monitor-gate.mjs`, `async-probe-cache.js`, `server.mjs` 3564-3616, TronFire `server.js` 545-995, 1761-1921, `worker.js` 172-250 | FirebirdProbes |
| Application jobs and updates | `actionJobs` (memory), `update-status.json`, `.env` of the applications | start, time limit, close, resume; the update script and its trap; the panel's polling | `server.mjs` 4206-4695, 4966-5434, `scripts/update-tronsoftos.sh`, `App.jsx` 2218-2251 | HostJobs |
| E-mail alerts | rows of alerts, `smtpAlertStates` and its file, in-flight flag | collectors, `createAlertOnce`, `notifyCriticalAlerts` | `worker.js` 670-682, 955-1112, `server.mjs` 893-1104, 2677-2776 | AlertMail |
| Central agent, Google Drive | central settings and token, alert states, rclone settings, caches | pair, tick, heartbeats, authorise, apply, reset, quota, cleanup | `server.mjs` 1143-1236, 1410-1827, 5496-6298 | CentralLink |
| Node pairing, login throttle, VIP and keepalived scripts, Windows agent, Cloudflare tunnel, dashboards, panels, installers | see section 7 | | | not modelled |

**Interactions.** The two host backends share no storage: a node knows its peer only through
`GET /health` and `GET /api/cluster/guard` with a limit of 2.5 s. A host backend drives the
TronFire of its node through HTTP (`/api/ha/standby/promote`) and through its env file and
container. Sync HA copies backups and the catalogue to the peer over ssh and calls the peer's
TronFire. Backend and worker of TronFire share the PostgreSQL catalogue.

**What is hard.** Every backend is one Node.js process: code between two awaits is atomic,
and anything may happen at an await. `setInterval` does not wait for the previous tick, so
ticks overlap. Hosts crash, services restart without the host, links break, answers arrive
late. Files are read before an await and written back after it. The catalogue is read and
then written unconditionally. Several writers share one file or one row (script, trap, timer
and close event of an update; collectors of an alert), caches are filled by loads that began
before they were invalidated, and in exec mode `host` a script that failed may be answered
with HTTP 200.

**What makes it correct.** At most one node serves; a node becomes entitled to the virtual IP
only by an explicit act of the current boot; a standby and a node in recovery are not
entitled; a failover ends with a serving node; two serving nodes do not stay so. For a
database: exclusive operations exclude each other and backups; a restore reservation is
claimed once; locks do not outlive their owners for ever; the standby state is READY only
with the file it names, and the standby catches up. Routines of the worker do not meet on
Firebird, none is forgotten, a due backup is attempted, a backup is kept and validated every
week. A reported success is one. What is wrong is reported, mailed once, and reported as
ended. The code does not keep all of this: what it keeps is stated in the properties, with the
exceptions named, and section 6 lists the rest.

## 2. Modules

### HaCluster and Succession

Both nodes of a pair. Per node: power and `boot` (the kernel's boot_id as a counter), the
files `role`, `lock`, `activation`, `maint`, `env`, TronFire's `tfRole` (the role its
container was started with) and `db` (the state of the required standby databases), and the
memory of the backend: `down` (`primaryDownSince`), `inProgress` (`autoFailoverInProgress`)
and `task`, the activities that are waiting at an await.

One action is the code between two awaits; the activity's `pc` says which await it is at.

| `pc` | awaits | continues with |
|---|---|---|
| `peer` | `peerClusterGuard` | `PeerGuardDemotes`, `PeerGuardHarmless`, `PeerGuardLate` |
| `health` | `primaryHealthOk` | `HealthOk`, `HealthFailed`, `HealthLate` |
| `haStatus` | `tronfireHaStatus` | `HaStatusReady`, `HaStatusNotReady`, `HaStatusUnavailable` |
| `promote` | `promoteLocalTronfireStandby` | `PromoteOk`, `PromoteRefused`, `PromoteFails` |
| `setRole` | `setNodeRoleEnv('primary')` | `SetRolePromoted`, `SetRolePrimary`, `SetRoleFails` |
| `restart` | `restartTronfireBackend` | `RestartAndRecord` |
| `recRole`, `recRestart` | the two awaits of `putLocalNodeInRecovery` | `RecoveryWrites`, `RecoveryFails`, `RecoveryRestarts` |

A local copy that the code reads before an await and uses after it is a field of the
activity (`role`, `active`). `ClusterLock`, `LocalActivationValid`, `CanHoldVip` and
`CanServeProduction` are the guard. The operator's requests that run to their end without an
await are actions of their own. `Faults` and `Ops` choose what happens in a run, `MaxFaults`
and `MaxOps` bound how often.

Abstractions: names are compared as values (the code trims them); the settings of the
watchdog are constants; the required standby databases have one common state; a Sync HA job
is one step with its outcomes.

`Succession` is the abstract specification of a handover: the nodes that serve are none or one,
the second takes over only while nobody serves, and the first does not resume by itself
("Quando o antigo primary voltar, ele nao deve reassumir automaticamente", manual, line 300).
`HandoverInOrder` is its refinement by the set of nodes with `Serving`.

`MCHaCluster` instantiates it: `TaskSymmetry` permutes the slots of activities, which only
hold interchangeable records; it is used in runs without liveness.

### OperationLock

One managed database in TronFire's catalogue, on the node that may write production. State:
`op` (the `operation*` columns: running, kind, token, whether the message is the one of a
reservation, whether the time to live has passed), `standby` (`standbyStatus`), and per request
`req` (where it is and what it read before), `job` and `age` (the `backupJob` row it made),
`file` (its backup file) and `script` (the phase of the Firebird script it started). Two history
variables follow the races: `stale` holds the requests whose checks another one's write has
overtaken, `raced` says that one of them went on to act on such a check.

Backend and worker share the catalogue, so one query is one step and anything may happen
between two queries. A request is made once and serves as its own token (`makeToken` never
repeats one).

| Step in the code | Actions |
|---|---|
| the row is read (`acquireDatabaseOperationLock`, `replyIfDatabaseOperationActive`, `runAutomaticBackups`) | `ReadIdle`, `ReadExpired`, `ReadActive`, `ReadForLater`, `ClearExpired`, `ReadCurrent` |
| a reservation is claimed or released (`restore-upload-policy.js`) | `ClaimPrepared`, `ClaimRefused`, `FindPrepared`, `ReleasePrepared` |
| old jobs are searched and marked (backend: over 60 min; worker: over 5 min, then over 60 min) | `ReadOldJobs`, `PsFindsTool`, `PsFindsNone`, `PsFails`, `MarkFailed` |
| running backup, then the lock | `FindsRunningBackup`, `FindsNoBackup`, `TakeLock` |
| job, script, result | `CreateJob`, `BackupDeferred`, `StartRestore`, `ScriptGoesOn`, `BackupWritten`, `ScriptSucceeds`, `ScriptFails`, `ScriptFailsUnnoticed`, `FinishJob` |
| `releaseWith` | `ReleaseReads`, `ReleaseWrites` |
| a query of the catalogue fails | `SearchFails` (the catch at the start of the backend), `QueryFails` (nobody catches it: the request ends and a lock it has stays until its time to live ends, as at TronFire `server.js:2404`), `QueryCaught` (in a try block) |
| time and faults | `JobAges`, `LockExpires`, `Crash`, `LeftScriptEnds` |

A script is in phase `tool` while `ps` shows gbak, gzip, nbackup or gfix, in phase `files`
while it copies, moves or checks the database with other programs, and in phase `post` when
the backup is complete and its size, checksum and manifest follow. `HostMode` is
`FIREBIRD_EXEC_MODE=host`, the value of `.env.example`: TronSoftOS then runs the scripts, and
answers a failed one with HTTP 200 and `ok: false`, which the backend does not look at
(`FailureNoticed`). A restarted backend searches for old jobs before it listens
(`Listening`); a worker does so beside its other work.

All requests overlap. `ExclusiveWork` is therefore not plain exclusion (`Alone`, which the code
violates) but: exclusion holds until a request takes the lock, starts a backup or clears a lock
on a check that is stale, or a search that could not list the processes ends a job. No crash,
expired lock, failing query or script left behind breaks it alone.

Abstractions: the kinds `AUTO_MAINTENANCE` and
`DISABLE_INDEXES_MAINTENANCE` are one kind; the two searches of a starting worker follow each
other; `requestHaProtectionForDatabaseOperation` acts on TronSoftOS, whose promotion block is
part of HaCluster; the time to live of a lock (6 h) is longer than a script (4 h at most) and
the validation after it (45 min by default), so a lock expires only when nobody works under
it. Restores on a standby, which take the same lock, are in HaSync.

`MCOperationLock` instantiates it: `ReqSymmetry` permutes requests, which is sound because
only tokens name them; it is not used for liveness.

### HaSync and StandbyDatabase

`StandbyDatabase` is the abstract specification of what the standby promises for a database:
a version is offered for promotion only while the standby file holds it, the file is replaced
only while nothing is offered, production gets only what was offered. The promise is for
databases in `trusted`, and trust that was lost comes back only with an offer that is the file.

`HaSync` is both ends of Sync HA. On the primary: `settings`, the ssh tests in progress
(`probe`, each with the settings it read), the job and its scheduler, and the script
(`script.pc` names the step of `ha-sync-to-standby.sh`; an exit is seen by the close event).
On the standby: `row` (status, checksum and lock column), `file`, the restore requests `work`,
the promotion and `prod`. A version stands for the contents of a database, a checksum for a
mode and a version. Every remote step may fail, the service of the primary and TronFire of the
standby may stop (a restore script may go on as an orphan), and in exec mode `host` a script
may fail unnoticed.

The import of the catalogue has its four steps, since nothing holds them together: the standby
columns are copied (`ScriptImports`; a failure is ignored and leaves the copy of an earlier
import or none), the table goes (`ImportDrops`), comes back with the rows of the primary
(`ImportLoads`), and the columns are written back (`ImportWritesBack`). Requests to TronFire,
promotions and crashes come in between; `ImportFails` ends it anywhere, and after a stop of the
service it may go on without its sync. Assumed: an import that goes on has ended when the next
one begins.

The refinement is `Promise == INSTANCE StandbyDatabase WITH offered <- Offered, trusted <- DB
\ doubt`, where `Offered` reads the rows. `doubt` is a history variable. A database enters it
with the step that breaks the promise, and only with one of these:

* a restore that no longer holds its RESTORING row replaces the file (the row was imported, or
  its lock lost, meanwhile), or does so while an import holds a READY copy of the row;
* a promotion moves the file although the row is no longer READY and free, or while an import
  holds a READY copy of it: the write-back then offers a file that is gone;
* a promotion stops after it moved a file (its script fails, or the row is not there);
* a restore fails after its move on a row that was READY before, or fails unnoticed;
* a validation makes a row READY that was not READY with that checksum.

It leaves `doubt` when a restore that holds its lock ends READY with its version in the file.
Within the model these are the only ways READY becomes wrong; imports that fail half-way or
outlive their sync, crashes of either node, expired locks and restores that fail before the move
are not among them. What the code does not protect at all (a promotion that meets a restore or an
import, hazard at TronFire `server.js:2974`) is thereby named, not excluded.

### WorkerRoutines

The worker is one process whose cron jobs interleave at their awaits. `at` says where each
routine is and what it has read, `locks` are the routine locks with the key that all databases
share, `circuit` the breaker, `retryTimer` and `retryCount` the retries of the sweeps, `due`
and `job` the backups. Operations of the backend, Sync HA and Firebird itself are the
environment. A command that outlives the 60 minutes of its lock is recorded in `overrun`.

Not in it: the counters behind FIREBIRD_UNRESPONSIVE, the alerts of backup, validation and
sweep failures, metrics (AlertMail), two ticks of the check that overlap.

### BackupHistory

The backups of one database over weeks: automatic backups with the weekly validation plan,
manual backups, retention and cleanup. Time is a day of the week and a slot of the day; a row
keeps its age and the set of older rows (`older`), which is all the code's comparisons and its
`orderBy createdAt` look at: `Newest(ids, n)` is the query with `take`, `Latest` the first row of
it. The lists that retention and cleanup read before they delete are part of the state; both
delete the files before the row. The search for jobs without a process (`Searches`,
`ProcessSeen`, `MarkOrphanedRunningBackupFailed`) marks what it listed, a manual backup that has
finished meanwhile included, and its quarantine of a file leaves the message that the plan takes
for a failed validation. A manual backup may end SUCCESS without a file: its script failed on the
host unnoticed, or the worker moved the file away. `had` is a history variable that says whether
the newest success had its file when it was recorded and was not taken back. `MaxRun` is how many
slots the timeouts let a backup run into;
the two queries of `cleanupRetention` are adjacent in time; the queries that follow the one that
sets a row to SUCCESS succeed, and so does the rename into the quarantine. The searches before
checks and sweeps, which could meet a running backup of the worker itself, are not modelled, and
the backend's own search adds nothing to that of the worker. Names differ from those of
WorkerRoutines, so that one proof module extends both.

### FirebirdProbes

The gate of the host (`active`, `answers`, `slow`), the scripts, the requests of backend and
worker that share them, the `AsyncProbeCache` of the backend with its loads in flight and its
invalidations, and the readers that turn answers into rows of alerts.

### HostJobs

The job table of the service, the child processes with the step each is at,
`update-status.json`, the maintenance block of the standby, TronComanda's `.env`, and the panel
that polls an update across the restart that ends it. A stop of the service takes the children
of its control group with it; the SIGTERM of a time limit goes to a process of root and does
not end it.

### AlertMail

Collectors of the worker (`tick`) keep rows of alerts; dashboards (`dash`) read them and run
`notifyCriticalAlerts`, whose sends are awaited; `st` and `saved` are `smtpAlertStates` and its
file, keyed as `smtpAlertKey` does: a number that stands alone is taken out of a message, the
seconds of a countdown ("87s") are not (`Counting`). A mail is taken, not taken, or taken with
its answer lost (`Outcome`); in the last case, as after a crash, the service cannot know of it
(`unsure`). A collector without a value resolves nothing. Of a time only whether it is long
enough ago is kept.

### CentralLink

The Central agent (settings, token, timer, tick, pairings, alert states and their file) and the
Google Drive of the backups with the ways to authorise it, its quota cache and its cleanup.
Pairings overlap; each writes the settings, awaits the database information, asks the Central
that the settings name by then, and writes its own address again. An answer without JSON brings
no token, which `writeCentralToken` ignores. `EnvEnabled` is `TRONSOFTOS_CENTRAL_ENABLED`, which
enables the agent whatever the file says. The history variables `writer` and `sound` say whether
the pairing that enabled the agent was the last one to write the settings and brought a token.

### Proof modules

`HaClusterProofs`, `OperationLockProofs`, `HostJobsProofs`, `HaSyncProofs`,
`FirebirdProbesProofs`, `AlertMailProofs` and `CentralLinkProofs` each extend their component with
the theorems of section 5; `WorkerProofs` extends the two models of the worker, WorkerRoutines
and BackupHistory. Each `MC` module instantiates its component.

## 3. Runs

All bounds count events of a whole behaviour (faults, requests, decisions); the number of
steps is not bounded. All runs finish within three minutes on two cores.

| Run | Shows | Bounds |
|---|---|---|
| `ha_all` | types, and `EligibilityIsExplicit`: a node becomes entitled to the VIP only by an explicit act of the current boot, with activation, recovery, identity and lock requests and all faults but late answers | two activities per node, 1 fault, 2 requests |
| `ha_failover` | `StandbyHasNoVip`, `AtMostOneServing` and the refinement `HandoverInOrder` of Succession along failover, return of the first primary as a standby, and its preparation to take over again; `FailoverCompletes`: while the primary stays down the standby ends up serving. A recovery by the panel and faults of the second node are not in it (section 6) | 3 power failures of the first primary, 3 requests; 115,496 states |
| `ha_heals` | `DualServingEnds`: after a partition, a late answer, a stopped service or a failed command the former primary yields | 2 faults, 2 requests; 65,496 states |
| `ol_lifecycle` | `ReservationEndsOnce`, `LockEnds` and types, container mode | three requests of reservation, release and restore that overlap, 2 faults of four kinds; 342,625 states |
| `ol_exclusive` | `ExclusiveWork` and `LockHasOwner` with all kinds of request, host mode | three requests that overlap, 1 fault of four kinds; 3,412,322 states |
| `hj_jobs` | `SuccessIsInstalled`, `FinalStays`, `PanelLearns` (types are proved, section 5) | 2 requests, 2 faults, all operations and roles; 95,595 states |
| `hs_sync` | `ReadyIsFile`, `ValidatedHostAnswered`, the refinement `KeepsPromise`, `CatchesUp`, `BackupModeEnds` | two databases, two hosts, two versions, 1 request, 1 fault of ten kinds; 512,246 states |
| `wk_routines` | `OneRoutine`, `SweepNotForgotten`, `BackupAttempted`, `OutageClears` | one database, threshold 2, two retries, 2 events; 82,968 states |
| `am_mail` | `EntryIsMail`, `OneMailAnHour`, `MailArrives`, `RecoveryArrives`, `RowEnds` | one alert of TronFire, two collectors and two dashboards at once, 2 events; 342,419 states |
| `fp_probes` | `OneProbe`, `WaitsForScript`, `AlertsAgree`, `SlowAlertClears` | one database, one probe of the worker, two readers, 1 event; 203,104 states |
| `cl_central` | `EnabledIsPaired`, `ActiveIsTold`, `CentralLearns`, `QuotaAgrees` | one alert, two Centrals, two accounts, two pairings at once, 4 events; 1,684,474 states |
| `bh_history` | `KeepsABackup`, `OneValidation`, `ValidatedEveryWeek` | week of 3 days with 3 slots, a window within a day and one over midnight, one cleanup, at most 9 rows, 2 incidents; 398,158 states |

Why the bounds are enough: two activities, requests or readers make every pair of steps meet,
and the invariants speak of pairs; one database has all the interactions with its own row,
and `hs_sync` has two because a skipped restore depends on another database; two faults or
events allow a fault in the recovery from another. Alerts that the dashboard computes itself, a
countdown among them, take the same path after `Dashboard` and are in the theorems and in
`AlertMailCountdown.cfg`, not in `am_mail`. Larger instances were checked once: HaSync with one
database, 2 requests and 2 faults (9.3 million states, safety and refinement); WorkerRoutines with
two databases and 1 event (653 thousand, safety); FirebirdProbes with one reader and 2 events
(230 thousand).

`CHECK_DEADLOCK FALSE` is said where the system may stop: every request of OperationLock is
made once, and in HostJobs, HaSync and CentralLink nothing is owed after the last request.

The remaining `.cfg` files reproduce the findings of section 6 and are described there;
`HaClusterFailStop.cfg` checks `FailStopInv`, the invariant of a proof, and passes.

## 4. Fairness

Nothing is assumed of faults, of power coming back, or of operators; every fault needs a unit
of a bounded budget.

* **HaCluster**: weak fairness of each activity (the event loop resumes an await; every probe,
  HTTP call and command has a time limit, and `setInterval` starts ticks for ever), of the
  clock, of the restart of a stopped service (`infra/systemd/tronsoftos.service` has
  `Restart=always`) and of the repair of the link.
* **OperationLock**: weak fairness of the work of every request, of the end of a script whose
  caller crashed (the timeout is enforced where the script runs) and of the clock that lets a
  lock expire.
* **HaSync**: weak fairness of the scheduler, its interval, the script, imports, restores and ssh
tests
  (all have time limits) and of the expiry of locks. `CatchesUp` supposes that the token is
  configured, that the primary may serve in the end, and that no promotion and no MAINTENANCE
  hinders it; in mode backup_restore also that a row with a checksum has its file, since a
  skipped restore is never made up for. A row that was wrongly READY does not keep a sync in mode
  physical from replacing the file, so that doubts end.
* **WorkerRoutines**: weak fairness of the steps of a routine and of the end of what it waits
  for; strong fairness of the start of each routine, because node-cron fires it again and again
  and its lock is free in between.
* **BackupHistory**: weak fairness of the worker, of a manual backup, of the clock and of a
  cleanup under way.
* **FirebirdProbes**: weak fairness of scripts, expiries and readers; strong fairness of a
  probe that finds the gate free, since probes are repeated for ever and the gate is free after
  every script.
* **HostJobs**: weak fairness of the scripts, of close events, of the restart that an update
  schedules and of the panel's polling.
* **AlertMail**: weak fairness of awaited calls, of the mail server and TronFire coming back
  and of dashboards (the Central agent requests one every two minutes, an open panel more
  often); strong fairness of the collector of each type, since every round takes each.
* **CentralLink**: weak fairness of the tick, of awaited calls, of caches growing old and of
  Centrals and TronFire coming back.

## 5. Proofs

All theorems hold for every choice of the constants that satisfies the named assumptions, in
particular for any number of overlapping activities, databases, requests, faults and events.

`HaClusterProofs`:

* `TypeCorrect`: `Spec => []TypeOK`.
* `ExplicitEligibility`: `Spec => EligibilityIsExplicit`. Rests on `ActivationsArePast`: an
  activation never names a later boot, so a reboot cannot make one valid; `VipFrame` and
  `VipRewrite` say which writes leave the guard alone.
* `FailStopInvariant`, `FailStopSafety`: when hosts fail only by losing power and the operator
  neither activates a node nor edits identity or lock (`FailStop`), `AtMostOneServing` holds.
  `AtMostOneServing` is not inductive: B's decision is spread over several awaits. The
  invariant `FailStopInv` says that everything B does towards serving (`SawPeerDown`)
  presupposes that A lost the boot of its activation, that nothing in A gets it back
  (`FormerPrimaryStaysOut`), and that B names itself active only after it stopped being
  standby (`StandbyYields`).

* `StandbySafety`: `StandbyHasNoVip` with every fault, activation and recovery, for operators
  who edit no lock and set no identity back to standby (`NobodyReturns`). `StandbyInv` says of
  each node what `StandbyYields` says of B: until it names itself active it has left standby.
* `ReturnInvariant`, `ReturnSafety`: the run `ha_failover` for any number of power failures,
  requests and overlapping ticks. A loses power, returns, is demoted and made a standby again
  while B stays up (`PrimaryReturns`); then `StandbyHasNoVip` and `AtMostOneServing` hold.
  `ReturnInv` replaces the part of `FailStopInv` that kept A out for good by `ReturnedYields`: A
  may become a standby again, but only with a lock that names B, and a watchdog of A never gets
  past its health probe, because B answers it.
* `OrderlyHandover`: `Spec => HandoverInOrder`, the refinement of Succession, under `FailStop` or
  `PrimaryReturns`. The steps that change who serves are a loss of power, a demotion, and the
  activation of B; the invariants say that B activates only when A does not serve, and that
  nothing gives A the activation of its boot back.

The assumptions are needed. When a service stops and starts in the same boot, or the link
breaks, both nodes serve for a while; `ha_heals` shows that this ends. A node that is set back
to standby while a recovery that started earlier waits at its await, or whose lock still names
it, is entitled to the VIP as a standby (`HaClusterPanelRecovery.cfg`).

`OperationLockProofs`:

* `TypeCorrect`: `Spec => []TypeOK`.
* `ReservationSafety`: `Spec => []ReservationEndsOnce`, with all kinds of request overlapping
  and all faults. `ReservationInv` adds what makes it inductive: a token that was given is
  that of a finished reservation, and one that has been won is not reserved any more, so the
  condition of `updateMany` cannot match a second time.
* `OwnerSafety`: `Spec => []LockHasOwner`, with all kinds of request overlapping and all faults.
  `OwnerInv` strengthens it to locks that have expired and to where the owner is: a request
  between `TakeLock` and the write of its release, or ended by a crash or a failing query
  (`Holds`). It is not obvious because `releaseWith` writes without a condition what it checked
  one query before: it may free the lock of another request, but never leaves one that nobody
  frees and whose request came to its end.
* `ExclusiveInvariant`, `ExclusiveSafety`: `Spec => []ExclusiveWork`, with all kinds of request
  overlapping and all faults, and without an assumption on the constants. `ExclusiveWork` speaks
  only of scripts at work; `ExclusiveInv` (`raced \/ Orderly`) follows the decision that leads to
  them: what a request saw of the row still holds while it is not stale (`RowAsSeen`); who works
  under the lock holds it, also after a crash (`OwnerHoldsLock`, `OneOwner`); a backup at work has
  a RUNNING job, which stops everybody before `TakeLock` who is not stale (`BackupSeen`), and a
  search for old jobs does not take that job away (`OldJobsInv`). The exception is needed:
  `OperationLockSnapshot.cfg` violates `Alone`, and an unreadable process list lets a live
  backup's job be marked FAILED.

`HostJobsProofs`: `TypeCorrect`, `InstalledSafety` (`SuccessIsInstalled`) and `FinalStatusStays`
(`FinalStays`). `JobsInv` adds to the types what ties an entry of the table to its process
(`JobOK`): only the timer of an update ends a job before its process, and then as failed; a
script past its installer has installed.

`HaSyncProofs`:

* `HostSafety`: `ValidatedHostAnswered`. The invariant covers the settings a test in progress
  has read, because it writes them back after its await.
* `SyncInvariant`, `ReadySafety`: `ReadyIsFile`. It is not inductive: READY is written from
  what a restore remembers of the row and from the copy an import took before it dropped the
  table. `SyncInv` says of every database not in doubt that all three places that may make it
  READY agree with the file (`Good`): the row, the copy of an import, and the restore that holds
  the lock, before its move by what it found READY and after it by the version it moved.
* `PromiseKept`: `Spec => KeepsPromise`, the refinement of StandbyDatabase. With `SyncInv` before
  and after the step, a step that changes rows is an offer or a withdrawal of each, a move of the
  file is a replacement of what is not offered, and a promotion takes what is offered; everything
  else stutters or is about a database in doubt.

`WorkerProofs`, about WorkerRoutines: `OneRoutineSafety` (`OneRoutine`), `SweepSafety`
(`SweepNotForgotten`). `RoutineInv` adds that a routine at work holds the lock that all databases
share unless it outlived it.

`WorkerProofs`, about BackupHistory, for any week, calendar, number of rows and of incidents:

* `HistoryInvariant`, `BackupKept`: `KeepsABackup`, assuming `SafeSettings`. The retention of the
  worker and the cleanup of the backend delete from lists that each read before, without a lock
  between them. `HistoryInv` says why that is safe: rows are ordered by their dates, lists name
  no backup that runs, and while `had` holds the newest success has its file and is in no list,
  since each list spares the newest of what it saw and what succeeds later is either newer or too
  young for it (`KeptInv`). `had` ends with a manual success that has no file, or when a search
  takes the newest success back; then retention spares the wrong row (section 6). The young one
  is the subtle case: a manual backup that succeeds between the two
  queries of `cleanupRetention` is not the success the first one found, and only its age keeps it
  out of the second. Hence `SafeSettings`: a backup runs for less than a retention (a manual one
  has 4 hours, TronFire `server.js:2518`; a retention is at least a day), and no cleanup keeps 0
  (the default is 1, `server.js:423`).
* `ValidationInvariant`, `ValidatedOnce`: `OneValidation`, assuming also `DailySettings` and that
  `FewToday` always holds. The plan does not record that it validated: it finds out from rows
  that others write and delete. `ValidationInv` says what it finds (`Evidence`): the validated
  backup of the day, which is the newest valid one, too young for every list and within reach of
  the search, or the failed row, whose message is suspect because the file was moved to the
  quarantine, or the job that a crash cut off with its file, which the next search makes such a
    row (`TodayCut`). Each hypothesis is a condition on a deployment. A backup whose plan falls
  into the
  window was started on that day: gbak has 120 minutes and the window opens at 03:00 by default;
  otherwise a failure is dated before the window and repeated. No cleanup asks for 0 days. And a
  day has at most 80 successes and 10 failures before the plan looks (`take` of the two queries,
  `worker.js:1329`, `1369`): a backup every 20 minutes makes 72, and after ten further failures
  the failed validation is out of sight and repeated.

`FirebirdProbesProofs`: `OneProbeSafety` (`OneProbe`), `WaitSafety` (`WaitsForScript`), together
inductive in `ProbeInv` with the types and what a reader that is not idle reads.

`AlertMailProofs`: `EntrySafety` (`EntryIsMail`), `OneMailSafety` (`OneMailAnHour`), for any
alerts, countdowns, collectors and lost answers. `MailInv` adds that one pass runs at a time under
the in-flight flag, that it sends only what it has to do, and that a message about to be mailed
was not mailed since it could be due: the decision and the mail are separated by an await, and
only the flag keeps another pass from mailing in between.

`CentralLinkProofs`: `TypeCorrect`, `PairedSafety` (`EnabledIsPaired`), `ToldSafety`
(`ActiveIsTold`), with the snapshots that a tick and a pairing hold across their awaits. For the
pairing `PairInv` adds that the pairing that wrote the settings last still finds its address
there, so that it is the Central it asked.

Only model-checked: the liveness properties (the prover has no fairness and no ENABLED):
`FailoverCompletes`, `DualServingEnds`, `LockEnds`, `PanelLearns`, `CatchesUp`,
`BackupModeEnds`, `BackupAttempted`, `OutageClears`, `MailArrives`, `RecoveryArrives`, `RowEnds`,
`AlertsAgree`, `SlowAlertClears`, `CentralLearns`, `QuotaAgrees`, `ValidatedEveryWeek`. Every
invariant, action property and refinement that a run checks has a theorem; where the theorem has
a hypothesis on faults or requests (`FailStop`, `NobodyReturns`, `PrimaryReturns`), the run that
checks the property satisfies it.

## 6. Findings

Each can be reproduced by hand with the configuration named (`tlc -config X.cfg` on the MC module
of its component), which ends in a violation. None of them is a run of `PROJECT.json`.

* **`HaClusterPanelRecovery.cfg`**, `StandbyHasNoVip`, `server.mjs:574`. The runbook expects
  "VIP ausente" of a node in standby or recovery (`docs/runbook-failover.md:82`) and the manual
  has the operator put the former primary in recovery in the panel and later in standby
  (`docs/manual-instalacao-operacao-ha.md:306-311`). The panel sends only a reason
  (`App.jsx:889`), so `putLocalNodeInRecovery` keeps a lock that names this node active; as a
  standby the guard then asks for no activation and the node is entitled to the VIP while its
  peer serves.
* **`HaClusterPromotedTwice.cfg`**, `DualServingEnds`, `server.mjs:4854`. "Quando o antigo
  primary voltar, ele nao deve reassumir automaticamente" (manual, line 300).
  `maybeDemoteReturnedPrimary` returns early on a node whose activation came from a promotion;
  after a second failover both nodes serve for good.
* **`HaClusterCrashInFailover.cfg`**, `FailoverCompletes`, `server.mjs:543`. "VIP assumido
  automaticamente" (`docs/plano-testes-ha-failover.md:219`). When the service of the standby
  restarts after TronFire was promoted or the identity written, no later tick finishes the
  failover.
* **`OperationLockSnapshot.cfg`**, `Alone`, `worker.js:1488`. "Backup manual e backup
  automatico desse banco ficam bloqueados" (manual, line 255). `runBackup` decides by a row read
  at `worker.js:1645`, before everything else of the pass.
* **`OperationLockHostFailure.cfg`**, `SuccessHasFile`, TronFire `server.js:289`. The handler's
  catch says "Backup falhou" and FAILED (`server.js:2532`), but in exec mode `host` a failed
  script is answered with HTTP 200 and `ok: false` (`server.mjs:3607`), which
  `runHostFirebirdScript` turns into an error only for monitor scripts; the job ends SUCCESS
  with size 0 and no file. `worker.js:236` does look at it.
* **`HostJobsKds.cfg`**, `KdsNeedsQa`, `server.mjs:4661`. "Enquanto o KDS estiver habilitado,
  instalacao/atualizacao para `main` ou `dev` e bloqueada" (`apps/troncomanda/README.md:21-22`).
  It is checked when the action is requested and not when its job writes `.env`.
* **`HostJobsBlock.cfg`**, `BlockedWhileInstalling`, `server.mjs:5016`. "nao e seguro atualizar
  primary sem bloquear o standby" (`scripts/update-tronsoftos.sh:265`). The SIGTERM of a
  timed-out update does not end its script; the script clears the block of the standby while
  the installer of a second update runs.
* **`HaSyncSkip.cfg`**, `SkippedWasReady`, `scripts/ha-sync-to-standby.sh:206`. "Se o backup mais
  atual do alias ja estiver `READY` no standby com o mesmo SHA, o ciclo deve pular o restore
  completo" (`docs/plano-testes-ha-failover.md:143`). Alias, READY and checksum are looked for
  separately, so READY may be another database's.
* **`HaSyncEmpty.cfg`**, `PromotionComplete`, `scripts/tronfire-catalog-import.sh:30`. A promotion
  needs "todos os bancos obrigatorios com standby `READY`"
  (`docs/contrato-tronsoftos-tronfire-ha.md:116`). While an import has emptied the table, the
  promotion finds no database that is not ready, promotes none and answers ok.
* **`AlertMailCountdown.cfg`**, `OneMailPerAlert`, `server.mjs:1006`. `smtpAlertKey` takes numbers
  out of a message so that an alert keeps its key, but `\b` does not match between a digit and a
  letter: "failover automatico em 87s" (`server.mjs:4023`) has a new key in every dashboard and is
  mailed each time.
* **`CentralLinkPairing.cfg`**, `AgentHasToken`, `server.mjs:5726`. `writeCentralToken` ignores an
  empty token and `centralRequest` takes an answer that is no JSON for `{}` (`server.mjs:5740`), so
  that the agent is enabled without a token or with the former one; of two pairings that overlap
  one may ask the other's Central and write its own address.

Other behaviours of the models that a reader of the code may want to know:

* HaCluster: a service of the primary that stops for a failover and starts in the same boot
  serves beside the promoted standby until its watchdog has asked the peer; a recovery that
  completes during an automatic failover of the same node is overwritten by the identity read
  before; a promotion call that fails after TronFire promoted leaves the failover unfinished; an
  expired maintenance block still blocks (`server.mjs:5106`); a standby whose primary returns in
  mid-failover demotes itself, after which the primary may go off.
* OperationLock: two operations, or an operation and a manual backup, that make their checks at
  the same time both go ahead, as the update in `TakeLock` has no condition; the worker's search
  for orphans may take away the file of a manual backup past gzip; a released or expired
  reservation leaves `standbyStatus` MAINTENANCE; a query that fails between the lock and the try
  block, such as the creation of the job, leaves the lock until it expires (TronFire
  `server.js:2404`).
* HaSync: without the internal token the job stays running (`server.mjs:4726`); an ssh test
  overwrites settings that changed during its await (`server.mjs:831`); an import drops the
  operation lock of the standby, so that an orphaned and a new restore overlap; a first import
  during an operation of the primary leaves the row in MAINTENANCE for good; an import that fails
  after pg_restore leaves the rows of the primary, and one that fails in it none; a change of mode
  or a disabled sync leaves a database in backup mode; an INVALID row beside a READY database
  with a current checksum is restored only with the next backup; the manual says that the
  standby stops being READY during a restore of the primary (lines 257-260), but the import
  keeps READY.
* WorkerRoutines: the role of the worker is that of its start (`worker.js:266`); an alert
  BACKUP_FAILED is resolved by the success of another database (`worker.js:1571`); a check gives
  up when a backup pass runs (`worker.js:1832`); a retry of a sweep is lost with the process.
* BackupHistory: messages with "internal error" or "quarentena" count as failed validations
  (`worker.js:1360`), so that a crash that cuts off a backup with its file in the window blocks
  the week's validation (`worker.js:899`, `1371`); a manual backup that failed on the host
  unnoticed, or whose file the worker quarantined (`worker.js:931`), is the newest success, which
    retention spares while it deletes the real ones; a backup begun before the window whose
  validation fails in it is repeated;
  a window over midnight validates twice; a cleanup with 0 days deletes the validated backup,
  and manifests are never removed; retention may delete the latest validated backup, and a row
  already gone aborts its pass (`worker.js:1611`, `1631`); FAILED rows stay for ever.
* AlertMail: memory and disk alerts of the worker are never resolved by it; when TronFire's list
  fails its alerts look resolved and RECUPERADO may be mailed (`server.mjs:2691`); a mail whose
  answer was lost is repeated after five minutes, and not recovered if the alert ends before.
* CentralLink: a failed new pairing leaves the agent disabled; the states of alerts survive a new
  pairing; a reset deletes an authorisation completed meanwhile (`server.mjs:1464`); the remote
  cleanup deletes uploads made after its list (`server.mjs:1689`).
* FirebirdProbes: a fast probe that fails resets the counter of slow ones.

## 7. Not modelled, and what is left

* **Node pairing**: one request with a sequence of writes and a roll back, on a node that is not
  yet part of a pair. Next in line, with crashes between the writes.
* **Login throttling and sessions**: counters in memory, each handled between two awaits.
* **Network, VIP and keepalived**: the election is keepalived's; the scripts ask the guard,
  which is in HaCluster (`CanHoldVip`). A composition with an election needs VRRP as an external
  module.
* **Windows agent**: a separate program in C# that talks to the Central, not to these parts.
* **Cloudflare tunnel**: settings and calls of an external program; a reset during the apply of
  a save leaves the connector running (`server.mjs:3463`, `3359`).
* **Dashboards, metrics, diagnostics, panels**: read-only collection and rendering; the requests
  of the panels are the requests of the models.
* **Installer, wizard, ISO**: sequential provisioning.

Left for the proofs: an abstract lock that OperationLock implements until a race.
Left for the models: the alerts of failed backups, validations and sweeps in WorkerRoutines, and
HaCluster with one state per standby database, composed with HaSync.
