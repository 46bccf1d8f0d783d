------------------------------- MODULE HaSync -------------------------------
(***************************************************************************)
(* Sync HA: the settings, the ssh test, the scheduler and the job of the   *)
(* primary (backend/src/server.mjs), the script the job runs               *)
(* (scripts/ha-sync-to-standby.sh with the export and the import of the    *)
(* catalogue), and what TronFire on the standby does with what arrives:    *)
(* restore, physical restore, validation and promotion                     *)
(* (apps/tronfire/backend/src/server.js).                                  *)
(*                                                                         *)
(* A version stands for the contents of a database: of its newest          *)
(* validated backup in mode backup_restore, of its file in mode physical.  *)
(***************************************************************************)
EXTENDS Naturals, FiniteSets

CONSTANTS
  DB,          \* databases
  Hosts,       \* hosts that settings may name, with the user of the login
  Bodies,      \* settings that requests bring, a subset of Body
  Standby,     \* the host that is the standby
  MaxVersion,  \* bound: versions of a database
  MaxRequests, \* bound: requests and new versions in a behaviour
  MaxFaults,   \* bound: faults in a behaviour
  Faults,      \* kinds of fault that happen, a subset of FaultKind
  Tokens,      \* whether the internal token is configured
  Overlap      \* whether a promotion may happen while a sync runs

(* ssh: the ssh test fails; backup: a backup runs at the check; operation: *)
(* a database of the primary is in an operation at the export; net: a      *)
(* remote step of the script fails; nbackup: nbackup fails; script: a      *)
(* Firebird script fails; hidden: it fails on the host and TronFire, in    *)
(* exec mode host, does not notice; crash: the service of the primary      *)
(* stops; standby: TronFire on the standby stops; role: the primary stops  *)
(* or starts being allowed to serve.                                       *)
FaultKind == {"ssh", "backup", "operation", "net", "nbackup", "script",
              "hidden", "crash", "standby", "role"}

(* enabled stands for enabled and autoEnabled. *)
Mode == {"physical", "backup_restore"}
Body == [enabled: BOOLEAN, mode: Mode, host: Hosts]

ASSUME HostAssumption == Standby \in Hosts
ASSUME BoundAssumption == MaxVersion \in Nat \ {0} /\ MaxRequests \in Nat /\ MaxFaults \in Nat
ASSUME ChoiceAssumption == Faults \subseteq FaultKind /\ Tokens \subseteq BOOLEAN
                           /\ Overlap \in BOOLEAN /\ Bodies \subseteq Body

VARIABLES
  settings,   \* ha-sync-settings.json
  serving,    \* clusterGuard().canServeProduction
  token,      \* TRONSOFTOS_INTERNAL_TOKEN is configured
  job,        \* status of the newest ha-sync job
  due,        \* the interval since the last event of a sync has passed
  probe,      \* testHaSyncSsh in progress, of the scheduler and of the panel
  script,     \* ha-sync-to-standby.sh
  version,    \* per database: its version on the primary
  locked,     \* databases of the primary in nbackup's backup mode
  row,        \* per database: its row in the catalogue of the standby
  import,     \* tronfire-catalog-import.sh on the standby
  saved,      \* per database: its row in _tronsoftos_ha_standby_state
  file,       \* per database: the version in its standby file, 0 without one
  work,       \* restore requests on the standby
  promo,      \* promotion on the standby
  prod,       \* per database: the version a promotion put in production
  role,       \* role of the standby
  answered,   \* history: hosts that have answered an ssh test
  doubt,      \* history: databases whose row may say READY wrongly
  used,       \* requests made so far
  faultsLeft  \* faults that may still happen

service == <<settings, serving, token, job, due, probe, answered>>
primary == <<version, locked>>
standby == <<row, file, work, promo, prod, role>>
catalog == <<import, saved>>
vars == <<service, script, primary, standby, catalog, doubt, used, faultsLeft>>

(***************************************************************************)
(* Types                                                                   *)
(***************************************************************************)
Version == 1 .. MaxVersion
Slot    == 1 .. 2
Free    == 0
Other   == 3
Owner   == Slot \cup {Free, Other}
NoHost  == "none"
NoDb    == "none"

(* at stands for a sshValidatedAt, vhost for sshValidatedHost and          *)
(* sshValidatedUser.                                                       *)
Settings == [enabled: BOOLEAN, mode: Mode, host: Hosts \cup {NoHost}, at: BOOLEAN,
             vhost: Hosts \cup {NoHost}]

(* A checksum identifies mode and version; version 0: there is none. *)
Sha   == [mode: Mode, ver: Version \cup {0}]
NoSha == [mode |-> "physical", ver |-> 0]

(* ABSENT: there is no row. *)
StandbyStatus == {"DISABLED", "PENDING", "MAINTENANCE", "RESTORING", "READY",
                  "INVALID", "PROMOTED", "ABSENT"}
Row   == [status: StandbyStatus, sha: Sha, lock: Owner]
Saved == [status: StandbyStatus, sha: Sha]

(* Before pg_restore drops the rows, loads them, and before the standby    *)
(* columns are written back.  dump: databases whose rows the dump shows in *)
(* an operation.                                                           *)
Import   == [pc: {"none", "drop", "load", "keep"}, dump: SUBSET DB]
NoImport == [pc |-> "none", dump |-> {}]
NoTable  == [d \in DB |-> [status |-> "ABSENT", sha |-> NoSha]]

(* check: flock and running backups; ready: standby_backup_ready; next:    *)
(* the loop over the databases; copy: rsync of a locked file; wait: for    *)
(* the answer of the standby.  An exit is seen by the close event.         *)
Exit   == {"exit0", "exit1", "exit12"}
Pc     == {"none", "check", "list", "ready", "import", "importing", "next", "copy", "post",
           "wait"} \cup Exit
Script == [pc: Pc, mode: Mode, host: Hosts \cup {NoHost}, list: [DB -> Version \cup {0}],
           dump: SUBSET DB, todo: SUBSET DB, skip: SUBSET DB, cur: DB \cup {NoDb}, slot: Slot]
NoScript == [pc |-> "none", mode |-> "physical", host |-> NoHost, list |-> [d \in DB |-> 0],
             dump |-> {}, todo |-> {}, skip |-> {}, cur |-> NoDb, slot |-> 1]

(* run: before the file is replaced; moved: after; orphan: the script of a *)
(* request whose TronFire stopped.                                         *)
Work == [pc: {"idle", "run", "moved", "orphan"}, db: DB \cup {NoDb}, sha: Sha,
         prev: Saved]
Idle == [pc |-> "idle", db |-> NoDb, sha |-> NoSha,
         prev |-> [status |-> "DISABLED", sha |-> NoSha]]

NoSettings == [enabled |-> TRUE, mode |-> "physical", host |-> NoHost, at |-> FALSE,
               vhost |-> NoHost]
NoProbe == [on |-> FALSE, snap |-> NoSettings]
Prober  == {"scheduler", "panel"}

TypeOK ==
  /\ settings \in Settings /\ serving \in BOOLEAN /\ token \in BOOLEAN
  /\ job \in {"none", "running", "success", "failed"} /\ due \in BOOLEAN
  /\ probe \in [Prober -> [on: BOOLEAN, snap: Settings]]
  /\ script \in Script
  /\ version \in [DB -> Version] /\ locked \subseteq DB
  /\ row \in [DB -> Row] /\ file \in [DB -> Version \cup {0}]
  /\ import \in Import /\ saved \in [DB -> Saved]
  /\ work \in [Slot -> Work]
  /\ promo \in [on: BOOLEAN, todo: SUBSET DB]
  /\ prod \in [DB -> Version \cup {0}] /\ role \in {"standby", "primary"}
  /\ answered \subseteq Hosts /\ doubt \subseteq DB
  /\ used \in 0 .. MaxRequests /\ faultsLeft \in 0 .. MaxFaults

UseFault(kind) == kind \in Faults /\ faultsLeft > 0 /\ faultsLeft' = faultsLeft - 1
NoFault        == UNCHANGED faultsLeft
Asked          == used < MaxRequests /\ used' = used + 1

(***************************************************************************)
(* Settings and the ssh test                                               *)
(***************************************************************************)
(* publicHaSyncSettings. *)
SshValidated(s) == s.at /\ s.vhost = s.host

(* Mutant: the validation is carried over to the new host. *)
NormalizeHaSyncSettings_Keep(b) ==
  [enabled |-> b.enabled, mode |-> b.mode, host |-> b.host, at |-> settings.at,
   vhost |-> b.host]

(* The validation is kept only for the host it was made for. *)
NormalizeHaSyncSettings(b) ==
  [enabled |-> b.enabled, mode |-> b.mode, host |-> b.host,
   at |-> settings.at /\ settings.vhost = b.host, vhost |-> settings.vhost]

WriteHaSyncSettings(b) ==
  /\ Asked
  /\ serving
  /\ settings' = NormalizeHaSyncSettings(b)
  /\ UNCHANGED <<serving, token, job, due, probe, answered, script, primary, standby, doubt,
                 faultsLeft, catalog>>

(* testHaSyncSsh up to its await. *)
StartProbe(p, b) ==
  probe' = [probe EXCEPT ![p] = [on |-> TRUE, snap |-> NormalizeHaSyncSettings(b)]]

PanelTestsSsh(b) ==
  /\ Asked
  /\ serving /\ ~probe["panel"].on
  /\ StartProbe("panel", b)
  /\ UNCHANGED <<settings, serving, token, job, due, answered, script, primary, standby,
                 doubt, faultsLeft, catalog>>

(* What testHaSyncSsh writes: the settings it read before its await. *)
Validated(p) == [probe[p].snap EXCEPT !.at = TRUE, !.vhost = probe[p].snap.host]

ProbeEnds(p) == probe' = [probe EXCEPT ![p] = NoProbe]

PanelProbeAnswers ==
  /\ probe["panel"].on
  /\ settings' = Validated("panel")
  /\ answered' = answered \cup {Validated("panel").host}
  /\ ProbeEnds("panel")
  /\ UNCHANGED <<serving, token, job, due, script, primary, standby, doubt, used, faultsLeft,
                 catalog>>

ProbeFails(p) ==
  /\ probe[p].on
  /\ UseFault("ssh")
  /\ ProbeEnds(p)
  /\ UNCHANGED <<settings, serving, token, job, due, answered, script, primary, standby,
                 doubt, used, catalog>>

(***************************************************************************)
(* The job and its scheduler                                               *)
(***************************************************************************)
(* startHaSync after its checks.  The job is registered before the token   *)
(* is looked up; without one the job stays running and no script runs.     *)
StartHaSync(s) ==
  /\ job' = "running"
  /\ script' = IF token THEN [NoScript EXCEPT !.pc = "check", !.mode = s.mode, !.host = s.host]
               ELSE script

ShouldRunAutoHaSync(s) ==
  s.enabled /\ SshValidated(s) /\ serving /\ job # "running" /\ due

(* One tick: settings that are not validated are tested first.  An ssh     *)
(* test in progress keeps further ticks off (haSyncSchedulerBusy).         *)
SchedulerTick ==
  /\ ~probe["scheduler"].on
  /\ settings.enabled /\ settings.host # NoHost /\ serving
  /\ IF SshValidated(settings)
     THEN /\ ShouldRunAutoHaSync(settings)
          /\ StartHaSync(settings)
          /\ due' = FALSE
          /\ UNCHANGED probe
     ELSE /\ StartProbe("scheduler", settings)
          /\ UNCHANGED <<job, due, script>>
  /\ UNCHANGED <<settings, serving, token, answered, primary, standby, doubt, used, faultsLeft,
                 catalog>>

SchedulerProbeAnswers ==
  LET s == Validated("scheduler") IN
  /\ probe["scheduler"].on
  /\ settings' = s
  /\ answered' = answered \cup {s.host}
  /\ ProbeEnds("scheduler")
  /\ IF ShouldRunAutoHaSync(s)
     THEN StartHaSync(s) /\ due' = FALSE
     ELSE UNCHANGED <<job, due, script>>
  /\ UNCHANGED <<serving, token, primary, standby, doubt, used, faultsLeft, catalog>>

(* POST /api/ha-sync/run; a running job is returned as it is. *)
RunHaSync ==
  /\ Asked
  /\ serving /\ settings.enabled /\ SshValidated(settings) /\ job # "running"
  /\ StartHaSync(settings)
  /\ due' = IF token THEN FALSE ELSE due
  /\ UNCHANGED <<settings, serving, token, probe, answered, primary, standby, doubt, faultsLeft,
                 catalog>>

(* Mutant: a deferred sync is not closed. *)
ClosedStatus_Deferred == IF script.pc = "exit0" THEN "success"
                         ELSE IF script.pc = "exit1" THEN "failed" ELSE "running"

ClosedStatus == IF script.pc \in {"exit0", "exit12"} THEN "success" ELSE "failed"

(* child.on('close'): exit code 12 is a deferred sync and a success. *)
SyncCloses ==
  /\ script.pc \in Exit
  /\ job' = ClosedStatus
  /\ due' = FALSE
  /\ script' = NoScript
  /\ UNCHANGED <<settings, serving, token, probe, answered, primary, standby, doubt, used,
                 faultsLeft, catalog>>

IntervalPasses ==
  /\ ~due
  /\ due' = TRUE
  /\ UNCHANGED <<settings, serving, token, job, probe, answered, script, primary, standby,
                 doubt, used, faultsLeft, catalog>>

(***************************************************************************)
(* ha-sync-to-standby.sh                                                   *)
(***************************************************************************)
Goto(pc)    == script' = [script EXCEPT !.pc = pc]
ScriptFails == UseFault("net") /\ Goto("exit1")

(* flock, primary_backup_running, the export of the catalogue and the      *)
(* first ssh command.  A host that is not the standby fails there.         *)
ScriptChecks ==
  /\ script.pc = "check"
  /\ \/ script.host = Standby /\ NoFault /\ Goto("list")
     \/ /\ script.host = Standby
        /\ UseFault("operation")
        /\ \E d \in DB : script' = [script EXCEPT !.pc = "list", !.dump = {d}]
     \/ UseFault("backup") /\ Goto("exit12")
     \/ script.host # Standby /\ NoFault /\ Goto("exit1")
     \/ ScriptFails
  /\ UNCHANGED <<service, primary, standby, doubt, used, catalog>>

(* The newest validated backup of each alias, and the copy of the backups  *)
(* and of the dump.                                                        *)
ScriptLists ==
  /\ script.pc = "list"
  /\ \/ /\ NoFault
        /\ script' = [script EXCEPT !.list = version, !.todo = DB,
             !.pc = IF script.mode = "physical" THEN "import" ELSE "ready"]
     \/ ScriptFails
  /\ UNCHANGED <<service, primary, standby, doubt, used, catalog>>

ListSha(d) == [mode |-> script.mode, ver |-> script.list[d]]

(* alias, READY and checksum are looked for one by one in the status of    *)
(* all databases; a checksum belongs to one database, READY to any.        *)
StandbyBackupReady(d) ==
  /\ row[d].status # "ABSENT"
  /\ \E e \in DB : row[e].status = "READY"
  /\ row[d].sha = ListSha(d)

(* A status that cannot be read counts as not ready. *)
ScriptAsksReady ==
  /\ script.pc = "ready"
  /\ \/ /\ NoFault
        /\ script' = [script EXCEPT !.pc = "import", !.skip = {d \in DB : StandbyBackupReady(d)}]
     \/ UseFault("net") /\ Goto("import")
  /\ UNCHANGED <<service, primary, standby, doubt, used, catalog>>

(* The rows of the primary as the dump has them: no operation of a         *)
(* database leaves them other than PENDING, or MAINTENANCE while it lasts. *)
Dumped(d) == IF d \in import.dump
             THEN [status |-> "MAINTENANCE", sha |-> NoSha, lock |-> Other]
             ELSE [status |-> "PENDING", sha |-> NoSha, lock |-> Free]

(* tronfire-catalog-import.sh begins: the standby columns are copied.      *)
(* Whether that works is ignored; without it there is the copy a failed    *)
(* import left, or none.                                                   *)
ScriptImports ==
  /\ script.pc = "import" /\ import.pc = "none"
  /\ \/ NoFault /\ saved' = [d \in DB |-> [status |-> row[d].status, sha |-> row[d].sha]]
     \/ UseFault("net") /\ saved' \in {saved, NoTable}
  /\ import' = [pc |-> "drop", dump |-> script.dump]
  /\ Goto("importing")
  /\ UNCHANGED <<service, primary, standby, doubt, used>>

(* pg_restore --clean without a transaction: the table goes, and comes     *)
(* back with the rows of the primary.                                      *)
ImportDrops ==
  /\ import.pc = "drop"
  /\ row' = [d \in DB |-> [status |-> "ABSENT", sha |-> NoSha, lock |-> Free]]
  /\ import' = [import EXCEPT !.pc = "load"]
  /\ UNCHANGED <<service, script, primary, file, work, promo, prod, role, saved, doubt, used,
                 faultsLeft>>

ImportLoads ==
  /\ import.pc = "load"
  /\ row' = [d \in DB |-> Dumped(d)]
  /\ import' = [import EXCEPT !.pc = "keep"]
  /\ UNCHANGED <<service, script, primary, file, work, promo, prod, role, saved, doubt, used,
                 faultsLeft>>

(* The standby columns of a row that was in use, and no others. *)
WrittenBack(d) ==
  IF saved[d].status \in {"ABSENT", "DISABLED"} THEN row[d]
  ELSE [row[d] EXCEPT !.status = saved[d].status, !.sha = saved[d].sha]

ImportEnds(pc) ==
  /\ import' = NoImport
  /\ script' = IF script.pc = "importing" THEN [script EXCEPT !.pc = pc] ELSE script

ImportWritesBack ==
  /\ import.pc = "keep"
  /\ row' = [d \in DB |-> WrittenBack(d)]
  /\ saved' = NoTable
  /\ ImportEnds("next")
  /\ UNCHANGED <<service, primary, file, work, promo, prod, role, doubt, used, faultsLeft>>

(* set -e: the rows and the copy stay as they are. *)
ImportFails ==
  /\ import.pc # "none"
  /\ UseFault("net")
  /\ ImportEnds("exit1")
  /\ UNCHANGED <<service, primary, standby, saved, doubt, used>>

(* Mutant: a database that is in backup mode is not locked. *)
PhysicalLockDb_NoRetry(d) == IF d \in locked THEN Goto("exit1") /\ UNCHANGED locked
                             ELSE /\ locked' = locked \cup {d}
                                  /\ script' = [script EXCEPT !.pc = "copy", !.cur = d,
                                       !.list = [script.list EXCEPT ![d] = version[d]]]

(* physical_lock_db: a database that an earlier sync left in backup mode   *)
(* is unlocked and locked again.                                           *)
PhysicalLockDb(d) ==
  /\ locked' = locked \cup {d}
  /\ script' = [script EXCEPT !.pc = "copy", !.cur = d,
                              !.list = [script.list EXCEPT ![d] = version[d]]]

ScriptLocksDb(d) ==
  /\ script.pc = "next" /\ script.mode = "physical" /\ d \in script.todo
  /\ \/ NoFault /\ PhysicalLockDb(d)
     \/ UseFault("nbackup") /\ Goto("exit1") /\ locked' = locked \ {d}
  /\ UNCHANGED <<service, version, standby, doubt, used, catalog>>

(* rsync and physical_unlock_db; both failures end the script. *)
ScriptCopies ==
  /\ script.pc = "copy"
  /\ \/ NoFault /\ locked' = locked \ {script.cur} /\ Goto("post")
     \/ ScriptFails /\ locked' = locked \ {script.cur}
     \/ UseFault("nbackup") /\ Goto("exit1") /\ UNCHANGED locked
  /\ UNCHANGED <<service, version, standby, doubt, used, catalog>>

(* The database whose restore is asked for next. *)
Posting(d) ==
  \/ script.pc = "post" /\ d = script.cur
  \/ /\ script.pc = "next" /\ script.mode = "backup_restore"
     /\ d \in script.todo \ script.skip

Done(d) == [script EXCEPT !.pc = "next", !.todo = script.todo \ {d}, !.cur = NoDb]

ScriptEnds ==
  /\ script.pc = "next" /\ script.todo = {}
  /\ Goto("exit0")
  /\ UNCHANGED <<service, primary, standby, doubt, used, faultsLeft, catalog>>

(***************************************************************************)
(* TronFire on the standby                                                 *)
(***************************************************************************)
Live(s)     == work[s].pc \in {"run", "moved"}
LockedOp(d) == row[d].lock # Free

(* The request is refused, answered without work, or taken. *)
RestoreRefused(d) ==
  /\ Posting(d)
  /\ (role = "primary" /\ NoFault) \/ UseFault("net")
  /\ Goto("exit1")
  /\ UNCHANGED <<service, primary, standby, doubt, used, catalog>>

RestoreSkipped(d) ==
  /\ Posting(d)
  /\ role = "standby"
  /\ LockedOp(d) \/ row[d].status = "MAINTENANCE"
  /\ script' = Done(d)
  /\ UNCHANGED <<service, primary, standby, doubt, used, faultsLeft, catalog>>

RestoreBegins(d, s) ==
  /\ Posting(d)
  /\ role = "standby" /\ ~LockedOp(d) /\ row[d].status # "MAINTENANCE"
  /\ work[s].pc = "idle"
  /\ work' = [work EXCEPT ![s] = [pc |-> "run", db |-> d, sha |-> ListSha(d),
       prev |-> [status |-> row[d].status, sha |-> row[d].sha]]]
  /\ row' = [row EXCEPT ![d].status = "RESTORING", ![d].lock = s]
  /\ script' = [script EXCEPT !.pc = "wait", !.cur = d, !.slot = s]
  /\ UNCHANGED <<service, primary, file, promo, prod, role, doubt, used, faultsLeft, catalog>>

(* An import holds a copy of the row that says READY. *)
Kept(d)     == saved[d].status = "READY"

(* The row still says what the restore made of it. *)
Restoring(s) == row[work[s].db].lock = s /\ row[work[s].db].status = "RESTORING"

Doubt(d, wrong) == doubt' = IF wrong THEN doubt \cup {d} ELSE doubt

(* mv of the restored and checked file over the standby file. *)
RestoreMoves(s) ==
  /\ work[s].pc \in {"run", "orphan"}
  /\ file' = [file EXCEPT ![work[s].db] = work[s].sha.ver]
  /\ work' = [work EXCEPT ![s] = IF work[s].pc = "run" THEN [work[s] EXCEPT !.pc = "moved"]
                                 ELSE Idle]
  /\ Doubt(work[s].db, ~Restoring(s) \/ Kept(work[s].db))
  /\ UNCHANGED <<service, script, primary, row, promo, prod, role, used, faultsLeft, catalog>>

(* releaseWith: nothing is written when the lock is no longer this one. *)
Holds(s) == row[work[s].db].lock = s

ReleaseWith(s, status, sha) ==
  row' = IF Holds(s)
         THEN [row EXCEPT ![work[s].db] = [status |-> status, sha |-> sha, lock |-> Free]]
         ELSE row

Answer(s, ok) ==
  script' = IF script.pc = "wait" /\ script.slot = s
            THEN IF ok THEN Done(work[s].db) ELSE [script EXCEPT !.pc = "exit1"]
            ELSE script

WorkEnds(s) == work' = [work EXCEPT ![s] = Idle]

RestoreSucceeds(s) ==
  /\ work[s].pc = "moved"
  /\ ReleaseWith(s, "READY", work[s].sha)
  /\ Answer(s, TRUE)
  /\ WorkEnds(s)
  /\ doubt' = IF Holds(s) /\ file[work[s].db] = work[s].sha.ver /\ ~Kept(work[s].db)
              THEN doubt \ {work[s].db} ELSE doubt
  /\ UNCHANGED <<service, primary, file, promo, prod, role, used, faultsLeft, catalog>>

(* Mutant: a failed restore restores a row that was not READY. *)
FailureData_Always(s) == [status |-> "READY", sha |-> work[s].prev.sha]

FailureData(s) ==
  IF work[s].prev.status = "READY" THEN work[s].prev
  ELSE [status |-> "INVALID", sha |-> row[work[s].db].sha]

(* A row that was READY becomes READY again, also when the failure came    *)
(* after the file was replaced.                                            *)
RestoreFails(s) ==
  /\ Live(s)
  /\ UseFault("script")
  /\ ReleaseWith(s, FailureData(s).status, FailureData(s).sha)
  /\ Answer(s, FALSE)
  /\ WorkEnds(s)
  /\ Doubt(work[s].db, Holds(s) /\ work[s].pc = "moved" /\ work[s].prev.status = "READY")
  /\ UNCHANGED <<service, primary, file, promo, prod, role, used, catalog>>

RestoreFailsUnnoticed(s) ==
  /\ work[s].pc = "run"
  /\ UseFault("hidden")
  /\ ReleaseWith(s, "READY", work[s].sha)
  /\ Answer(s, TRUE)
  /\ WorkEnds(s)
  /\ Doubt(work[s].db, Holds(s))
  /\ UNCHANGED <<service, primary, file, promo, prod, role, used, catalog>>

(* POST /api/ha/standby/validate, for a database whose restore is skipped: *)
(* the file is there and gstat can read it.                                *)
ScriptValidates(d) ==
  LET ok == file[d] # 0 IN
  /\ script.pc = "next" /\ script.mode = "backup_restore"
  /\ d \in script.todo \cap script.skip
  /\ \/ /\ (ok /\ NoFault) \/ UseFault("hidden")
        /\ row' = [row EXCEPT ![d].status = "READY", ![d].sha = ListSha(d)]
        /\ script' = Done(d)
        /\ Doubt(d, row[d].status # "READY" \/ row[d].sha # ListSha(d))
     \/ /\ (~ok /\ NoFault) \/ UseFault("script")
        /\ row' = [row EXCEPT ![d].status = "INVALID"]
        /\ Goto("exit1")
        /\ UNCHANGED doubt
  /\ UNCHANGED <<service, primary, file, work, promo, prod, role, used, catalog>>

(* An operation lock lasts six hours and a restore at most four, so that   *)
(* only a lock without its request expires.                                *)
LockExpires(d) ==
  /\ \/ row[d].lock = Other
     \/ row[d].lock \in Slot /\ ~(Live(row[d].lock) /\ work[row[d].lock].db = d)
  /\ row' = [row EXCEPT ![d].lock = Free]
  /\ UNCHANGED <<service, script, primary, file, work, promo, prod, role, doubt, used,
                 faultsLeft, catalog>>

(***************************************************************************)
(* POST /api/ha/standby/promote.  It takes no operation lock.              *)
(***************************************************************************)
(* Mutant: a database without a complete standby is let through. *)
NotReady_Restoring(d) == row[d].status \notin {"READY", "RESTORING", "PENDING"}

NotReady(d) == row[d].status # "READY" \/ LockedOp(d)

(* The databases are those the catalogue has at this moment. *)
PromoteChecks ==
  LET dbs == {d \in DB : row[d].status # "ABSENT"} IN
  /\ Asked
  /\ role = "standby" /\ ~promo.on
  /\ Overlap \/ script.pc = "none"
  /\ \A d \in dbs : ~NotReady(d)
  /\ promo' = [on |-> TRUE, todo |-> dbs]
  /\ UNCHANGED <<service, script, primary, row, file, work, prod, role, doubt, faultsLeft, catalog>>

PromoteStops == promo' = [on |-> FALSE, todo |-> {}]

(* Both moves, gfix and gstat of one database, and its row.  The loop ends *)
(* when the script fails after the moves or there is no row.               *)
PromoteMoves(d) ==
  /\ promo.on /\ d \in promo.todo
  /\ file[d] # 0
  /\ prod' = [prod EXCEPT ![d] = file[d]]
  /\ file' = [file EXCEPT ![d] = 0]
  /\ \/ /\ NoFault /\ row[d].status # "ABSENT"
        /\ row' = [row EXCEPT ![d].status = "PROMOTED"]
        /\ promo' = [promo EXCEPT !.todo = promo.todo \ {d}]
        /\ Doubt(d, NotReady(d) \/ Kept(d))
     \/ /\ (row[d].status = "ABSENT" /\ NoFault) \/ UseFault("script")
        /\ PromoteStops
        /\ Doubt(d, TRUE)
        /\ UNCHANGED row
  /\ UNCHANGED <<service, script, primary, work, role, used, catalog>>

(* The file is missing, or a script fails before it moves it; unnoticed,   *)
(* the row says PROMOTED.                                                  *)
PromoteFails(d) ==
  /\ promo.on /\ d \in promo.todo
  /\ \/ /\ (file[d] = 0 /\ NoFault) \/ UseFault("script")
        /\ PromoteStops
        /\ UNCHANGED row
     \/ /\ UseFault("hidden")
        /\ IF row[d].status = "ABSENT"
           THEN PromoteStops /\ UNCHANGED row
           ELSE /\ row' = [row EXCEPT ![d].status = "PROMOTED"]
                /\ promo' = [promo EXCEPT !.todo = promo.todo \ {d}]
  /\ UNCHANGED <<service, script, primary, file, work, prod, role, doubt, used, catalog>>

(* The activation that asked for the promotion gives the node its role. *)
PromotionEnds ==
  /\ promo.on /\ promo.todo = {}
  /\ PromoteStops
  /\ role' = "primary"
  /\ UNCHANGED <<service, script, primary, row, file, work, prod, doubt, used, faultsLeft, catalog>>

(***************************************************************************)
(* Stops, and the environment                                              *)
(***************************************************************************)
(* The service of the primary stops with its script and its jobs; a        *)
(* restore it asked for goes on, and an import may.                        *)
ServiceCrashes ==
  /\ UseFault("crash")
  /\ script' = NoScript
  /\ job' = "none"
  /\ probe' = [p \in Prober |-> NoProbe]
  /\ import' \in {import, NoImport}
  /\ UNCHANGED <<settings, serving, token, due, answered, primary, standby, saved, doubt, used>>

(* TronFire on the standby stops.  Its Firebird scripts may go on. *)
StandbyCrashes ==
  /\ UseFault("standby")
  /\ \E alive \in SUBSET {s \in Slot : work[s].pc \in {"run", "orphan"}} :
       work' = [s \in Slot |-> IF s \in alive THEN [work[s] EXCEPT !.pc = "orphan"] ELSE Idle]
  /\ PromoteStops
  /\ script' = IF script.pc = "wait" THEN [script EXCEPT !.pc = "exit1"] ELSE script
  /\ UNCHANGED <<service, primary, row, file, prod, role, doubt, used, catalog>>

(* The guard allows the primary to serve, or no longer does. *)
RoleChanges ==
  /\ UseFault("role")
  /\ serving' = ~serving
  /\ UNCHANGED <<settings, token, job, due, probe, answered, script, primary, standby, doubt,
                 used, catalog>>

(* A newer validated backup, or newer contents. *)
NewVersion(d) ==
  /\ Asked
  /\ version[d] < MaxVersion
  /\ version' = [version EXCEPT ![d] = version[d] + 1]
  /\ UNCHANGED <<service, script, locked, standby, doubt, faultsLeft, catalog>>

-----------------------------------------------------------------------------
Init ==
  /\ \E m \in Mode : settings = [NoSettings EXCEPT !.mode = m, !.host = Standby]
  /\ serving = TRUE /\ token \in Tokens
  /\ job = "none" /\ due = TRUE
  /\ probe = [p \in Prober |-> NoProbe]
  /\ script = NoScript
  /\ version = [d \in DB |-> 1] /\ locked = {}
  /\ row = [d \in DB |-> [status |-> "DISABLED", sha |-> NoSha, lock |-> Free]]
  /\ import = NoImport /\ saved = NoTable
  /\ file = [d \in DB |-> 0]
  /\ work = [s \in Slot |-> Idle]
  /\ promo = [on |-> FALSE, todo |-> {}]
  /\ prod = [d \in DB |-> 0] /\ role = "standby"
  /\ answered = {} /\ doubt = {}
  /\ used = 0 /\ faultsLeft = MaxFaults

ScriptStep ==
  \/ ScriptChecks \/ ScriptLists \/ ScriptAsksReady \/ ScriptImports \/ ScriptCopies
  \/ ScriptEnds \/ SyncCloses
  \/ \E d \in DB : \/ ScriptLocksDb(d) \/ RestoreRefused(d) \/ RestoreSkipped(d)
                   \/ ScriptValidates(d) \/ \E s \in Slot : RestoreBegins(d, s)

ImportStep == ImportDrops \/ ImportLoads \/ ImportWritesBack \/ ImportFails

RestoreStep(s) ==
  \/ RestoreMoves(s) \/ RestoreSucceeds(s) \/ RestoreFails(s) \/ RestoreFailsUnnoticed(s)

PromoteStep ==
  \/ PromotionEnds
  \/ \E d \in DB : PromoteMoves(d) \/ PromoteFails(d)

SchedulerStep == SchedulerTick \/ SchedulerProbeAnswers \/ ProbeFails("scheduler")

Request ==
  \/ \E b \in Bodies : WriteHaSyncSettings(b) \/ PanelTestsSsh(b)
  \/ RunHaSync \/ PromoteChecks
  \/ \E d \in DB : NewVersion(d)

Next ==
  \/ Request
  \/ PanelProbeAnswers \/ ProbeFails("panel")
  \/ SchedulerStep \/ IntervalPasses
  \/ ScriptStep \/ ImportStep \/ PromoteStep
  \/ \E s \in Slot : RestoreStep(s)
  \/ \E d \in DB : LockExpires(d)
  \/ ServiceCrashes \/ StandbyCrashes \/ RoleChanges

Spec == Init /\ [][Next]_vars

(* The scheduler ticks, intervals pass, ssh tests answer, scripts and      *)
(* restores go on, locks expire.  Requests, promotions and faults are not  *)
(* owed.                                                                   *)
Fairness ==
  /\ WF_vars(SchedulerStep) /\ WF_vars(IntervalPasses) /\ WF_vars(PanelProbeAnswers)
  /\ WF_vars(ScriptStep) /\ WF_vars(ImportStep)
  /\ \A s \in Slot : WF_vars(RestoreStep(s))
  /\ \A d \in DB : WF_vars(LockExpires(d))

FairSpec == Spec /\ Fairness

(***************************************************************************)
(* Properties                                                              *)
(***************************************************************************)
(* What the row of a database offers for promotion. *)
Offered == [d \in DB |-> IF row[d].status = "READY" THEN row[d].sha.ver ELSE 0]

(* Restore, validation, import and promotion of the standby keep the       *)
(* promise of StandbyDatabase.  A database is out of it from one of these  *)
(* steps until a restore of it ends READY with its version in the file: a  *)
(* restore that is no longer the one of the row replaces the file; a       *)
(* promotion moves the file although the row is no longer ready; either of *)
(* them happens while an import holds a READY copy of the row; a restore   *)
(* fails after it had moved the file, or unnoticed; a promotion ends after *)
(* it had moved the file; a validation makes a row READY that was not.     *)
Promise == INSTANCE StandbyDatabase WITH offered <- Offered, trusted <- DB \ doubt
KeepsPromise == Promise!Spec

(* A row of the standby that is READY names the version that is in the     *)
(* standby file, with the same exceptions: imports that fail half-way or   *)
(* outlive their sync, crashes of either node, expired locks and restores  *)
(* that fail before the move never break it.                               *)
ReadyIsFile == \A d \in DB \ doubt : row[d].status = "READY" => row[d].sha.ver = file[d]

(* The settings count as validated only for a host that has answered the   *)
(* ssh test, however tests and changes of the settings overlap.            *)
ValidatedHostAnswered == SshValidated(settings) => settings.host \in answered

(* As long as the primary may serve, with sync enabled for the standby and *)
(* the token configured, the standby sooner or later has the newest        *)
(* version of every database; in mode physical its file has it too,        *)
(* whatever the row said before.  In mode backup_restore a row that names  *)
(* a checksum without a file is never restored (SkippedWasReady).          *)
Enabled    == settings.enabled /\ settings.host = Standby /\ serving /\ role = "standby"
Unhindered == ~promo.on /\ \A d \in DB : row[d].status # "MAINTENANCE"
Physical   == settings.mode = "physical"
HasFile(d) == row[d].sha.ver # 0 => file[d] # 0
CatchesUp  ==
  token /\ []Unhindered /\ <>[](Enabled /\ (Physical \/ \A d \in DB : HasFile(d)))
  => \A d \in DB : []<>(/\ row[d].status = "READY" /\ row[d].sha.ver = version[d]
                        /\ Physical => file[d] = version[d])

(* A database that a sync which was cut off left in backup mode leaves it  *)
(* again, as long as syncs in mode physical go on.                         *)
BackupModeEnds ==
  token /\ <>[](Enabled /\ Physical)
  => \A d \in DB : []<>(d \notin locked)

(* A restore is skipped only for a database that was READY with the same   *)
(* checksum (docs/plano-testes-ha-failover.md, phase 3).                   *)
SkippedWasReady ==
  [][ScriptAsksReady => \A d \in script'.skip : row[d].status = "READY"]_vars

(* A promotion that ends has put every database in production              *)
(* (docs/contrato-tronsoftos-tronfire-ha.md:116).                          *)
PromotionComplete == role = "primary" => \A d \in DB : prod[d] # 0
=============================================================================
