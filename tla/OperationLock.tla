--------------------------- MODULE OperationLock ---------------------------
(***************************************************************************)
(* The operation lock of one managed database in TronFire's catalogue, on  *)
(* the node that may write production: the operation* columns and          *)
(* standbyStatus of its row, its backup jobs, and the requests that use    *)
(* them (apps/tronfire/backend/src/server.js, restore-upload-policy.js and *)
(* the automatic backup of apps/tronfire/worker/src/worker.js).            *)
(*                                                                         *)
(* Backend and worker are two Node.js processes that share the catalogue.  *)
(* One query of the catalogue is one step; between two queries of one      *)
(* request every other request may run.  A request is an element of Req    *)
(* and runs once, so it serves as the token that makeToken() gives to the  *)
(* lock it takes.                                                          *)
(***************************************************************************)
EXTENDS Naturals, FiniteSets

CONSTANTS
  Req,          \* requests, each made at most once
  NoReq,        \* the null token
  HaMode,       \* isHaMode(); the node is then the HA primary
  HostMode,     \* FIREBIRD_EXEC_MODE is host: TronSoftOS runs the scripts
  Kinds,        \* kinds of request that are made, a subset of Kind
  Faults,       \* kinds of fault that happen, a subset of FaultKind
  MaxFaults     \* bound: number of faults in a behaviour

(* PREPARE, RELEASE, RESTORE: POST /api/restores/prepare, /release (or a   *)
(* failed upload) and /from-upload; MAINTENANCE: POST                      *)
(* /api/databases/:id/auto-maintenance or /disable-indexes; BACKUP: POST   *)
(* /api/backups/:id/run; AUTO_BACKUP: one turn of runAutomaticBackups.     *)
Kind        == {"PREPARE", "RELEASE", "RESTORE", "MAINTENANCE", "BACKUP", "AUTO_BACKUP"}
Exclusive   == {"RESTORE", "MAINTENANCE"}
Backups     == {"BACKUP", "AUTO_BACKUP"}
(* What a restarted backend or worker does first. *)
StartupKind == {"STARTUP", "WORKER_STARTUP"}
WorkerKind  == {"AUTO_BACKUP", "WORKER_STARTUP"}

(* crash: the backend or worker process stops; ps: listing the processes   *)
(* of Firebird's tools fails; script: a Firebird script fails; query: a    *)
(* query of the catalogue fails.                                           *)
FaultKind   == {"crash", "ps", "script", "query"}

ASSUME NoReqAssumption == NoReq \notin Req

ASSUME KindAssumption == /\ Kinds \subseteq Kind /\ Faults \subseteq FaultKind
                         /\ HaMode \in BOOLEAN /\ HostMode \in BOOLEAN

ASSUME FaultBound == MaxFaults \in Nat

VARIABLES
  op,          \* the operation* columns of the row
  standby,     \* standbyStatus of the row
  req,         \* per request: where it is, and what it read before
  job,         \* per request: status of the backupJob row it made
  age,         \* per request: age of that row
  file,        \* per request: the backup file of the job
  script,      \* per request: phase of the Firebird script it started
  faultsLeft,  \* faults that may still happen
  stale,       \* history: requests whose checks do not hold any more
  raced        \* history: one of them has acted on its checks

row  == <<op, standby>>
jobs == <<job, age, file>>
vars == <<row, req, jobs, script, faultsLeft, stale, raced>>

(***************************************************************************)
(* Types                                                                   *)
(***************************************************************************)
Token     == Req \cup {NoReq}
(* prepared: operationMessage is restorePreparationMessage; expired:       *)
(* operationExpiresAt has passed.                                          *)
Operation == [running: BOOLEAN, kind: {"NONE", "RESTORE", "MAINTENANCE"},
              token: Token, prepared: BOOLEAN, expired: BOOLEAN]
Standby   == {"DISABLED", "PENDING", "MAINTENANCE", "PROMOTED"}
JobStatus == {"NONE", "RUNNING", "SUCCESS", "FAILED"}
(* aged: over the worker's ORPHANED_BACKUP_MIN_AGE (5 min); stale: over    *)
(* runningBackupTtl (60 min).                                              *)
Age       == {"new", "aged", "stale"}
(* tool: the script runs gbak, gzip, nbackup or gfix; files: it runs cp,   *)
(* mv or gstat on the database, which backupToolProcesses does not see;    *)
(* post: the backup is written, its size, checksum and manifest follow.    *)
Phase     == {"none", "files", "tool", "post"}
Pc        == {"new", "read", "clear", "current", "claim", "oldJobs", "ps", "mark",
              "running", "take", "createJob", "start", "work", "finish", "relRead",
              "relWrite", "findPrep", "relPrep", "done", "dead"}

(* given: the operationToken of the request body; token: the token of the  *)
(* lock handle; seen: the operation as the request read it; prev:          *)
(* previousDatabase.standbyStatus; pass: the limit of its search for old   *)
(* jobs; old: jobs about to be marked FAILED; ok: no script failed, as far *)
(* as the handler knows; won: its updateMany matched the reservation.      *)
Request   == [pc: Pc, kind: Kind \cup StartupKind, given: Token, token: Token,
              seen: {"idle", "active", "expired"}, prev: Standby,
              pass: {"orphaned", "stale"}, old: SUBSET Req, ok: BOOLEAN, won: BOOLEAN]

IdleOp     == [running |-> FALSE, kind |-> "NONE", token |-> NoReq,
               prepared |-> FALSE, expired |-> FALSE]
NewRequest == [pc |-> "new", kind |-> "BACKUP", given |-> NoReq, token |-> NoReq,
               seen |-> "idle", prev |-> "DISABLED", pass |-> "stale", old |-> {},
               ok |-> TRUE, won |-> FALSE]

TypeOK ==
  /\ op \in Operation
  /\ standby \in Standby
  /\ req \in [Req -> Request]
  /\ job \in [Req -> JobStatus]
  /\ age \in [Req -> Age]
  /\ file \in [Req -> {"none", "kept", "quarantined"}]
  /\ script \in [Req -> Phase]
  /\ faultsLeft \in Nat /\ stale \subseteq Req /\ raced \in BOOLEAN

(***************************************************************************)
(* Shared parts of the steps                                               *)
(***************************************************************************)
At(r, pc)      == req[r].pc = pc
(* r acts on its checks, and the checks of the requests in "of" no longer  *)
(* hold after its step.                                                    *)
Acts(r, of)    == raced' = (raced \/ r \in stale) /\ stale' = stale \cup (of \ {r})
Goto(r, pc)    == req' = [req EXCEPT ![r] = [@ EXCEPT !.pc = pc]]
UseFault(kind) == kind \in Faults /\ faultsLeft > 0 /\ faultsLeft' = faultsLeft - 1

(* Mutant: a lock does not end with its time to live. *)
DatabaseOperationActive_NoTtl == op.running

DatabaseOperationActive == op.running /\ ~op.expired

Seen == CASE DatabaseOperationActive -> "active"
          [] op.running /\ op.expired -> "expired"
          [] OTHER -> "idle"

(* preparationWhere: the row still holds the reservation of this token. *)
PreparationWhere(token) ==
  op.running /\ op.kind = "RESTORE" /\ op.token = token /\ op.prepared

(* What a request that has read the row relies on until it acts on it. *)
SawIdle(r) ==
  \/ At(r, "createJob") /\ req[r].kind \in Backups
  \/ /\ req[r].pc \in {"oldJobs", "ps", "mark", "running", "take"}
     /\ req[r].kind \notin StartupKind
     /\ req[r].kind = "AUTO_BACKUP" => req[r].seen = "idle"

SawExpired(r) ==
  \/ At(r, "clear")
  \/ /\ req[r].pc \in {"oldJobs", "ps", "mark", "running"}
     /\ req[r].kind = "AUTO_BACKUP" /\ req[r].seen = "expired"

(***************************************************************************)
(* A request begins                                                        *)
(***************************************************************************)
(* The reservations whose token the panel got from /api/restores/prepare. *)
Reservation(p) == req[p].kind = "PREPARE" /\ req[p].pc = "done" /\ req[p].token = p

(* backupRunning keeps runAutomaticBackups from running twice in a worker. *)
BackupRunning ==
  \E s \in Req : req[s].kind = "AUTO_BACKUP" /\ req[s].pc \notin {"new", "done", "dead"}

(* A restarted backend listens only after its search for old jobs. *)
Listening ==
  \A s \in Req : req[s].kind = "STARTUP" => req[s].pc \in {"done", "dead"}

Begin(r, kind, given) ==
  /\ At(r, "new") /\ kind \in Kinds
  /\ kind \in WorkerKind \/ Listening
  /\ kind = "AUTO_BACKUP" => ~BackupRunning
  /\ \/ given = NoReq /\ kind # "RELEASE"
     \/ given \in Req /\ Reservation(given) /\ kind \in {"RESTORE", "RELEASE"}
  /\ req' = [req EXCEPT ![r] = [NewRequest EXCEPT
       !.pc = IF kind = "RELEASE" THEN "findPrep" ELSE "read",
       !.kind = kind, !.given = given,
       !.pass = IF kind = "AUTO_BACKUP" THEN "orphaned" ELSE "stale"]]
  /\ UNCHANGED <<row, jobs, script, faultsLeft, stale, raced>>

(***************************************************************************)
(* The checks: acquireDatabaseOperationLock, replyIfDatabaseOperationActive *)
(* and the worker's runAutomaticBackups and runBackup                      *)
(***************************************************************************)
(* Where a request goes once the row it read shows no active operation. *)
NextCheck(kind) == IF kind \in Backups THEN "createJob" ELSE "oldJobs"

(* The row is read, and what it shows is kept in the request. *)
Read(r, pc) ==
  /\ At(r, "read")
  /\ req' = [req EXCEPT ![r] = [@ EXCEPT !.pc = pc, !.seen = Seen, !.prev = standby]]
  /\ UNCHANGED <<row, jobs, script, faultsLeft, stale, raced>>

(* runAutomaticBackups uses the row it read much later, in runBackup. *)
ReadForLater(r) == req[r].kind = "AUTO_BACKUP" /\ Read(r, "oldJobs")

ReadIdle(r) ==
  req[r].kind # "AUTO_BACKUP" /\ Seen = "idle" /\ Read(r, NextCheck(req[r].kind))

ReadExpired(r) ==
  req[r].kind # "AUTO_BACKUP" /\ Seen = "expired" /\ Read(r, "clear")

ReadActive(r) ==
  /\ req[r].kind # "AUTO_BACKUP" /\ Seen = "active"
  /\ Read(r, IF req[r].kind = "BACKUP" THEN "done" ELSE "current")

(* Mutant: an operationKind that is none of the kinds is left behind. *)
ClearExpired_KindIdle(r) ==
  /\ At(r, "clear")
  /\ op' = [IdleOp EXCEPT !.kind = "IDLE"]
  /\ Goto(r, NextCheck(req[r].kind)) /\ Acts(r, {})
  /\ UNCHANGED <<standby, jobs, script, faultsLeft>>

(* clearExpiredDatabaseOperation updates the row whatever it holds now. *)
ClearExpired(r) ==
  /\ At(r, "clear")
  /\ op' = IdleOp
  /\ Goto(r, NextCheck(req[r].kind)) /\ Acts(r, {})
  /\ UNCHANGED <<standby, jobs, script, faultsLeft>>

(* The row is read again: a restore that brings the token of a reservation *)
(* goes on to claim it, any other request is refused with 409.             *)
ReadCurrent(r) ==
  LET matches == /\ req[r].kind = "RESTORE" /\ req[r].given # NoReq
                 /\ op.token = req[r].given /\ op.kind = "RESTORE"
  IN  /\ At(r, "current")
      /\ req' = [req EXCEPT ![r] = [@ EXCEPT
           !.pc = IF matches THEN "claim" ELSE "done", !.prev = standby]]
      /\ UNCHANGED <<row, jobs, script, faultsLeft, stale, raced>>

(* Mutant: the reservation stays claimable while its restore runs. *)
ClaimPrepared_KeepsMessage(r) ==
  /\ At(r, "claim") /\ PreparationWhere(req[r].given)
  /\ op' = [op EXCEPT !.expired = FALSE]
  /\ req' = [req EXCEPT ![r] = [@ EXCEPT
       !.pc = "start", !.token = req[r].given, !.won = TRUE]]
  /\ stale' = stale \cup {s \in Req : SawExpired(s)}
  /\ UNCHANGED <<standby, jobs, script, faultsLeft, raced>>

(* claimPreparedRestore: one conditional update. *)
ClaimPrepared(r) ==
  /\ At(r, "claim") /\ PreparationWhere(req[r].given)
  /\ op' = [op EXCEPT !.prepared = FALSE, !.expired = FALSE]
  /\ req' = [req EXCEPT ![r] = [@ EXCEPT
       !.pc = "start", !.token = req[r].given, !.won = TRUE]]
  /\ stale' = stale \cup {s \in Req : SawExpired(s)}
  /\ UNCHANGED <<standby, jobs, script, faultsLeft, raced>>

ClaimRefused(r) ==
  /\ At(r, "claim") /\ ~PreparationWhere(req[r].given)
  /\ Goto(r, "done")
  /\ UNCHANGED <<row, jobs, script, faultsLeft, stale, raced>>

(***************************************************************************)
(* markStaleRunningBackupsFailed and markOrphanedRunningBackupsFailed      *)
(***************************************************************************)
(* The worker searches twice, with its short limit and with the long one.  *)
OldJobs(pass) ==
  {j \in Req : job[j] = "RUNNING" /\
     age[j] \in (IF pass = "orphaned" THEN {"aged", "stale"} ELSE {"stale"})}

(* One search of r is over. *)
EndPass(r) ==
  req' = [req EXCEPT ![r] = [@ EXCEPT !.old = {}, !.pass = "stale",
    !.pc = CASE req[r].pass = "orphaned" -> "oldJobs"
             [] req[r].pass = "stale" /\ req[r].kind \in StartupKind -> "done"
             [] OTHER -> "running"]]

ReadOldJobs(r) ==
  /\ At(r, "oldJobs")
  /\ LET old == OldJobs(req[r].pass) IN
     \/ old = {} /\ EndPass(r)
     \/ old # {} /\ req' = [req EXCEPT ![r] = [@ EXCEPT !.old = old, !.pc = "ps"]]
  /\ UNCHANGED <<row, jobs, script, faultsLeft, stale, raced>>

(* backupToolProcesses finds a tool, of this database or of another. *)
PsFindsTool(r) ==
  /\ At(r, "ps")
  /\ EndPass(r)
  /\ UNCHANGED <<row, jobs, script, faultsLeft, stale, raced>>

PsFindsNone(r) ==
  /\ At(r, "ps")
  /\ \A s \in Req : script[s] # "tool"
  /\ Goto(r, "mark")
  /\ UNCHANGED <<row, jobs, script, faultsLeft, stale, raced>>

(* An error of ps counts as no process. *)
PsFails(r) ==
  /\ At(r, "ps")
  /\ UseFault("ps")
  /\ Goto(r, "mark")
  /\ stale' = stale \cup {r}
  /\ UNCHANGED <<row, jobs, script, raced>>

(* One turn of the loop: the job becomes FAILED whatever it is by now; the *)
(* worker moves its file to quarantine.                                    *)
MarkFailed(r, j) ==
  /\ At(r, "mark") /\ j \in req[r].old
  /\ job' = [job EXCEPT ![j] = "FAILED"]
  /\ file' = [file EXCEPT ![j] = IF @ = "kept" /\ req[r].kind \in WorkerKind
                                 THEN "quarantined" ELSE @]
  /\ \/ req[r].old = {j} /\ EndPass(r)
     \/ req[r].old # {j} /\ req' = [req EXCEPT ![r] = [@ EXCEPT !.old = req[r].old \ {j}]]
  /\ Acts(r, {})
  /\ UNCHANGED <<row, age, script, faultsLeft>>

(***************************************************************************)
(* The last check, and the lock                                            *)
(***************************************************************************)
JobRunning == \E j \in Req : job[j] = "RUNNING"

(* A running backup refuses everybody. *)
FindsRunningBackup(r) ==
  /\ At(r, "running") /\ JobRunning
  /\ Goto(r, "done")
  /\ UNCHANGED <<row, jobs, script, faultsLeft, stale, raced>>

(* Mutant: the worker does not look at the operation of the row. *)
FindsNoBackup_NoOperation(r) ==
  /\ At(r, "running") /\ ~JobRunning
  /\ Goto(r, IF req[r].kind = "AUTO_BACKUP" THEN "createJob" ELSE "take")
  /\ UNCHANGED <<row, jobs, script, faultsLeft, stale, raced>>

(* Without one an operation takes the lock; the worker looks at the        *)
(* operation in the row it read at the start.                              *)
FindsNoBackup(r) ==
  /\ At(r, "running") /\ ~JobRunning
  /\ Goto(r, CASE req[r].kind # "AUTO_BACKUP" -> "take"
               [] req[r].kind = "AUTO_BACKUP" /\ req[r].seen = "idle" -> "createJob"
               [] req[r].kind = "AUTO_BACKUP" /\ req[r].seen = "expired" -> "clear"
               [] OTHER -> "done")
  /\ UNCHANGED <<row, jobs, script, faultsLeft, stale, raced>>

(* The update that takes the lock has no condition. *)
TakeLock(r) ==
  /\ At(r, "take")
  /\ op' = [running |-> TRUE, token |-> r, expired |-> FALSE,
            kind |-> IF req[r].kind = "MAINTENANCE" THEN "MAINTENANCE" ELSE "RESTORE",
            prepared |-> req[r].kind = "PREPARE"]
  /\ standby' = IF HaMode THEN "MAINTENANCE" ELSE standby
  /\ req' = [req EXCEPT ![r] = [@ EXCEPT !.token = r,
       !.pc = CASE req[r].kind = "PREPARE" -> "done"
                [] req[r].kind = "MAINTENANCE" -> "createJob"
                [] OTHER -> "start"]]
  /\ Acts(r, {s \in Req : SawIdle(s) \/ SawExpired(s)})
  /\ UNCHANGED <<jobs, script, faultsLeft>>

(***************************************************************************)
(* The work                                                                *)
(***************************************************************************)
(* The job of a backup, or of a maintenance, and its script.  A request    *)
(* that is about to take the lock has looked for running jobs before.      *)
CreateJob(r) ==
  /\ At(r, "createJob")
  /\ job' = [job EXCEPT ![r] = "RUNNING"]
  /\ script' = [script EXCEPT ![r] = IF req[r].kind = "MAINTENANCE" THEN "files" ELSE "tool"]
  /\ Goto(r, "work") /\ Acts(r, {s \in Req : At(s, "take")})
  /\ UNCHANGED <<row, age, file, faultsLeft>>

(* The backup is not due, or a routine of the worker or its circuit        *)
(* breaker stands in its way.                                              *)
BackupDeferred(r) ==
  /\ At(r, "createJob") /\ req[r].kind = "AUTO_BACKUP"
  /\ Goto(r, "done")
  /\ UNCHANGED <<row, jobs, script, faultsLeft, stale, raced>>

StartRestore(r) ==
  /\ At(r, "start")
  /\ script' = [script EXCEPT ![r] = "tool"]
  /\ Goto(r, "work")
  /\ UNCHANGED <<row, jobs, faultsLeft, stale, raced>>

(* The script of r reads or replaces the files of the database. *)
Touches(r) == script[r] \in {"files", "tool"}

(* A restore or a maintenance goes to and fro between Firebird's tools and *)
(* cp, mv and gstat, also when nobody waits for its script any more.       *)
ScriptGoesOn(r) ==
  /\ req[r].pc \in {"work", "dead"} /\ req[r].kind \in Exclusive
  /\ \/ script[r] = "files" /\ script' = [script EXCEPT ![r] = "tool"]
     \/ script[r] = "tool" /\ script' = [script EXCEPT ![r] = "files"]
  /\ UNCHANGED <<row, req, jobs, faultsLeft, stale, raced>>

(* The backup file is complete. *)
BackupWritten(r) ==
  /\ At(r, "work") /\ Touches(r) /\ req[r].kind # "RESTORE"
  /\ script' = [script EXCEPT ![r] = "post"]
  /\ file' = [file EXCEPT ![r] = "kept"]
  /\ UNCHANGED <<row, req, job, age, faultsLeft, stale, raced>>

AfterScript(kind) == IF kind = "RESTORE" THEN "relRead" ELSE "finish"

ScriptSucceeds(r) ==
  /\ At(r, "work")
  /\ IF req[r].kind = "RESTORE" THEN Touches(r) ELSE script[r] = "post"
  /\ script' = [script EXCEPT ![r] = "none"]
  /\ Goto(r, AfterScript(req[r].kind))
  /\ UNCHANGED <<row, jobs, faultsLeft, stale, raced>>

(* TronSoftOS answers 200 with ok: false when a script fails; the worker   *)
(* throws on it, the backend's runHostFirebirdScript only for a monitor.   *)
FailureNoticed(kind) == ~HostMode \/ kind \in WorkerKind

(* The catch block of the handler quarantines what was written, except     *)
(* that of /disable-indexes, one of the two MAINTENANCE requests.          *)
ScriptFails(r) ==
  /\ At(r, "work") /\ FailureNoticed(req[r].kind) /\ UseFault("script")
  /\ script' = [script EXCEPT ![r] = "none"]
  /\ \/ file' = [file EXCEPT ![r] = IF @ = "kept" THEN "quarantined" ELSE @]
     \/ req[r].kind = "MAINTENANCE" /\ UNCHANGED file
  /\ req' = [req EXCEPT ![r] = [@ EXCEPT !.ok = FALSE, !.pc = AfterScript(req[r].kind)]]
  /\ UNCHANGED <<row, job, age, stale, raced>>

(* The handler goes on as after a success. *)
ScriptFailsUnnoticed(r) ==
  /\ At(r, "work") /\ Touches(r) /\ ~FailureNoticed(req[r].kind) /\ UseFault("script")
  /\ \/ /\ req[r].kind = "RESTORE"
        /\ script' = [script EXCEPT ![r] = "none"] /\ Goto(r, "relRead")
     \/ /\ req[r].kind # "RESTORE"
        /\ script' = [script EXCEPT ![r] = "post"] /\ UNCHANGED req
  /\ UNCHANGED <<row, jobs, stale, raced>>

FinishJob(r) ==
  /\ At(r, "finish")
  /\ job' = [job EXCEPT ![r] = IF req[r].ok THEN "SUCCESS" ELSE "FAILED"]
  /\ Goto(r, IF req[r].kind = "MAINTENANCE" THEN "relRead" ELSE "done")
  /\ UNCHANGED <<row, age, file, script, faultsLeft, stale, raced>>

(* operationLockHandle.releaseWith: a read, then an update that has no     *)
(* condition.                                                              *)
ReleaseReads(r) ==
  /\ At(r, "relRead")
  /\ Goto(r, IF op.token = req[r].token THEN "relWrite" ELSE "done")
  /\ UNCHANGED <<row, jobs, script, faultsLeft, stale, raced>>

(* Mutant: releaseWith writes the standby state and forgets the lock. *)
ReleaseWrites_KeepsLock(r) ==
  /\ At(r, "relWrite")
  /\ standby' = IF HaMode /\ req[r].ok THEN "PENDING" ELSE req[r].prev
  /\ Goto(r, "done")
  /\ UNCHANGED <<op, jobs, script, faultsLeft, stale, raced>>

ReleaseWrites(r) ==
  /\ At(r, "relWrite")
  /\ op' = IdleOp
  /\ standby' = IF HaMode /\ req[r].ok THEN "PENDING" ELSE req[r].prev
  /\ Goto(r, "done")
  /\ UNCHANGED <<jobs, script, faultsLeft, stale, raced>>

(***************************************************************************)
(* releasePreparedRestore: a query and one conditional update              *)
(***************************************************************************)
FindPrepared(r) ==
  /\ At(r, "findPrep")
  /\ Goto(r, IF PreparationWhere(req[r].given) THEN "relPrep" ELSE "done")
  /\ UNCHANGED <<row, jobs, script, faultsLeft, stale, raced>>

ReleasePrepared(r) ==
  /\ At(r, "relPrep")
  /\ LET won == PreparationWhere(req[r].given) IN
     /\ op' = IF won THEN IdleOp ELSE op
     /\ req' = [req EXCEPT ![r] = [@ EXCEPT !.pc = "done", !.won = won]]
  /\ UNCHANGED <<standby, jobs, script, faultsLeft, stale, raced>>

(***************************************************************************)
(* A query of the catalogue fails                                          *)
(***************************************************************************)
(* The searches after a restart go on with the next one. *)
SearchFails(r) ==
  /\ req[r].pc \in {"oldJobs", "mark"} /\ req[r].kind \in StartupKind
  /\ UseFault("query") /\ EndPass(r)
  /\ UNCHANGED <<row, jobs, script, stale, raced>>

(* Nobody catches the error of a check, of the job's creation, of a step   *)
(* between the lock and the try block or in the catch block, and releaseWith *)
(* ignores that of its update: the request ends, its lock stays.           *)
QueryFails(r) ==
  /\ \/ req[r].pc \in {"read", "clear", "current", "claim", "oldJobs", "mark", "running",
                       "take", "createJob", "start", "findPrep", "relPrep", "relWrite"}
     \/ req[r].pc \in {"finish", "relRead"} /\ ~req[r].ok
  /\ req[r].kind \notin StartupKind
  /\ UseFault("query") /\ Goto(r, "dead")
  /\ UNCHANGED <<row, jobs, script, stale, raced>>

(* In the try block the error leads to the catch block. *)
QueryCaught(r) ==
  /\ req[r].pc \in {"finish", "relRead"} /\ req[r].ok /\ UseFault("query")
  /\ \/ file' = [file EXCEPT ![r] = IF @ = "kept" THEN "quarantined" ELSE @]
     \/ req[r].kind = "MAINTENANCE" /\ UNCHANGED file
  /\ req' = [req EXCEPT ![r] = [@ EXCEPT !.ok = FALSE, !.pc = AfterScript(req[r].kind)]]
  /\ UNCHANGED <<row, job, age, script, stale, raced>>

(***************************************************************************)
(* Time and crashes                                                        *)
(***************************************************************************)
JobAges(r) ==
  /\ job[r] = "RUNNING" /\ age[r] # "stale"
  /\ age' = [age EXCEPT ![r] = IF @ = "new" THEN "aged" ELSE "stale"]
  /\ UNCHANGED <<row, req, job, file, script, faultsLeft, stale, raced>>

(* databaseOperationTtlMs (6 h) is longer than a script (at most 4 h) and  *)
(* the validation of a backup (45 min by default) may take: a lock expires *)
(* only when nobody works under it any more.                               *)
LockExpires ==
  /\ DatabaseOperationActive
  /\ \A r \in Req : req[r].token = op.token =>
       req[r].pc \in {"done", "dead"} /\ script[r] = "none"
  /\ op' = [op EXCEPT !.expired = TRUE]
  /\ UNCHANGED <<standby, req, jobs, script, faultsLeft, stale, raced>>

(* The backend or the worker stops and starts again: its requests are      *)
(* lost, their scripts are not, and it looks for old jobs.                 *)
Crash(startup, s) ==
  LET worker == startup = "WORKER_STARTUP"
      lost   == {r \in Req : /\ req[r].pc \notin {"new", "done", "dead"}
                             /\ (req[r].kind \in WorkerKind) = worker}
  IN  /\ UseFault("crash") /\ At(s, "new")
      /\ req' = [r \in Req |->
           CASE r = s -> [NewRequest EXCEPT !.kind = startup, !.pc = "oldJobs",
                          !.pass = IF worker THEN "orphaned" ELSE "stale"]
             [] r # s /\ r \in lost -> [req[r] EXCEPT !.pc = "dead"]
             [] OTHER -> req[r]]
      /\ UNCHANGED <<row, jobs, script, stale, raced>>

LeftScriptEnds(r) ==
  /\ At(r, "dead") /\ script[r] # "none"
  /\ script' = [script EXCEPT ![r] = "none"]
  /\ \/ UNCHANGED file
     \/ req[r].kind # "RESTORE" /\ file[r] = "none" /\ file' = [file EXCEPT ![r] = "kept"]
  /\ UNCHANGED <<row, req, job, age, faultsLeft, stale, raced>>

(***************************************************************************)
(* Specification                                                           *)
(***************************************************************************)
Init ==
  /\ op = IdleOp
  /\ standby \in (IF HaMode THEN {"PENDING", "PROMOTED"} ELSE {"DISABLED"})
  /\ req = [r \in Req |-> NewRequest]
  /\ job = [r \in Req |-> "NONE"]
  /\ age = [r \in Req |-> "new"]
  /\ file = [r \in Req |-> "none"]
  /\ script = [r \in Req |-> "none"]
  /\ faultsLeft = MaxFaults /\ stale = {} /\ raced = FALSE

CheckStep(r) ==
  \/ \E kind \in Kind, given \in Token : Begin(r, kind, given)
  \/ ReadForLater(r) \/ ReadIdle(r) \/ ReadExpired(r) \/ ReadActive(r)
  \/ ClearExpired(r) \/ ReadCurrent(r) \/ ClaimPrepared(r) \/ ClaimRefused(r)
  \/ ReadOldJobs(r) \/ PsFindsTool(r) \/ PsFindsNone(r) \/ PsFails(r)
  \/ \E j \in Req : MarkFailed(r, j)
  \/ FindsRunningBackup(r) \/ FindsNoBackup(r) \/ TakeLock(r)

WorkStep(r) ==
  \/ CreateJob(r) \/ BackupDeferred(r) \/ StartRestore(r) \/ BackupWritten(r)
  \/ ScriptSucceeds(r) \/ ScriptFails(r) \/ ScriptFailsUnnoticed(r) \/ FinishJob(r)
  \/ ReleaseReads(r) \/ ReleaseWrites(r) \/ FindPrepared(r) \/ ReleasePrepared(r)
  \/ SearchFails(r) \/ QueryFails(r) \/ QueryCaught(r)

Environment ==
  \/ \E r \in Req : ScriptGoesOn(r) \/ JobAges(r) \/ LeftScriptEnds(r)
  \/ \E s \in Req, startup \in StartupKind : Crash(startup, s)
  \/ LockExpires

Next == (\E r \in Req : CheckStep(r) \/ WorkStep(r)) \/ Environment

Spec == Init /\ [][Next]_vars

(* A handler goes on, every script has a timeout, and time passes.  No     *)
(* request is made to happen.                                              *)
Fairness ==
  /\ \A r \in Req : WF_vars(WorkStep(r)) /\ WF_vars(LeftScriptEnds(r))
  /\ WF_vars(LockExpires)

FairSpec == Spec /\ Fairness

(***************************************************************************)
(* Properties                                                              *)
(***************************************************************************)
(* While a restore or a maintenance works on the files of the database, no *)
(* other restore, maintenance or backup does.                              *)
Alone ==
  \A r, s \in Req : r # s /\ req[r].kind \in Exclusive /\ Touches(r) => ~Touches(s)

(* The work on the files is exclusive, over crashes, expired locks and     *)
(* scripts left behind, until a race: a request takes the lock, starts a   *)
(* backup or clears a lock although another request's write came after it  *)
(* had looked, or a search that could not list the processes ends a job.   *)
ExclusiveWork == raced \/ Alone

(* A reservation ends once: of all requests that bring its token, claims   *)
(* and releases, at most one gets it.                                      *)
ReservationEndsOnce ==
  \A r, s \in Req : req[r].won /\ req[s].won /\ req[r].given = req[s].given => r = s

(* A lock that is in force belongs to a reservation, to a request that     *)
(* still runs, or to one that a crash or a failing query of the catalogue  *)
(* ended: no other way out of a handler forgets it.                        *)
LockHasOwner ==
  DatabaseOperationActive =>
    \/ op.prepared
    \/ \E r \in Req : req[r].token = op.token /\ req[r].pc \notin {"new", "done"}

(* No lock lasts: it is released, or its time to live ends it, also after  *)
(* a crash and for a reservation nobody uses.                              *)
LockEnds == DatabaseOperationActive ~> ~DatabaseOperationActive

(* A finished backup that counts as SUCCESS has its file. *)
SuccessHasFile ==
  \A r \in Req : job[r] = "SUCCESS" => file[r] = "kept"

(***************************************************************************)
(* Why a reservation ends once: the parts of an inductive invariant        *)
(***************************************************************************)
(* A token that was given comes from a reservation, and one that a request *)
(* has won is not reserved any more.                                       *)
ReservationInv ==
  /\ \A r \in Req : req[r].given # NoReq => Reservation(req[r].given)
  /\ \A r \in Req : req[r].won => ~(op.prepared /\ op.token = req[r].given)
  /\ ReservationEndsOnce

(***************************************************************************)
(* Why ExclusiveWork holds: the parts of an inductive invariant            *)
(***************************************************************************)
(* The path of each kind of request through its handler. *)
PcsOf(kind) ==
  {"done", "dead"} \cup
  CASE kind \in StartupKind   -> {"oldJobs", "ps", "mark"}
    [] kind = "RELEASE"       -> {"findPrep", "relPrep"}
    [] kind = "BACKUP"        -> {"new", "read", "clear", "createJob", "work", "finish"}
    [] kind = "AUTO_BACKUP"   -> {"read", "oldJobs", "ps", "mark", "running", "clear",
                                  "createJob", "work", "finish"}
    [] OTHER -> {"read", "clear", "current", "oldJobs", "ps", "mark", "running", "take"}
                \cup (CASE kind = "RESTORE" -> {"claim", "start", "work", "relRead", "relWrite"}
                        [] kind = "MAINTENANCE" -> {"createJob", "work", "finish",
                                                    "relRead", "relWrite"}
                        [] OTHER -> {})

(* r works under the lock, or left a script behind that does. *)
Owner(r) ==
  /\ req[r].kind \in Exclusive
  /\ \/ req[r].pc \in {"createJob", "start", "work", "finish", "relRead", "relWrite"}
     \/ req[r].pc = "dead" /\ Touches(r)

PathInv == \A r \in Req : req[r].pc \in PcsOf(req[r].kind)

ScriptInv ==
  \A r \in Req : script[r] # "none" =>
    /\ req[r].pc \in {"work", "dead"}
    /\ req[r].kind \in Exclusive \cup Backups
    /\ req[r].kind \in Backups => script[r] # "files"

RowAsSeen ==
  \A r \in Req \ stale : /\ SawIdle(r) => ~op.running
                         /\ SawExpired(r) => ~op.running \/ op.expired

OwnerHoldsLock ==
  \A r \in Req : Owner(r) =>
    op.running /\ ~op.expired /\ ~op.prepared /\ op.token = req[r].token

OneOwner == \A r, s \in Req : Owner(r) /\ Owner(s) => r = s

(* A backup that reads the files has a RUNNING job, which keeps every lock *)
(* from being taken until it is done.                                      *)
BackupSeen ==
  \A r \in Req : req[r].kind \in Backups /\ Touches(r) =>
    /\ job[r] = "RUNNING" /\ ~op.running
    /\ \A s \in Req : At(s, "take") => s \in stale

OldJobsInv ==
  /\ \A r \in Req : job[r] # "NONE" =>
       req[r].pc \in {"work", "finish", "relRead", "relWrite", "done", "dead"}
  /\ \A r \in Req : \A j \in req[r].old :
       /\ job[j] # "NONE"
       /\ At(r, "mark") /\ r \notin stale => ~(req[j].kind \in Backups /\ Touches(j))

(* What holds until a race. *)
Orderly ==
  /\ PathInv /\ ScriptInv /\ RowAsSeen
  /\ OwnerHoldsLock /\ OneOwner /\ BackupSeen /\ OldJobsInv

(* It is inductive, and ExclusiveWork follows from it. *)
ExclusiveInv == raced \/ Orderly

(***************************************************************************)
(* Why a lock has an owner, whatever overlaps and fails                    *)
(***************************************************************************)
(* r works under the lock it took or claimed, is on its way to release it, *)
(* or was lost in a crash.                                                 *)
Holds(r) ==
  \/ /\ req[r].kind = "RESTORE"
     /\ req[r].pc \in {"start", "work", "relRead", "relWrite", "dead"}
  \/ /\ req[r].kind = "MAINTENANCE"
     /\ req[r].pc \in {"createJob", "work", "finish", "relRead", "relWrite", "dead"}

(* A lock that is no reservation carries the token of such a request, also *)
(* when its time to live is over.                                          *)
OwnerInv ==
  /\ PathInv
  /\ op.running /\ ~op.prepared => \E r \in Req : req[r].token = op.token /\ Holds(r)
=============================================================================
