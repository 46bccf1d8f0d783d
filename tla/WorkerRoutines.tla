--------------------------- MODULE WorkerRoutines ---------------------------
(***************************************************************************)
(* The routines of the TronFire worker, one node process whose cron jobs   *)
(* interleave wherever they await: the check of the databases, the         *)
(* automatic backups, the collection of the sessions and the sweeps with   *)
(* their retries.  They exclude each other by the routine locks, leave a   *)
(* database alone while its circuit is open, and wait for operations of    *)
(* the backend and for Sync HA.  Between an await and its continuation a   *)
(* routine is at a pc; what it read of the databases before is in its      *)
(* record.  Of the alerts the one that several routines write is kept.     *)
(***************************************************************************)
EXTENDS Naturals, FiniteSets

CONSTANTS
  DB,          \* managed databases that are not ARQUIVADO
  Backed,      \* those with backupEnabled
  PrimaryDb,   \* the one collectFirebirdSessionHistory finds first
  NoDb,        \* no database
  Threshold,   \* FIREBIRD_UNRESPONSIVE_FAILURE_THRESHOLD
  MaxRetries,  \* FIREBIRD_SWEEP_MAX_RETRIES
  MaxEvents    \* bound: faults, operations of the backend and syncs together

ASSUME WorkerAssumption ==
  /\ IsFiniteSet(DB) /\ Backed \subseteq DB /\ PrimaryDb \in DB /\ NoDb \notin DB
  /\ Threshold \in Nat \ {0} /\ MaxRetries \in Nat \ {0} /\ MaxEvents \in Nat

(* FIREBIRD_ROUTINE_LOCK_KEY, the key that all databases share. *)
Global == "__firebird_global__"

(* One routine of each kind runs at a time, so its name is its identity. *)
Routine == {"check", "backup", "session", "sweep"}

(* Routines whose command may run longer than a lock is valid. *)
Long == {"backup", "sweep"}

VARIABLES
  locks,       \* databaseRoutineLocks: who holds each key
  at,          \* where each routine is, with what it has read
  circuit,     \* firebirdCircuitBreakers
  retryTimer,  \* scheduledSweepRetryTimer is set
  retryCount,  \* scheduledSweepRetryCount
  job,         \* databases with a RUNNING row of a backup
  status,      \* status column of each database
  degraded,    \* databases with an alert FIREBIRD_DEGRADED not resolved
  due,         \* databases whose backup is due
  operation,   \* databases with an active operation of the backend
  haSync,      \* the marker of a running Sync HA is recent
  up,          \* Firebird answers
  orphanTool,  \* a command of a worker that died still runs
  events,      \* events so far, at most MaxEvents
  postponed,   \* a sweep of the pass, or of the last one, was postponed
  overrun      \* history: routines whose lock expired under them

health  == <<circuit, status, degraded>>
retries == <<retryTimer, retryCount, postponed>>
outside == <<due, operation, haSync, up, orphanTool>>
vars    == <<locks, at, health, retries, outside, job, events, overrun>>

Pc == {"idle", "next", "script", "stat", "validate", "write", "fail"}

Place == [pc : Pc, db : DB \cup {NoDb}, todo : SUBSET DB, busy : SUBSET DB]

Idle == [pc |-> "idle", db |-> NoDb, todo |-> {}, busy |-> {}]

Closed == [failures |-> 0, open |-> FALSE]

TypeOK ==
  /\ locks \in [DB \cup {Global} -> Routine \cup {"none"}]
  /\ at \in [Routine -> Place]
  /\ circuit \in [DB -> [failures : 0..Threshold, open : BOOLEAN]]
  /\ retryTimer \in BOOLEAN /\ retryCount \in 0..MaxRetries
  /\ job \subseteq Backed
  /\ status \in [DB -> {"ONLINE", "DEGRADED", "ERROR"}]
  /\ degraded \subseteq DB /\ due \subseteq Backed /\ operation \subseteq DB
  /\ haSync \in BOOLEAN /\ up \in BOOLEAN /\ orphanTool \in BOOLEAN
  /\ events \in 0..MaxEvents /\ overrun \subseteq Routine
  /\ postponed \in BOOLEAN

Init ==
  /\ locks = [k \in DB \cup {Global} |-> "none"]
  /\ at = [p \in Routine |-> Idle]
  /\ circuit = [d \in DB |-> Closed]
  /\ retryTimer = FALSE /\ retryCount = 0
  /\ job = {} /\ status = [d \in DB |-> "ONLINE"]
  /\ degraded = {} /\ due = {} /\ operation = {} /\ haSync = FALSE /\ up = TRUE
  /\ orphanTool = FALSE /\ events = 0 /\ overrun = {} /\ postponed = FALSE

(***************************************************************************)
(* Routine locks and circuit breakers                                      *)
(***************************************************************************)
(* activeRoutineLock on the shared key and on that of the database.  The   *)
(* entry of a lock that expired is gone (RoutineOutlives): the function    *)
(* deletes it before anybody can see it.                                   *)
DatabaseRoutineActive(d) == locks[Global] # "none" \/ locks[d] # "none"

SetDatabaseRoutineLock(d, p) == [locks EXCEPT ![Global] = p, ![d] = p]

(* Every entry goes, whatever routine it names. *)
ClearDatabaseRoutineLock_AnyName(d, p) ==
  [k \in DB \cup {Global} |-> IF k \in {Global, d} THEN "none" ELSE locks[k]]

(* Only the entries that still carry the name of the routine are removed. *)
ClearDatabaseRoutineLock(d, p) ==
  [k \in DB \cup {Global} |-> IF k \in {Global, d} /\ locks[k] = p THEN "none" ELSE locks[k]]

(* What a command of a routine returns; only a probe is ever deferred. *)
Failure == {"timeout", "refused", "error"}
IsFirebirdTimeoutError(r) == r = "timeout"
IsFirebirdConnectivityError(r) == r \in {"timeout", "refused"}

Failures(d) == IF circuit[d].failures < Threshold THEN circuit[d].failures + 1 ELSE Threshold

Opens(d, r) == /\ IsFirebirdConnectivityError(r)
               /\ Failures(d) >= Threshold \/ IsFirebirdTimeoutError(r)

MarkFirebirdFailure(d, r) ==
  /\ circuit' = [circuit EXCEPT ![d] = [failures |-> Failures(d),
                                        open |-> circuit[d].open \/ Opens(d, r)]]
  /\ status' = [status EXCEPT ![d] = IF Opens(d, r) THEN "DEGRADED" ELSE status[d]]
  /\ degraded' = IF Opens(d, r) THEN degraded \cup {d} ELSE degraded

MarkFirebirdSuccess(d) ==
  /\ circuit' = [circuit EXCEPT ![d] = Closed]
  /\ degraded' = degraded \ {d}
  /\ UNCHANGED status

(* What a command can return now: with Firebird down no command succeeds. *)
Returns(r) ==
  /\ r = "ok" => up
  /\ r \in {"timeout", "refused"} => ~up
  /\ r = "ok" \/ ~up \/ events < MaxEvents
  /\ events' = IF r = "ok" \/ ~up THEN events ELSE events + 1

(* Firebird tools at work: they keep RUNNING rows from being given up. *)
BackupToolProcesses ==
  orphanTool \/ \E p \in Long : at[p].pc \in {"script", "validate"}

(* No row is given up. *)
MarkRunningFailed_Never(d) == {job}

(* markOrphanedRunningBackupsFailed and markStaleRunningBackupsFailed: the *)
(* RUNNING rows there may be after it, as the row may be too young.        *)
MarkRunningFailed(d) == {job} \cup {job \ {x} : x \in {d} \ {y \in DB : BackupToolProcesses}}

BackupRunning == at["backup"].pc # "idle"
ScheduledSweepRunning == at["sweep"].pc # "idle"

(***************************************************************************)
(* What the passes over the databases have in common                       *)
(***************************************************************************)
(* The databases are read and taken one after the other. *)
Pass(dbs) == [Idle EXCEPT !.pc = "next", !.todo = dbs, !.busy = operation \cap dbs]

(* The cron fires, or the pass under way goes on. *)
Passing(p, dbs) == IF at[p].pc = "idle" THEN Pass(dbs) ELSE at[p]

GoTo(p, pc) == at' = [at EXCEPT ![p].pc = pc]

(* The rest of a pass.  The backups stop when Sync HA has started; a pass  *)
(* of sweeps has something to do at its end.                               *)
Rest(p, pass, d) ==
  LET left == pass.todo \ {d} IN
  IF (p # "sweep" /\ left = {}) \/ (p = "backup" /\ haSync) THEN Idle
  ELSE [pass EXCEPT !.pc = "next", !.db = NoDb, !.todo = left, !.busy = pass.busy \ {d}]

NextDb(p) == at' = [at EXCEPT ![p] = Rest(p, at[p], at[p].db)]

(* A routine takes the locks in the step in which it finds them free.  An  *)
(* operation of the backend is the one in the row as the pass read it.     *)
Starts(p, pass, d) ==
  /\ pass.pc = "next" /\ d \in pass.todo
  /\ d \notin pass.busy /\ ~DatabaseRoutineActive(d) /\ ~circuit[d].open
  /\ locks' = SetDatabaseRoutineLock(d, p)
  /\ at' = [at EXCEPT ![p] = [pass EXCEPT !.pc = "script", !.db = d, !.todo = pass.todo \ {d}]]
  /\ UNCHANGED <<health, operation, haSync, up, orphanTool, events, overrun>>

(* It leaves a database in operation, locked or degraded alone. *)
Skips(p, pass, d) ==
  /\ pass.pc = "next" /\ d \in pass.todo
  /\ at' = [at EXCEPT ![p] = Rest(p, pass, d)]
  /\ UNCHANGED <<locks, health, outside, events, overrun>>

Unavailable(pass, d) == d \in pass.busy \/ DatabaseRoutineActive(d) \/ circuit[d].open

(***************************************************************************)
(* checkDatabases, every five minutes                                      *)
(***************************************************************************)
(* The check gives up while the backups are at work. *)
CheckPass == Passing("check", DB)
CheckFires == at["check"].pc = "idle" => ~BackupRunning

CheckSkips(d) ==
  /\ CheckFires
  /\ job' \in IF d \in CheckPass.busy THEN {job} ELSE MarkRunningFailed(d)
  /\ d \in job' \/ Unavailable(CheckPass, d)
  /\ Skips("check", CheckPass, d)
  /\ UNCHANGED retries

CheckStart(d) ==
  /\ CheckFires
  /\ job' \in MarkRunningFailed(d) /\ d \notin job'
  /\ Starts("check", CheckPass, d)
  /\ UNCHANGED <<due, retries>>

CheckReturns(r) ==
  LET d == at["check"].db IN
  /\ at["check"].pc = "script" /\ Returns(r)
  /\ locks' = ClearDatabaseRoutineLock(d, "check")
  /\ \/ r = "ok" /\ MarkFirebirdSuccess(d) /\ GoTo("check", "write")
     \/ r = "deferred" /\ NextDb("check") /\ UNCHANGED health
     \/ r \in Failure /\ MarkFirebirdFailure(d, r) /\ GoTo("check", "fail")
  /\ UNCHANGED <<retries, outside, job, overrun>>

(* The result reaches the row after the lock is released. *)
CheckWrites ==
  LET d == at["check"].db IN
  /\ at["check"].pc \in {"write", "fail"}
  /\ status' = [status EXCEPT ![d] = IF at["check"].pc = "write" THEN "ONLINE" ELSE "ERROR"]
  /\ NextDb("check")
  /\ UNCHANGED <<locks, circuit, degraded, retries, outside, job, events, overrun>>

(***************************************************************************)
(* collectFirebirdSessionHistory, at half past the minute                  *)
(***************************************************************************)
(* During an operation the circuit is forgotten; the alert stays. *)
SessionSkips ==
  /\ at["session"].pc = "idle"
  /\ PrimaryDb \in operation
  /\ circuit' = [circuit EXCEPT ![PrimaryDb] = Closed]
  /\ UNCHANGED <<locks, at, status, degraded, retries, outside, job, events, overrun>>

SessionStart ==
  /\ at["session"].pc = "idle"
  /\ PrimaryDb \notin operation
  /\ ~DatabaseRoutineActive(PrimaryDb) /\ ~circuit[PrimaryDb].open
  /\ locks' = SetDatabaseRoutineLock(PrimaryDb, "session")
  /\ at' = [at EXCEPT !["session"].pc = "script", !["session"].db = PrimaryDb]
  /\ UNCHANGED <<health, retries, outside, job, events, overrun>>

SessionReturns(r) ==
  /\ at["session"].pc = "script" /\ Returns(r)
  /\ locks' = ClearDatabaseRoutineLock(PrimaryDb, "session")
  /\ \/ r = "ok" /\ MarkFirebirdSuccess(PrimaryDb)
     \/ r = "deferred" /\ UNCHANGED health
     \/ r \in Failure /\ MarkFirebirdFailure(PrimaryDb, r)
  /\ at' = [at EXCEPT !["session"] = Idle]
  /\ UNCHANGED <<retries, outside, job, overrun>>

(***************************************************************************)
(* runAutomaticBackups, every minute                                       *)
(***************************************************************************)
(* No pass begins while Sync HA runs. *)
BackupPass == Passing("backup", Backed)
BackupFires == at["backup"].pc = "idle" => ~haSync

BackupSkips(d) ==
  /\ BackupFires
  /\ job' \in MarkRunningFailed(d)
  /\ d \in job' \/ d \notin due \/ Unavailable(BackupPass, d)
  /\ Skips("backup", BackupPass, d)
  /\ UNCHANGED retries

(* lastBackupAttemptAt and the RUNNING row are written before gbak runs. *)
BackupStart(d) ==
  /\ BackupFires
  /\ d \in due /\ job \ {d} \in MarkRunningFailed(d)
  /\ Starts("backup", BackupPass, d)
  /\ job' = job \cup {d}
  /\ due' = due \ {d}
  /\ UNCHANGED retries

(* The row of the job is closed and the locks are released. *)
BackupEnds(d) ==
  /\ locks' = ClearDatabaseRoutineLock(d, "backup")
  /\ job' = job \ {d}
  /\ NextDb("backup")
  /\ overrun' = overrun \ {"backup"}

BackupFails(d, r) ==
  /\ MarkFirebirdFailure(d, r)
  /\ BackupEnds(d)

BackupReturns(r) ==
  LET d == at["backup"].db IN
  /\ at["backup"].pc = "script" /\ Returns(r)
  /\ \/ /\ r = "ok" /\ GoTo("backup", "stat")
        /\ UNCHANGED <<locks, health, job, overrun>>
     \/ r \in Failure /\ BackupFails(d, r)
  /\ UNCHANGED <<retries, outside>>

(* Size, checksum and the plan: the file may be unreadable, and inside the *)
(* window of the week the backup is restored for validation.  A backup     *)
(* that is not validated leaves the circuit as it is.                      *)
BackupMeasured ==
  LET d == at["backup"].db IN
  /\ at["backup"].pc = "stat"
  /\ \/ events < MaxEvents /\ events' = events + 1 /\ BackupFails(d, "error")
     \/ /\ GoTo("backup", "validate")
        /\ UNCHANGED <<locks, health, job, overrun, events>>
     \/ BackupEnds(d) /\ UNCHANGED <<health, events>>
  /\ UNCHANGED <<retries, outside>>

(* A validation that fails, for whatever reason, puts the backup aside and *)
(* does not count for the circuit.                                         *)
BackupValidated(r) ==
  LET d == at["backup"].db IN
  /\ at["backup"].pc = "validate" /\ Returns(r)
  /\ \/ r = "ok" /\ MarkFirebirdSuccess(d)
     \/ r \in Failure /\ UNCHANGED health
  /\ BackupEnds(d)
  /\ UNCHANGED <<retries, outside>>

(***************************************************************************)
(* runScheduledSweeps, by cron and by the retry timer                      *)
(***************************************************************************)
(* The attempt is counted, and no timer is set. *)
ScheduleSweepRetry_NoTimer(timer, count) ==
  IF timer \/ count >= MaxRetries THEN <<timer, count>> ELSE <<FALSE, count + 1>>

(* The timer and the count after scheduleSweepRetry found them as given. *)
ScheduleSweepRetry(timer, count) ==
  IF timer \/ count >= MaxRetries THEN <<timer, count>> ELSE <<TRUE, count + 1>>

(* While a pass runs the call does nothing.  (Resetting the count at the   *)
(* end of a pass by cron is not modelled: the cron has reset it already.)  *)
RunScheduledSweeps(timer, count) ==
  LET retry == ScheduleSweepRetry(timer, count) IN
  \/ /\ ScheduledSweepRunning
     /\ retryTimer' = timer /\ retryCount' = count /\ UNCHANGED <<at, postponed>>
  \/ /\ ~ScheduledSweepRunning /\ (BackupRunning \/ haSync)
     /\ retryTimer' = retry[1] /\ retryCount' = retry[2] /\ postponed' = TRUE /\ UNCHANGED at
  \/ /\ ~ScheduledSweepRunning /\ ~BackupRunning /\ ~haSync
     /\ at' = [at EXCEPT !["sweep"] = Pass(DB)]
     /\ retryTimer' = timer /\ retryCount' = count /\ postponed' = FALSE

(* resetScheduledSweepRetries comes first. *)
SweepCron ==
  /\ RunScheduledSweeps(FALSE, 0)
  /\ UNCHANGED <<locks, health, outside, job, events, overrun>>

SweepRetry ==
  /\ retryTimer
  /\ RunScheduledSweeps(FALSE, retryCount)
  /\ UNCHANGED <<locks, health, outside, job, events, overrun>>

SweepYields ==
  /\ at["sweep"].pc = "next" /\ at["sweep"].todo # {} /\ haSync
  /\ at' = [at EXCEPT !["sweep"].todo = {}, !["sweep"].busy = {}]
  /\ postponed' = TRUE
  /\ UNCHANGED <<retryTimer, retryCount, locks, health, outside, job, events, overrun>>

SweepPostponed(d) ==
  /\ job' \in MarkRunningFailed(d)
  /\ d \in job' \/ haSync \/ BackupRunning \/ Unavailable(at["sweep"], d)
  /\ Skips("sweep", at["sweep"], d)
  /\ postponed' = TRUE
  /\ UNCHANGED <<retryTimer, retryCount>>

SweepStart(d) ==
  /\ job' \in MarkRunningFailed(d) /\ d \notin job' /\ ~haSync /\ ~BackupRunning
  /\ Starts("sweep", at["sweep"], d)
  /\ UNCHANGED <<due, retries>>

SweepReturns(r) ==
  LET d == at["sweep"].db IN
  /\ at["sweep"].pc = "script" /\ Returns(r)
  /\ locks' = ClearDatabaseRoutineLock(d, "sweep")
  /\ \/ r = "ok" /\ MarkFirebirdSuccess(d)
     \/ r \in Failure /\ MarkFirebirdFailure(d, r)
  /\ NextDb("sweep")
  /\ overrun' = overrun \ {"sweep"}
  /\ UNCHANGED <<retries, outside, job>>

SweepEnds ==
  LET retry == ScheduleSweepRetry(retryTimer, retryCount) IN
  /\ at["sweep"].pc = "next" /\ at["sweep"].todo = {}
  /\ IF postponed THEN retryTimer' = retry[1] /\ retryCount' = retry[2]
     ELSE UNCHANGED <<retryTimer, retryCount>>
  /\ at' = [at EXCEPT !["sweep"] = Idle]
  /\ UNCHANGED <<postponed, locks, health, outside, job, events, overrun>>

(* A query fails: the pass ends by its finally block, without a retry, and *)
(* nothing remembers what it postponed.                                    *)
SweepThrows ==
  /\ at["sweep"].pc = "next" /\ events < MaxEvents
  /\ at' = [at EXCEPT !["sweep"] = Idle]
  /\ postponed' = FALSE /\ events' = events + 1
  /\ UNCHANGED <<retryTimer, retryCount, locks, health, outside, job, overrun>>

(***************************************************************************)
(* Time, the backend, Sync HA, Firebird and the process                    *)
(***************************************************************************)
(* A lock is valid for an hour; a backup or a sweep may take longer. *)
RoutineOutlives(p) ==
  /\ at[p].pc \in {"script", "stat", "validate"} /\ p \notin overrun
  /\ locks' = [k \in DB \cup {Global} |-> IF locks[k] = p THEN "none" ELSE locks[k]]
  /\ events < MaxEvents /\ events' = events + 1
  /\ overrun' = overrun \cup {p}
  /\ UNCHANGED <<at, health, retries, outside, job>>

(* The circuit stays open. *)
CooldownEnds_Never(d) == FALSE /\ UNCHANGED vars

CooldownEnds(d) ==
  /\ circuit[d].open
  /\ circuit' = [circuit EXCEPT ![d].open = FALSE]
  /\ UNCHANGED <<locks, at, status, degraded, retries, outside, job, events, overrun>>

(* backupFrequencyMinutes have passed since the last attempt. *)
BackupDue(d) ==
  /\ d \notin due /\ due' = due \cup {d}
  /\ UNCHANGED <<operation, haSync, up, orphanTool, locks, at, health, retries, job, events, overrun>>

OperationStarts(d) ==
  d \notin operation /\ operation' = operation \cup {d} /\ UNCHANGED <<due, haSync, up>>

HaSyncStarts == ~haSync /\ haSync' = TRUE /\ UNCHANGED <<due, operation, up>>

FirebirdStops == up /\ up' = FALSE /\ UNCHANGED <<due, operation, haSync>>

Event ==
  /\ events < MaxEvents /\ events' = events + 1
  /\ \/ HaSyncStarts \/ FirebirdStops
     \/ \E d \in DB : OperationStarts(d)
  /\ UNCHANGED <<locks, at, health, retries, orphanTool, job, overrun>>

(* An operation, Sync HA, an outage and a command left behind end. *)
OperationEnds(d) ==
  /\ d \in operation /\ operation' = operation \ {d}
  /\ UNCHANGED <<due, haSync, up, orphanTool, locks, at, health, retries, job, events, overrun>>

HaSyncEnds ==
  /\ haSync /\ haSync' = FALSE
  /\ UNCHANGED <<due, operation, up, orphanTool, locks, at, health, retries, job, events, overrun>>

FirebirdReturns ==
  /\ ~up /\ up' = TRUE
  /\ UNCHANGED <<due, operation, haSync, orphanTool, locks, at, health, retries, job, events, overrun>>

OrphanToolEnds ==
  /\ orphanTool /\ orphanTool' = FALSE
  /\ UNCHANGED <<due, operation, haSync, up, locks, at, health, retries, job, events, overrun>>

(* The worker restarts: its memory is lost, rows and commands are not. *)
Crash ==
  /\ events < MaxEvents /\ events' = events + 1
  /\ locks' = [k \in DB \cup {Global} |-> "none"]
  /\ at' = [p \in Routine |-> Idle]
  /\ circuit' = [d \in DB |-> Closed]
  /\ retryTimer' = FALSE /\ retryCount' = 0
  /\ orphanTool' = BackupToolProcesses
  /\ overrun' = {} /\ postponed' = FALSE
  /\ UNCHANGED <<due, operation, haSync, up, job, status, degraded>>

(***************************************************************************)
(* Specification                                                           *)
(***************************************************************************)
Result == Failure \cup {"ok"}
Answer == Result \cup {"deferred"}

CheckStep ==
  \/ CheckWrites
  \/ \E r \in Answer : CheckReturns(r)
  \/ \E d \in DB : CheckSkips(d)
SessionStep == SessionSkips \/ \E r \in Answer : SessionReturns(r)
BackupStep ==
  \/ BackupMeasured
  \/ \E r \in Result : BackupReturns(r) \/ BackupValidated(r)
  \/ \E d \in Backed : BackupSkips(d)
SweepStep ==
  \/ SweepYields \/ SweepEnds
  \/ \E r \in Result : SweepReturns(r)
  \/ \E d \in DB : SweepPostponed(d) \/ SweepStart(d)

Next ==
  \/ CheckStep \/ SessionStep \/ BackupStep \/ SweepStep
  \/ SessionStart \/ SweepCron \/ SweepRetry \/ SweepThrows
  \/ \E d \in DB : CheckStart(d) \/ CooldownEnds(d) \/ OperationEnds(d)
  \/ \E d \in Backed : BackupStart(d) \/ BackupDue(d)
  \/ \E p \in Long : RoutineOutlives(p)
  \/ HaSyncEnds \/ FirebirdReturns \/ OrphanToolEnds
  \/ Event \/ Crash

Spec == Init /\ [][Next]_vars

(* Awaited commands return (each has a time limit), clocks advance, and    *)
(* operations, syncs and outages end.  The cron jobs fire for ever; as     *)
(* they fire at different times of the minute, a routine does not find     *)
(* Firebird taken by another one for ever (strong fairness of the starts). *)
Fairness ==
  /\ WF_vars(CheckStep) /\ WF_vars(SessionStep) /\ WF_vars(BackupStep) /\ WF_vars(SweepStep)
  /\ \A d \in DB : WF_vars(CooldownEnds(d)) /\ WF_vars(OperationEnds(d))
  /\ WF_vars(HaSyncEnds) /\ WF_vars(FirebirdReturns) /\ WF_vars(OrphanToolEnds)
  /\ SF_vars(SessionStart)
  /\ \A d \in DB : SF_vars(CheckStart(d))
  /\ \A d \in Backed : SF_vars(BackupStart(d))

FairSpec == Spec /\ Fairness

(***************************************************************************)
(* Properties                                                              *)
(***************************************************************************)
InFirebird(p) == at[p].pc \in {"script", "stat", "validate"}

(* Two routines are never at work on Firebird together, on whatever        *)
(* databases, unless one of them has outlived its lock; a routine that     *)
(* outlived its lock does not take the lock of its successor with it.      *)
OneRoutine ==
  \A p, q \in Routine \ overrun : InFirebird(p) /\ InFirebird(q) => p = q

(* A sweep that was postponed has a pass or a retry before it, unless the  *)
(* retries of this cron are used up.                                       *)
SweepNotForgotten ==
  postponed => ScheduledSweepRunning \/ retryTimer \/ retryCount = MaxRetries

(* A backup that is due is attempted in the end, whatever row a worker     *)
(* that died left behind and however often it is put off.                  *)
BackupAttempted == \A d \in Backed : d \in due ~> d \notin due

(* A database that was reported as not answering is ONLINE again in the    *)
(* end, without alerts: the circuit lets probes through after its pause.   *)
OutageClears ==
  \A d \in DB : status[d] # "ONLINE" \/ d \in degraded
                  ~> status[d] = "ONLINE" /\ d \notin degraded
=============================================================================
