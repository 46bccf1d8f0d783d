--------------------------- MODULE BackupHistory ---------------------------
(***************************************************************************)
(* The backups of one database over the weeks: the automatic ones of the   *)
(* worker, which are restored once a week to validate them, the manual     *)
(* ones of the panel, the retention and the cleanup.  Time is a position   *)
(* in the week, counted in slots; rows keep their age instead of a date,   *)
(* since only differences are compared, up to an age that nobody asks for, *)
(* and the rows that are older, for the order of their dates.              *)
(*                                                                         *)
(* WorkerRoutines is about the same worker; the names here differ from its *)
(* names, so that one module can extend both.                              *)
(***************************************************************************)
EXTENDS Naturals, FiniteSets, FiniteSetsExt

CONSTANTS
  Week,        \* days of a week
  Slots,       \* slots of a day; an automatic backup is due in each
  Policies,    \* mode, weekday and window of the validation
  Retention,   \* retentionDays
  Cleanups,    \* what an operator cleans up: older than days, keep
  Take,        \* newest rows that are searched for a validation
  TakeFailed,  \* newest rows that are searched for a failure
  MaxRows,     \* bound on rows at a time
  MaxRun,      \* slots that the timeouts let a backup run into
  MaxIncidents \* bound on faults, delays and requests

ASSUME HistoryAssumption ==
  /\ {Week, Slots, Retention, Take, TakeFailed, MaxRows} \subseteq Nat \ {0}
  /\ MaxRun \in Nat /\ MaxIncidents \in Nat
  /\ \A p \in Policies :
       /\ p.mode \in {"weekly", "always", "never"} /\ p.days \subseteq 0..(Week - 1)
       /\ {p.start, p.end} \subseteq 0..Slots
  /\ \A c \in Cleanups : c.days \in Nat /\ c.keep \in Nat

VARIABLES
  policy,   \* of the environment of the worker
  now,      \* day of the week and slot of the day
  done,     \* the backup of this slot was started, or is not wanted
  rows,     \* BackupJob of this database, by id
  worker,   \* where runAutomaticBackups is
  manual,   \* the job of a manual backup that runs, or 0
  dumped,   \* its script has ended
  cleanup,  \* rows that a cleanup still has to delete
  alert,    \* BACKUP_VALIDATION_FAILED is open
  had,      \* history: the newest success had its file and was not taken back
  started,  \* validations started in this period
  since,    \* slots since a backup was validated
  incidents \* faults, delays and requests so far

historyVars == <<policy, now, done, rows, worker, manual, dumped, cleanup, alert, had, started,
                 since, incidents>>

WeekSlots == Week * Slots

(* An age that every comparison takes for too old. *)
Old == WeekSlots + Slots + 1

Moment == [day : 0..(Week - 1), slot : 0..(Slots - 1)]
Id == 1..MaxRows
Row == [older : SUBSET Id, status : {"RUNNING", "SUCCESS", "FAILED"}, age : 0..Old, file : BOOLEAN,
        valid : BOOLEAN, validAge : 0..Old, suspect : BOOLEAN]
Turn == [pc : {"idle", "list", "retain", "row", "search", "gbak", "plan", "validate", "write"},
         latest : SUBSET Id, todo : SUBSET Id, job : 0..MaxRows]
NewRow == [older |-> {}, status |-> "RUNNING", age |-> 0, file |-> FALSE, valid |-> FALSE,
           validAge |-> 0, suspect |-> FALSE]
NoTurn == [pc |-> "idle", latest |-> {}, todo |-> {}, job |-> 0]

HistoryTypeOK ==
  /\ policy \in Policies /\ now \in Moment /\ done \in BOOLEAN
  /\ rows \in UNION {[ids -> Row] : ids \in SUBSET Id} /\ worker \in Turn /\ manual \in 0..MaxRows
  /\ dumped \in BOOLEAN /\ cleanup \in SUBSET Id /\ alert \in BOOLEAN /\ had \in BOOLEAN
  /\ started \in Nat /\ since \in 0..Old /\ incidents \in 0..MaxIncidents

HistoryInit ==
  /\ policy \in Policies /\ now = [day |-> 0, slot |-> 0] /\ done = FALSE /\ rows = [id \in {} |-> NewRow]
  /\ worker = NoTurn
  /\ manual = 0 /\ dumped = FALSE /\ cleanup = {} /\ alert = FALSE /\ had = FALSE
  /\ started = 0 /\ since = Old /\ incidents = 0

Incident == incidents < MaxIncidents /\ incidents' = incidents + 1

(***************************************************************************)
(* The calendar                                                            *)
(***************************************************************************)
NextDay(d) == IF d + 1 < Week THEN d + 1 ELSE 0
NextSlot(t) == IF t.slot + 1 < Slots THEN [t EXCEPT !.slot = @ + 1]
               ELSE [day |-> NextDay(t.day), slot |-> 0]
DayBefore(t) == [t EXCEPT !.day = IF @ = 0 THEN Week - 1 ELSE @ - 1]

(* Days from the last day d to day e, which may be the same. *)
DaysSince(d, e) == IF d <= e THEN e - d ELSE e + Week - d

(* No day at all stands for every day. *)
ValidationWeekdayAllowed(t) == policy.days = {} \/ t.day \in policy.days

(* validationPeriodStart: slots since the start of the day that the policy *)
(* names and that is nearest to t.                                         *)
PeriodAge(t) ==
  t.slot + Slots * (IF policy.days = {} THEN 0 ELSE Min({DaysSince(d, t.day) : d \in policy.days}))

(* A window may go over midnight. *)
Wraps == policy.start > policy.end

(* Midnight is forgotten. *)
InWindow_SameDay(t) == t.slot >= policy.start /\ t.slot < policy.end

InWindow(t) ==
  IF Wraps THEN t.slot >= policy.start \/ t.slot < policy.end
  ELSE t.slot >= policy.start /\ t.slot < policy.end

(* After midnight the key of such a window is that of the day before. *)
WindowKeyAge(t) ==
  IF Wraps /\ t.slot < policy.end
  THEN Slots + PeriodAge(DayBefore(t)) ELSE PeriodAge(t)

(***************************************************************************)
(* The rows                                                                *)
(***************************************************************************)
Ids == DOMAIN rows
With(id, r) == [rows EXCEPT ![id] = r]
Without(id) == [i \in Ids \ {id} |-> [rows[i] EXCEPT !.older = @ \ {id}]]
Successes == {i \in Ids : rows[i].status = "SUCCESS"}

(* orderBy createdAt desc, with and without take. *)
Newer(i) == {j \in Ids : i \in rows[j].older}
Newest(ids, n) == {i \in ids : Cardinality(ids \cap Newer(i)) < n}
Latest(ids) == CHOOSE i \in ids : ids \cap Newer(i) = {}

(* Ids that nobody has in a list. *)
FreeIds == Id \ (Ids \cup worker.latest \cup worker.todo \cup cleanup \cup {worker.job, manual})
FreeId == CHOOSE id \in FreeIds : TRUE
WithNew(rs, id) == [i \in DOMAIN rs \cup {id} |->
                      IF i = id THEN [NewRow EXCEPT !.older = DOMAIN rs] ELSE rs[i]]

(* A job fails; its file is moved to the quarantine.  A suspect message    *)
(* speaks of validation, quarantine or an internal error.                  *)
Fails(id, m) == With(id, [rows[id] EXCEPT !.status = "FAILED", !.file = FALSE, !.valid = FALSE,
                                           !.validAge = 0, !.suspect = m])

(* What a success of job id, or the end of one, makes of the history.      *)
IsNewest(id) == Successes \ {id} \subseteq rows[id].older
Recorded(id) == IF IsNewest(id) THEN rows[id].file ELSE had
TakenBack(id) == had /\ ~(id \in Successes /\ IsNewest(id))

(***************************************************************************)
(* The pass of the worker: retention                                       *)
(***************************************************************************)
(* The newest success is read first. *)
PassStarts ==
  /\ worker.pc = "idle" /\ ~done
  /\ worker' = [NoTurn EXCEPT !.pc = "list",
                              !.latest = {i \in Successes : Successes \cap Newer(i) = {}}]
  /\ UNCHANGED <<policy, now, done, rows, manual, dumped, cleanup, alert, had, started, since,
                 incidents>>

(* The last backup is not spared. *)
Expired_All == {i \in Successes : rows[i].age >= Retention * Slots}

(* What cleanupRetention deletes. *)
Expired == {i \in Successes : rows[i].age >= Retention * Slots /\ i \notin worker.latest}

CleanupRetention ==
  /\ worker.pc = "list"
  /\ worker' = [worker EXCEPT !.pc = "retain", !.todo = Expired]
  /\ UNCHANGED <<policy, now, done, rows, manual, dumped, cleanup, alert, had, started, since,
                 incidents>>

(* File and manifest go before the row. *)
RetentionFiles(id) ==
  /\ worker.pc = "retain" /\ id \in worker.todo
  /\ worker' = [worker EXCEPT !.pc = "row", !.job = id]
  /\ rows' = IF id \in Ids THEN With(id, [rows[id] EXCEPT !.file = FALSE]) ELSE rows
  /\ UNCHANGED <<policy, now, done, manual, dumped, cleanup, alert, had, started, since, incidents>>

(* A row that is gone already is an error, which ends the pass. *)
RetentionRow ==
  /\ worker.pc = "row"
  /\ rows' = Without(worker.job)
  /\ worker' = IF worker.job \in Ids
               THEN [worker EXCEPT !.pc = "retain", !.todo = worker.todo \ {worker.job}, !.job = 0]
               ELSE NoTurn
  /\ UNCHANGED <<policy, now, done, manual, dumped, cleanup, alert, had, started, since, incidents>>

(***************************************************************************)
(* The pass of the worker: backup                                          *)
(***************************************************************************)
(* Jobs that run without a process. *)
Orphans == {i \in Ids \ {manual} : rows[i].status = "RUNNING"}

(* The jobs that are RUNNING are looked up, *)
Searches ==
  /\ worker.pc = "retain" /\ worker.todo = {}
  /\ worker' = [worker EXCEPT !.pc = "search", !.todo = {i \in Ids : rows[i].status = "RUNNING"}]
  /\ UNCHANGED <<policy, now, done, rows, manual, dumped, cleanup, alert, had, started, since,
                 incidents>>

(* and left alone while a tool of Firebird runs, or while they are too     *)
(* young.                                                                  *)
ProcessSeen ==
  /\ worker.pc = "search" /\ worker.todo # {}
  /\ IF worker.todo \subseteq Orphans THEN Incident ELSE UNCHANGED incidents
  /\ worker' = [worker EXCEPT !.todo = {}]
  /\ UNCHANGED <<policy, now, done, rows, manual, dumped, cleanup, alert, had, started, since>>

(* A job without a process has failed, whatever became of it since; also   *)
(* one of the panel that computes its checksum.  A file that is there goes *)
(* to the quarantine, and the message says so.                             *)
MarkOrphanedRunningBackupFailed(id) ==
  /\ worker.pc = "search" /\ id \in worker.todo
  /\ IF id \in Ids
     THEN /\ IF id \in Orphans THEN UNCHANGED incidents ELSE Incident
          /\ rows' = Fails(id, rows[id].file) /\ had' = TakenBack(id)
          /\ worker' = [worker EXCEPT !.todo = @ \ {id}]
     ELSE worker' = NoTurn /\ UNCHANGED <<rows, had, incidents>>
  /\ UNCHANGED <<policy, now, done, manual, dumped, cleanup, alert, started, since>>

(* A job that is still RUNNING is waited for; a manual one that ended      *)
(* meanwhile counts as the backup of the slot only for the next pass.      *)
RunBackup ==
  /\ worker.pc = "search" /\ worker.todo = {}
  /\ IF \E i \in Ids : rows[i].status = "RUNNING"
     THEN worker' = NoTurn /\ UNCHANGED <<rows, done>>
     ELSE /\ FreeIds # {}
          /\ rows' = WithNew(rows, FreeId)
          /\ worker' = [NoTurn EXCEPT !.pc = "gbak", !.job = FreeId] /\ done' = TRUE
  /\ UNCHANGED <<policy, now, manual, dumped, cleanup, alert, had, started, since, incidents>>

Gbak ==
  /\ worker.pc = "gbak"
  /\ rows' = With(worker.job, [rows[worker.job] EXCEPT !.file = TRUE])
  /\ worker' = [worker EXCEPT !.pc = "plan"]
  /\ UNCHANGED <<policy, now, done, manual, dumped, cleanup, alert, had, started, since, incidents>>

(* gbak, or a step after it, fails; the message names a file that was      *)
(* moved to the quarantine.                                                *)
AutomaticFails(m) ==
  /\ worker.pc \in {"gbak", "plan", "write"} /\ Incident
  /\ rows' = Fails(worker.job, m \/ rows[worker.job].file) /\ worker' = NoTurn
  /\ UNCHANGED <<policy, now, done, manual, dumped, cleanup, alert, had, started, since>>

(* latestValidatedBackup looks at the newest manifests. *)
ValidatedThisPeriod ==
  LET found == {i \in Newest(Successes, Take) : rows[i].file /\ rows[i].valid}
  IN found # {} /\ rows[Latest(found)].validAge <= PeriodAge(now)

(* latestValidationFailureForWindow. *)
FailedThisWindow ==
  LET failed == {i \in Ids : rows[i].status = "FAILED" /\ rows[i].age <= WindowKeyAge(now)}
  IN \E i \in Newest(failed, TakeFailed) : rows[i].suspect

(* A failure does not count. *)
ShouldValidate_AfterFailure ==
  \/ policy.mode = "always"
  \/ /\ policy.mode = "weekly" /\ ValidationWeekdayAllowed(now) /\ InWindow(now)
     /\ ~ValidatedThisPeriod

ShouldValidate ==
  \/ policy.mode = "always"
  \/ /\ policy.mode = "weekly" /\ ValidationWeekdayAllowed(now) /\ InWindow(now)
     /\ ~ValidatedThisPeriod /\ ~FailedThisWindow

(* In the window the plan also opens and closes the alert. *)
PlanAlert ==
  IF policy.mode = "weekly" /\ ValidationWeekdayAllowed(now) /\ InWindow(now)
  THEN ~ValidatedThisPeriod /\ (FailedThisWindow \/ alert)
  ELSE alert

BackupValidationPlan ==
  /\ worker.pc = "plan"
  /\ worker' = [worker EXCEPT !.pc = IF ShouldValidate THEN "validate" ELSE "write"]
  /\ started' = IF ShouldValidate THEN started + 1 ELSE started
  /\ alert' = PlanAlert
  /\ UNCHANGED <<policy, now, done, rows, manual, dumped, cleanup, had, since, incidents>>

ValidateBackupRestore ==
  /\ worker.pc = "validate"
  /\ rows' = With(worker.job, [rows[worker.job] EXCEPT !.valid = TRUE, !.validAge = 0])
  /\ worker' = [worker EXCEPT !.pc = "write"]
  /\ UNCHANGED <<policy, now, done, manual, dumped, cleanup, alert, had, started, since, incidents>>

ValidationFails ==
  /\ worker.pc = "validate" /\ Incident
  /\ rows' = Fails(worker.job, TRUE) /\ alert' = TRUE /\ worker' = NoTurn
  /\ UNCHANGED <<policy, now, done, manual, dumped, cleanup, had, started, since>>

(* A backup that was validated resolves the alert. *)
AlertAfter(v) == alert /\ ~v

BackupSucceeds ==
  LET v == rows[worker.job].valid
  IN /\ worker.pc = "write"
     /\ rows' = With(worker.job, [rows[worker.job] EXCEPT !.status = "SUCCESS"])
     /\ alert' = AlertAfter(v) /\ had' = Recorded(worker.job) /\ since' = IF v THEN 0 ELSE since
     /\ worker' = NoTurn
     /\ UNCHANGED <<policy, now, done, manual, dumped, cleanup, started, incidents>>

(***************************************************************************)
(* The panel                                                               *)
(***************************************************************************)
(* POST /api/backups/:databaseId/run. *)
ManualBackup ==
  /\ Incident /\ manual = 0 /\ FreeIds # {}
  /\ manual' = FreeId /\ dumped' = FALSE /\ rows' = WithNew(rows, FreeId)
  /\ UNCHANGED <<policy, now, done, worker, cleanup, alert, had, started, since>>

(* On the host a script that fails is answered as one that did not.        *)
ManualScript(ok) ==
  /\ manual # 0 /\ ~dumped /\ dumped' = TRUE
  /\ IF ok THEN UNCHANGED incidents ELSE Incident
  /\ rows' = With(manual, [rows[manual] EXCEPT !.file = ok])
  /\ UNCHANGED <<policy, now, done, worker, manual, cleanup, alert, had, started, since>>

(* The row is set to SUCCESS whatever the worker made of it and of its     *)
(* file, and the next automatic backup waits for its time again.           *)
ManualSucceeds ==
  /\ manual # 0 /\ dumped
  /\ rows' = With(manual, [rows[manual] EXCEPT !.status = "SUCCESS"])
  /\ manual' = 0 /\ dumped' = FALSE /\ done' = TRUE /\ had' = Recorded(manual)
  /\ UNCHANGED <<policy, now, worker, cleanup, alert, started, since, incidents>>

ManualFails(m) ==
  /\ manual # 0 /\ Incident
  /\ rows' = Fails(manual, m) /\ manual' = 0 /\ dumped' = FALSE
  /\ UNCHANGED <<policy, now, done, worker, cleanup, alert, had, started, since>>

(* Successes older than the days asked for, except the newest of those. *)
BackupCleanupCandidates(c) ==
  LET old == {i \in Successes : c.days = 0 \/ rows[i].age >= c.days * Slots}
  IN old \ Newest(old, c.keep)

(* POST /api/backups/cleanup. *)
Cleanup(c) ==
  /\ cleanup = {} /\ Incident
  /\ cleanup' = BackupCleanupCandidates(c)
  /\ UNCHANGED <<policy, now, done, rows, worker, manual, dumped, alert, had, started, since>>

(* Here too the files go before the row. *)
CleanupFiles(id) ==
  /\ id \in cleanup /\ id \in Ids /\ rows[id].file
  /\ rows' = With(id, [rows[id] EXCEPT !.file = FALSE])
  /\ UNCHANGED <<policy, now, done, worker, manual, dumped, cleanup, alert, had, started, since,
                 incidents>>

(* A row that is gone is only counted. *)
CleanupDeletes(id) ==
  /\ id \in cleanup /\ (id \in Ids => ~rows[id].file)
  /\ cleanup' = cleanup \ {id}
  /\ rows' = Without(id)
  /\ UNCHANGED <<policy, now, done, worker, manual, dumped, alert, had, started, since, incidents>>

(***************************************************************************)
(* Time and faults                                                         *)
(***************************************************************************)
Older(n) == IF n < Old THEN n + 1 ELSE n

(* Failures that are too old for the plan are forgotten. *)
Aged == LET kept == {i \in Ids : \/ rows[i].status # "FAILED" \/ i = manual
                                 \/ rows[i].age < WeekSlots + Slots}
        IN [i \in kept |-> [rows[i] EXCEPT !.older = @ \cap kept, !.age = Older(@),
                !.validAge = IF rows[i].valid THEN Older(@) ELSE 0]]

(* The backups that run. *)
Running == ({manual} \ {0}) \cup
           (IF worker.pc \in {"gbak", "plan", "validate", "write"} THEN {worker.job} ELSE {})

(* The next slot begins.  A backup may be late, but its timeouts end it;   *)
(* the two queries of cleanupRetention follow each other at once.          *)
Tick ==
  /\ worker.pc # "list" /\ \A id \in Running : rows[id].age < MaxRun
  /\ IF done /\ worker.pc = "idle" THEN UNCHANGED incidents ELSE worker.pc # "idle" /\ Incident
  /\ now' = NextSlot(now) /\ done' = FALSE
  /\ rows' = Aged /\ since' = Older(since)
  /\ started' = IF PeriodAge(now') = 0 THEN 0 ELSE started
  /\ UNCHANGED <<policy, worker, manual, dumped, cleanup, alert, had>>

(* Sync HA, an operation or the circuit breaker keeps the worker away. *)
BackupSkipped ==
  /\ worker.pc = "idle" /\ ~done /\ Incident /\ done' = TRUE
  /\ UNCHANGED <<policy, now, rows, worker, manual, dumped, cleanup, alert, had, started, since>>

WorkerStops ==
  /\ worker.pc # "idle" /\ Incident
  /\ worker' = NoTurn
  /\ UNCHANGED <<policy, now, done, rows, manual, dumped, cleanup, alert, had, started, since>>

BackendStops ==
  /\ manual # 0 \/ cleanup # {}
  /\ Incident
  /\ manual' = 0 /\ dumped' = FALSE /\ cleanup' = {}
  /\ UNCHANGED <<policy, now, done, rows, worker, alert, had, started, since>>

(***************************************************************************)
(* Specification                                                           *)
(***************************************************************************)
WorkerStep ==
  \/ PassStarts \/ CleanupRetention \/ (\E id \in Id : RetentionFiles(id)) \/ RetentionRow
  \/ Searches \/ ProcessSeen \/ (\E id \in Id : MarkOrphanedRunningBackupFailed(id)) \/ RunBackup
  \/ Gbak \/ BackupValidationPlan \/ ValidateBackupRestore \/ BackupSucceeds

HistoryNext ==
  \/ WorkerStep \/ (\E m \in BOOLEAN : AutomaticFails(m)) \/ ValidationFails
  \/ ManualBackup \/ (\E ok \in BOOLEAN : ManualScript(ok)) \/ ManualSucceeds
  \/ (\E m \in BOOLEAN : ManualFails(m))
  \/ (\E c \in Cleanups : Cleanup(c)) \/ (\E id \in Id : CleanupFiles(id) \/ CleanupDeletes(id))
  \/ Tick \/ BackupSkipped \/ WorkerStops \/ BackendStops

HistorySpec == HistoryInit /\ [][HistoryNext]_historyVars

(* Cron runs, commands end (they have a timeout), and time passes. *)
HistoryFairness ==
  /\ WF_historyVars(WorkerStep) /\ WF_historyVars(Tick)
  /\ WF_historyVars(ManualScript(TRUE)) /\ WF_historyVars(ManualSucceeds)
  /\ WF_historyVars(\E id \in Id : CleanupFiles(id) \/ CleanupDeletes(id))

HistoryFairSpec == HistorySpec /\ HistoryFairness

(***************************************************************************)
(* Properties                                                              *)
(***************************************************************************)
(* While the newest success is one whose file was there when it was        *)
(* recorded, and that no search took back, there is a successful row with  *)
(* its file, though retention and cleanups delete from lists they read     *)
(* before, and for days no backup may succeed.                             *)
KeepsABackup ==
  had => \E i \in Successes : rows[i].file

(* Unless the window goes over midnight, the restore that loads the server *)
(* is done once in a period, whether it succeeds, fails, ends after its    *)
(* window or is cut off by a crash, whose file in the quarantine counts as *)
(* a failed validation.                                                    *)
OneValidation == policy.mode = "weekly" /\ ~Wraps => started <= 1

(* In the end a backup is validated every week and the alert of a failure  *)
(* is resolved, though a failure or a crash in the window blocks the       *)
(* validation of that week.                                                *)
ValidatedEveryWeek == <>[](policy.mode = "weekly" => since <= WeekSlots /\ ~alert)

(***************************************************************************)
(* Why a backup is kept: the parts of an inductive invariant               *)
(***************************************************************************)
(* A backup ends before a retention of its length is over, and no operator *)
(* asks to keep nothing.                                                   *)
SafeSettings == MaxRun < Retention * Slots /\ \A c \in Cleanups : c.keep > 0

AtBackup == worker.pc \in {"gbak", "plan", "validate", "write"}

RowsOK ==
  /\ Ids \subseteq Id /\ rows \in [Ids -> Row] /\ worker \in Turn /\ manual \in 0..MaxRows
  /\ dumped \in BOOLEAN /\ cleanup \subseteq Id /\ had \in BOOLEAN

(* The dates order the rows. *)
Ordered ==
  \A i \in Ids :
    /\ rows[i].older \subseteq Ids \ {i}
    /\ \A j \in Ids : /\ i = j \/ i \in rows[j].older \/ j \in rows[i].older
                      /\ i \in rows[j].older => rows[i].older \subseteq rows[j].older

(* A backup that runs has a row of its own, which is not an old one; only  *)
(* that of the panel may have been marked meanwhile.                       *)
RunningInv ==
  /\ AtBackup => /\ manual # worker.job /\ rows[worker.job].status = "RUNNING"
                 /\ worker.pc # "gbak" => rows[worker.job].file
  /\ \A id \in Running : id \in Ids \ Successes /\ rows[id].age <= MaxRun

(* The lists of retention and cleanup name no backup that runs. *)
ToDelete == cleanup \cup (IF worker.pc = "search" THEN {} ELSE worker.todo)
ListsInv ==
  /\ ToDelete \cap Running = {}
  /\ worker.pc \notin {"retain", "row", "search"} => worker.todo = {}
  /\ worker.pc = "row" => worker.job \in worker.todo

(* The newest success has its file and is in no list; one that came after  *)
(* the query of the retention is too young for it.                         *)
KeptInv ==
  had => \E m \in Successes :
    /\ rows[m].file /\ m \notin ToDelete
    /\ \A i \in Successes \ {m} : i \in rows[m].older
    /\ worker.pc = "list" => m \in worker.latest \/ rows[m].age <= MaxRun

HistoryInv == RowsOK /\ Ordered /\ RunningInv /\ ListsInv /\ KeptInv

(***************************************************************************)
(* Why a validation is done once                                           *)
(***************************************************************************)
(* A backup whose plan is made in a window was started on the day of the   *)
(* window, and no operator cleans up what is younger than a day.           *)
DailySettings ==
  /\ \A p \in Policies : p.mode = "weekly" /\ p.start <= p.end => MaxRun <= p.start
  /\ \A c \in Cleanups : c.days > 0

(* The searches of a plan reach back to the start of the day. *)
Today == {i \in Ids : rows[i].age <= now.slot}
FewToday == /\ Cardinality(Today \cap Successes) <= Take
            /\ Cardinality({i \in Today : rows[i].status = "FAILED"}) <= TakeFailed

ClockOK == policy \in Policies /\ now \in Moment /\ started \in Nat

(* What is listed to be deleted is a day old. *)
ListedInv == \A id \in ToDelete \cap Ids : rows[id].age >= Slots

(* Newer rows are younger. *)
AgesInv == \A j \in Ids : \A i \in rows[j].older : rows[j].age <= rows[i].age

(* Until it is validated itself, a backup is no valid one; it is newer     *)
(* than those that are.  None of the panel is, nor a success that a search *)
(* will mark.                                                              *)
PlanInv ==
  /\ AtBackup => /\ worker.pc # "write" => ~rows[worker.job].valid
                 /\ \A i \in Ids \ {worker.job} : rows[i].valid => i \in rows[worker.job].older
  /\ manual # 0 => ~rows[manual].valid
  /\ worker.pc = "search" => \A i \in worker.todo \cap Successes : ~rows[i].valid

(* The backup of this turn is, or was, restored to validate it. *)
Validating == worker.pc = "validate" \/ (worker.pc = "write" /\ rows[worker.job].valid)

(* What a validation started today leaves for the plans of the day: its    *)
(* backup runs; or it succeeded, and no newer one is valid; or it failed;  *)
(* or it was cut off, and its row and file are still to be found.          *)
TodayRuns == /\ rows[worker.job].age <= now.slot
             /\ worker.pc = "write" => rows[worker.job].validAge <= now.slot
TodayValid == \E e \in Successes :
  /\ rows[e].file /\ rows[e].valid /\ rows[e].validAge <= now.slot /\ rows[e].age <= now.slot
  /\ \A i \in Ids \ {e} : rows[i].valid => i \in rows[e].older
TodayFailed == \E f \in Ids \ {manual} :
  /\ rows[f].status = "FAILED" /\ rows[f].suspect /\ rows[f].age <= now.slot
  /\ worker.pc = "search" => f \notin worker.todo
TodayCut == \E c \in Ids \ {manual} :
  rows[c].status = "RUNNING" /\ rows[c].file /\ rows[c].age <= now.slot
Evidence ==
  IF Validating THEN TodayRuns ELSE TodayValid \/ TodayFailed \/ (~AtBackup /\ TodayCut)

OnceInv ==
  policy.mode = "weekly" /\ ~Wraps =>
    started <= 1 /\ (started = 1 /\ ValidationWeekdayAllowed(now) => Evidence)

ValidationInv == ClockOK /\ ListedInv /\ AgesInv /\ PlanInv /\ OnceInv
=============================================================================
