--------------------------- MODULE FirebirdProbes ---------------------------
(***************************************************************************)
(* The monitoring of Firebird, end to end.  The host runs the monitor      *)
(* scripts through a gate: one at a time, the same script shared, another  *)
(* one deferred, an answer kept for five seconds.  The TronFire backend    *)
(* probes the health of a database through an AsyncProbeCache, and its     *)
(* readers (dashboard, list of alerts, version, validation, maintenance)   *)
(* turn the answers into rows of alerts; the worker probes on its own.     *)
(* Operations replace a database and invalidate the cache.  Of a health    *)
(* only the kinds of alert it calls for are kept, and of a time whether it *)
(* is within the limit that the code compares it with.                     *)
(***************************************************************************)
EXTENDS Naturals, FiniteSets, Sequences

CONSTANTS
  Db,         \* databases; the health script of each is one key of the gate
  WKey,       \* keys of the worker's own probes
  Reader,     \* requests of the backend that may overlap
  None,       \* no key
  MaxEvents   \* bound on changes of a database, faults and restarts

ASSUME ProbeAssumption ==
  /\ Db \cap WKey = {} /\ None \notin Db \cup WKey /\ IsFiniteSet(Reader)
  /\ MaxEvents \in Nat

Key == Db \cup WKey

(* DATABASE_MISSING_ACTIVE_INDEXES and FIREBIRD_TRANSACTION_GAP. *)
Kind == {"index", "gap"}

VARIABLES
  health,     \* what is wrong with each database
  op,         \* databases that an operation has replaced and not yet invalidated
  env,        \* how Firebird answers: fast, slow or failing
  lock,       \* another process holds probe.lock
  script,     \* the monitor scripts that run
  active,     \* the key that the gate takes to be running
  answers,    \* the gate's answers of the last five seconds
  slow,       \* slowFailures of the gate, up to 2
  slowAlert,  \* firebirdMonitorSlowAlert
  req,        \* the request for each key: a load of the cache or of the worker
  entry,      \* entries of firebirdHealthCache
  reader,     \* where each reader is
  rows,       \* rows not resolved of each kind
  slowRows,   \* rows FIREBIRD_MONITOR_SLOW
  events

gate    == <<script, active, answers, slow, slowAlert>>
outside == <<health, op, env, lock>>
backend == <<entry, reader, rows>>
vars    == <<outside, gate, req, backend, slowRows, events>>

Script == [pc : {"none", "queued", "read"}, value : SUBSET Kind]
NoScript == [pc |-> "none", value |-> {}]

(* slow is the monitorSlowFailures of the answer; 3 when it has none. *)
Request == [pc : {"none", "wait", "ok", "failed", "create"}, value : SUBSET Kind, slow : 0..3]
NoRequest == [pc |-> "none", value |-> {}, slow |-> 3]

Entry == [age : {"none", "fresh", "stale"}, value : SUBSET Kind]
NoEntry == [age |-> "none", value |-> {}]

(* left: the kinds that are still to be written, in the code's order. *)
All == <<"index", "gap">>
Readers == [pc : {"idle", "wait", "find", "create"}, db : Db \cup {None}, strict : BOOLEAN,
            left : {All, <<"gap">>, <<>>}, value : SUBSET Kind]
NoReader == [pc |-> "idle", db |-> None, strict |-> FALSE, left |-> <<>>, value |-> {}]

TypeOK ==
  /\ health \in [Db -> SUBSET Kind] /\ op \subseteq Db
  /\ env \in {"fast", "slow", "failing"} /\ lock \in BOOLEAN
  /\ script \in [Key -> Script] /\ active \in Key \cup {None}
  /\ answers \in [Key -> Entry] /\ slow \in 0..2 /\ slowAlert \in BOOLEAN
  /\ req \in [Key -> Request] /\ entry \in [Db -> Entry]
  /\ reader \in [Reader -> Readers]
  /\ rows \in [Db -> [Kind -> 0..Cardinality(Reader)]] /\ slowRows \in 0..Cardinality(WKey)
  /\ events \in 0..MaxEvents

Init ==
  /\ health = [d \in Db |-> {}] /\ op = {} /\ env = "fast" /\ lock = FALSE
  /\ script = [k \in Key |-> NoScript] /\ active = None
  /\ answers = [k \in Key |-> NoEntry] /\ slow = 0 /\ slowAlert = FALSE
  /\ req = [k \in Key |-> NoRequest] /\ entry = [d \in Db |-> NoEntry]
  /\ reader = [r \in Reader |-> NoReader]
  /\ rows = [d \in Db |-> [t \in Kind |-> 0]] /\ slowRows = 0 /\ events = 0

(***************************************************************************)
(* The gate                                                                *)
(***************************************************************************)
(* Another key does not keep a probe from running. *)
Busy_Same(k) == active = k

(* A monitor script runs. *)
Busy(k) == active # None

(* What a request for k is answered at once, or that it waits. *)
GateAnswer(k) ==
  IF answers[k].age = "fresh" THEN [NoRequest EXCEPT !.pc = "ok", !.value = answers[k].value]
  ELSE IF Busy(k) /\ active # k THEN [NoRequest EXCEPT !.pc = "failed"]
  ELSE [NoRequest EXCEPT !.pc = "wait"]

Deferred(k) == GateAnswer(k).pc = "failed"

(* Neither answered from the cache, nor shared, nor deferred. *)
GateExecutes(k) == answers[k].age # "fresh" /\ ~Busy(k)

MonitorGate(k) ==
  /\ req' = [req EXCEPT ![k] = GateAnswer(k)]
  /\ active' = IF GateExecutes(k) THEN k ELSE active
  /\ script' = IF GateExecutes(k) THEN [script EXCEPT ![k] = [NoScript EXCEPT !.pc = "queued"]]
               ELSE script

(* A fast probe does not reset the counter. *)
SlowFailures_Kept(isSlow, deferred) == IF isSlow /\ slow < 2 THEN slow + 1 ELSE slow

(* Only a probe that is neither slow nor deferred resets the counter. *)
SlowFailures(isSlow, deferred) ==
  IF deferred \/ (isSlow /\ slow = 2) THEN slow ELSE IF isSlow THEN slow + 1 ELSE 0

(* The finally block. *)
Frees(k) == active' = IF active = k THEN None ELSE active

(* The alert of the host follows the counter. *)
SlowAlert(n, deferred) == IF deferred THEN slowAlert ELSE n >= 2

(* The execution of k ends and whoever waits is answered. *)
GateCompletes(k, ok, isSlow, deferred) ==
  /\ slow' = SlowFailures(isSlow, deferred)
  /\ slowAlert' = SlowAlert(slow', deferred)
  /\ answers' = IF ok THEN [answers EXCEPT ![k] = [age |-> "fresh", value |-> script[k].value]]
                ELSE answers
  /\ req' = IF req[k].pc # "wait" THEN req
            ELSE [req EXCEPT ![k] = [pc |-> IF ok THEN "ok" ELSE "failed",
                                     value |-> IF ok THEN script[k].value ELSE {}, slow |-> slow']]
  /\ script' = [script EXCEPT ![k] = NoScript]
  /\ Frees(k)

(* The temporary file cannot be written: no answer, and no count. *)
GateThrows(k) ==
  /\ script[k].pc = "queued" /\ events < MaxEvents /\ events' = events + 1
  /\ req' = IF req[k].pc # "wait" THEN req ELSE [req EXCEPT ![k] = [NoRequest EXCEPT !.pc = "failed"]]
  /\ script' = [script EXCEPT ![k] = NoScript]
  /\ Frees(k)
  /\ UNCHANGED <<outside, answers, slow, slowAlert, backend, slowRows>>

(* Exit 75: the lock of the probes was not free for two seconds. *)
ScriptBusy(k) ==
  /\ script[k].pc = "queued" /\ lock
  /\ GateCompletes(k, FALSE, FALSE, TRUE)
  /\ UNCHANGED <<outside, backend, slowRows, events>>

(* isql and gstat look at the database as it is now. *)
ScriptReads(k) ==
  /\ script[k].pc = "queued" /\ ~lock
  /\ script' = [script EXCEPT ![k] = [pc |-> "read", value |-> IF k \in Db THEN health[k] ELSE {}]]
  /\ UNCHANGED <<outside, active, answers, slow, slowAlert, req, backend, slowRows, events>>

(* Slow answers may still be right; a timeout is slow and fails. *)
ScriptEnds(k, ok) ==
  /\ script[k].pc = "read"
  /\ ok => env # "failing"
  /\ ~ok => env # "fast"
  /\ GateCompletes(k, ok, env = "slow", FALSE)
  /\ UNCHANGED <<outside, backend, slowRows, events>>

(***************************************************************************)
(* AsyncProbeCache of the backend and the readers                          *)
(***************************************************************************)
(* The error of a load does not reach the reader. *)
Resolve_Hangs(s, q, e) ==
  IF q.pc = "ok" THEN [s EXCEPT !.pc = "find", !.value = q.value]
  ELSE IF ~s.strict /\ e.age # "none" THEN [s EXCEPT !.pc = "find", !.value = e.value]
  ELSE s

(* What a reader gets from a load that ended with q, the entry being e. *)
Resolve(s, q, e) ==
  IF q.pc = "ok" THEN [s EXCEPT !.pc = "find", !.value = q.value]
  ELSE IF ~s.strict /\ e.age # "none" THEN [s EXCEPT !.pc = "find", !.value = e.value]
  ELSE NoReader

(* A load that is under way is shared, by a forced read too; else one is   *)
(* started, which a deferral ends at once.                                 *)
Get(r, d, strict, left) ==
  LET s == [pc |-> "wait", db |-> d, strict |-> strict, left |-> left, value |-> {}]
  IN /\ reader[r].pc = "idle"
     /\ IF req[d].pc = "none" /\ Deferred(d)
        THEN reader' = [reader EXCEPT ![r] = Resolve(s, GateAnswer(d), entry[d])]
        ELSE reader' = [reader EXCEPT ![r] = s]
     /\ IF req[d].pc = "none" /\ ~Deferred(d)
        THEN MonitorGate(d)
        ELSE UNCHANGED <<req, active, script>>

(* An entry within its time is returned as it is. *)
GetHit(r, d, left) ==
  /\ reader[r].pc = "idle" /\ entry[d].age = "fresh"
  /\ reader' = [reader EXCEPT ![r] = [pc |-> "find", db |-> d, strict |-> FALSE,
                                      left |-> left, value |-> entry[d].value]]
  /\ UNCHANGED <<outside, gate, req, entry, rows, slowRows, events>>

(* Both alerts of a database are refreshed. *)
RefreshInactiveIndexAlerts(r, d) ==
  /\ entry[d].age # "fresh"
  /\ Get(r, d, FALSE, All)
  /\ UNCHANGED <<outside, answers, slow, slowAlert, entry, rows, slowRows, events>>

(* The dashboard, which answers after eight seconds though the refresh     *)
(* goes on, and the list of alerts.                                        *)
Dashboard(r, d) == RefreshInactiveIndexAlerts(r, d)

(* GET /api/internal/database-version refreshes the gap only. *)
DatabaseVersion(r, d) ==
  /\ entry[d].age # "fresh"
  /\ Get(r, d, FALSE, <<"gap">>)
  /\ UNCHANGED <<outside, answers, slow, slowAlert, entry, rows, slowRows, events>>

(* POST /api/databases/:id/validate: forced, and no stale value. *)
Validate(r, d) ==
  /\ events < MaxEvents /\ events' = events + 1
  /\ Get(r, d, TRUE, All)
  /\ UNCHANGED <<outside, answers, slow, slowAlert, entry, rows, slowRows>>

LoadEnds(d) ==
  /\ req[d].pc \in {"ok", "failed"}
  /\ entry' = IF req[d].pc = "ok" THEN [entry EXCEPT ![d] = [age |-> "fresh", value |-> req[d].value]]
              ELSE entry
  /\ reader' = [r \in Reader |-> IF reader[r].pc = "wait" /\ reader[r].db = d
                                 THEN Resolve(reader[r], req[d], entry[d]) ELSE reader[r]]
  /\ req' = [req EXCEPT ![d] = NoRequest]
  /\ UNCHANGED <<outside, gate, rows, slowRows, events>>

(* The next kind of alert, or the end of the request. *)
Advance(s) == IF Len(s.left) = 1 THEN NoReader ELSE [s EXCEPT !.pc = "find", !.left = Tail(s.left)]

(* All the rows of a type. *)
ResolveActiveAlertsByType(d, t) == [rows EXCEPT ![d] = [rows[d] EXCEPT ![t] = 0]]

(* The alert is resolved, or looked for and updated, or to be created. *)
AlertFinds(r) ==
  LET s == reader[r]
      t == Head(s.left)
  IN /\ s.pc = "find"
     /\ rows' = IF t \in s.value THEN rows ELSE ResolveActiveAlertsByType(s.db, t)
     /\ reader' = [reader EXCEPT ![r] = IF t \in s.value /\ rows[s.db][t] = 0
                                        THEN [s EXCEPT !.pc = "create"] ELSE Advance(s)]
     /\ UNCHANGED <<outside, gate, req, entry, slowRows, events>>

AlertCreates(r) ==
  LET s == reader[r]
      t == Head(s.left)
  IN /\ s.pc = "create"
     /\ rows' = [rows EXCEPT ![s.db] = [rows[s.db] EXCEPT ![t] = rows[s.db][t] + 1]]
     /\ reader' = [reader EXCEPT ![r] = Advance(s)]
     /\ UNCHANGED <<outside, gate, req, entry, slowRows, events>>

(***************************************************************************)
(* The worker                                                              *)
(***************************************************************************)
(* A probe that is deferred leaves everything as it is. *)
WorkerProbes(k) ==
  /\ req[k].pc = "none" /\ ~Deferred(k)
  /\ MonitorGate(k)
  /\ UNCHANGED <<outside, answers, slow, slowAlert, backend, slowRows, events>>

(* runHostFirebirdShell acts on the counter that came with the answer. *)
RunHostFirebirdShell(k) ==
  /\ req[k].pc \in {"ok", "failed"}
  /\ LET creates == req[k].slow = 2 /\ slowRows = 0
     IN req' = [req EXCEPT ![k] = IF creates THEN [req[k] EXCEPT !.pc = "create"] ELSE NoRequest]
  /\ slowRows' = IF req[k].slow = 0 /\ req[k].pc = "ok" THEN 0 ELSE slowRows
  /\ UNCHANGED <<outside, gate, backend, events>>

SlowRowCreated(k) ==
  /\ req[k].pc = "create"
  /\ slowRows' = slowRows + 1
  /\ req' = [req EXCEPT ![k] = NoRequest]
  /\ UNCHANGED <<outside, gate, backend, events>>

(***************************************************************************)
(* Operations, time, faults and restarts                                   *)
(***************************************************************************)
(* The database itself changes, in use or by a sweep elsewhere. *)
HealthChanges(d, v) ==
  /\ health[d] # v /\ events < MaxEvents /\ events' = events + 1
  /\ health' = [health EXCEPT ![d] = v]
  /\ UNCHANGED <<op, env, lock, gate, req, backend, slowRows>>

(* Maintenance, a restore or a promotion has replaced the file ... *)
OperationReplaces(d, v) ==
  /\ d \notin op /\ events < MaxEvents /\ events' = events + 1
  /\ health' = [health EXCEPT ![d] = v] /\ op' = op \cup {d}
  /\ UNCHANGED <<env, lock, gate, req, backend, slowRows>>

(* ... and then invalidates the entries, though not a load under way. *)
Invalidates(d) ==
  /\ d \in op /\ op' = op \ {d}
  /\ entry' = [entry EXCEPT ![d] = NoEntry]
  /\ UNCHANGED <<health, env, lock, answers, slow, slowAlert, rows, slowRows, events>>

InvalidateProbeCaches(d) == Invalidates(d) /\ UNCHANGED <<req, active, script, reader>>

(* The index maintenance reads the health again, forced. *)
MaintenanceRefreshes(r, d) == Invalidates(d) /\ Get(r, d, TRUE, All)

AnswerExpires(k) ==
  /\ answers[k].age = "fresh"
  /\ answers' = [answers EXCEPT ![k] = NoEntry]
  /\ UNCHANGED <<outside, script, active, slow, slowAlert, req, backend, slowRows, events>>

(* An entry never gets too old. *)
EntryAges_Never(d) ==
  /\ entry[d].age = "stale"
  /\ entry' = [entry EXCEPT ![d] = NoEntry]
  /\ UNCHANGED <<outside, gate, req, reader, rows, slowRows, events>>

(* maxAgeMs and staleIfErrorMs. *)
EntryAges(d) ==
  /\ entry[d].age # "none"
  /\ entry' = [entry EXCEPT ![d] = IF entry[d].age = "fresh" THEN [entry[d] EXCEPT !.age = "stale"]
                                   ELSE NoEntry]
  /\ UNCHANGED <<outside, gate, req, reader, rows, slowRows, events>>

FirebirdChanges(e) ==
  /\ e # env /\ (e = "fast" \/ events < MaxEvents)
  /\ events' = IF e = "fast" THEN events ELSE events + 1
  /\ env' = e
  /\ UNCHANGED <<health, op, lock, gate, req, backend, slowRows>>

(* Another process takes the lock of the probes, or leaves it. *)
LockTaken ==
  /\ ~lock /\ \A k \in Key : script[k].pc # "read"
  /\ lock' = TRUE /\ events < MaxEvents /\ events' = events + 1
  /\ UNCHANGED <<health, op, env, gate, req, backend, slowRows>>

LockLeft ==
  /\ lock /\ lock' = FALSE
  /\ UNCHANGED <<health, op, env, gate, req, backend, slowRows, events>>

(* A request whose answer no longer comes is an error. *)
ConnectionLost(q) == IF q.pc = "wait" THEN [NoRequest EXCEPT !.pc = "failed"] ELSE q

(* The service of the host restarts: its scripts die with it. *)
HostRestarts ==
  /\ events < MaxEvents /\ events' = events + 1
  /\ script' = [k \in Key |-> NoScript] /\ active' = None
  /\ answers' = [k \in Key |-> NoEntry] /\ slow' = 0 /\ slowAlert' = FALSE
  /\ req' = [k \in Key |-> ConnectionLost(req[k])]
  /\ UNCHANGED <<outside, backend, slowRows>>

(* The backend restarts: loads, readers and operations are gone. *)
BackendRestarts ==
  /\ events < MaxEvents /\ events' = events + 1
  /\ req' = [k \in Key |-> IF k \in Db THEN NoRequest ELSE req[k]]
  /\ entry' = [d \in Db |-> NoEntry] /\ reader' = [r \in Reader |-> NoReader] /\ op' = {}
  /\ UNCHANGED <<health, env, lock, gate, rows, slowRows>>

(***************************************************************************)
(* Specification                                                           *)
(***************************************************************************)
ScriptStep(k) ==
  \/ GateThrows(k) \/ ScriptBusy(k) \/ ScriptReads(k)
  \/ \E ok \in BOOLEAN : ScriptEnds(k, ok)

Next ==
  \/ \E k \in Key : ScriptStep(k) \/ AnswerExpires(k)
  \/ \E k \in WKey : WorkerProbes(k) \/ RunHostFirebirdShell(k) \/ SlowRowCreated(k)
  \/ \E r \in Reader, d \in Db :
        \/ GetHit(r, d, All) \/ GetHit(r, d, <<"gap">>)
        \/ Dashboard(r, d) \/ DatabaseVersion(r, d) \/ Validate(r, d)
        \/ MaintenanceRefreshes(r, d)
  \/ \E r \in Reader : AlertFinds(r) \/ AlertCreates(r)
  \/ \E d \in Db : LoadEnds(d) \/ InvalidateProbeCaches(d) \/ EntryAges(d)
  \/ \E d \in Db, v \in SUBSET Kind : HealthChanges(d, v) \/ OperationReplaces(d, v)
  \/ \E e \in {"fast", "slow", "failing"} : FirebirdChanges(e)
  \/ LockTaken \/ LockLeft \/ HostRestarts \/ BackendRestarts

Spec == Init /\ [][Next]_vars

(* Scripts end (they run under timeout), awaited calls return, times pass, *)
(* Firebird gets fast again and the lock free.  Dashboards and the crons   *)
(* of the worker come again for ever, and not always while another probe   *)
(* runs: strong fairness for finding the gate free.                        *)
Fairness ==
  /\ \A k \in Key : WF_vars(ScriptStep(k)) /\ WF_vars(AnswerExpires(k))
  /\ \A k \in WKey : WF_vars(RunHostFirebirdShell(k)) /\ WF_vars(SlowRowCreated(k))
                     /\ SF_vars(WorkerProbes(k) /\ GateExecutes(k))
  /\ \A r \in Reader : WF_vars(AlertFinds(r)) /\ WF_vars(AlertCreates(r))
  /\ \A d \in Db :
       /\ WF_vars(LoadEnds(d)) /\ WF_vars(EntryAges(d)) /\ WF_vars(InvalidateProbeCaches(d))
       /\ \A r \in Reader : SF_vars(Dashboard(r, d) /\ GateExecutes(d))
  /\ WF_vars(FirebirdChanges("fast")) /\ WF_vars(LockLeft)

FairSpec == Spec /\ Fairness

(***************************************************************************)
(* Properties                                                              *)
(***************************************************************************)
(* However the requests of the backend and of the worker meet, one monitor *)
(* script runs at a time, and the gate knows which.                        *)
OneProbe ==
  /\ \A k \in Key : script[k].pc # "none" => active = k
  /\ active # None => script[active].pc # "none"

(* A reader waits only for a load, and a load only for a script that runs: *)
(* none waits for ever when the host, the lock or the script fails.        *)
WaitsForScript ==
  /\ \A k \in Key : req[k].pc = "wait" => script[k].pc # "none"
  /\ \A r \in Reader : reader[r].pc = "wait" => req[reader[r].db].pc # "none"

(* Once a database and its services are left alone its rows say what is    *)
(* wrong with it, whatever answers from before an operation were shared,   *)
(* cached or stored after the invalidation.                                *)
AlertsAgree ==
  \A d \in Db, t \in Kind : <>[](rows[d][t] > 0 <=> t \in health[d])

(* The alert about slow probes goes away, on the host and as a row.        *)
SlowAlertClears == <>[](~slowAlert /\ slowRows = 0)
=============================================================================
