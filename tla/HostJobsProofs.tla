--------------------------- MODULE HostJobsProofs ---------------------------
(***************************************************************************)
(* Proofs about HostJobs, for any number of requests and faults: what      *)
(* script, timer, close event, crash and restart may leave in the job      *)
(* table and in update-status.json.                                        *)
(***************************************************************************)
EXTENDS HostJobs, TLAPS

(***************************************************************************)
(* The inductive invariant                                                 *)
(***************************************************************************)
OtherStep == {"prepare", "compose", "verify", "ssh", "power", "local-keepalived"}

(* One entry of the job table and its process.  An id that was not given   *)
(* out has neither.  Only the timer of an update ends a job before its     *)
(* process, and then as failed.  A script past its installer, or one that  *)
(* ended well, has installed.  A job that writes .env has a branch.        *)
JobOK(i) ==
  /\ i > used => job[i].status = "none" /\ ~job[i].timedOut /\ child[i] = "none"
  /\ job[i].timedOut => job[i].status = "failed" /\ job[i].app = "tronsoftos"
  /\ child[i] # "none" /\ ~job[i].timedOut => job[i].status = "running"
  /\ child[i] \in UpdateStep => job[i].app = "tronsoftos"
  /\ child[i] \in OtherStep => job[i].app # "tronsoftos"
  /\ child[i] = "prepare" => job[i].branch # "none"
  /\ child[i] \in {"clear", "local", "report"} => i \in installed
  /\ child[i] = "exit0" /\ job[i].app = "tronsoftos" => i \in installed

JobsInv ==
  /\ TypeOK
  /\ \A i \in Id : JobOK(i)
  /\ panel.status = "running" => panel.id \in Id
  /\ SuccessIsInstalled

(***************************************************************************)
(* What the shared parts of the steps preserve                             *)
(***************************************************************************)
(* An entry that a step leaves alone stays right when the history grows.   *)
LEMMA JobKept ==
  ASSUME TypeOK, TypeOK', NEW j \in Id, JobOK(j), job'[j] = job[j], child'[j] = child[j],
         installed \subseteq installed', used' >= used
  PROVE  JobOK(j)'
<1>1. j \in Nat /\ used \in Nat /\ used' \in Nat
  BY RequestBound DEF TypeOK, Id
<1>2. j > used' => j > used
  BY <1>1
<1> QED
  BY <1>2 DEF JobOK

(* The values that are stored have their types. *)
LEMMA ValueTypes ==
  /\ NoJob \in Job
  /\ IdleSettings \in [pc: {"idle", "login", "env", "api", "up"}, kds: BOOLEAN, seen: Branch]
BY DEF NoJob, Job, App, Status, Branch, IdleSettings

(* A new job has the next id and a well-typed record. *)
LEMMA StartJobType ==
  ASSUME TypeOK, used < MaxRequests, NEW app \in App, NEW branch \in Branch \cup {"none"},
         NEW on \in BOOLEAN, NEW step \in Step, StartJob(app, branch, on, step)
  PROVE  /\ used + 1 \in Id
         /\ used' \in 0 .. MaxRequests
         /\ job' \in [Id -> Job]
         /\ child' \in [Id -> Step]
<1>1. used + 1 \in Id /\ used' \in 0 .. MaxRequests
  BY RequestBound DEF TypeOK, StartJob, Id
<1>2. [app |-> app, status |-> "running", branch |-> branch, on |-> on, timedOut |-> FALSE] \in Job
  BY DEF Job, Status
<1> QED
  BY <1>1, <1>2 DEF TypeOK, StartJob

(* Setting the status of a job keeps the table well typed. *)
LEMMA StatusType ==
  ASSUME TypeOK, NEW i \in Id, NEW s \in Status,
         job' = [job EXCEPT ![i] = [job[i] EXCEPT !.status = s]]
  PROVE  job' \in [Id -> Job]
<1>1. [job[i] EXCEPT !.status = s] \in Job
  BY DEF TypeOK, Job
<1> QED
  BY <1>1 DEF TypeOK

(* Moving a process to its next step keeps the table well typed. *)
LEMMA GotoType ==
  ASSUME TypeOK, NEW i \in Id, NEW step \in Step, Goto(i, step)
  PROVE  child' \in [Id -> Step]
BY DEF TypeOK, Goto

(* The number of faults left stays a natural. *)
LEMMA FaultType ==
  ASSUME TypeOK, NEW kind, UseFault(kind)
  PROVE  faultsLeft' \in Nat
BY DEF TypeOK, UseFault

(***************************************************************************)
(* Type correctness                                                        *)
(***************************************************************************)
LEMMA InitType == Init => TypeOK
<1> SUFFICES ASSUME Init PROVE TypeOK
  OBVIOUS
<1>1. job \in [Id -> Job] /\ child \in [Id -> Step]
  BY ValueTypes DEF Init, Step
<1>2. used \in 0 .. MaxRequests /\ faultsLeft \in Nat /\ role \in Role
  BY RequestBound, FaultBound, SetAssumption DEF Init
<1>3. /\ file \in [id: Id \cup {NoId}, status: Status]
      /\ panel \in [id: Id \cup {NoId}, status: Status]
      /\ maint \in [active: BOOLEAN, mode: Mode]
  BY DEF Init, Status, Mode
<1>4. /\ peer \in [blocked: BOOLEAN, keepalived: BOOLEAN]
      /\ comanda \in [kds: BOOLEAN, tag: Branch, api: Branch]
  BY DEF Init, Branch
<1> QED
  BY <1>1, <1>2, <1>3, <1>4, ValueTypes DEF Init, TypeOK

(* Requests start a job, write the record of the maintenance or begin the  *)
(* change of the settings.                                                 *)
LEMMA RequestType ==
  ASSUME TypeOK, Request
  PROVE  TypeOK'
<1>1. /\ \A on \in BOOLEAN, mode \in Mode :
           WriteMaintenanceState(on, mode) => maint' \in [active: BOOLEAN, mode: Mode]
      /\ {"update", "failover-update", "failback", "ha"} \subseteq Mode
  BY DEF WriteMaintenanceState, Mode
<1>2. used < MaxRequests => used + 1 \in Id /\ used + 1 \in 0 .. MaxRequests
  BY RequestBound DEF TypeOK, Id
<1>3. /\ {"tronsoftos", "troncomanda", "keepalived-standby", "keepalived-local", "host"} \subseteq App
      /\ {"begin", "ssh", "power", "local-keepalived", "prepare", "compose"} \subseteq Step
      /\ "none" \in Branch \cup {"none"} /\ Branches \subseteq Branch
  BY SetAssumption DEF App, Step, UpdateStep
<1>4. CASE StartTronsoftosUpdate
  <2>1. used < MaxRequests
    BY <1>4 DEF StartTronsoftosUpdate, Asked
  <2>2. job' \in [Id -> Job] /\ child' \in [Id -> Step] /\ used' \in 0 .. MaxRequests
    BY <1>3, <1>4, <2>1, StartJobType DEF StartTronsoftosUpdate
  <2>3. maint' \in [active: BOOLEAN, mode: Mode]
    BY <1>1, <1>4 DEF StartTronsoftosUpdate, TypeOK
  <2>4. /\ file' \in [id: Id \cup {NoId}, status: Status]
        /\ panel' \in [id: Id \cup {NoId}, status: Status]
    BY <1>2, <1>4, <2>1 DEF StartTronsoftosUpdate, Status
  <2> QED
    BY <1>4, <2>2, <2>3, <2>4 DEF StartTronsoftosUpdate, TypeOK, node, containers, history
<1>5. ASSUME NEW on \in BOOLEAN, StartStandbyKeepalived(on)
      PROVE  TypeOK'
  <2>1. job' \in [Id -> Job] /\ child' \in [Id -> Step] /\ used' \in 0 .. MaxRequests
    BY <1>3, <1>5, StartJobType DEF StartStandbyKeepalived, Asked
  <2>2. maint' \in [active: BOOLEAN, mode: Mode]
    BY <1>1, <1>5 DEF StartStandbyKeepalived
  <2> QED
    BY <1>5, <2>1, <2>2 DEF StartStandbyKeepalived, TypeOK, node, containers, history
<1>6. ASSUME NEW on \in BOOLEAN, StartLocalKeepalived(on)
      PROVE  TypeOK'
  <2>1. job' \in [Id -> Job] /\ child' \in [Id -> Step] /\ used' \in 0 .. MaxRequests
    BY <1>3, <1>6, StartJobType DEF StartLocalKeepalived, Asked
  <2> QED
    BY <1>6, <2>1 DEF StartLocalKeepalived, TypeOK, node, files, containers, history
<1>7. ASSUME NEW on \in BOOLEAN, FailoverBlock(on)
      PROVE  TypeOK'
  <2>1. used' \in 0 .. MaxRequests
    BY <1>2, <1>7 DEF FailoverBlock, Asked
  <2>2. maint' \in [active: BOOLEAN, mode: Mode]
    BY <1>1, <1>7 DEF FailoverBlock
  <2> QED
    BY <1>7, <2>1, <2>2 DEF FailoverBlock, TypeOK, node, containers, history
<1>8. CASE StartHostPower
  <2>1. job' \in [Id -> Job] /\ child' \in [Id -> Step] /\ used' \in 0 .. MaxRequests
    BY <1>3, <1>8, StartJobType DEF StartHostPower, Asked
  <2>2. maint' \in [active: BOOLEAN, mode: Mode]
    BY <1>1, <1>8 DEF StartHostPower, TypeOK
  <2> QED
    BY <1>8, <2>1, <2>2 DEF StartHostPower, TypeOK, node, containers, history
<1>9. CASE PrepareFailback
  <2>1. used' \in 0 .. MaxRequests
    BY <1>2, <1>9 DEF PrepareFailback, Asked
  <2>2. maint' \in [active: BOOLEAN, mode: Mode]
    BY <1>1, <1>9 DEF PrepareFailback
  <2> QED
    BY <1>9, <2>1, <2>2 DEF PrepareFailback, TypeOK, node, containers, history
<1>10. ASSUME NEW b \in Branches \cup {"none"}, StartAppAction(b)
       PROVE  TypeOK'
  <2>1. /\ b \in Branch \cup {"none"}
        /\ (IF b = "none" THEN "compose" ELSE "prepare") \in Step
    BY <1>3
  <2>2. job' \in [Id -> Job] /\ child' \in [Id -> Step] /\ used' \in 0 .. MaxRequests
    BY <1>3, <1>10, <2>1, StartJobType DEF StartAppAction, Asked
  <2> QED
    BY <1>10, <2>2 DEF StartAppAction, TypeOK, node, files, containers, history
<1>11. ASSUME NEW kds \in BOOLEAN, WriteTroncomandaSettings(kds)
       PROVE  TypeOK'
  <2>1. used' \in 0 .. MaxRequests
    BY <1>2, <1>11 DEF WriteTroncomandaSettings, Asked
  <2>2. settings' \in [pc: {"idle", "login", "env", "api", "up"}, kds: BOOLEAN, seen: Branch]
    BY <1>11 DEF WriteTroncomandaSettings, TroncomandaSettings, TypeOK
  <2> QED
    BY <1>11, <2>1, <2>2 DEF WriteTroncomandaSettings, TypeOK, node, files, containers, history
<1> QED
  BY <1>4, <1>5, <1>6, <1>7, <1>8, <1>9, <1>10, <1>11 DEF Request

(* The steps of the update script and of the other commands.               *)
LEMMA ScriptType ==
  ASSUME TypeOK, NEW i \in Id, ScriptStep(i)
  PROVE  TypeOK'
<1>1. /\ {"none", "running", "success", "failed"} \subseteq Status
      /\ Step = {"begin", "block", "install", "clear", "local", "report", "none", "prepare",
                 "compose", "verify", "ssh", "power", "local-keepalived", "exit0", "exit1"}
  BY DEF Status, Step, UpdateStep
<1>2. \A step \in Step : Goto(i, step) => child' \in [Id -> Step]
  BY GotoType
<1>3. CASE UpdateBegins(i)
  <2>1. child' \in [Id -> Step]
    BY <1>1, <1>2, <1>3 DEF UpdateBegins
  <2>2. file' \in [id: Id \cup {NoId}, status: Status]
    BY <1>1, <1>3 DEF UpdateBegins
  <2> QED
    BY <1>3, <2>1, <2>2 DEF UpdateBegins, TypeOK, node, containers, history
<1>4. CASE UpdateBlocksStandby(i)
  <2>1. child' \in [Id -> Step]
    BY <1>1, <1>2, <1>4 DEF UpdateBlocksStandby
  <2>2. peer' \in [blocked: BOOLEAN, keepalived: BOOLEAN]
    BY <1>4 DEF UpdateBlocksStandby, TypeOK
  <2> QED
    BY <1>4, <2>1, <2>2 DEF UpdateBlocksStandby, TypeOK, node, files, containers, history
<1>5. CASE UpdateInstalls(i)
  <2>1. child' \in [Id -> Step]
    BY <1>1, <1>2, <1>5 DEF UpdateInstalls
  <2>2. installed' \subseteq Id
    BY <1>5 DEF UpdateInstalls, TypeOK
  <2> QED
    BY <1>5, <2>1, <2>2 DEF UpdateInstalls, TypeOK, node, files, containers
<1>6. CASE UpdateClearsStandby(i)
  <2>1. child' \in [Id -> Step]
    BY <1>1, <1>2, <1>6 DEF UpdateClearsStandby
  <2>2. peer' \in [blocked: BOOLEAN, keepalived: BOOLEAN] /\ faultsLeft' \in Nat
    BY <1>6, FaultType DEF UpdateClearsStandby, TypeOK
  <2> QED
    BY <1>6, <2>1, <2>2 DEF UpdateClearsStandby, TypeOK, node, files, containers, history
<1>7. CASE UpdateClearsLocal(i)
  <2>1. child' \in [Id -> Step]
    BY <1>1, <1>2, <1>7 DEF UpdateClearsLocal
  <2>2. maint' \in [active: BOOLEAN, mode: Mode]
    BY <1>7 DEF UpdateClearsLocal, WriteMaintenanceState, Mode
  <2> QED
    BY <1>7, <2>1, <2>2 DEF UpdateClearsLocal, TypeOK, node, containers, history
<1>8. CASE UpdateReports(i)
  <2>1. child' \in [Id -> Step]
    BY <1>1, <1>2, <1>8 DEF UpdateReports
  <2>2. file' \in [id: Id \cup {NoId}, status: Status]
    BY <1>1, <1>8 DEF UpdateReports
  <2> QED
    BY <1>8, <2>1, <2>2 DEF UpdateReports, TypeOK, containers, history
<1>9. CASE UpdateFails(i)
  <2>1. child' \in [Id -> Step] /\ faultsLeft' \in Nat
    BY <1>1, <1>2, <1>9, FaultType DEF UpdateFails
  <2>2. file' \in [id: Id \cup {NoId}, status: Status]
    BY <1>1, <1>9 DEF UpdateFails, Trapped
  <2> QED
    BY <1>9, <2>1, <2>2 DEF UpdateFails, TypeOK, node, containers, history
<1>10. CASE SshRuns(i)
  <2>1. job[i].on \in BOOLEAN
    BY DEF TypeOK, Job
  <2>2. child' \in [Id -> Step]
    BY <1>1, <1>2, <1>10 DEF SshRuns
  <2>3. peer' \in [blocked: BOOLEAN, keepalived: BOOLEAN] /\ faultsLeft' \in Nat
    BY <1>10, <2>1, FaultType DEF SshRuns, TypeOK
  <2> QED
    BY <1>10, <2>2, <2>3 DEF SshRuns, TypeOK, node, files, containers, history
<1>11. CASE LocalKeepalivedRuns(i)
  <2>1. child' \in [Id -> Step] /\ faultsLeft' \in Nat
    BY <1>1, <1>2, <1>11, FaultType DEF LocalKeepalivedRuns, TypeOK
  <2> QED
    BY <1>11, <2>1 DEF LocalKeepalivedRuns, TypeOK, node, files, containers, history
<1> QED
  BY <1>3, <1>4, <1>5, <1>6, <1>7, <1>8, <1>9, <1>10, <1>11 DEF ScriptStep

(* The registry login keeps the types of what it touches. *)
LEMMA LoginType ==
  ASSUME TypeOK, NEW ok, EnsureTroncomandaRegistryLogin(ok)
  PROVE  secrets' \in BOOLEAN /\ faultsLeft' \in Nat
BY FaultType DEF EnsureTroncomandaRegistryLogin, DownloadInstallerSecrets, TypeOK

(* The steps of the jobs that run in the service, the timer and the close  *)
(* event.                                                                  *)
LEMMA ServiceJobType ==
  ASSUME TypeOK, NEW i \in Id, JobOK(i),
         AppJobStep(i) \/ UpdateTimesOut(i) \/ JobCloses(i)
  PROVE  TypeOK'
<1>1. /\ {"none", "running", "success", "failed"} \subseteq Status
      /\ {"none", "compose", "verify", "exit1"} \subseteq Step
  BY DEF Status, Step
<1>2. \A step \in Step : Goto(i, step) => child' \in [Id -> Step]
  BY GotoType
<1>3. JobFails(i) => job' \in [Id -> Job] /\ child' \in [Id -> Step]
  BY <1>1, <1>2, StatusType DEF JobFails
<1>4. job[i].branch \in Branch \cup {"none"} /\ job[i].status \in Status
  BY DEF TypeOK, Job
<1>5. CASE AppJobFails(i)
  <2>1. job' \in [Id -> Job] /\ child' \in [Id -> Step] /\ faultsLeft' \in Nat
    BY <1>3, <1>5, FaultType DEF AppJobFails
  <2> QED
    BY <1>5, <2>1 DEF AppJobFails, TypeOK, node, files, containers, history
<1>6. CASE AppJobPrepares(i)
  <2>1. secrets' \in BOOLEAN /\ faultsLeft' \in Nat
    BY <1>6, LoginType DEF AppJobPrepares
  <2>2. job' \in [Id -> Job] /\ child' \in [Id -> Step]
    BY <1>1, <1>2, <1>3, <1>6 DEF AppJobPrepares, TypeOK
  <2>3. comanda' \in [kds: BOOLEAN, tag: Branch, api: Branch]
    BY <1>4, <1>6 DEF AppJobPrepares, TypeOK, JobOK
  <2> QED
    BY <1>6, <2>1, <2>2, <2>3 DEF AppJobPrepares, TypeOK, node, files, history
<1>7. CASE AppJobComposes(i)
  <2>1. child' \in [Id -> Step]
    BY <1>1, <1>2, <1>7 DEF AppJobComposes
  <2>2. comanda' \in [kds: BOOLEAN, tag: Branch, api: Branch]
    BY <1>4, <1>7 DEF AppJobComposes, TypeOK
  <2> QED
    BY <1>7, <2>1, <2>2 DEF AppJobComposes, TypeOK, node, files, history
<1>8. CASE AppJobVerifies(i)
  <2>1. child' \in [Id -> Step]
    BY <1>1, <1>2, <1>8 DEF AppJobVerifies
  <2>2. job' \in [Id -> Job]
    BY <1>1, <1>8, StatusType DEF AppJobVerifies
  <2> QED
    BY <1>8, <2>1, <2>2 DEF AppJobVerifies, TypeOK, node, files, containers, history
<1>9. CASE UpdateTimesOut(i)
  <2>1. child' \in [Id -> Step] /\ faultsLeft' \in Nat
    BY <1>1, <1>2, <1>9, FaultType DEF UpdateTimesOut, TypeOK
  <2>2. [job[i] EXCEPT !.status = "failed", !.timedOut = TRUE] \in Job
    <3>1. job[i] \in Job
      BY DEF TypeOK
    <3> QED
      BY <1>1, <3>1 DEF Job
  <2>3. job' \in [Id -> Job]
    BY <1>9, <2>2 DEF UpdateTimesOut, TypeOK
  <2>4. file' \in [id: Id \cup {NoId}, status: Status]
    BY <1>1, <1>9 DEF UpdateTimesOut
  <2> QED
    BY <1>9, <2>1, <2>3, <2>4 DEF UpdateTimesOut, TypeOK, node, containers, history
<1>10. CASE JobCloses(i)
  <2>1. ClosedStatus(i) \in Status
    BY <1>1, <1>4 DEF ClosedStatus
  <2>2. child' \in [Id -> Step]
    BY <1>1, <1>2, <1>10 DEF JobCloses
  <2>3. job' \in [Id -> Job]
    BY <1>10, <2>1, StatusType DEF JobCloses
  <2>4. file' \in [id: Id \cup {NoId}, status: Status]
    BY <1>10, <2>1 DEF JobCloses, PersistUpdateJob, TypeOK
  <2> QED
    BY <1>10, <2>2, <2>3, <2>4 DEF JobCloses, TypeOK, node, containers, history
<1> QED
  BY <1>5, <1>6, <1>7, <1>8, <1>9, <1>10 DEF AppJobStep

(* The steps of the change of TronComanda's settings.                      *)
LEMMA SettingsType ==
  ASSUME TypeOK, SettingsStep
  PROVE  TypeOK'
<1> DEFINE Settings == [pc: {"idle", "login", "env", "api", "up"}, kds: BOOLEAN, seen: Branch]
           Comanda  == [kds: BOOLEAN, tag: Branch, api: Branch]
<1>1. /\ SettingsDone => settings' \in Settings
      /\ ComposeFails => settings' \in Settings /\ faultsLeft' \in Nat
  BY ValueTypes, FaultType DEF SettingsDone, ComposeFails
<1>2. \A pc \in {"idle", "login", "env", "api", "up"} : [settings EXCEPT !.pc = pc] \in Settings
  BY DEF TypeOK
<1>3. CASE SettingsLogin
  <2>1. settings' \in Settings /\ secrets' \in BOOLEAN /\ faultsLeft' \in Nat
    BY <1>1, <1>2, <1>3, LoginType DEF SettingsLogin
  <2> QED
    BY <1>3, <2>1 DEF SettingsLogin, TypeOK, node, files, history
<1>4. CASE SettingsWriteEnv
  <2>1. settings' \in Settings
    BY <1>2, <1>4 DEF SettingsWriteEnv
  <2>2. settings.kds \in BOOLEAN /\ "qa" \in Branch
    BY DEF TypeOK, Branch
  <2>3. comanda' \in Comanda
    BY <1>4, <2>2 DEF SettingsWriteEnv, TypeOK
  <2> QED
    BY <1>4, <2>1, <2>3 DEF SettingsWriteEnv, TypeOK, node, files, history
<1>5. CASE SettingsStartApi
  <2>1. settings' \in Settings /\ faultsLeft' \in Nat
    BY <1>1, <1>2, <1>5 DEF SettingsStartApi, TypeOK
  <2>2. comanda' \in Comanda
    BY <1>5 DEF SettingsStartApi, TypeOK
  <2> QED
    BY <1>5, <2>1, <2>2 DEF SettingsStartApi, TypeOK, node, files, history
<1>6. CASE SettingsApply
  <2>1. settings' \in Settings /\ faultsLeft' \in Nat
    BY <1>1, <1>6 DEF SettingsApply, TypeOK
  <2> QED
    BY <1>6, <2>1 DEF SettingsApply, TypeOK, node, files, containers, history
<1> QED
  BY <1>3, <1>4, <1>5, <1>6 DEF SettingsStep

(* The service and the host stop and start, and the panel polls.           *)
LEMMA LifecycleType ==
  ASSUME TypeOK, panel.status = "running" => panel.id \in Id,
         ServiceStops \/ PowerCut \/ ServiceStarts \/ PanelPolls
  PROVE  TypeOK'
<1> DEFINE Settings == [pc: {"idle", "login", "env", "api", "up"}, kds: BOOLEAN, seen: Branch]
<1>1. Stops => /\ up' \in BOOLEAN /\ job' \in [Id -> Job] /\ child' \in [Id -> Step]
               /\ settings' \in Settings
  BY ValueTypes DEF Stops, SettingsDone, Step
<1>2. CASE ServiceStops
  <2>1. restartDue' \in BOOLEAN /\ faultsLeft' \in Nat
    BY <1>2, FaultType DEF ServiceStops, TypeOK
  <2>2. file' \in [id: Id \cup {NoId}, status: Status]
    BY <1>2 DEF ServiceStops, Trapped, TypeOK, Status
  <2> QED
    BY <1>1, <1>2, <2>1, <2>2 DEF ServiceStops, TypeOK, containers, history
<1>3. CASE PowerCut
  <2>1. cut' \in BOOLEAN /\ faultsLeft' \in Nat
    BY <1>3, FaultType DEF PowerCut, TypeOK
  <2> QED
    BY <1>1, <1>3, <2>1 DEF PowerCut, TypeOK, files, containers
<1>4. CASE ServiceStarts
  BY <1>4 DEF ServiceStarts, TypeOK, files, containers, history
<1>5. CASE PanelPolls
  <2>1. PublicJob(panel.id) \in Status
    BY <1>5 DEF PanelPolls, PublicJob, TypeOK, Job, Status
  <2>2. panel' \in [id: Id \cup {NoId}, status: Status]
    BY <1>5, <2>1 DEF PanelPolls, TypeOK
  <2> QED
    BY <1>5, <2>2 DEF PanelPolls, TypeOK, node, files, containers, history
<1> QED
  BY <1>2, <1>3, <1>4, <1>5

(* Every step keeps the types; the two other parts of the invariant are    *)
(* needed because the branch of a job and the id the panel shows may also  *)
(* be "none" and NoId.                                                     *)
LEMMA NextType ==
  ASSUME JobsInv, Next
  PROVE  TypeOK'
<1>1. TypeOK /\ (\A i \in Id : JobOK(i)) /\ (panel.status = "running" => panel.id \in Id)
  BY DEF JobsInv
<1> QED
  BY <1>1, RequestType, ScriptType, ServiceJobType, SettingsType, LifecycleType DEF Next

(***************************************************************************)
(* The job table                                                           *)
(***************************************************************************)
(* A new job runs, with the next id and the process it was started for.    *)
LEMMA StartJobOK ==
  ASSUME TypeOK, TypeOK', \A j \in Id : JobOK(j), used < MaxRequests,
         NEW app \in App, NEW branch \in Branch \cup {"none"}, NEW on \in BOOLEAN,
         NEW step \in Step, StartJob(app, branch, on, step), installed' = installed,
         \/ app = "tronsoftos" /\ step = "begin"
         \/ app # "tronsoftos" /\ step \in OtherStep /\ (step = "prepare" => branch # "none")
  PROVE  /\ \A j \in Id : JobOK(j)'
         /\ \A j \in Id : job'[j] = job[j] \/ job[j].status = "none"
<1>1. used \in Nat /\ used + 1 \in Id /\ used' = used + 1
  BY StartJobType DEF TypeOK, StartJob
<1>2. ASSUME NEW j \in Id, j # used + 1
      PROVE  JobOK(j)' /\ job'[j] = job[j]
  <2>1. job'[j] = job[j] /\ child'[j] = child[j]
    BY <1>2 DEF StartJob, TypeOK
  <2> QED
    BY <1>1, <2>1, JobKept
<1>3. ASSUME NEW j \in Id, j = used + 1
      PROVE  JobOK(j)' /\ job[j].status = "none"
  <2>1. /\ job'[j] = [app |-> app, status |-> "running", branch |-> branch, on |-> on,
                      timedOut |-> FALSE]
        /\ child'[j] = step
    BY <1>1, <1>3 DEF StartJob, TypeOK
  <2>2. /\ step \notin {"clear", "local", "report", "exit0"}
        /\ step \in OtherStep => step \notin UpdateStep
        /\ step = "begin" => step \notin OtherStep /\ step # "prepare"
    BY DEF OtherStep, UpdateStep
  <2>3. ~(j > used')
    BY <1>1, <1>3
  <2>4. JobOK(j)'
    BY <2>1, <2>2, <2>3 DEF JobOK
  <2>5. j > used
    BY <1>1, <1>3
  <2> QED
    BY <2>4, <2>5 DEF JobOK
<1> QED
  BY <1>1, <1>2, <1>3

(* Requests keep the table and never touch the status of a finished job.   *)
LEMMA RequestJobs ==
  ASSUME JobsInv, TypeOK', Request
  PROVE  /\ \A j \in Id : JobOK(j)'
         /\ \A j \in Id : job'[j] = job[j] \/ job[j].status = "none"
<1>1. TypeOK /\ \A j \in Id : JobOK(j)
  BY DEF JobsInv
<1>2. used \in Nat /\ used < MaxRequests /\ installed' = installed
  <2>1. used \in Nat
    BY <1>1 DEF TypeOK
  <2>2. /\ StartTronsoftosUpdate => used < MaxRequests /\ installed' = installed
        /\ StartHostPower => used < MaxRequests /\ installed' = installed
        /\ PrepareFailback => used < MaxRequests /\ installed' = installed
    BY DEF StartTronsoftosUpdate, StartHostPower, PrepareFailback, Asked, history
  <2>3. ASSUME NEW on \in BOOLEAN
        PROVE  /\ StartStandbyKeepalived(on) => used < MaxRequests /\ installed' = installed
               /\ StartLocalKeepalived(on) => used < MaxRequests /\ installed' = installed
               /\ FailoverBlock(on) => used < MaxRequests /\ installed' = installed
               /\ WriteTroncomandaSettings(on) => used < MaxRequests /\ installed' = installed
    BY DEF StartStandbyKeepalived, StartLocalKeepalived, FailoverBlock,
           WriteTroncomandaSettings, Asked, history
  <2>4. ASSUME NEW b, StartAppAction(b)
        PROVE  used < MaxRequests /\ installed' = installed
    BY <2>4 DEF StartAppAction, Asked, history
  <2> QED
    BY <2>1, <2>2, <2>3, <2>4 DEF Request
<1>3. /\ {"tronsoftos", "troncomanda", "keepalived-standby", "keepalived-local", "host"} \subseteq App
      /\ {"begin", "ssh", "power", "local-keepalived", "prepare", "compose"} \subseteq Step
      /\ {"ssh", "power", "local-keepalived", "prepare", "compose"} \subseteq OtherStep
      /\ "none" \in Branch \cup {"none"} /\ Branches \subseteq Branch
  BY SetAssumption DEF App, Step, UpdateStep, OtherStep
<1>4. CASE StartTronsoftosUpdate
  BY <1>1, <1>2, <1>3, <1>4, StartJobOK DEF StartTronsoftosUpdate
<1>5. CASE \E on \in BOOLEAN : StartStandbyKeepalived(on)
  BY <1>1, <1>2, <1>3, <1>5, StartJobOK DEF StartStandbyKeepalived
<1>6. CASE \E on \in BOOLEAN : StartLocalKeepalived(on)
  BY <1>1, <1>2, <1>3, <1>6, StartJobOK DEF StartLocalKeepalived
<1>7. CASE StartHostPower
  BY <1>1, <1>2, <1>3, <1>7, StartJobOK DEF StartHostPower
<1>8. CASE \E b \in Branches \cup {"none"} : StartAppAction(b)
  <2>1. PICK b \in Branches \cup {"none"} : StartAppAction(b)
    BY <1>8
  <2>2. /\ b \in Branch \cup {"none"}
        /\ "compose" # "prepare"
    BY <1>3
  <2> QED
    BY <1>1, <1>2, <1>3, <2>1, <2>2, StartJobOK DEF StartAppAction
<1>9. CASE \/ PrepareFailback
           \/ \E on \in BOOLEAN : FailoverBlock(on) \/ WriteTroncomandaSettings(on)
  <2>1. job' = job /\ child' = child /\ used' = used + 1
    BY <1>9 DEF PrepareFailback, FailoverBlock, WriteTroncomandaSettings
  <2> QED
    BY <1>1, <1>2, <2>1, JobKept
<1> QED
  BY <1>4, <1>5, <1>6, <1>7, <1>8, <1>9 DEF Request

(* A step of one job leaves the others alone.                              *)
LEMMA OneJob ==
  ASSUME TypeOK, TypeOK', \A j \in Id : JobOK(j), NEW i \in Id, used' = used,
         installed \subseteq installed', JobOK(i)',
         \A j \in Id \ {i} : job'[j] = job[j] /\ child'[j] = child[j]
  PROVE  \A j \in Id : JobOK(j)'
<1>1. used' >= used
  BY DEF TypeOK
<1> QED
  BY <1>1, JobKept

(* A process goes on to its next step.                                     *)
LEMMA ProcessStep ==
  ASSUME TypeOK, TypeOK', \A j \in Id : JobOK(j), NEW i \in Id, NEW step \in Step,
         job' = job, Goto(i, step), used' = used, installed \subseteq installed',
         child[i] # "none", step # "prepare",
         step \in UpdateStep => child[i] \in UpdateStep,
         step \in OtherStep => child[i] \in OtherStep,
         step \in {"clear", "local", "report"} => i \in installed',
         step = "exit0" => child[i] \in OtherStep \/ i \in installed'
  PROVE  \A j \in Id : JobOK(j)'
<1>1. child'[i] = step
  BY DEF TypeOK, Goto
<1>2. \A j \in Id \ {i} : job'[j] = job[j] /\ child'[j] = child[j]
  BY DEF TypeOK, Goto
<1>3. JobOK(i) /\ ~(i > used)
  BY DEF JobOK
<1>4. JobOK(i)'
  BY <1>1, <1>3 DEF JobOK
<1> QED
  BY <1>2, <1>4, OneJob

(* The steps of the scripts keep the table. *)
LEMMA ScriptJobs ==
  ASSUME JobsInv, TypeOK', NEW i \in Id, ScriptStep(i)
  PROVE  (\A j \in Id : JobOK(j)') /\ job' = job
<1>1. TypeOK /\ \A j \in Id : JobOK(j)
  BY DEF JobsInv
<1>2. /\ UpdateStep = {"begin", "block", "install", "clear", "local", "report"}
      /\ OtherStep = {"prepare", "compose", "verify", "ssh", "power", "local-keepalived"}
      /\ UpdateStep \cup OtherStep \cup {"exit0", "exit1"} \subseteq Step
  BY DEF UpdateStep, OtherStep, Step
<1>3. JobOK(i)
  BY <1>1
<1>4. CASE UpdateBegins(i)
  <2>1. /\ job' = job /\ used' = used /\ installed' = installed /\ child[i] = "begin"
        /\ \E step \in {"block", "install"} : Goto(i, step)
    BY <1>4 DEF UpdateBegins, history
  <2> QED
    BY <1>1, <1>2, <2>1, ProcessStep
<1>5. CASE UpdateBlocksStandby(i)
  <2>1. /\ job' = job /\ used' = used /\ installed' = installed /\ child[i] = "block"
        /\ Goto(i, "install")
    BY <1>5 DEF UpdateBlocksStandby, history
  <2> QED
    BY <1>1, <1>2, <2>1, ProcessStep
<1>6. CASE UpdateInstalls(i)
  <2>1. /\ job' = job /\ used' = used /\ installed' = installed \cup {i} /\ child[i] = "install"
        /\ \E step \in {"clear", "local"} : Goto(i, step)
    BY <1>6 DEF UpdateInstalls
  <2>2. installed \subseteq installed' /\ i \in installed'
    BY <2>1
  <2> QED
    BY <1>1, <1>2, <2>1, <2>2, ProcessStep
<1>7. CASE UpdateClearsStandby(i)
  <2>1. /\ job' = job /\ used' = used /\ installed' = installed /\ child[i] = "clear"
        /\ Goto(i, "local")
    BY <1>7 DEF UpdateClearsStandby, history
  <2>2. i \in installed'
    BY <1>3, <2>1 DEF JobOK
  <2> QED
    BY <1>1, <1>2, <2>1, <2>2, ProcessStep
<1>8. CASE UpdateClearsLocal(i)
  <2>1. /\ job' = job /\ used' = used /\ installed' = installed /\ child[i] = "local"
        /\ Goto(i, "report")
    BY <1>8 DEF UpdateClearsLocal, history
  <2>2. i \in installed'
    BY <1>3, <2>1 DEF JobOK
  <2> QED
    BY <1>1, <1>2, <2>1, <2>2, ProcessStep
<1>9. CASE UpdateReports(i)
  <2>1. /\ job' = job /\ used' = used /\ installed' = installed /\ child[i] = "report"
        /\ Goto(i, "exit0")
    BY <1>9 DEF UpdateReports, history
  <2>2. i \in installed'
    BY <1>3, <2>1 DEF JobOK
  <2> QED
    BY <1>1, <1>2, <2>1, <2>2, ProcessStep
<1>10. CASE UpdateFails(i)
  <2>1. /\ job' = job /\ used' = used /\ installed' = installed /\ child[i] # "none"
        /\ Goto(i, "exit1")
    BY <1>10 DEF UpdateFails, history
  <2> QED
    BY <1>1, <1>2, <2>1, ProcessStep
<1>11. CASE SshRuns(i) \/ LocalKeepalivedRuns(i)
  <2>1. /\ job' = job /\ used' = used /\ installed' = installed
        /\ child[i] \in {"ssh", "local-keepalived"}
        /\ \E step \in {"power", "exit0", "exit1"} : Goto(i, step)
    BY <1>11 DEF SshRuns, LocalKeepalivedRuns, history
  <2> QED
    BY <1>1, <1>2, <2>1, ProcessStep
<1> QED
  BY <1>4, <1>5, <1>6, <1>7, <1>8, <1>9, <1>10, <1>11 DEF ScriptStep

(* A job in the service ends, or an update is over its limit or closed:    *)
(* the table is kept, and a status that was final stays.                   *)
LEMMA ServiceJobs ==
  ASSUME JobsInv, TypeOK', NEW i \in Id, AppJobStep(i) \/ UpdateTimesOut(i) \/ JobCloses(i)
  PROVE  /\ \A j \in Id : JobOK(j)'
         /\ \A j \in Id : job'[j].status = job[j].status \/ job[j].status = "running"
<1>1. TypeOK /\ \A j \in Id : JobOK(j)
  BY DEF JobsInv
<1>2. /\ UpdateStep = {"begin", "block", "install", "clear", "local", "report"}
      /\ OtherStep = {"prepare", "compose", "verify", "ssh", "power", "local-keepalived"}
      /\ UpdateStep \cup OtherStep \cup {"exit0", "exit1"} \subseteq Step
  BY DEF UpdateStep, OtherStep, Step
<1>3. JobOK(i) /\ job[i] \in Job
  BY <1>1 DEF TypeOK
<1>4. ASSUME NEW s, job' = [job EXCEPT ![i] = [job[i] EXCEPT !.status = s]], Goto(i, "none"),
             child[i] # "none", used' = used, installed' = installed,
             job[i].status = "running" \/ (job[i].timedOut /\ s = job[i].status)
      PROVE  /\ \A j \in Id : JobOK(j)'
             /\ \A j \in Id : job'[j].status = job[j].status \/ job[j].status = "running"
  <2>1. /\ child'[i] = "none"
        /\ job'[i].status = s /\ job'[i].app = job[i].app /\ job'[i].timedOut = job[i].timedOut
    BY <1>1, <1>3, <1>4 DEF TypeOK, Goto, Job
  <2>2. \A j \in Id \ {i} : job'[j] = job[j] /\ child'[j] = child[j]
    BY <1>1, <1>4 DEF TypeOK, Goto
  <2>3. ~(i > used) /\ "none" \notin UpdateStep \cup OtherStep
    BY <1>2, <1>3, <1>4 DEF JobOK
  <2>4. JobOK(i)'
    BY <1>3, <1>4, <2>1, <2>3 DEF JobOK
  <2> QED
    BY <1>1, <1>4, <2>1, <2>2, <2>4, OneJob
<1>5. ASSUME child[i] \in {"prepare", "compose", "verify"}
      PROVE  job[i].status = "running" /\ child[i] # "none"
  BY <1>2, <1>3, <1>5 DEF JobOK
<1>6. CASE AppJobFails(i)
  BY <1>4, <1>5, <1>6 DEF AppJobFails, JobFails, history
<1>7. CASE AppJobPrepares(i) /\ JobFails(i)
  BY <1>4, <1>5, <1>7 DEF AppJobPrepares, JobFails, history
<1>8. CASE \/ AppJobPrepares(i) /\ ~JobFails(i)
           \/ AppJobComposes(i)
  <2>1. /\ job' = job /\ used' = used /\ installed' = installed
        /\ child[i] \in {"prepare", "compose"}
        /\ \E step \in {"compose", "verify"} : Goto(i, step)
    BY <1>8 DEF AppJobPrepares, AppJobComposes, history
  <2> QED
    BY <1>1, <1>2, <2>1, ProcessStep
<1>9. CASE AppJobVerifies(i)
  BY <1>4, <1>5, <1>9 DEF AppJobVerifies, history
<1>10. CASE UpdateTimesOut(i)
  <2>1. /\ job'[i].status = "failed" /\ job'[i].app = "tronsoftos" /\ job'[i].timedOut
        /\ child'[i] \in {child[i], "exit1"}
        /\ used' = used /\ installed' = installed /\ child[i] # "none"
        /\ job[i].status = "running" /\ job[i].app = "tronsoftos"
    BY <1>1, <1>3, <1>10 DEF UpdateTimesOut, TypeOK, Goto, Job, history
  <2>2. \A j \in Id \ {i} : job'[j] = job[j] /\ child'[j] = child[j]
    BY <1>1, <1>10 DEF UpdateTimesOut, TypeOK, Goto
  <2>3. ~(i > used) /\ child[i] \notin OtherStep
    BY <1>3, <2>1 DEF JobOK
  <2>4. JobOK(i)'
    BY <1>2, <1>3, <2>1, <2>3 DEF JobOK
  <2> QED
    BY <1>1, <2>1, <2>2, <2>4, OneJob
<1>11. CASE JobCloses(i)
  <2>1. child[i] # "none" /\ (job[i].status = "running" \/ (job[i].timedOut /\ ClosedStatus(i) = job[i].status))
    BY <1>3, <1>11 DEF JobCloses, JobOK, ClosedStatus
  <2> QED
    BY <1>4, <1>11, <2>1 DEF JobCloses, history
<1> QED
  BY <1>6, <1>7, <1>8, <1>9, <1>10, <1>11 DEF AppJobStep

(* With the service its jobs and their processes are gone.                 *)
LEMMA StopJobs ==
  ASSUME TypeOK', Stops
  PROVE  /\ \A j \in Id : JobOK(j)'
         /\ \A j \in Id : job'[j].status = "none"
<1>1. \A j \in Id : job'[j] = NoJob /\ child'[j] = "none"
  BY DEF Stops
<1>2. NoJob.status = "none" /\ ~NoJob.timedOut
  BY DEF NoJob
<1>3. "none" \notin UpdateStep \cup OtherStep \cup {"prepare", "clear", "local", "report", "exit0"}
  BY DEF UpdateStep, OtherStep
<1> QED
  BY <1>1, <1>2, <1>3 DEF JobOK

(* Every step keeps the table, and a status changes only from running, or  *)
(* when the service forgets the job or gives out its id.                   *)
LEMMA NextJobs ==
  ASSUME JobsInv, TypeOK', Next
  PROVE  /\ \A j \in Id : JobOK(j)'
         /\ \A j \in Id : \/ job'[j].status = job[j].status
                          \/ job[j].status \in {"none", "running"}
                          \/ job'[j].status = "none"
<1>1. CASE Request
  BY <1>1, RequestJobs
<1>2. CASE \E i \in Id : ScriptStep(i)
  BY <1>2, ScriptJobs
<1>3. CASE \E i \in Id : AppJobStep(i) \/ UpdateTimesOut(i) \/ JobCloses(i)
  BY <1>3, ServiceJobs
<1>4. CASE ServiceStops \/ PowerCut
  BY <1>4, StopJobs DEF ServiceStops, PowerCut
<1>5. CASE SettingsStep \/ ServiceStarts \/ PanelPolls
  <2>1. job' = job /\ child' = child /\ used' = used /\ installed' = installed
    BY <1>5 DEF SettingsStep, SettingsLogin, SettingsWriteEnv, SettingsStartApi, SettingsApply,
                ServiceStarts, PanelPolls, history
  <2>2. used' >= used
    BY <2>1 DEF JobsInv, TypeOK
  <2> QED
    BY <2>1, <2>2, JobKept DEF JobsInv
<1> QED
  BY <1>1, <1>2, <1>3, <1>4, <1>5 DEF Next

(* Whoever writes the status file as success writes it for an update that  *)
(* has installed.                                                          *)
LEMMA NextFile ==
  ASSUME JobsInv, Next
  PROVE  SuccessIsInstalled'
<1>1. TypeOK /\ SuccessIsInstalled /\ \A j \in Id : JobOK(j)
  BY DEF JobsInv
<1>2. CASE file' = file /\ installed \subseteq installed'
  BY <1>1, <1>2 DEF SuccessIsInstalled
<1>3. CASE file'.status # "success"
  BY <1>3 DEF SuccessIsInstalled
<1>4. CASE Request
  <2>1. StartTronsoftosUpdate => file'.status # "success"
    BY DEF StartTronsoftosUpdate
  <2>2. \/ StartTronsoftosUpdate
        \/ file' = file /\ installed' = installed
    BY <1>4 DEF Request, StartStandbyKeepalived, StartLocalKeepalived, FailoverBlock,
       StartHostPower, PrepareFailback, StartAppAction, WriteTroncomandaSettings, files, history
  <2> QED
    BY <1>2, <1>3, <2>1, <2>2
<1>5. ASSUME NEW i \in Id, ScriptStep(i)
      PROVE  SuccessIsInstalled'
  <2>1. CASE UpdateReports(i)
    BY <1>1, <2>1 DEF UpdateReports, SuccessIsInstalled, JobOK, history
  <2>2. CASE UpdateBegins(i) \/ UpdateFails(i)
    BY <1>3, <2>2 DEF UpdateBegins, UpdateFails, Trapped
  <2>3. CASE UpdateInstalls(i)
    BY <1>2, <2>3 DEF UpdateInstalls, files
  <2>4. CASE \/ UpdateBlocksStandby(i) \/ UpdateClearsStandby(i) \/ UpdateClearsLocal(i)
             \/ SshRuns(i) \/ LocalKeepalivedRuns(i)
    BY <1>2, <2>4 DEF UpdateBlocksStandby, UpdateClearsStandby, UpdateClearsLocal, SshRuns,
       LocalKeepalivedRuns, files, history
  <2> QED
    BY <1>5, <2>1, <2>2, <2>3, <2>4 DEF ScriptStep
<1>6. ASSUME NEW i \in Id, AppJobStep(i) \/ UpdateTimesOut(i)
      PROVE  SuccessIsInstalled'
  <2>1. CASE AppJobStep(i)
    <3>1. file' = file /\ installed' = installed
      BY <2>1 DEF AppJobStep, AppJobFails, AppJobPrepares, AppJobComposes, AppJobVerifies,
                  files, history
    <3> QED
      BY <1>2, <3>1
  <2>2. CASE UpdateTimesOut(i)
    BY <1>3, <2>2 DEF UpdateTimesOut
  <2> QED
    BY <1>6, <2>1, <2>2
<1>7. ASSUME NEW i \in Id, JobCloses(i)
      PROVE  SuccessIsInstalled'
  <2>1. JobOK(i)
    BY <1>1
  <2>2. CASE job[i].app = "tronsoftos"
    <3>1. file' = [id |-> i, status |-> ClosedStatus(i)] /\ installed' = installed
      BY <1>7, <2>2 DEF JobCloses, PersistUpdateJob, history
    <3>2. ClosedStatus(i) = "success" => i \in installed
      BY <1>7, <2>1, <2>2 DEF JobCloses, ClosedStatus, JobOK
    <3> QED
      BY <3>1, <3>2 DEF SuccessIsInstalled
  <2>3. CASE job[i].app # "tronsoftos"
    BY <1>2, <1>7, <2>3 DEF JobCloses, PersistUpdateJob, history
  <2> QED
    BY <2>2, <2>3
<1>8. CASE ServiceStops \/ PowerCut \/ ServiceStarts \/ PanelPolls \/ SettingsStep
  <2>1. installed' = installed /\ (file' = file \/ file'.status # "success")
    <3>1. CASE ServiceStops
      BY <3>1 DEF ServiceStops, Trapped, history
    <3>2. CASE PowerCut \/ ServiceStarts \/ PanelPolls
      BY <3>2 DEF PowerCut, ServiceStarts, PanelPolls, files, history
    <3>3. CASE SettingsStep
      BY <3>3 DEF SettingsStep, SettingsLogin, SettingsWriteEnv, SettingsStartApi, SettingsApply,
                  files, history
    <3> QED
      BY <1>8, <3>1, <3>2, <3>3
  <2> QED
    BY <1>2, <1>3, <2>1
<1> QED
  BY <1>4, <1>5, <1>6, <1>7, <1>8 DEF Next

(* The panel shows an update as running only under an id.                  *)
LEMMA NextPanel ==
  ASSUME JobsInv, TypeOK', Next
  PROVE  (panel.status = "running" => panel.id \in Id)'
<1>1. TypeOK /\ (panel.status = "running" => panel.id \in Id)
  BY DEF JobsInv
<1>2. StartTronsoftosUpdate => panel'.id \in Id
  <2>1. used < MaxRequests => used + 1 \in Id
    BY <1>1, RequestBound DEF TypeOK, Id
  <2> QED
    BY <2>1 DEF StartTronsoftosUpdate, Asked
<1>3. PanelPolls => panel'.id = panel.id /\ panel.status = "running"
  BY <1>1 DEF PanelPolls, TypeOK
<1>4. CASE panel' = panel
  BY <1>1, <1>4
<1>5. CASE Request
  <2>1. StartTronsoftosUpdate \/ panel' = panel
    BY <1>5 DEF Request, StartStandbyKeepalived, StartLocalKeepalived, FailoverBlock,
       StartHostPower, PrepareFailback, StartAppAction, WriteTroncomandaSettings
  <2> QED
    BY <1>2, <1>4, <2>1
<1>6. ASSUME NEW i \in Id, ScriptStep(i)
      PROVE  panel' = panel
  BY <1>6 DEF ScriptStep, UpdateBegins, UpdateBlocksStandby, UpdateInstalls,
     UpdateClearsStandby, UpdateClearsLocal, UpdateReports, UpdateFails, SshRuns,
     LocalKeepalivedRuns
<1>7. ASSUME NEW i \in Id, AppJobStep(i) \/ UpdateTimesOut(i) \/ JobCloses(i)
      PROVE  panel' = panel
  BY <1>7 DEF AppJobStep, AppJobFails, AppJobPrepares, AppJobComposes,
     AppJobVerifies, UpdateTimesOut, JobCloses
<1>8. CASE SettingsStep \/ ServiceStops \/ PowerCut \/ ServiceStarts
  <2>1. panel' = panel
    BY <1>8 DEF SettingsStep, SettingsLogin, SettingsWriteEnv, SettingsStartApi, SettingsApply,
       ServiceStops, PowerCut, ServiceStarts
  <2> QED
    BY <1>4, <2>1
<1>9. CASE PanelPolls
  BY <1>1, <1>3, <1>9
<1> QED
  BY <1>4, <1>5, <1>6, <1>7, <1>8, <1>9 DEF Next

(***************************************************************************)
(* The theorems                                                            *)
(***************************************************************************)
LEMMA InvInit == Init => JobsInv
<1> SUFFICES ASSUME Init PROVE JobsInv
  OBVIOUS
<1>1. \A i \in Id : job[i] = NoJob /\ child[i] = "none"
  BY DEF Init
<1>2. NoJob.status = "none" /\ ~NoJob.timedOut
  BY DEF NoJob
<1>3. "none" \notin UpdateStep \cup OtherStep \cup {"prepare", "clear", "local", "report", "exit0"}
  BY DEF UpdateStep, OtherStep
<1>4. \A i \in Id : JobOK(i)
  BY <1>1, <1>2, <1>3 DEF JobOK
<1>5. SuccessIsInstalled /\ panel.status # "running"
  BY DEF Init, SuccessIsInstalled
<1> QED
  BY <1>4, <1>5, InitType DEF JobsInv

LEMMA InvNext ==
  ASSUME JobsInv, [Next]_vars
  PROVE  JobsInv'
<1>1. CASE Next
  BY <1>1, NextType, NextJobs, NextFile, NextPanel DEF JobsInv
<1>2. CASE UNCHANGED vars
  <2>1. TypeOK'
    BY <1>2 DEF JobsInv, TypeOK, vars, node, files, containers, history
  <2>2. /\ job' = job /\ child' = child /\ used' = used /\ installed' = installed
        /\ file' = file /\ panel' = panel
    BY <1>2 DEF vars, files, history
  <2>3. \A j \in Id : JobOK(j)'
    BY <2>2 DEF JobsInv, JobOK
  <2> QED
    BY <2>1, <2>2, <2>3 DEF JobsInv, SuccessIsInstalled
<1> QED
  BY <1>1, <1>2

(* The invariant holds in every behaviour of the service, whatever is      *)
(* requested and fails.                                                    *)
THEOREM JobsInvariant == Spec => []JobsInv
BY InvInit, InvNext, PTL DEF Spec

(* The job table, the files and the panel have their types.                *)
THEOREM TypeCorrect == Spec => []TypeOK
<1>1. JobsInv => TypeOK
  BY DEF JobsInv
<1> QED
  BY <1>1, JobsInvariant, PTL

(* update-status.json reports success only for an update whose installer   *)
(* finished, whoever of script, trap, timer and close event wrote it last. *)
THEOREM InstalledSafety == Spec => []SuccessIsInstalled
<1>1. JobsInv => SuccessIsInstalled
  BY DEF JobsInv
<1> QED
  BY <1>1, JobsInvariant, PTL

(* The final status of a job stays as long as the service remembers it:    *)
(* the close event of a timed-out update does not make it a success.       *)
THEOREM FinalStatusStays == Spec => FinalStays
<1> DEFINE Kept == \A i \in Id : job[i].status \in {"success", "failed"} /\ job'[i].status # "none"
                               => job'[i].status = job[i].status
<1>1. ASSUME JobsInv, Next
      PROVE  Kept
  BY <1>1, NextType, NextJobs
<1>2. JobsInv /\ [Next]_vars => [Kept]_vars
  BY <1>1
<1> QED
  BY <1>2, JobsInvariant, PTL DEF Spec, FinalStays
=============================================================================
