------------------------------ MODULE HostJobs ------------------------------
(***************************************************************************)
(* The jobs the TronSoftOS service runs for its panel: the update of       *)
(* TronSoftOS, the actions on the TronComanda containers and their         *)
(* settings, keepalived and power of the host (backend/src/server.mjs),    *)
(* with scripts/update-tronsoftos.sh and the panel that polls a job        *)
(* (frontend/src/App.jsx).                                                 *)
(*                                                                         *)
(* The job table is a Map in memory and is lost when the service stops.    *)
(* systemd stops the service with its whole control group, so the child    *)
(* processes of the jobs end with it.  The state of an update is also kept *)
(* in update-status.json, which both the service and the script write.     *)
(***************************************************************************)
EXTENDS Naturals, FiniteSets

CONSTANTS
  MaxRequests, \* bound: requests in a behaviour
  MaxFaults,   \* bound: faults in a behaviour
  Roles,       \* the node is one of these, a subset of Role
  Ops,         \* requests that are made, a subset of Op
  Faults,      \* kinds of fault that happen, a subset of FaultKind
  Branches     \* branches of TronComanda that are asked for

(* solo: deploymentMode solo; primary: HA primary with a standby host in   *)
(* the Sync HA settings; standby: the other HA node.                       *)
Role == {"solo", "primary", "standby"}

Op == {"update", "app", "settings", "standbyKeepalived", "localKeepalived",
       "power", "block", "failback"}

(* cmd: a command of a job fails; timeout: an update takes longer than its *)
(* limit; crash: the service stops by itself; power: the host loses power. *)
FaultKind == {"cmd", "timeout", "crash", "power"}

Branch == {"main", "dev", "qa"}

ASSUME RequestBound == MaxRequests \in Nat
ASSUME FaultBound == MaxFaults \in Nat
ASSUME SetAssumption == /\ Roles \subseteq Role /\ Ops \subseteq Op
                        /\ Faults \subseteq FaultKind /\ Branches \subseteq Branch

VARIABLES
  role,        \* role and deployment mode of this node
  up,          \* the service runs
  job,         \* actionJobs: per id, the job, or a job with status none
  child,       \* per id: the step at which the child process or the handler is
  file,        \* update-status.json
  maint,       \* maintenance-state.json
  restartDue,  \* the restart scheduled at the end of an update
  peer,        \* the standby: its failover block and its keepalived
  comanda,     \* TronComanda: COMPOSE_PROFILES and image tag of .env, running API
  secrets,     \* installer-secrets.env exists
  settings,    \* the request PATCH /api/troncomanda/settings in progress
  panel,       \* the update the panel shows
  installed,   \* history: updates whose installer finished
  cut,         \* history: the host lost power while an update script ran
  used,        \* requests made so far; a job's id is the number of its request
  faultsLeft   \* faults that may still happen

node  == <<role, up, restartDue>>
files == <<file, maint>>
containers == <<comanda, secrets>>
history    == <<installed, cut>>
vars  == <<node, job, child, files, peer, containers, settings, panel, history,
           used, faultsLeft>>

(***************************************************************************)
(* Types                                                                   *)
(***************************************************************************)
Id     == 1 .. MaxRequests
NoId   == 0
Status == {"none", "running", "success", "failed"}
App    == {"tronsoftos", "troncomanda", "keepalived-standby", "keepalived-local", "host"}
Mode   == {"none", "update", "failover-update", "failback", "ha"}

(* branch: the TronComanda branch of an up or a pull, none for stop and    *)
(* restart; on: keepalived is to run; timedOut: the limit of an update     *)
(* passed before its close event.                                          *)
Job == [app: App, status: Status, branch: Branch \cup {"none"}, on: BOOLEAN,
        timedOut: BOOLEAN]

(* Steps of update-tronsoftos.sh: begin, block, install, clear, local,     *)
(* report; of an action on TronComanda: prepare, compose, verify; of the   *)
(* other jobs: ssh, power, local-keepalived.  exit0 and exit1: the process *)
(* ended and its close event is not handled yet.                           *)
UpdateStep == {"begin", "block", "install", "clear", "local", "report"}
Step       == UpdateStep \cup {"none", "prepare", "compose", "verify", "ssh",
                               "power", "local-keepalived", "exit0", "exit1"}

NoJob == [app |-> "host", status |-> "none", branch |-> "none", on |-> FALSE,
          timedOut |-> FALSE]
IdleSettings == [pc |-> "idle", kds |-> FALSE, seen |-> "main"]

TypeOK ==
  /\ role \in Role /\ up \in BOOLEAN /\ restartDue \in BOOLEAN
  /\ job \in [Id -> Job]
  /\ child \in [Id -> Step]
  /\ file \in [id: Id \cup {NoId}, status: Status]
  /\ maint \in [active: BOOLEAN, mode: Mode]
  /\ peer \in [blocked: BOOLEAN, keepalived: BOOLEAN]
  /\ comanda \in [kds: BOOLEAN, tag: Branch, api: Branch]
  /\ secrets \in BOOLEAN
  /\ settings \in [pc: {"idle", "login", "env", "api", "up"}, kds: BOOLEAN, seen: Branch]
  /\ panel \in [id: Id \cup {NoId}, status: Status]
  /\ installed \subseteq Id /\ cut \in BOOLEAN
  /\ used \in 0 .. MaxRequests
  /\ faultsLeft \in Nat

(***************************************************************************)
(* Shared parts of the steps                                               *)
(***************************************************************************)
UseFault(kind) == kind \in Faults /\ faultsLeft > 0 /\ faultsLeft' = faultsLeft - 1
Asked(op)      == up /\ op \in Ops /\ used < MaxRequests

(* actionJobs.set and spawn of startCommandJob, startAppAction. *)
StartJob(app, branch, on, step) ==
  /\ used' = used + 1
  /\ job' = [job EXCEPT ![used + 1] =
       [app |-> app, status |-> "running", branch |-> branch, on |-> on,
        timedOut |-> FALSE]]
  /\ child' = [child EXCEPT ![used + 1] = step]

Goto(i, step) == child' = [child EXCEPT ![i] = step]

(* persistUpdateJob: nothing for other jobs than an update. *)
PersistUpdateJob(i, status) ==
  IF job[i].app = "tronsoftos" THEN [id |-> i, status |-> status] ELSE file

WriteMaintenanceState(active, mode) == maint' = [active |-> active, mode |-> mode]

(* Mutant: the script has no trap for its end. *)
Trapped_None(i) == file

(* finish_update_status, the trap of the script: failed unless it reported *)
(* success before.                                                         *)
Trapped(i) == [id |-> i, status |-> "failed"]

(***************************************************************************)
(* The update of TronSoftOS                                                *)
(***************************************************************************)
(* POST /api/maintenance/update.  The panel offers the button when it      *)
(* shows no running update.                                                *)
StartTronsoftosUpdate ==
  /\ Asked("update")
  /\ panel.status # "running"
  /\ StartJob("tronsoftos", "none", FALSE, "begin")
  /\ IF role # "solo" THEN WriteMaintenanceState(TRUE, "update") ELSE UNCHANGED maint
  /\ file' = [id |-> used + 1, status |-> "running"]
  /\ panel' = [id |-> used + 1, status |-> "running"]
  /\ UNCHANGED <<node, peer, containers, settings, history, faultsLeft>>

UpdateBegins(i) ==
  /\ child[i] = "begin"
  /\ file' = [id |-> i, status |-> "running"]
  /\ Goto(i, IF role = "primary" THEN "block" ELSE "install")
  /\ UNCHANGED <<node, job, maint, peer, containers, settings, panel, history, used, faultsLeft>>

(* POST /api/maintenance/failover-block on the standby. *)
UpdateBlocksStandby(i) ==
  /\ child[i] = "block"
  /\ peer' = [peer EXCEPT !.blocked = TRUE]
  /\ Goto(i, "install")
  /\ UNCHANGED <<node, job, files, containers, settings, panel, history, used, faultsLeft>>

(* Source, installer and the comparison of the persistent directories. *)
UpdateInstalls(i) ==
  /\ child[i] = "install"
  /\ installed' = installed \cup {i}
  /\ Goto(i, IF role = "primary" THEN "clear" ELSE "local")
  /\ UNCHANGED <<node, job, files, peer, containers, settings, panel, cut, used, faultsLeft>>

(* POST /api/maintenance/failover-clear; its failure is only logged. *)
UpdateClearsStandby(i) ==
  /\ child[i] = "clear"
  /\ \/ peer' = [peer EXCEPT !.blocked = FALSE] /\ UNCHANGED faultsLeft
     \/ UseFault("cmd") /\ UNCHANGED peer
  /\ Goto(i, "local")
  /\ UNCHANGED <<node, job, files, containers, settings, panel, history, used>>

UpdateClearsLocal(i) ==
  /\ child[i] = "local"
  /\ WriteMaintenanceState(FALSE, "update")
  /\ Goto(i, "report")
  /\ UNCHANGED <<node, job, file, peer, containers, settings, panel, history, used, faultsLeft>>

UpdateReports(i) ==
  /\ child[i] = "report"
  /\ file' = [id |-> i, status |-> "success"]
  /\ restartDue' = TRUE
  /\ Goto(i, "exit0")
  /\ UNCHANGED <<role, up, job, maint, peer, containers, settings, panel, history, used, faultsLeft>>

(* set -e: a failing step ends the script, which leaves both the block of  *)
(* the standby and the local maintenance as they are.                      *)
UpdateFails(i) ==
  /\ child[i] \in {"begin", "block", "install"}
  /\ UseFault("cmd")
  /\ file' = Trapped(i)
  /\ Goto(i, "exit1")
  /\ UNCHANGED <<node, job, maint, peer, containers, settings, panel, history, used>>

(* The timer of startCommandJob.  SIGTERM goes to sudo, which runs as root *)
(* while the service does not: the script may end in its trap or go on.    *)
UpdateTimesOut(i) ==
  /\ up
  /\ job[i].app = "tronsoftos" /\ job[i].status = "running" /\ child[i] # "none"
  /\ UseFault("timeout")
  /\ job' = [job EXCEPT ![i] = [job[i] EXCEPT !.status = "failed", !.timedOut = TRUE]]
  /\ file' = [id |-> i, status |-> "failed"]
  /\ Goto(i, "exit1") \/ UNCHANGED child
  /\ UNCHANGED <<node, maint, peer, containers, settings, panel, history, used>>

(***************************************************************************)
(* The end of a child process                                              *)
(***************************************************************************)
(* Mutants: a late end of a timed-out update counts; the exit code is not  *)
(* looked at.                                                              *)
ClosedStatus_Late(i)   == IF child[i] = "exit0" THEN "success" ELSE "failed"
ClosedStatus_NoCode(i) == IF job[i].timedOut THEN job[i].status ELSE "success"

ClosedStatus(i) ==
  IF job[i].timedOut THEN job[i].status
  ELSE IF child[i] = "exit0" THEN "success" ELSE "failed"

(* The close event in startCommandJob. *)
JobCloses(i) ==
  /\ up
  /\ child[i] \in {"exit0", "exit1"}
  /\ job' = [job EXCEPT ![i] = [job[i] EXCEPT !.status = ClosedStatus(i)]]
  /\ file' = PersistUpdateJob(i, ClosedStatus(i))
  /\ Goto(i, "none")
  /\ UNCHANGED <<node, maint, peer, containers, settings, panel, history, used, faultsLeft>>

(***************************************************************************)
(* Keepalived, power and the maintenance record                            *)
(***************************************************************************)
(* The record is written before the ssh command has run. *)
StartStandbyKeepalived(on) ==
  /\ Asked("standbyKeepalived")
  /\ role = "primary"
  /\ WriteMaintenanceState(~on, "ha")
  /\ StartJob("keepalived-standby", "none", on, "ssh")
  /\ UNCHANGED <<node, file, peer, containers, settings, panel, history, faultsLeft>>

StartLocalKeepalived(on) ==
  /\ Asked("localKeepalived")
  /\ StartJob("keepalived-local", "none", on, "local-keepalived")
  /\ UNCHANGED <<node, files, peer, containers, settings, panel, history, faultsLeft>>

(* A primary first suspends keepalived on its standby. *)
StartHostPower ==
  /\ Asked("power")
  /\ IF role = "primary"
     THEN /\ WriteMaintenanceState(TRUE, "ha")
          /\ StartJob("host", "none", FALSE, "ssh")
     ELSE /\ StartJob("host", "none", FALSE, "power")
          /\ UNCHANGED maint
  /\ UNCHANGED <<node, file, peer, containers, settings, panel, history, faultsLeft>>

SshRuns(i) ==
  /\ child[i] = "ssh"
  /\ \/ /\ peer' = [peer EXCEPT !.keepalived = job[i].on]
        /\ Goto(i, IF job[i].app = "host" THEN "power" ELSE "exit0")
        /\ UNCHANGED faultsLeft
     \/ UseFault("cmd") /\ Goto(i, "exit1") /\ UNCHANGED peer
  /\ UNCHANGED <<node, job, files, containers, settings, panel, history, used>>

LocalKeepalivedRuns(i) ==
  /\ child[i] = "local-keepalived"
  /\ \/ Goto(i, "exit0") /\ UNCHANGED faultsLeft
     \/ UseFault("cmd") /\ Goto(i, "exit1")
  /\ UNCHANGED <<node, job, files, peer, containers, settings, panel, history, used>>

(* POST /api/maintenance/failover-block and -clear, from the peer. *)
FailoverBlock(on) ==
  /\ Asked("block")
  /\ used' = used + 1
  /\ WriteMaintenanceState(on /\ role # "solo", "failover-update")
  /\ UNCHANGED <<node, job, child, file, peer, containers, settings, panel, history, faultsLeft>>

PrepareFailback ==
  /\ Asked("failback")
  /\ used' = used + 1
  /\ WriteMaintenanceState(TRUE, "failback")
  /\ UNCHANGED <<node, job, child, file, peer, containers, settings, panel, history, faultsLeft>>

(***************************************************************************)
(* Actions on the TronComanda containers                                   *)
(***************************************************************************)
(* appActionSteps refuses up and pull of another branch than qa while the  *)
(* KDS profile is on; the check is not repeated when the job writes .env.  *)
AppActionSteps(branch) == branch # "none" /\ comanda.kds => branch = "qa"

StartAppAction(branch) ==
  /\ Asked("app")
  /\ AppActionSteps(branch)
  /\ StartJob("troncomanda", branch, FALSE, IF branch = "none" THEN "compose" ELSE "prepare")
  /\ UNCHANGED <<node, files, peer, containers, settings, panel, history, faultsLeft>>

JobFails(i) ==
  /\ job' = [job EXCEPT ![i] = [job[i] EXCEPT !.status = "failed"]]
  /\ Goto(i, "none")

(* A docker command, the login included, or the write of .env fails. *)
AppJobFails(i) ==
  /\ up
  /\ child[i] \in {"prepare", "compose", "verify"}
  /\ UseFault("cmd")
  /\ JobFails(i)
  /\ UNCHANGED <<node, files, peer, containers, settings, panel, history, used>>

(* A download replaces installer-secrets.env only when it is complete. *)
DownloadInstallerSecrets(ok) ==
  \/ ok /\ secrets' = TRUE /\ UNCHANGED faultsLeft
  \/ ~ok /\ UseFault("cmd") /\ UNCHANGED secrets

(* The download is tried each time; a local file is the fallback. *)
EnsureTroncomandaRegistryLogin(ok) ==
  \E downloaded \in BOOLEAN : /\ DownloadInstallerSecrets(downloaded)
                              /\ ok = (downloaded \/ secrets)

(* The login, then writeEnvValuesPrivileged. *)
AppJobPrepares(i) ==
  /\ up
  /\ child[i] = "prepare"
  /\ \/ /\ EnsureTroncomandaRegistryLogin(TRUE)
        /\ comanda' = [comanda EXCEPT !.tag = job[i].branch]
        /\ Goto(i, "compose")
        /\ UNCHANGED job
     \/ /\ EnsureTroncomandaRegistryLogin(FALSE)
        /\ JobFails(i)
        /\ UNCHANGED comanda
  /\ UNCHANGED <<node, files, peer, settings, panel, history, used>>

AppJobComposes(i) ==
  /\ up
  /\ child[i] = "compose"
  /\ IF job[i].branch = "none"
     THEN UNCHANGED comanda
     ELSE comanda' = [comanda EXCEPT !.api = job[i].branch]
  /\ Goto(i, "verify")
  /\ UNCHANGED <<node, job, files, peer, secrets, settings, panel, history, used, faultsLeft>>

(* verifyTroncomandaKdsApi looks for routes that only the qa image has. *)
KdsApiVerified(branch) == branch = "qa"

(* The access test that follows only logs. *)
AppJobVerifies(i) ==
  LET kdsChecked == job[i].branch # "none" /\ comanda.kds
  IN  /\ up
      /\ child[i] = "verify"
      /\ job' = [job EXCEPT ![i] = [job[i] EXCEPT
           !.status = IF kdsChecked /\ ~KdsApiVerified(comanda.api) THEN "failed" ELSE "success"]]
      /\ Goto(i, "none")
      /\ UNCHANGED <<node, files, peer, containers, settings, panel, history, used, faultsLeft>>

(***************************************************************************)
(* PATCH /api/troncomanda/settings                                         *)
(***************************************************************************)
SettingsDone == settings' = IdleSettings

(* runTroncomandaCompose throws: the request ends, what it wrote stays. *)
ComposeFails == UseFault("cmd") /\ SettingsDone

(* What the request reads of .env first. *)
TroncomandaSettings == [branch |-> comanda.tag, kdsWebEnabled |-> comanda.kds]

WriteTroncomandaSettings(kds) ==
  /\ Asked("settings")
  /\ used' = used + 1
  /\ settings.pc = "idle"
  /\ settings' = [pc |-> IF kds THEN "login" ELSE "env", kds |-> kds,
                  seen |-> TroncomandaSettings.branch]
  /\ UNCHANGED <<node, job, child, files, peer, containers, panel, history, faultsLeft>>

SettingsLogin ==
  /\ up /\ settings.pc = "login"
  /\ \/ EnsureTroncomandaRegistryLogin(TRUE) /\ settings' = [settings EXCEPT !.pc = "env"]
     \/ EnsureTroncomandaRegistryLogin(FALSE) /\ SettingsDone
  /\ UNCHANGED <<node, job, child, files, peer, comanda, panel, history, used>>

(* The tag changes to qa only if the branch read first was another one. *)
SettingsWriteEnv ==
  /\ up /\ settings.pc = "env"
  /\ comanda' = [comanda EXCEPT
       !.kds = settings.kds,
       !.tag = IF settings.kds /\ settings.seen # "qa" THEN "qa" ELSE comanda.tag]
  /\ settings' = [settings EXCEPT !.pc = IF settings.kds THEN "api" ELSE "up"]
  /\ UNCHANGED <<node, job, child, files, peer, secrets, panel, history, used, faultsLeft>>

(* compose up of the API, then verifyTroncomandaKdsApi. *)
SettingsStartApi ==
  /\ up /\ settings.pc = "api"
  /\ \/ /\ comanda' = [comanda EXCEPT !.api = comanda.tag]
        /\ IF KdsApiVerified(comanda.tag)
           THEN settings' = [settings EXCEPT !.pc = "up"]
           ELSE SettingsDone
        /\ UNCHANGED faultsLeft
     \/ ComposeFails /\ UNCHANGED comanda
  /\ UNCHANGED <<node, job, child, files, peer, secrets, panel, history, used>>

(* compose up and stop of the optional services, recreation of qr. *)
SettingsApply ==
  /\ up /\ settings.pc = "up"
  /\ \/ SettingsDone /\ UNCHANGED faultsLeft
     \/ ComposeFails
  /\ UNCHANGED <<node, job, child, files, peer, containers, panel, history, used>>

(***************************************************************************)
(* The service and the host stop and start                                 *)
(***************************************************************************)
Running(i) == child[i] \in UpdateStep

(* The job table and requests in progress are lost with the process. *)
Stops ==
  /\ up' = FALSE
  /\ job' = [i \in Id |-> NoJob]
  /\ child' = [i \in Id |-> "none"]
  /\ SettingsDone

(* The restart after an update, a crash of the service, or the power job:  *)
(* systemd sends SIGTERM to the control group, and running update scripts  *)
(* end in their traps, in any order.  With the host the timer of a         *)
(* scheduled restart is gone.                                              *)
ServiceStops ==
  /\ up
  /\ \/ restartDue /\ restartDue' = FALSE /\ UNCHANGED faultsLeft
     \/ UseFault("crash") /\ UNCHANGED restartDue
     \/ (\E i \in Id : child[i] = "power") /\ restartDue' = FALSE /\ UNCHANGED faultsLeft
  /\ Stops
  /\ IF \E i \in Id : Running(i)
     THEN \E i \in Id : Running(i) /\ file' = Trapped(i)
     ELSE UNCHANGED file
  /\ UNCHANGED <<role, maint, peer, containers, panel, history, used>>

(* The host loses power: no trap runs. *)
PowerCut ==
  /\ up
  /\ UseFault("power")
  /\ Stops
  /\ restartDue' = FALSE
  /\ cut' = (cut \/ \E i \in Id : Running(i))
  /\ UNCHANGED <<role, files, peer, containers, panel, installed, used>>

ServiceStarts ==
  /\ ~up
  /\ up' = TRUE
  /\ UNCHANGED <<role, restartDue, job, child, files, peer, containers, settings, panel,
                 history, used, faultsLeft>>

(***************************************************************************)
(* The panel polls GET /api/actions/:id                                    *)
(***************************************************************************)
(* The job in memory, else updateStatusJob; none is the answer 404. *)
PublicJob(i) ==
  IF job[i].status # "none" THEN job[i].status
  ELSE IF file.id = i THEN file.status ELSE "none"

(* An error leaves what the panel shows, and it goes on polling. *)
PanelPolls ==
  /\ up
  /\ panel.status = "running"
  /\ PublicJob(panel.id) # "none"
  /\ panel' = [panel EXCEPT !.status = PublicJob(panel.id)]
  /\ UNCHANGED <<node, job, child, files, peer, containers, settings, history, used, faultsLeft>>

-----------------------------------------------------------------------------
Init ==
  /\ role \in Roles
  /\ up = TRUE /\ restartDue = FALSE
  /\ job = [i \in Id |-> NoJob]
  /\ child = [i \in Id |-> "none"]
  /\ file = [id |-> NoId, status |-> "none"]
  /\ maint = [active |-> FALSE, mode |-> "none"]
  /\ peer = [blocked |-> FALSE, keepalived |-> TRUE]
  /\ comanda = [kds |-> FALSE, tag |-> "main", api |-> "main"]
  /\ secrets \in BOOLEAN
  /\ settings = IdleSettings
  /\ panel = [id |-> NoId, status |-> "none"]
  /\ installed = {} /\ cut = FALSE
  /\ used = 0
  /\ faultsLeft = MaxFaults

ScriptStep(i) ==
  \/ UpdateBegins(i) \/ UpdateBlocksStandby(i) \/ UpdateInstalls(i)
  \/ UpdateClearsStandby(i) \/ UpdateClearsLocal(i) \/ UpdateReports(i) \/ UpdateFails(i)
  \/ SshRuns(i) \/ LocalKeepalivedRuns(i)

AppJobStep(i) ==
  \/ AppJobFails(i) \/ AppJobPrepares(i) \/ AppJobComposes(i) \/ AppJobVerifies(i)

SettingsStep == SettingsLogin \/ SettingsWriteEnv \/ SettingsStartApi \/ SettingsApply

Request ==
  \/ StartTronsoftosUpdate
  \/ \E on \in BOOLEAN : StartStandbyKeepalived(on) \/ StartLocalKeepalived(on)
                         \/ FailoverBlock(on)
  \/ StartHostPower \/ PrepareFailback
  \/ \E b \in Branches \cup {"none"} : StartAppAction(b)
  \/ \E kds \in BOOLEAN : WriteTroncomandaSettings(kds)

Next ==
  \/ Request
  \/ \E i \in Id : ScriptStep(i) \/ AppJobStep(i) \/ UpdateTimesOut(i) \/ JobCloses(i)
  \/ SettingsStep
  \/ ServiceStops \/ PowerCut \/ ServiceStarts
  \/ PanelPolls

Spec == Init /\ [][Next]_vars

(* Processes that run go on, a scheduled restart and the start by systemd  *)
(* happen, the panel polls.  Requests and faults are not owed.             *)
Fairness ==
  /\ \A i \in Id : WF_vars(ScriptStep(i)) /\ WF_vars(AppJobStep(i)) /\ WF_vars(JobCloses(i))
  /\ WF_vars(SettingsStep)
  /\ WF_vars(restartDue /\ ServiceStops)
  /\ WF_vars(ServiceStarts)
  /\ WF_vars(PanelPolls)

FairSpec == Spec /\ Fairness

(***************************************************************************)
(* Properties                                                              *)
(***************************************************************************)
(* The status file never says that an update succeeded whose installer did *)
(* not finish, whoever of script, timer, close event and restart wrote it. *)
SuccessIsInstalled == file.status = "success" => file.id \in installed

(* A job that was reported finished keeps that status as long as the       *)
(* service remembers it: the close event of an update that ended after its *)
(* limit does not turn failed into success.                                *)
FinalStays ==
  [][\A i \in Id : job[i].status \in {"success", "failed"} /\ job'[i].status # "none"
       => job'[i].status = job[i].status]_vars

(* An update that the panel shows as running is sooner or later shown as   *)
(* finished, across the restart that ends it: from the job table or, when  *)
(* that is lost, from the file the script and its trap left.  Two updates  *)
(* at once share the file, and a power cut leaves it running.              *)
Updating(i) == job[i].app = "tronsoftos" /\ child[i] # "none"
OneUpdate   == \A i, j \in Id : Updating(i) /\ Updating(j) => i = j
PanelLearns == [](OneUpdate /\ ~cut)
               => (panel.status = "running" ~> panel.status # "running")

(* While the installer of a primary runs, its standby does not promote     *)
(* itself (the script: "nao e seguro atualizar primary sem bloquear o      *)
(* standby").                                                              *)
BlockedWhileInstalling ==
  role = "primary" /\ (\E i \in Id : child[i] = "install") => peer.blocked

(* The KDS runs only with the qa branch of TronComanda.                    *)
KdsNeedsQa == comanda.kds => comanda.tag = "qa"
=============================================================================
