----------------------------- MODULE HaCluster -----------------------------
(***************************************************************************)
(* The two-node high-availability cluster of TronSoftOS, as the host       *)
(* backend (backend/src/server.mjs) of each node drives it: the node       *)
(* identity, cluster lock and activation files, the guard computed from    *)
(* them, the activation and recovery handlers, and the failover watchdog.  *)
(*                                                                         *)
(* The backend is one Node.js process, so the code between two awaits is   *)
(* one step here, and every await is a place where the other activities of *)
(* the same node, and the other node, may run.  A node runs up to          *)
(* |Task| activities at a time: watchdog ticks (setInterval does not wait  *)
(* for the previous tick) and requests of the operator.                    *)
(*                                                                         *)
(* Both nodes run in deployment mode "ha".                                 *)
(***************************************************************************)
EXTENDS Naturals

CONSTANTS
  NodeA,             \* the node installed as primary
  NodeB,             \* the node installed as standby
  NoNode,            \* the empty active_node
  PrimaryOffline,    \* the name "primary-offline" the watchdog writes
  Task,              \* slots for concurrent activities of one backend
  PeerConfigured,    \* nodes whose Sync HA settings name the peer as standbyHost
  HealthConfigured,  \* nodes whose failover settings name the peer's /health
  FailoverEnabled,   \* nodes whose failover settings have enabled # false
  Faults,            \* kinds of fault that happen, a subset of FaultKind
  FaultNodes,        \* nodes whose host or service may stop
  Ops,               \* requests the operator makes, a subset of OpKind
  RoleChanges,       \* <<old, new>> pairs of roles the operator sets by hand
  GivenActive,       \* activeNode in recovery requests; NoNode when left out
  MaxFaults,         \* bound: number of faults in a behaviour
  MaxOps             \* bound: number of operator requests in a behaviour

Node == {NodeA, NodeB}

(* power: the host loses power; service: the backend process stops on a    *)
(* running host; link: the nodes cannot reach each other; slow: a reply    *)
(* misses the 2.5 s limit of a probe; cmd: a privileged command or a call  *)
(* to TronFire fails.                                                      *)
FaultKind == {"power", "service", "link", "slow", "cmd"}

OpKind == {"activate", "recovery", "identity", "lock", "block",
           "maintenance", "failback", "recreate", "sync"}

ASSUME NodesDiffer == NodeA # NodeB

ASSUME NamesDiffer == /\ NoNode \notin Node
                      /\ PrimaryOffline \notin Node
                      /\ NoNode # PrimaryOffline

ASSUME ConfigAssumption == /\ PeerConfigured \subseteq Node
                           /\ HealthConfigured \subseteq Node
                           /\ FailoverEnabled \subseteq Node
                           /\ FaultNodes \subseteq Node
                           /\ Faults \subseteq FaultKind
                           /\ Ops \subseteq OpKind
                           /\ GivenActive \subseteq Node \cup {NoNode}

ASSUME BoundAssumption == MaxFaults \in Nat /\ MaxOps \in Nat

VARIABLES
  power,       \* per node: "off", "stopped" (host up, backend down), "running"
  boot,        \* per node: the kernel's boot_id, as a counter
  role,        \* per node: nodeRole of node-identity.json
  lock,        \* per node: cluster-lock.json
  activation,  \* per node: cluster-activation.json
  maint,       \* per node: maintenance.json blocks the automatic failover
  env,         \* per node: role written to the env files of the host and TronFire
  tfRole,      \* per node: role the running TronFire backend was started with
  db,          \* per node: state of the standby databases in TronFire's catalogue
  down,        \* per node: primaryDownSince, and whether timeoutSeconds passed
  inProgress,  \* per node: autoFailoverInProgress
  task,        \* per node and slot: the activity waiting at an await
  link,        \* the nodes reach each other
  faultsLeft,  \* faults that may still happen
  opsLeft      \* requests the operator may still make

disk  == <<role, lock, activation, maint, env>>
tron  == <<tfRole, db>>
mem   == <<down, inProgress, task>>
hosts == <<power, boot, link, faultsLeft>>
vars  == <<disk, tron, mem, hosts, opsLeft>>

(***************************************************************************)
(* Types                                                                   *)
(***************************************************************************)
Role        == {"primary", "standby", "recovery"}
ActiveName  == Node \cup {NoNode, PrimaryOffline}
Lock        == [file: BOOLEAN, active: ActiveName, allow: BOOLEAN]
Activation  == [present: BOOLEAN, boot: Nat, exempt: BOOLEAN]
DbState     == {"PENDING", "READY", "PARTIAL", "PROMOTED"}
DownState   == {"none", "counting", "elapsed"}
Pc          == {"idle", "peer", "health", "haStatus", "promote", "setRole",
                "restart", "recRole", "recRestart"}
(* role: identity.nodeRole as read when the handler started; active: the   *)
(* activeNode putLocalNodeInRecovery computed before its first await;      *)
(* auto: the activity belongs to a watchdog tick; exempt: the activation   *)
(* reason matches /failover|promov/.                                       *)
TaskState   == [pc: Pc, role: Role, active: ActiveName,
                auto: BOOLEAN, exempt: BOOLEAN]

NoLock       == [file |-> FALSE, active |-> NoNode, allow |-> FALSE]
NoActivation == [present |-> FALSE, boot |-> 0, exempt |-> FALSE]
Idle         == [pc |-> "idle", role |-> "standby", active |-> NoNode,
                 auto |-> FALSE, exempt |-> FALSE]

TypeOK ==
  /\ power \in [Node -> {"off", "stopped", "running"}]
  /\ boot \in [Node -> Nat]
  /\ role \in [Node -> Role]
  /\ lock \in [Node -> Lock]
  /\ activation \in [Node -> Activation]
  /\ maint \in [Node -> BOOLEAN]
  /\ env \in [Node -> Role]
  /\ tfRole \in [Node -> Role]
  /\ db \in [Node -> DbState]
  /\ down \in [Node -> DownState]
  /\ inProgress \in [Node -> BOOLEAN]
  /\ task \in [Node -> [Task -> TaskState]]
  /\ link \in BOOLEAN
  /\ faultsLeft \in Nat
  /\ opsLeft \in Nat

(***************************************************************************)
(* The guard                                                               *)
(***************************************************************************)
Peer(n) == IF n = NodeA THEN NodeB ELSE NodeA

(* What clusterLock() returns: the file, or the default computed from the  *)
(* role the node has at the moment of the call.                            *)
ClusterLock(n) ==
  IF lock[n].file THEN lock[n]
  ELSE [file |-> FALSE, allow |-> FALSE,
        active |-> IF role[n] = "primary" THEN n ELSE NoNode]

(* Mutant: an activation outlives the boot it was made in. *)
LocalActivationValid_AnyBoot(n, active) == activation[n].present /\ active = n

(* The activation file is only ever written with activeNode = this node,   *)
(* so comparing it with the active node of the lock leaves active = n.     *)
LocalActivationValid(n, active) ==
  activation[n].present /\ active = n /\ activation[n].boot = boot[n]

ReturnedFormerPrimary(n) ==
  role[n] = "primary" /\ ClusterLock(n).active \notin {NoNode, n}

(* Mutant: the role recovery does not exclude the VIP. *)
CanHoldVip_InRecovery(n) ==
  LET active    == ClusterLock(n).active
      isPrimary == role[n] = "primary"
  IN  /\ ~ReturnedFormerPrimary(n)
      /\ active = n \/ (active = NoNode /\ isPrimary)
      /\ isPrimary => LocalActivationValid(n, n)

CanHoldVip(n) ==
  LET active      == ClusterLock(n).active
      isPrimary   == role[n] = "primary"
      effective   == IF active = NoNode /\ isPrimary THEN n ELSE active
      localActive == /\ active = n \/ (active = NoNode /\ isPrimary)
                     /\ isPrimary => LocalActivationValid(n, effective)
  IN  ~ReturnedFormerPrimary(n) /\ localActive /\ role[n] # "recovery"

CanServeProduction(n) == CanHoldVip(n) /\ role[n] # "recovery"

(* activateLocalNode's early errors. *)
MayActivate(n, lk) ==
  /\ role[n] # "recovery"
  /\ role[n] = "primary" => lk.active \in {NoNode, n}
  /\ role[n] = "standby" => lk.active = n \/ lk.allow

(* An answer arrives from the peer's backend within the probe's limit. *)
Reachable(n) == link /\ power[Peer(n)] = "running"

(***************************************************************************)
(* Shared parts of the steps                                               *)
(***************************************************************************)
UseOp(op)      == op \in Ops /\ opsLeft > 0 /\ opsLeft' = opsLeft - 1
UseFault(kind) == kind \in Faults /\ faultsLeft > 0 /\ faultsLeft' = faultsLeft - 1

At(n, t, pc) == power[n] = "running" /\ task[n][t].pc = pc
Goto(n, t, pc) == task' = [task EXCEPT ![n][t] = [@ EXCEPT !.pc = pc]]
Finish(n, t) == task' = [task EXCEPT ![n][t] = Idle]

(* Mutant: the flag of the failover in progress is never reset. *)
EndFailover_NoFinally(n, t) == UNCHANGED inProgress

(* The finally block of maybeAutoFailover, for the activation it called. *)
EndFailover(n, t) ==
  inProgress' = IF task[n][t].auto THEN [inProgress EXCEPT ![n] = FALSE]
                                   ELSE inProgress

(* writeClusterLock: the lock file exists from here on. *)
WriteClusterLock(n, active, allow) ==
  lock' = [lock EXCEPT ![n] = [file |-> TRUE, active |-> active, allow |-> allow]]

(* The end of activateLocalNode: the lock, then the activation of this     *)
(* boot.  Of the captured identity only the role matters.                  *)
RecordActivation(n, t) ==
  /\ WriteClusterLock(n, n, FALSE)
  /\ activation' = [activation EXCEPT ![n] =
       [present |-> TRUE, boot |-> boot[n],
        exempt  |-> task[n][t].role = "standby" \/ task[n][t].exempt]]
  /\ down' = IF task[n][t].auto THEN [down EXCEPT ![n] = "none"] ELSE down
  /\ EndFailover(n, t)
  /\ Finish(n, t)

(***************************************************************************)
(* The watchdog: maybeAutoFailover, and maybeDemoteReturnedPrimary, which  *)
(* it awaits first                                                         *)
(***************************************************************************)
Tick(n, t, pc) ==
  task' = [task EXCEPT ![n][t] = [pc |-> pc, role |-> role[n], active |-> NoNode,
                                  auto |-> TRUE, exempt |-> FALSE]]

(* A primary that was never promoted from standby asks the peer's guard. *)
TickProbesPeer(n, t) ==
  /\ At(n, t, "idle")
  /\ role[n] = "primary" /\ ~activation[n].exempt /\ n \in PeerConfigured
  /\ Tick(n, t, "peer")
  /\ UNCHANGED <<disk, tron, down, inProgress, hosts, opsLeft>>

TickProbesHealth(n, t) ==
  /\ At(n, t, "idle")
  /\ role[n] = "standby" /\ n \in HealthConfigured
  /\ Tick(n, t, "health")
  /\ UNCHANGED <<disk, tron, down, inProgress, hosts, opsLeft>>

TickHasNothingToDo(n, t) ==
  /\ At(n, t, "idle")
  /\ role[n] = "primary" => activation[n].exempt \/ n \notin PeerConfigured
  /\ role[n] = "standby" => n \notin HealthConfigured
  /\ down' = [down EXCEPT ![n] = "none"]
  /\ UNCHANGED <<disk, tron, inProgress, task, hosts, opsLeft>>

(* Mutant: the node yields to a peer that names this node active. *)
PeerServesAnother_Swapped(n) ==
  CanServeProduction(Peer(n)) /\ ClusterLock(Peer(n)).active = n

(* What the peer's guard says, when it answers, makes this node a former   *)
(* primary.                                                                *)
PeerServesAnother(n) ==
  /\ CanServeProduction(Peer(n))
  /\ ClusterLock(Peer(n)).active \notin {NoNode, n}

(* Mutant: the peer's role is passed on in place of its active node. *)
PeerGuardDemotes_StoresRole(n, t) ==
  /\ At(n, t, "peer")
  /\ Reachable(n) /\ PeerServesAnother(n)
  /\ task' = [task EXCEPT ![n][t] =
       [pc |-> "recRole", role |-> task[n][t].role, auto |-> TRUE, exempt |-> FALSE,
        active |-> role[Peer(n)]]]
  /\ UNCHANGED <<disk, tron, down, inProgress, hosts, opsLeft>>

PeerGuardDemotes(n, t) ==
  /\ At(n, t, "peer")
  /\ Reachable(n) /\ PeerServesAnother(n)
  /\ task' = [task EXCEPT ![n][t] =
       [pc |-> "recRole", role |-> task[n][t].role, auto |-> TRUE, exempt |-> FALSE,
        active |-> ClusterLock(Peer(n)).active]]
  /\ UNCHANGED <<disk, tron, down, inProgress, hosts, opsLeft>>

PeerGuardHarmless(n, t) ==
  /\ At(n, t, "peer")
  /\ ~(Reachable(n) /\ PeerServesAnother(n))
  /\ down' = [down EXCEPT ![n] = "none"]
  /\ Finish(n, t)
  /\ UNCHANGED <<disk, tron, inProgress, hosts, opsLeft>>

PeerGuardLate(n, t) ==
  /\ At(n, t, "peer")
  /\ UseFault("slow")
  /\ down' = [down EXCEPT ![n] = "none"]
  /\ Finish(n, t)
  /\ UNCHANGED <<disk, tron, inProgress, power, boot, link, opsLeft>>

HealthOk(n, t) ==
  /\ At(n, t, "health")
  /\ Reachable(n)
  /\ down' = [down EXCEPT ![n] = "none"]
  /\ Finish(n, t)
  /\ UNCHANGED <<disk, tron, inProgress, hosts, opsLeft>>

(* The rest of the tick after a failed health probe: under maintenance it  *)
(* only starts the clock; without, it starts the clock, waits for it, or   *)
(* goes on to ask TronFire whether the standby is READY.                   *)
AfterFailedHealth(n, t) ==
  LET promotes == /\ ~maint[n] /\ down[n] = "elapsed"
                  /\ ~inProgress[n] /\ n \in FailoverEnabled
  IN  /\ IF promotes THEN Goto(n, t, "haStatus") ELSE Finish(n, t)
      /\ down' = [down EXCEPT ![n] = IF @ = "none" THEN "counting" ELSE @]

HealthFailed(n, t) ==
  /\ At(n, t, "health")
  /\ ~Reachable(n)
  /\ AfterFailedHealth(n, t)
  /\ UNCHANGED <<disk, tron, inProgress, hosts, opsLeft>>

HealthLate(n, t) ==
  /\ At(n, t, "health")
  /\ Reachable(n) /\ UseFault("slow")
  /\ AfterFailedHealth(n, t)
  /\ UNCHANGED <<disk, tron, inProgress, power, boot, link, opsLeft>>

(* timeoutSeconds pass since primaryDownSince. *)
TimeoutElapses(n) ==
  /\ power[n] = "running" /\ down[n] = "counting"
  /\ down' = [down EXCEPT ![n] = "elapsed"]
  /\ UNCHANGED <<disk, tron, inProgress, task, hosts, opsLeft>>

HaStatusNotReady(n, t) ==
  /\ At(n, t, "haStatus")
  /\ db[n] # "READY"
  /\ Finish(n, t)
  /\ UNCHANGED <<disk, tron, down, inProgress, hosts, opsLeft>>

HaStatusUnavailable(n, t) ==
  /\ At(n, t, "haStatus")
  /\ UseFault("cmd")
  /\ Finish(n, t)
  /\ UNCHANGED <<disk, tron, down, inProgress, power, boot, link, opsLeft>>

(* READY: the tick opens the lock for promotion and calls                  *)
(* activateLocalNode, which reads identity and lock again; an error there  *)
(* leaves the lock open.                                                   *)
HaStatusReady(n, t) ==
  LET active == IF ClusterLock(n).active = NoNode THEN PrimaryOffline
                                                  ELSE ClusterLock(n).active
      opened == [file |-> TRUE, active |-> active, allow |-> TRUE]
      first  == IF role[n] = "standby" THEN "promote" ELSE "setRole"
  IN  /\ At(n, t, "haStatus")
      /\ db[n] = "READY"
      /\ WriteClusterLock(n, active, TRUE)
      /\ IF MayActivate(n, opened)
         THEN /\ inProgress' = [inProgress EXCEPT ![n] = TRUE]
              /\ task' = [task EXCEPT ![n][t] =
                   [pc |-> first, role |-> role[n], active |-> NoNode,
                    auto |-> TRUE, exempt |-> TRUE]]
         ELSE /\ inProgress' = [inProgress EXCEPT ![n] = FALSE]
              /\ Finish(n, t)
      /\ UNCHANGED <<role, activation, maint, env, tron, down, hosts, opsLeft>>

(***************************************************************************)
(* activateLocalNode                                                       *)
(***************************************************************************)
ActivateRequest(n, t) ==
  /\ At(n, t, "idle")
  /\ UseOp("activate")
  /\ MayActivate(n, ClusterLock(n))
  /\ \E exempt \in BOOLEAN :
       task' = [task EXCEPT ![n][t] =
         [pc |-> IF role[n] = "standby" THEN "promote" ELSE "setRole",
          role |-> role[n], active |-> NoNode, auto |-> FALSE, exempt |-> exempt]]
  /\ UNCHANGED <<disk, tron, down, inProgress, hosts>>

(* TronFire's own conditions on POST /api/ha/standby/promote. *)
TronfirePromotes(n) ==
  /\ tfRole[n] \in {"standby", "recovery"}
  /\ lock[n].file /\ lock[n].allow
  /\ db[n] = "READY"

PromoteOk(n, t) ==
  /\ At(n, t, "promote")
  /\ TronfirePromotes(n)
  /\ db' = [db EXCEPT ![n] = "PROMOTED"]
  /\ Goto(n, t, "setRole")
  /\ UNCHANGED <<disk, tfRole, down, inProgress, hosts, opsLeft>>

PromoteRefused(n, t) ==
  /\ At(n, t, "promote")
  /\ ~TronfirePromotes(n)
  /\ Finish(n, t) /\ EndFailover(n, t)
  /\ UNCHANGED <<disk, tron, down, hosts, opsLeft>>

(* The call fails: TronFire stopped before, between or after the databases *)
(* of its loop.                                                            *)
PromoteFails(n, t) ==
  /\ At(n, t, "promote")
  /\ TronfirePromotes(n) /\ UseFault("cmd")
  /\ \E left \in {"READY", "PARTIAL", "PROMOTED"} : db' = [db EXCEPT ![n] = left]
  /\ Finish(n, t) /\ EndFailover(n, t)
  /\ UNCHANGED <<disk, tfRole, down, power, boot, link, opsLeft>>

(* setNodeRoleEnv('primary') returns.  A standby then writes the identity  *)
(* it read before the promotion, with the new role, and restarts TronFire; *)
(* a primary goes straight to the lock.                                    *)
SetRolePromoted(n, t) ==
  /\ At(n, t, "setRole") /\ task[n][t].role = "standby"
  /\ env' = [env EXCEPT ![n] = "primary"]
  /\ role' = [role EXCEPT ![n] = "primary"]
  /\ Goto(n, t, "restart")
  /\ UNCHANGED <<lock, activation, maint, tron, down, inProgress, hosts, opsLeft>>

SetRolePrimary(n, t) ==
  /\ At(n, t, "setRole") /\ task[n][t].role # "standby"
  /\ env' = [env EXCEPT ![n] = "primary"]
  /\ RecordActivation(n, t)
  /\ UNCHANGED <<role, maint, tron, hosts, opsLeft>>

SetRoleFails(n, t) ==
  /\ At(n, t, "setRole")
  /\ UseFault("cmd")
  /\ \E left \in {env[n], "primary"} : env' = [env EXCEPT ![n] = left]
  /\ Finish(n, t) /\ EndFailover(n, t)
  /\ UNCHANGED <<role, lock, activation, maint, tron, down, power, boot, link, opsLeft>>

(* docker compose restart backend: the container keeps the role it was     *)
(* created with, or reads the new one; an error is swallowed.              *)
TronfireRestart(n) ==
  \E r \in {tfRole[n], env[n]} : tfRole' = [tfRole EXCEPT ![n] = r]

RestartAndRecord(n, t) ==
  /\ At(n, t, "restart")
  /\ TronfireRestart(n)
  /\ RecordActivation(n, t)
  /\ UNCHANGED <<role, maint, env, db, hosts, opsLeft>>

(***************************************************************************)
(* putLocalNodeInRecovery                                                  *)
(***************************************************************************)
RecoveryRequest(n, t) ==
  /\ At(n, t, "idle")
  /\ UseOp("recovery")
  /\ \E given \in GivenActive :
       task' = [task EXCEPT ![n][t] =
         [pc |-> "recRole", role |-> role[n], auto |-> FALSE, exempt |-> FALSE,
          active |-> IF given = NoNode THEN ClusterLock(n).active ELSE given]]
  /\ UNCHANGED <<disk, tron, down, inProgress, hosts>>

(* Mutant: the active node given by the caller is ignored. *)
RecoveryWrites_KeepsActive(n, t) ==
  /\ At(n, t, "recRole")
  /\ env' = [env EXCEPT ![n] = "recovery"]
  /\ role' = [role EXCEPT ![n] = "recovery"]
  /\ activation' = [activation EXCEPT ![n] = NoActivation]
  /\ WriteClusterLock(n, ClusterLock(n).active, FALSE)
  /\ Goto(n, t, "recRestart")
  /\ UNCHANGED <<maint, tron, down, inProgress, hosts, opsLeft>>

RecoveryWrites(n, t) ==
  /\ At(n, t, "recRole")
  /\ env' = [env EXCEPT ![n] = "recovery"]
  /\ role' = [role EXCEPT ![n] = "recovery"]
  /\ activation' = [activation EXCEPT ![n] = NoActivation]
  /\ WriteClusterLock(n, task[n][t].active, FALSE)
  /\ Goto(n, t, "recRestart")
  /\ UNCHANGED <<maint, tron, down, inProgress, hosts, opsLeft>>

RecoveryFails(n, t) ==
  /\ At(n, t, "recRole")
  /\ UseFault("cmd")
  /\ \E left \in {env[n], "recovery"} : env' = [env EXCEPT ![n] = left]
  /\ Finish(n, t)
  /\ UNCHANGED <<role, lock, activation, maint, tron, down, inProgress, power, boot, link, opsLeft>>

RecoveryRestarts(n, t) ==
  /\ At(n, t, "recRestart")
  /\ TronfireRestart(n)
  /\ down' = IF task[n][t].auto THEN [down EXCEPT ![n] = "none"] ELSE down
  /\ Finish(n, t)
  /\ UNCHANGED <<disk, db, inProgress, hosts, opsLeft>>

(***************************************************************************)
(* Requests of the operator that run to their end in one step              *)
(***************************************************************************)
PatchIdentity(n) ==
  /\ power[n] = "running" /\ UseOp("identity")
  /\ \E r \in Role : /\ <<role[n], r>> \in RoleChanges
                     /\ role' = [role EXCEPT ![n] = r]
  /\ UNCHANGED <<lock, activation, maint, env, tron, mem, hosts>>

PatchLock(n) ==
  /\ power[n] = "running" /\ UseOp("lock")
  /\ \E active \in ActiveName, allow \in BOOLEAN : WriteClusterLock(n, active, allow)
  /\ UNCHANGED <<role, activation, maint, env, tron, mem, hosts>>

BlockClusterPromotion(n) ==
  /\ power[n] = "running" /\ UseOp("block")
  /\ WriteClusterLock(n, ClusterLock(n).active, FALSE)
  /\ UNCHANGED <<role, activation, maint, env, tron, mem, hosts>>

(* writeFailoverMaintenanceBlock and clearFailoverMaintenanceBlock.  The   *)
(* block does not end by itself: failoverMaintenanceBlock reports an       *)
(* expired block as active.                                                *)
SetMaintenance(n) ==
  /\ power[n] = "running" /\ UseOp("maintenance")
  /\ maint' = [maint EXCEPT ![n] = ~@]
  /\ UNCHANGED <<role, lock, activation, env, tron, mem, hosts>>

PrepareFailback(n) ==
  /\ power[n] = "running" /\ UseOp("failback")
  /\ maint' = [maint EXCEPT ![n] = TRUE]
  /\ WriteClusterLock(n, ClusterLock(n).active, FALSE)
  /\ UNCHANGED <<role, activation, env, tron, mem, hosts>>

(* docker compose up of TronFire creates its containers from the env file. *)
RecreateTronfire(n) ==
  /\ power[n] = "running" /\ UseOp("recreate")
  /\ tfRole' = [tfRole EXCEPT ![n] = env[n]]
  /\ UNCHANGED <<disk, db, mem, hosts>>

(* The outcome of a Sync HA job of n for the peer's standby databases:     *)
(* restored and validated, or not.                                         *)
SyncToPeer(n) ==
  LET p == Peer(n) IN
  /\ power[n] = "running" /\ UseOp("sync")
  /\ CanServeProduction(n) /\ n \in PeerConfigured /\ Reachable(n)
  /\ tfRole[p] # "primary"
  /\ \E left \in {"READY", "PENDING"} : db' = [db EXCEPT ![p] = left]
  /\ UNCHANGED <<disk, tfRole, mem, hosts>>

(***************************************************************************)
(* Hosts and network                                                       *)
(***************************************************************************)
(* Whatever the backend held in memory, and every activity, is lost. *)
LoseMemory(n) ==
  /\ down' = [down EXCEPT ![n] = "none"]
  /\ inProgress' = [inProgress EXCEPT ![n] = FALSE]
  /\ task' = [task EXCEPT ![n] = [t \in Task |-> Idle]]

PowerOff(n) ==
  /\ n \in FaultNodes /\ power[n] # "off" /\ UseFault("power")
  /\ power' = [power EXCEPT ![n] = "off"]
  /\ boot' = [boot EXCEPT ![n] = @ + 1]
  /\ LoseMemory(n)
  /\ UNCHANGED <<disk, tron, link, opsLeft>>

ServiceStops(n) ==
  /\ n \in FaultNodes /\ power[n] = "running" /\ UseFault("service")
  /\ power' = [power EXCEPT ![n] = "stopped"]
  /\ LoseMemory(n)
  /\ UNCHANGED <<disk, tron, boot, link, opsLeft>>

PowerOn(n) ==
  /\ power[n] = "off"
  /\ power' = [power EXCEPT ![n] = "running"]
  /\ UNCHANGED <<disk, tron, mem, boot, link, faultsLeft, opsLeft>>

ServiceStarts(n) ==
  /\ power[n] = "stopped"
  /\ power' = [power EXCEPT ![n] = "running"]
  /\ UNCHANGED <<disk, tron, mem, boot, link, faultsLeft, opsLeft>>

LinkBreaks ==
  /\ link /\ UseFault("link")
  /\ link' = FALSE
  /\ UNCHANGED <<disk, tron, mem, power, boot, opsLeft>>

LinkHeals ==
  /\ ~link
  /\ link' = TRUE
  /\ UNCHANGED <<disk, tron, mem, power, boot, faultsLeft, opsLeft>>

(***************************************************************************)
(* Specification                                                           *)
(***************************************************************************)
(* After installation and pairing: A was activated in this boot, B has a   *)
(* READY standby and no lock file yet.                                     *)
Init ==
  /\ power = [n \in Node |-> "running"]
  /\ boot = [n \in Node |-> 0]
  /\ role = [n \in Node |-> IF n = NodeA THEN "primary" ELSE "standby"]
  /\ lock = [n \in Node |-> IF n = NodeA
                THEN [file |-> TRUE, active |-> NodeA, allow |-> FALSE] ELSE NoLock]
  /\ activation = [n \in Node |-> IF n = NodeA
                THEN [present |-> TRUE, boot |-> 0, exempt |-> FALSE] ELSE NoActivation]
  /\ maint = [n \in Node |-> FALSE]
  /\ env = role
  /\ tfRole = role
  /\ db = [n \in Node |-> IF n = NodeA THEN "PENDING" ELSE "READY"]
  /\ down = [n \in Node |-> "none"]
  /\ inProgress = [n \in Node |-> FALSE]
  /\ task = [n \in Node |-> [t \in Task |-> Idle]]
  /\ link = TRUE
  /\ faultsLeft = MaxFaults
  /\ opsLeft = MaxOps

(* The steps of an activity that need no fault and no operator. *)
TaskStep(n, t) ==
  \/ TickProbesPeer(n, t) \/ TickProbesHealth(n, t) \/ TickHasNothingToDo(n, t)
  \/ PeerGuardDemotes(n, t) \/ PeerGuardHarmless(n, t)
  \/ HealthOk(n, t) \/ HealthFailed(n, t)
  \/ HaStatusNotReady(n, t) \/ HaStatusReady(n, t)
  \/ PromoteOk(n, t) \/ PromoteRefused(n, t)
  \/ SetRolePromoted(n, t) \/ SetRolePrimary(n, t) \/ RestartAndRecord(n, t)
  \/ RecoveryWrites(n, t) \/ RecoveryRestarts(n, t)

TaskFault(n, t) ==
  \/ PeerGuardLate(n, t) \/ HealthLate(n, t) \/ HaStatusUnavailable(n, t)
  \/ PromoteFails(n, t) \/ SetRoleFails(n, t) \/ RecoveryFails(n, t)

Operator(n) ==
  \/ \E t \in Task : ActivateRequest(n, t) \/ RecoveryRequest(n, t)
  \/ PatchIdentity(n) \/ PatchLock(n) \/ BlockClusterPromotion(n)
  \/ SetMaintenance(n) \/ PrepareFailback(n) \/ RecreateTronfire(n) \/ SyncToPeer(n)

Environment(n) ==
  \/ TimeoutElapses(n)
  \/ PowerOff(n) \/ PowerOn(n) \/ ServiceStops(n) \/ ServiceStarts(n)

Next ==
  \/ \E n \in Node, t \in Task : TaskStep(n, t) \/ TaskFault(n, t)
  \/ \E n \in Node : Operator(n) \/ Environment(n)
  \/ LinkBreaks \/ LinkHeals

Spec == Init /\ [][Next]_vars

(* The event loop keeps running ticks and resumes what it awaits (every    *)
(* probe and command has a time limit), clocks advance, systemd restarts   *)
(* the service (Restart=always) and the network is repaired.  No fairness  *)
(* for faults, for power coming back, or for the operator.                 *)
Fairness ==
  /\ \A n \in Node, t \in Task : WF_vars(TaskStep(n, t))
  /\ \A n \in Node : WF_vars(TimeoutElapses(n)) /\ WF_vars(ServiceStarts(n))
  /\ WF_vars(LinkHeals)

FairSpec == Spec /\ Fairness

(***************************************************************************)
(* Properties                                                              *)
(***************************************************************************)
(* A running backend whose guard reports canServeProduction. *)
Serving(n) == power[n] = "running" /\ CanServeProduction(n)

(* The two nodes never both serve production: the lock, activation and     *)
(* guard of each node exclude the other although they share no state.      *)
AtMostOneServing == ~(Serving(NodeA) /\ Serving(NodeB))

(* A node becomes entitled to the VIP only by a write of activateLocalNode *)
(* running on it, with an activation of the current boot, or when the      *)
(* operator edits its lock or identity: a reboot, a restart, the network,  *)
(* a recovery or anything the other node does never has that effect.       *)
EligibilityIsExplicit ==
  [][\A n \in Node : ~CanHoldVip(n) /\ CanHoldVip(n)' =>
       \/ /\ \E t \in Task : /\ task[n][t].pc \in {"setRole", "restart"}
                             /\ task'[n][t].pc # task[n][t].pc
          /\ activation'[n].present /\ activation'[n].boot = boot[n]
       \/ PatchIdentity(n) \/ PatchLock(n)]_vars

(* No activation names a boot that is still to come, so a reboot makes the *)
(* activation of the node stale.                                           *)
ActivationsArePast ==
  \A n \in Node : activation[n].present => activation[n].boot <= boot[n]

(* A node with role standby is not entitled to the VIP. *)
StandbyHasNoVip == \A n \in Node : role[n] = "standby" => ~CanHoldVip(n)

(* Production passes from the installed primary to the standby in order:   *)
(* never to both, not before the primary has stopped serving, and the      *)
(* former primary that returns does not resume by itself, though an        *)
(* operator makes it a standby again.                                      *)
Handover == INSTANCE Succession WITH First <- NodeA, Second <- NodeB,
                                     servers <- {n \in Node : Serving(n)}
HandoverInOrder == Handover!Spec

(* When the primary goes down and stays down while the standby stays up,   *)
(* neither blocked for maintenance nor with a database that is still to be *)
(* restored, the standby ends up serving.                                  *)
FailoverCompletes ==
  <>[](/\ power[NodeA] = "off" /\ power[NodeB] = "running"
       /\ ~maint[NodeB] /\ db[NodeB] # "PENDING") => <>Serving(NodeB)

(* Two nodes that serve at the same time do not go on doing so: the        *)
(* watchdog of the former primary finds the peer active and yields.        *)
DualServingEnds == ~AtMostOneServing ~> AtMostOneServing

(***************************************************************************)
(* Why AtMostOneServing holds when hosts fail by losing power              *)
(***************************************************************************)
(* Hosts lose power and commands fail, but no service stops on a running   *)
(* host, no link breaks and no probe is late; the operator neither         *)
(* activates a node nor edits identities or locks.                         *)
FailStop == /\ Faults \cap {"service", "link", "slow"} = {}
            /\ Ops \cap {"activate", "identity", "lock"} = {}

ActivatedThisBoot(n) == activation[n].present /\ activation[n].boot = boot[n]

(* B has seen A down, or acted on it. *)
SawPeerDown ==
  \/ down[NodeB] # "none" \/ role[NodeB] = "primary"
  \/ \E t \in Task : task[NodeB][t].pc \in {"haStatus", "promote", "setRole", "restart"}

(* No host is up without its backend, and the nodes reach each other. *)
HostsFailWhole == link /\ \A n \in Node : power[n] # "stopped"

(* A stays primary or in recovery, and an activation of A that outlived    *)
(* its boot stays invalid.                                                 *)
FormerPrimaryStaysOut ==
  /\ role[NodeA] # "standby"
  /\ \A t \in Task : task[NodeA][t].pc \in {"idle", "peer", "recRole", "recRestart"}
  /\ activation[NodeA].present => activation[NodeA].boot <= boot[NodeA]
  /\ power[NodeA] = "off" => ~ActivatedThisBoot(NodeA)

(* n names itself active only once its role is no longer standby.          *)
StandbyYields(n) ==
  /\ \A t \in Task : task[n][t].pc = "promote" => task[n][t].role = "standby"
  /\ \A t \in Task : \/ task[n][t].pc = "restart"
                     \/ task[n][t].pc = "setRole" /\ task[n][t].role # "standby"
                     => role[n] # "standby"
  /\ role[n] = "standby" => lock[n].active # n

(* The inductive invariant behind AtMostOneServing: what B does towards    *)
(* serving presupposes that A lost the boot of its activation.             *)
FailStopInv ==
  /\ TypeOK
  /\ HostsFailWhole
  /\ FormerPrimaryStaysOut
  /\ StandbyYields(NodeB)
  /\ SawPeerDown => ~ActivatedThisBoot(NodeA)

(***************************************************************************)
(* Why a standby has no VIP, whatever fails                                *)
(***************************************************************************)
(* The operator edits no lock, and no identity back to standby. *)
NobodyReturns == /\ "lock" \notin Ops
                 /\ "identity" \in Ops => \A c \in RoleChanges : c[2] # "standby"

StandbyInv == TypeOK /\ \A n \in Node : StandbyYields(n)

(***************************************************************************)
(* Why the handover is in order when the operator makes the former primary *)
(* a standby again                                                         *)
(***************************************************************************)
(* A loses power and returns any number of times, commands fail, and the   *)
(* operator sets nodes from recovery to standby; B stays up.               *)
PrimaryReturns == /\ Faults \cap {"service", "link", "slow"} = {}
                  /\ FaultNodes \subseteq {NodeA}
                  /\ Ops \cap {"activate", "recovery", "lock"} = {}
                  /\ RoleChanges \subseteq {<<"recovery", "standby">>}

(* A never acts towards serving, and names itself active only as primary.  *)
ReturnedYields ==
  /\ \A t \in Task :
       /\ task[NodeA][t].pc \in {"idle", "peer", "health", "recRole", "recRestart"}
       /\ task[NodeA][t].pc = "recRole" => task[NodeA][t].active # NodeA
  /\ role[NodeA] # "primary" => lock[NodeA].active # NodeA
  /\ activation[NodeA].present => activation[NodeA].boot <= boot[NodeA]
  /\ power[NodeA] = "off" => ~ActivatedThisBoot(NodeA)

(* B stays up and is never demoted. *)
SuccessorStays ==
  /\ power[NodeB] = "running" /\ role[NodeB] # "recovery"
  /\ \A t \in Task :
       /\ task[NodeB][t].pc \notin {"recRole", "recRestart"}
       /\ task[NodeB][t].pc = "peer" => role[NodeB] = "primary"

ReturnInv ==
  /\ TypeOK
  /\ HostsFailWhole
  /\ ReturnedYields
  /\ SuccessorStays
  /\ StandbyYields(NodeB)
  /\ SawPeerDown => ~ActivatedThisBoot(NodeA)
=============================================================================
