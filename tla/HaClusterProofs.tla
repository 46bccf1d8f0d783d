-------------------------- MODULE HaClusterProofs --------------------------
(***************************************************************************)
(* Proofs about HaCluster, for every choice of its constants: any number   *)
(* of concurrent activities, faults and operator requests.                 *)
(***************************************************************************)
EXTENDS HaCluster, TLAPS

(***************************************************************************)
(* What the shared parts of the steps preserve                             *)
(***************************************************************************)
(* The values the handlers store have their types. *)
LEMMA ValueTypes ==
  /\ NoLock \in Lock
  /\ NoActivation \in Activation
  /\ Idle \in TaskState
  /\ NodeA \in Node /\ NodeB \in Node
  /\ \A n \in Node : n \in ActiveName /\ Peer(n) \in Node
BY DEF NoLock, Lock, NoActivation, Activation, Idle, TaskState, Node, ActiveName,
       Pc, Role, Peer

(* clusterLock() returns a lock, also when it is the default. *)
LEMMA ClusterLockType ==
  ASSUME TypeOK, NEW n \in Node
  PROVE  ClusterLock(n) \in Lock
BY DEF TypeOK, ClusterLock, Lock, ActiveName, Node

(* Moving an activity to its next await, or ending it, keeps the table of  *)
(* activities well typed.                                                  *)
LEMMA GotoType ==
  ASSUME TypeOK, NEW n \in Node, NEW t \in Task, NEW pc \in Pc, Goto(n, t, pc)
  PROVE  task' \in [Node -> [Task -> TaskState]]
<1>1. task[n][t] \in TaskState
  BY DEF TypeOK
<1>2. [task[n][t] EXCEPT !.pc = pc] \in TaskState
  BY <1>1 DEF TaskState
<1>3. [task[n] EXCEPT ![t] = [task[n][t] EXCEPT !.pc = pc]] \in [Task -> TaskState]
  BY <1>2 DEF TypeOK
<1> QED
  BY <1>3 DEF TypeOK, Goto

(* Ending an activity keeps the table well typed.                          *)
LEMMA FinishType ==
  ASSUME TypeOK, NEW n \in Node, NEW t \in Task, Finish(n, t)
  PROVE  task' \in [Node -> [Task -> TaskState]]
BY ValueTypes DEF TypeOK, Finish

(* Storing any activity record keeps the table well typed.                 *)
LEMMA SetTaskType ==
  ASSUME TypeOK, NEW n \in Node, NEW t \in Task, NEW s \in TaskState,
         task' = [task EXCEPT ![n][t] = s]
  PROVE  task' \in [Node -> [Task -> TaskState]]
BY DEF TypeOK

(* The writes of the lock file and of the activation keep their types. *)
LEMMA WriteClusterLockType ==
  ASSUME TypeOK, NEW n \in Node, NEW active \in ActiveName, NEW allow \in BOOLEAN,
         WriteClusterLock(n, active, allow)
  PROVE  lock' \in [Node -> Lock]
BY DEF TypeOK, WriteClusterLock, Lock

(* The finally block of maybeAutoFailover stores a Boolean.                *)
LEMMA EndFailoverType ==
  ASSUME TypeOK, NEW n \in Node, NEW t \in Task, EndFailover(n, t)
  PROVE  inProgress' \in [Node -> BOOLEAN]
BY DEF TypeOK, EndFailover

(* The end of activateLocalNode keeps every type.                          *)
LEMMA RecordActivationType ==
  ASSUME TypeOK, NEW n \in Node, NEW t \in Task, RecordActivation(n, t)
  PROVE  /\ lock' \in [Node -> Lock]
         /\ activation' \in [Node -> Activation]
         /\ down' \in [Node -> DownState]
         /\ inProgress' \in [Node -> BOOLEAN]
         /\ task' \in [Node -> [Task -> TaskState]]
<1>1. lock' \in [Node -> Lock]
  BY ValueTypes, WriteClusterLockType DEF RecordActivation
<1>2. activation' \in [Node -> Activation]
  BY DEF TypeOK, RecordActivation, Activation, TaskState
<1>3. down' \in [Node -> DownState]
  BY DEF TypeOK, RecordActivation, DownState
<1> QED
  BY <1>1, <1>2, <1>3, EndFailoverType, FinishType DEF RecordActivation

(* The bounds on faults and requests stay naturals.                        *)
LEMMA UseTypes ==
  ASSUME TypeOK
  PROVE  /\ \A op : UseOp(op) => opsLeft' \in Nat
         /\ \A kind : UseFault(kind) => faultsLeft' \in Nat
BY DEF TypeOK, UseOp, UseFault

(***************************************************************************)
(* Type correctness                                                        *)
(***************************************************************************)
LEMMA WatchdogType ==
  ASSUME TypeOK, NEW n \in Node, NEW t \in Task,
         \/ TickProbesPeer(n, t) \/ TickProbesHealth(n, t) \/ TickHasNothingToDo(n, t)
         \/ PeerGuardDemotes(n, t) \/ PeerGuardHarmless(n, t) \/ PeerGuardLate(n, t)
         \/ HealthOk(n, t) \/ HealthFailed(n, t) \/ HealthLate(n, t)
         \/ HaStatusNotReady(n, t) \/ HaStatusUnavailable(n, t) \/ HaStatusReady(n, t)
  PROVE  TypeOK'
<1> DEFINE NewTask(pc) == [pc |-> pc, role |-> role[n], active |-> NoNode,
                           auto |-> TRUE, exempt |-> FALSE]
<1>1. ASSUME NEW pc \in Pc, Tick(n, t, pc)
      PROVE  task' \in [Node -> [Task -> TaskState]]
  <2>1. NewTask(pc) \in TaskState
    BY DEF TypeOK, TaskState, ActiveName
  <2> QED
    BY <1>1, <2>1, SetTaskType DEF Tick
<1>2. CASE TickProbesPeer(n, t)
  <2>1. Tick(n, t, "peer") /\ "peer" \in Pc
    BY <1>2 DEF TickProbesPeer, Pc
  <2> QED
    BY <1>1, <1>2, <2>1 DEF TypeOK, TickProbesPeer, disk, tron, hosts
<1>3. CASE TickProbesHealth(n, t)
  <2>1. Tick(n, t, "health") /\ "health" \in Pc
    BY <1>3 DEF TickProbesHealth, Pc
  <2> QED
    BY <1>1, <1>3, <2>1 DEF TypeOK, TickProbesHealth, disk, tron, hosts
<1>4. CASE TickHasNothingToDo(n, t)
  BY <1>4 DEF TypeOK, TickHasNothingToDo, disk, tron, hosts, DownState
<1>5. CASE PeerGuardDemotes(n, t)
  <2> DEFINE a == ClusterLock(Peer(n)).active
  <2>1. a \in ActiveName
    BY ClusterLockType, ValueTypes DEF Lock
  <2> DEFINE s == [pc |-> "recRole", role |-> task[n][t].role, auto |-> TRUE,
                   exempt |-> FALSE, active |-> a]
  <2>2. s \in TaskState
    BY <2>1 DEF TypeOK, TaskState, Pc
  <2>3. task' = [task EXCEPT ![n][t] = s]
    BY <1>5 DEF PeerGuardDemotes
  <2>4. task' \in [Node -> [Task -> TaskState]]
    BY <2>2, <2>3, SetTaskType
  <2> QED
    BY <1>5, <2>4 DEF TypeOK, PeerGuardDemotes, disk, tron, hosts
<1>6. CASE PeerGuardHarmless(n, t)
  BY <1>6, FinishType DEF TypeOK, PeerGuardHarmless, disk, tron, hosts, DownState
<1>7. CASE PeerGuardLate(n, t)
  BY <1>7, FinishType, UseTypes DEF TypeOK, PeerGuardLate, disk, tron, DownState
<1>8. CASE HealthOk(n, t)
  BY <1>8, FinishType DEF TypeOK, HealthOk, disk, tron, hosts, DownState
<1>9. ASSUME AfterFailedHealth(n, t)
      PROVE  task' \in [Node -> [Task -> TaskState]] /\ down' \in [Node -> DownState]
  <2>1. Goto(n, t, "haStatus") \/ Finish(n, t)
    BY <1>9 DEF AfterFailedHealth
  <2>2. "haStatus" \in Pc
    BY DEF Pc
  <2>3. down' \in [Node -> DownState]
    BY <1>9 DEF AfterFailedHealth, TypeOK, DownState
  <2> QED
    BY <2>1, <2>2, <2>3, GotoType, FinishType
<1>10. CASE HealthFailed(n, t)
  BY <1>9, <1>10 DEF TypeOK, HealthFailed, disk, tron, hosts
<1>11. CASE HealthLate(n, t)
  BY <1>9, <1>11, UseTypes DEF TypeOK, HealthLate, disk, tron
<1>12. CASE HaStatusNotReady(n, t)
  BY <1>12, FinishType DEF TypeOK, HaStatusNotReady, disk, tron, hosts
<1>13. CASE HaStatusUnavailable(n, t)
  BY <1>13, FinishType, UseTypes DEF TypeOK, HaStatusUnavailable, disk, tron
<1>14. CASE HaStatusReady(n, t)
  <2> DEFINE active == IF ClusterLock(n).active = NoNode THEN PrimaryOffline
                       ELSE ClusterLock(n).active
             s == [pc |-> IF role[n] = "standby" THEN "promote" ELSE "setRole",
                   role |-> role[n], active |-> NoNode, auto |-> TRUE, exempt |-> TRUE]
  <2>1. active \in ActiveName
    BY ClusterLockType DEF Lock, ActiveName
  <2>2. lock' \in [Node -> Lock]
    BY <1>14, <2>1, WriteClusterLockType DEF HaStatusReady
  <2>3. s \in TaskState
    BY DEF TypeOK, TaskState, ActiveName, Pc
  <2>4. task' = [task EXCEPT ![n][t] = s] \/ Finish(n, t)
    BY <1>14 DEF HaStatusReady
  <2>5. task' \in [Node -> [Task -> TaskState]]
    BY <2>3, <2>4, SetTaskType, FinishType
  <2>6. inProgress' \in [Node -> BOOLEAN]
    BY <1>14 DEF HaStatusReady, TypeOK
  <2> QED
    BY <1>14, <2>2, <2>5, <2>6 DEF TypeOK, HaStatusReady, tron, hosts
<1> QED
  BY <1>2, <1>3, <1>4, <1>5, <1>6, <1>7, <1>8, <1>10, <1>11, <1>12, <1>13, <1>14

(* The steps of activateLocalNode keep every type.                         *)
LEMMA ActivateType ==
  ASSUME TypeOK, NEW n \in Node, NEW t \in Task,
         \/ ActivateRequest(n, t) \/ PromoteOk(n, t) \/ PromoteRefused(n, t)
         \/ PromoteFails(n, t) \/ SetRolePromoted(n, t) \/ SetRolePrimary(n, t)
         \/ SetRoleFails(n, t) \/ RestartAndRecord(n, t)
  PROVE  TypeOK'
<1>0. {"setRole", "restart", "recRestart"} \subseteq Pc
  BY DEF Pc
<1>1. CASE ActivateRequest(n, t)
  <2>1. PICK exempt \in BOOLEAN : task' = [task EXCEPT ![n][t] =
         [pc |-> IF role[n] = "standby" THEN "promote" ELSE "setRole",
          role |-> role[n], active |-> NoNode, auto |-> FALSE, exempt |-> exempt]]
    BY <1>1 DEF ActivateRequest
  <2>2. [pc |-> IF role[n] = "standby" THEN "promote" ELSE "setRole",
         role |-> role[n], active |-> NoNode, auto |-> FALSE, exempt |-> exempt]
        \in TaskState
    BY DEF TypeOK, TaskState, ActiveName, Pc
  <2>3. task' \in [Node -> [Task -> TaskState]]
    BY <2>1, <2>2, SetTaskType
  <2> QED
    BY <1>1, <2>3, UseTypes DEF TypeOK, ActivateRequest, disk, tron, hosts
<1>2. CASE PromoteOk(n, t)
  <2>1. task' \in [Node -> [Task -> TaskState]]
    BY <1>0, <1>2, GotoType DEF PromoteOk
  <2> QED
    BY <1>2, <2>1 DEF TypeOK, PromoteOk, disk, hosts, DbState
<1>3. CASE PromoteRefused(n, t)
  BY <1>3, FinishType, EndFailoverType DEF TypeOK, PromoteRefused, disk, tron, hosts
<1>4. CASE PromoteFails(n, t)
  BY <1>4, FinishType, EndFailoverType, UseTypes DEF TypeOK, PromoteFails, disk, DbState
<1>5. CASE SetRolePromoted(n, t)
  <2>1. task' \in [Node -> [Task -> TaskState]]
    BY <1>0, <1>5, GotoType DEF SetRolePromoted
  <2> QED
    BY <1>5, <2>1 DEF TypeOK, SetRolePromoted, tron, hosts, Role
<1>6. CASE SetRolePrimary(n, t)
  BY <1>6, RecordActivationType DEF TypeOK, SetRolePrimary, tron, hosts, Role
<1>7. CASE SetRoleFails(n, t)
  <2>1. env' \in [Node -> Role]
    BY <1>7 DEF TypeOK, SetRoleFails, Role
  <2>2. inProgress' \in [Node -> BOOLEAN] /\ task' \in [Node -> [Task -> TaskState]]
    BY <1>7, FinishType, EndFailoverType DEF SetRoleFails
  <2>3. faultsLeft' \in Nat
    BY <1>7, UseTypes DEF SetRoleFails
  <2> QED
    BY <1>7, <2>1, <2>2, <2>3 DEF TypeOK, SetRoleFails, tron
<1>8. CASE RestartAndRecord(n, t)
  BY <1>8, RecordActivationType DEF TypeOK, RestartAndRecord, TronfireRestart, hosts
<1> QED
  BY <1>1, <1>2, <1>3, <1>4, <1>5, <1>6, <1>7, <1>8

(* The steps of putLocalNodeInRecovery keep every type.                    *)
LEMMA RecoveryType ==
  ASSUME TypeOK, NEW n \in Node, NEW t \in Task,
         \/ RecoveryRequest(n, t) \/ RecoveryWrites(n, t)
         \/ RecoveryFails(n, t) \/ RecoveryRestarts(n, t)
  PROVE  TypeOK'
<1>1. CASE RecoveryRequest(n, t)
  <2> DEFINE a(given) == IF given = NoNode THEN ClusterLock(n).active ELSE given
             s(given) == [pc |-> "recRole", role |-> role[n], auto |-> FALSE,
                          exempt |-> FALSE, active |-> a(given)]
  <2>1. PICK given \in GivenActive : task' = [task EXCEPT ![n][t] = s(given)]
    BY <1>1 DEF RecoveryRequest
  <2>2. a(given) \in ActiveName
    BY ClusterLockType, ConfigAssumption DEF Lock, ActiveName
  <2>3. s(given) \in TaskState
    BY <2>2 DEF TypeOK, TaskState, Pc
  <2>4. task' \in [Node -> [Task -> TaskState]]
    BY <2>1, <2>3, SetTaskType
  <2> QED
    BY <1>1, <2>4, UseTypes DEF TypeOK, RecoveryRequest, disk, tron, hosts
<1>2. CASE RecoveryWrites(n, t)
  <2>1. task[n][t].active \in ActiveName
    BY DEF TypeOK, TaskState
  <2>2. lock' \in [Node -> Lock]
    BY <1>2, <2>1, WriteClusterLockType DEF RecoveryWrites
  <2>3. "recRestart" \in Pc
    BY DEF Pc
  <2>4. task' \in [Node -> [Task -> TaskState]]
    BY <1>2, <2>3, GotoType DEF RecoveryWrites
  <2>5. activation' \in [Node -> Activation]
    BY <1>2, ValueTypes DEF TypeOK, RecoveryWrites
  <2> QED
    BY <1>2, <2>2, <2>4, <2>5 DEF TypeOK, RecoveryWrites, tron, hosts, Role
<1>3. CASE RecoveryFails(n, t)
  <2>1. env' \in [Node -> Role]
    BY <1>3 DEF TypeOK, RecoveryFails, Role
  <2>2. task' \in [Node -> [Task -> TaskState]]
    BY <1>3, FinishType DEF RecoveryFails
  <2>3. faultsLeft' \in Nat
    BY <1>3, UseTypes DEF RecoveryFails
  <2> QED
    BY <1>3, <2>1, <2>2, <2>3 DEF TypeOK, RecoveryFails, tron
<1>4. CASE RecoveryRestarts(n, t)
  <2>1. task' \in [Node -> [Task -> TaskState]]
    BY <1>4, FinishType DEF RecoveryRestarts
  <2>2. tfRole' \in [Node -> Role]
    BY <1>4 DEF TypeOK, RecoveryRestarts, TronfireRestart
  <2>3. down' \in [Node -> DownState]
    BY <1>4 DEF TypeOK, RecoveryRestarts, DownState
  <2> QED
    BY <1>4, <2>1, <2>2, <2>3 DEF TypeOK, RecoveryRestarts, disk, hosts
<1> QED
  BY <1>1, <1>2, <1>3, <1>4

(* The one-step requests of the operator keep every type.                  *)
LEMMA OperatorType ==
  ASSUME TypeOK, NEW n \in Node, Operator(n)
  PROVE  TypeOK'
<1> USE DEF TypeOK, mem, hosts, tron
<1>1. CASE \E t \in Task : ActivateRequest(n, t) \/ RecoveryRequest(n, t)
  BY <1>1, ActivateType, RecoveryType
<1>2. CASE PatchIdentity(n)
  BY <1>2, UseTypes DEF PatchIdentity
<1>3. CASE PatchLock(n)
  <2>1. lock' \in [Node -> Lock]
    BY <1>3, WriteClusterLockType DEF PatchLock
  <2> QED
    BY <1>3, <2>1, UseTypes DEF PatchLock
<1>4. CASE BlockClusterPromotion(n) \/ PrepareFailback(n)
  <2>1. ClusterLock(n).active \in ActiveName
    BY ClusterLockType DEF Lock
  <2>2. lock' \in [Node -> Lock]
    BY <1>4, <2>1, WriteClusterLockType DEF BlockClusterPromotion, PrepareFailback
  <2> QED
    BY <1>4, <2>2, UseTypes DEF BlockClusterPromotion, PrepareFailback
<1>5. CASE SetMaintenance(n)
  BY <1>5, UseTypes DEF SetMaintenance
<1>6. CASE RecreateTronfire(n)
  BY <1>6, UseTypes DEF RecreateTronfire, disk
<1>7. CASE SyncToPeer(n)
  BY <1>7, UseTypes DEF SyncToPeer, disk, DbState
<1> QED
  BY <1>1, <1>2, <1>3, <1>4, <1>5, <1>6, <1>7 DEF Operator

(* Faults and repairs of hosts and clocks keep every type.                 *)
LEMMA EnvironmentType ==
  ASSUME TypeOK,
         \/ \E n \in Node : Environment(n)
         \/ LinkBreaks \/ LinkHeals
  PROVE  TypeOK'
<1> USE DEF TypeOK, mem, tron, disk
<1>1. ASSUME NEW n \in Node, LoseMemory(n)
      PROVE  /\ down' \in [Node -> DownState]
             /\ inProgress' \in [Node -> BOOLEAN]
             /\ task' \in [Node -> [Task -> TaskState]]
  BY <1>1, ValueTypes DEF LoseMemory, DownState
<1>2. ASSUME NEW n \in Node, TimeoutElapses(n) PROVE TypeOK'
  BY <1>2 DEF TimeoutElapses, DownState, hosts
<1>3. ASSUME NEW n \in Node, PowerOff(n) PROVE TypeOK'
  BY <1>1, <1>3, UseTypes DEF PowerOff
<1>4. ASSUME NEW n \in Node, ServiceStops(n) PROVE TypeOK'
  BY <1>1, <1>4, UseTypes DEF ServiceStops
<1>5. ASSUME NEW n \in Node, PowerOn(n) \/ ServiceStarts(n) PROVE TypeOK'
  BY <1>5 DEF PowerOn, ServiceStarts
<1>6. CASE LinkBreaks \/ LinkHeals
  BY <1>6, UseTypes DEF LinkBreaks, LinkHeals
<1> QED
  BY <1>2, <1>3, <1>4, <1>5, <1>6 DEF Environment

(* The initial state and a stuttering step. *)
LEMMA InitType == Init => TypeOK
BY BoundAssumption DEF Init, TypeOK, Node, Role, Lock, ActiveName, Activation, DbState,
   DownState, TaskState, Pc, Idle, NoLock, NoActivation

(* Every step keeps every type.                                            *)
LEMMA NextType == TypeOK /\ [Next]_vars => TypeOK'
<1> SUFFICES ASSUME TypeOK, [Next]_vars PROVE TypeOK'
  OBVIOUS
<1>1. ASSUME NEW n \in Node, NEW t \in Task, TaskStep(n, t) \/ TaskFault(n, t)
      PROVE  TypeOK'
  BY <1>1, WatchdogType, ActivateType, RecoveryType DEF TaskStep, TaskFault
<1>2. ASSUME NEW n \in Node, Operator(n)
      PROVE  TypeOK'
  BY <1>2, OperatorType
<1>3. CASE (\E n \in Node : Environment(n)) \/ LinkBreaks \/ LinkHeals
  BY <1>3, EnvironmentType
<1>4. CASE UNCHANGED vars
  BY <1>4 DEF TypeOK, vars, disk, tron, mem, hosts
<1> QED
  BY <1>1, <1>2, <1>3, <1>4 DEF Next

(* Every state the two backends reach has its type: the handlers store     *)
(* nothing else in the identity, lock and activation files, whatever they  *)
(* read from the peer or from requests, and however they interleave.       *)
THEOREM TypeCorrect == Spec => []TypeOK
BY InitType, NextType, PTL DEF Spec

(***************************************************************************)
(* At most one node serves when hosts fail by losing power                 *)
(***************************************************************************)
(* The table of activities after a change of one entry. *)
LEMMA TaskFacts ==
  ASSUME TypeOK, NEW n \in Node, NEW t \in Task, NEW s,
         task' = [task EXCEPT ![n][t] = s]
  PROVE  \A m \in Node, u \in Task :
           task'[m][u] = IF m = n /\ u = t THEN s ELSE task[m][u]
BY DEF TypeOK

(* Moving an activity changes its pc and nothing else.                     *)
LEMMA GotoFacts ==
  ASSUME TypeOK, NEW n \in Node, NEW t \in Task, NEW pc, Goto(n, t, pc)
  PROVE  \A m \in Node, u \in Task :
           /\ task'[m][u].pc = IF m = n /\ u = t THEN pc ELSE task[m][u].pc
           /\ task'[m][u].role = task[m][u].role
<1>1. task' = [task EXCEPT ![n][t] = [task[n][t] EXCEPT !.pc = pc]]
  BY DEF Goto, TypeOK
<1>2. /\ [task[n][t] EXCEPT !.pc = pc].pc = pc
      /\ [task[n][t] EXCEPT !.pc = pc].role = task[n][t].role
  BY DEF TypeOK, TaskState
<1>3. \A m \in Node, u \in Task :
        task'[m][u] = IF m = n /\ u = t THEN [task[n][t] EXCEPT !.pc = pc]
                                        ELSE task[m][u]
  BY <1>1 DEF TypeOK
<1> QED
  BY <1>2, <1>3

(* Ending an activity makes it idle and changes no other.                  *)
LEMMA FinishFacts ==
  ASSUME TypeOK, NEW n \in Node, NEW t \in Task, Finish(n, t)
  PROVE  \A m \in Node, u \in Task :
           /\ task'[m][u].pc = IF m = n /\ u = t THEN "idle" ELSE task[m][u].pc
           /\ task'[m][u].pc # "idle" => task'[m][u].role = task[m][u].role
<1>1. \A m \in Node, u \in Task :
        task'[m][u] = IF m = n /\ u = t THEN Idle ELSE task[m][u]
  BY DEF Finish, TypeOK
<1>2. Idle.pc = "idle"
  BY DEF Idle
<1> QED
  BY <1>1, <1>2

(* What becomes of activity u of node m in a step that does not bring the  *)
(* node closer to serving.                                                 *)
QuietTask(m, u) ==
  \/ task'[m][u].pc = task[m][u].pc /\ task'[m][u].role = task[m][u].role
  \/ task'[m][u].pc \in {"idle", "peer", "recRole", "recRestart"}
  \/ m = NodeB /\ task'[m][u].pc = "health"
  \/ m = NodeB /\ task'[m][u].pc = "haStatus" /\ ~ActivatedThisBoot(NodeA)

(* Such a step, when it leaves hosts, identity, lock and activation alone. *)
LEMMA QuietStep ==
  ASSUME FailStopInv, TypeOK',
         UNCHANGED <<power, boot, link, role, lock, activation>>,
         down'[NodeB] # "none" => down[NodeB] # "none" \/ ~ActivatedThisBoot(NodeA),
         \A m \in Node, u \in Task : QuietTask(m, u)
  PROVE  FailStopInv'
<1> USE ValueTypes, NodesDiffer
<1>1. HostsFailWhole'
  BY DEF FailStopInv, HostsFailWhole
<1>2. FormerPrimaryStaysOut'
  <2>1. \A t \in Task : task'[NodeA][t].pc \in {"idle", "peer", "recRole", "recRestart"}
    BY DEF FailStopInv, FormerPrimaryStaysOut, QuietTask
  <2> QED
    BY <2>1 DEF FailStopInv, FormerPrimaryStaysOut, ActivatedThisBoot
<1>3. StandbyYields(NodeB)'
  BY DEF FailStopInv, StandbyYields, QuietTask
<1>4. SawPeerDown' => SawPeerDown \/ ~ActivatedThisBoot(NodeA)
  BY DEF SawPeerDown, QuietTask
<1>5. SawPeerDown' => ~ActivatedThisBoot(NodeA)'
  BY <1>4 DEF FailStopInv, ActivatedThisBoot
<1> QED
  BY <1>1, <1>2, <1>3, <1>5 DEF FailStopInv

(* The watchdog, up to the point where it opens the lock. *)
LEMMA FailStopWatchdog ==
  ASSUME FailStop, FailStopInv, TypeOK', NEW n \in Node, NEW t \in Task,
         \/ TickProbesPeer(n, t) \/ TickProbesHealth(n, t) \/ TickHasNothingToDo(n, t)
         \/ PeerGuardDemotes(n, t) \/ PeerGuardHarmless(n, t) \/ PeerGuardLate(n, t)
         \/ HealthOk(n, t) \/ HealthFailed(n, t) \/ HealthLate(n, t)
         \/ HaStatusNotReady(n, t) \/ HaStatusUnavailable(n, t)
  PROVE  FailStopInv'
<1> USE ValueTypes, NodesDiffer
<1>0. TypeOK /\ n \in {NodeA, NodeB}
  BY DEF FailStopInv, Node
<1>1. ASSUME NEW pc \in {"peer", "health"}, Tick(n, t, pc), pc = "health" => n = NodeB
      PROVE  \A m \in Node, u \in Task : QuietTask(m, u)
  BY <1>0, <1>1 DEF Tick, QuietTask, TypeOK
<1>2. ASSUME Finish(n, t)
      PROVE  \A m \in Node, u \in Task : QuietTask(m, u)
  BY <1>0, <1>2, FinishFacts DEF QuietTask
<1>3. CASE TickProbesPeer(n, t)
  BY <1>1, <1>3, QuietStep DEF TickProbesPeer, disk, hosts
<1>4. CASE TickProbesHealth(n, t)
  <2>1. n = NodeB
    BY <1>0, <1>4 DEF TickProbesHealth, FailStopInv, FormerPrimaryStaysOut
  <2> QED
    BY <1>1, <1>4, <2>1, QuietStep DEF TickProbesHealth, disk, hosts
<1>5. CASE TickHasNothingToDo(n, t)
  BY <1>0, <1>5, QuietStep DEF TickHasNothingToDo, disk, hosts, QuietTask, TypeOK
<1>6. CASE PeerGuardDemotes(n, t)
  <2>1. \A m \in Node, u \in Task : QuietTask(m, u)
    BY <1>0, <1>6 DEF PeerGuardDemotes, QuietTask, TypeOK
  <2> QED
    BY <1>6, <2>1, QuietStep DEF PeerGuardDemotes, disk, hosts
<1>7. CASE PeerGuardHarmless(n, t)
  BY <1>0, <1>2, <1>7, QuietStep DEF PeerGuardHarmless, disk, hosts, TypeOK
<1>8. CASE PeerGuardLate(n, t) \/ HealthLate(n, t)
  BY <1>8 DEF PeerGuardLate, HealthLate, UseFault, FailStop
<1>9. CASE HealthOk(n, t)
  BY <1>0, <1>2, <1>9, QuietStep DEF HealthOk, disk, hosts, TypeOK
<1>10. CASE HealthFailed(n, t)
  <2>1. n = NodeB
    BY <1>0, <1>10 DEF HealthFailed, At, FailStopInv, FormerPrimaryStaysOut
  <2>2. power[NodeA] = "off"
    BY <1>0, <1>10, <2>1 DEF HealthFailed, Reachable, Peer, FailStopInv, HostsFailWhole, TypeOK
  <2>3. ~ActivatedThisBoot(NodeA)
    BY <2>2 DEF FailStopInv, FormerPrimaryStaysOut
  <2>4. CASE Goto(n, t, "haStatus")
    <3>1. \A m \in Node, u \in Task : QuietTask(m, u)
      BY <1>0, <2>1, <2>3, <2>4, GotoFacts DEF QuietTask
    <3> QED
      BY <1>10, <2>3, <3>1, QuietStep DEF HealthFailed, disk, hosts
  <2>5. CASE Finish(n, t)
    BY <1>2, <1>10, <2>3, <2>5, QuietStep DEF HealthFailed, disk, hosts
  <2> QED
    BY <1>10, <2>4, <2>5 DEF HealthFailed, AfterFailedHealth
<1>11. CASE HaStatusNotReady(n, t)
  BY <1>2, <1>11, QuietStep DEF HaStatusNotReady, disk, hosts
<1>12. CASE HaStatusUnavailable(n, t)
  BY <1>2, <1>12, QuietStep DEF HaStatusUnavailable, disk
<1> QED
  BY <1>3, <1>4, <1>5, <1>6, <1>7, <1>8, <1>9, <1>10, <1>11, <1>12

(* Opening the lock and activating: only B gets there, and A's activation  *)
(* is stale by then.                                                       *)
LEMMA FailStopActivate ==
  ASSUME FailStop, FailStopInv, TypeOK', NEW n \in Node, NEW t \in Task,
         \/ HaStatusReady(n, t) \/ ActivateRequest(n, t) \/ PromoteOk(n, t)
         \/ PromoteRefused(n, t) \/ PromoteFails(n, t) \/ SetRolePromoted(n, t)
         \/ SetRolePrimary(n, t) \/ SetRoleFails(n, t) \/ RestartAndRecord(n, t)
  PROVE  FailStopInv'
<1> USE ValueTypes, NodesDiffer
<1>0. TypeOK /\ n \in {NodeA, NodeB}
  BY DEF FailStopInv, Node
<1>1. ~ActivateRequest(n, t)
  BY DEF ActivateRequest, UseOp, FailStop
<1>2. n = NodeB
  BY <1>0, <1>1 DEF HaStatusReady, PromoteOk, PromoteRefused, PromoteFails,
     SetRolePromoted, SetRolePrimary, SetRoleFails, RestartAndRecord, At,
     FailStopInv, FormerPrimaryStaysOut
<1>3. ~ActivatedThisBoot(NodeA)
  BY <1>1, <1>2 DEF HaStatusReady, PromoteOk, PromoteRefused, PromoteFails,
     SetRolePromoted, SetRolePrimary, SetRoleFails, RestartAndRecord, At,
     FailStopInv, SawPeerDown
<1>4. ASSUME UNCHANGED <<power, boot, link>>,
             role'[NodeA] = role[NodeA], activation'[NodeA] = activation[NodeA],
             \A u \in Task : task'[NodeA][u].pc = task[NodeA][u].pc,
             StandbyYields(NodeB)'
      PROVE  FailStopInv'
  <2>1. HostsFailWhole' /\ FormerPrimaryStaysOut'
    BY <1>4 DEF FailStopInv, HostsFailWhole, FormerPrimaryStaysOut, ActivatedThisBoot
  <2>2. ~ActivatedThisBoot(NodeA)'
    BY <1>3, <1>4 DEF ActivatedThisBoot
  <2> QED
    BY <1>4, <2>1, <2>2 DEF FailStopInv
<1>5. CASE HaStatusReady(n, t)
  <2> DEFINE s == [pc |-> IF role[n] = "standby" THEN "promote" ELSE "setRole",
                   role |-> role[n], active |-> NoNode, auto |-> TRUE, exempt |-> TRUE]
  <2>1. role[NodeB] = "standby" => ClusterLock(NodeB).active # NodeB
    BY NamesDiffer DEF ClusterLock, FailStopInv, StandbyYields
  <2>2. role[NodeB] = "standby" => lock'[NodeB].active # NodeB
    BY <1>0, <1>2, <1>5, <2>1, NamesDiffer DEF HaStatusReady, WriteClusterLock, TypeOK
  <2>3. \A u \in Task : /\ task'[NodeA][u] = task[NodeA][u]
                        /\ task'[NodeB][u] \in {task[NodeB][u], Idle, s}
    BY <1>0, <1>2, <1>5 DEF HaStatusReady, Finish, TypeOK
  <2>4. StandbyYields(NodeB)'
    BY <1>2, <1>5, <2>2, <2>3 DEF HaStatusReady, FailStopInv, StandbyYields, Idle
  <2> QED
    BY <1>2, <1>4, <1>5, <2>3, <2>4 DEF HaStatusReady, hosts
<1>6. CASE PromoteOk(n, t)
  <2>1. \A m \in Node, u \in Task :
           /\ task'[m][u].pc = IF m = n /\ u = t THEN "setRole" ELSE task[m][u].pc
           /\ task'[m][u].role = task[m][u].role
    BY <1>0, <1>6, GotoFacts DEF PromoteOk
  <2>2. StandbyYields(NodeB)'
    BY <1>2, <1>6, <2>1 DEF PromoteOk, At, disk, FailStopInv, StandbyYields
  <2> QED
    BY <1>2, <1>4, <1>6, <2>1, <2>2 DEF PromoteOk, disk, hosts
<1>7. ASSUME Finish(n, t)
      PROVE  \A m \in Node, u \in Task : QuietTask(m, u)
  BY <1>0, <1>7, FinishFacts DEF QuietTask
<1>8. CASE PromoteRefused(n, t)
  BY <1>7, <1>8, QuietStep DEF PromoteRefused, disk, hosts
<1>9. CASE PromoteFails(n, t)
  BY <1>7, <1>9, QuietStep DEF PromoteFails, disk
<1>10. CASE SetRoleFails(n, t)
  BY <1>7, <1>10, QuietStep DEF SetRoleFails
<1>11. CASE SetRolePromoted(n, t)
  <2>1. \A m \in Node, u \in Task :
           /\ task'[m][u].pc = IF m = n /\ u = t THEN "restart" ELSE task[m][u].pc
           /\ task'[m][u].role = task[m][u].role
    BY <1>0, <1>11, GotoFacts DEF SetRolePromoted
  <2>2. role'[NodeB] = "primary" /\ role'[NodeA] = role[NodeA]
    BY <1>0, <1>2, <1>11 DEF SetRolePromoted, TypeOK
  <2>3. StandbyYields(NodeB)'
    BY <1>2, <2>1, <2>2 DEF FailStopInv, StandbyYields
  <2> QED
    BY <1>2, <1>4, <1>11, <2>1, <2>2, <2>3 DEF SetRolePromoted, hosts
<1>12. CASE SetRolePrimary(n, t) \/ RestartAndRecord(n, t)
  <2>1. role[NodeB] # "standby" /\ UNCHANGED <<role, power, boot, link>>
    BY <1>2, <1>12 DEF SetRolePrimary, RestartAndRecord, At, hosts,
       FailStopInv, StandbyYields
  <2>2. RecordActivation(n, t)
    BY <1>12 DEF SetRolePrimary, RestartAndRecord
  <2>3. Finish(n, t) /\ activation'[NodeA] = activation[NodeA]
    BY <1>0, <1>2, <2>2 DEF RecordActivation, TypeOK
  <2>4. \A m \in Node, u \in Task :
           /\ task'[m][u].pc = IF m = n /\ u = t THEN "idle" ELSE task[m][u].pc
           /\ task'[m][u].pc # "idle" => task'[m][u].role = task[m][u].role
    BY <1>0, <2>3, FinishFacts
  <2>5. StandbyYields(NodeB)'
    BY <1>2, <2>1, <2>4 DEF FailStopInv, StandbyYields
  <2> QED
    BY <1>2, <1>4, <2>1, <2>3, <2>4, <2>5
<1> QED
  BY <1>1, <1>5, <1>6, <1>8, <1>9, <1>10, <1>11, <1>12

(* putLocalNodeInRecovery keeps FailStopInv.                               *)
LEMMA FailStopRecovery ==
  ASSUME FailStop, FailStopInv, TypeOK', NEW n \in Node, NEW t \in Task,
         \/ RecoveryRequest(n, t) \/ RecoveryWrites(n, t)
         \/ RecoveryFails(n, t) \/ RecoveryRestarts(n, t)
  PROVE  FailStopInv'
<1> USE ValueTypes, NodesDiffer
<1>0. TypeOK /\ n \in {NodeA, NodeB}
  BY DEF FailStopInv, Node
<1>1. CASE RecoveryRequest(n, t)
  <2>1. \A m \in Node, u \in Task : QuietTask(m, u)
    BY <1>0, <1>1 DEF RecoveryRequest, QuietTask, TypeOK
  <2> QED
    BY <1>1, <2>1, QuietStep DEF RecoveryRequest, disk, hosts
<1>2. CASE RecoveryWrites(n, t)
  <2>1. \A m \in Node, u \in Task :
           /\ task'[m][u].pc = IF m = n /\ u = t THEN "recRestart" ELSE task[m][u].pc
           /\ task'[m][u].role = task[m][u].role
    BY <1>0, <1>2, GotoFacts DEF RecoveryWrites
  <2>2. /\ UNCHANGED <<power, boot, link, down>>
        /\ role' = [role EXCEPT ![n] = "recovery"]
        /\ activation' = [activation EXCEPT ![n] = NoActivation]
        /\ \A m \in Node : m # n => lock'[m] = lock[m]
    BY <1>0, <1>2 DEF RecoveryWrites, hosts, WriteClusterLock, TypeOK
  <2>3. ActivatedThisBoot(NodeA)' => ActivatedThisBoot(NodeA)
    BY <1>0, <2>2 DEF ActivatedThisBoot, NoActivation, TypeOK
  <2>4. HostsFailWhole'
    BY <2>2 DEF FailStopInv, HostsFailWhole
  <2>5. FormerPrimaryStaysOut'
    <3>1. role'[NodeA] # "standby"
      BY <1>0, <2>2 DEF FailStopInv, FormerPrimaryStaysOut, TypeOK
    <3>2. \A u \in Task : task'[NodeA][u].pc \in {"idle", "peer", "recRole", "recRestart"}
      BY <2>1 DEF FailStopInv, FormerPrimaryStaysOut
    <3>3. activation'[NodeA].present => activation'[NodeA] = activation[NodeA]
      BY <1>0, <2>2 DEF NoActivation, TypeOK
    <3> QED
      BY <2>2, <2>3, <3>1, <3>2, <3>3 DEF FailStopInv, FormerPrimaryStaysOut
  <2>6. StandbyYields(NodeB)'
    <3>1. role'[NodeB] = "standby" => role[NodeB] = "standby" /\ lock'[NodeB] = lock[NodeB]
      BY <1>0, <2>2 DEF TypeOK
    <3>2. \A u \in Task : task'[NodeB][u].pc \in {"promote", "setRole", "restart"}
             => task'[NodeB][u].pc = task[NodeB][u].pc
      BY <2>1
    <3> QED
      BY <2>1, <3>1, <3>2 DEF FailStopInv, StandbyYields
  <2>7. SawPeerDown' => SawPeerDown
    BY <1>0, <2>1, <2>2 DEF SawPeerDown, TypeOK
  <2> QED
    BY <2>3, <2>4, <2>5, <2>6, <2>7 DEF FailStopInv
<1>3. ASSUME Finish(n, t)
      PROVE  \A m \in Node, u \in Task : QuietTask(m, u)
  BY <1>0, <1>3, FinishFacts DEF QuietTask
<1>4. CASE RecoveryFails(n, t)
  BY <1>3, <1>4, QuietStep DEF RecoveryFails
<1>5. CASE RecoveryRestarts(n, t)
  <2>1. down'[NodeB] # "none" => down[NodeB] # "none"
    BY <1>0, <1>5 DEF RecoveryRestarts, TypeOK
  <2> QED
    BY <1>3, <1>5, <2>1, QuietStep DEF RecoveryRestarts, disk, hosts
<1> QED
  BY <1>1, <1>2, <1>4, <1>5

(* The requests that FailStop admits keep FailStopInv.                     *)
LEMMA FailStopOperator ==
  ASSUME FailStop, FailStopInv, TypeOK', NEW n \in Node, Operator(n)
  PROVE  FailStopInv'
<1> USE ValueTypes, NodesDiffer
<1>0. TypeOK /\ n \in {NodeA, NodeB}
  BY DEF FailStopInv, Node
<1>1. ~PatchIdentity(n) /\ ~PatchLock(n)
  BY DEF PatchIdentity, PatchLock, UseOp, FailStop
<1>2. CASE \E t \in Task : ActivateRequest(n, t) \/ RecoveryRequest(n, t)
  BY <1>2, FailStopActivate, FailStopRecovery
<1>3. CASE BlockClusterPromotion(n) \/ PrepareFailback(n)
  <2>1. UNCHANGED <<power, boot, link, role, activation, down, task>>
    BY <1>3 DEF BlockClusterPromotion, PrepareFailback, hosts, mem
  <2>2. role[NodeB] = "standby" => ClusterLock(NodeB).active # NodeB
    BY NamesDiffer DEF ClusterLock, FailStopInv, StandbyYields
  <2>3. role[NodeB] = "standby" => lock'[NodeB].active # NodeB
    BY <1>0, <1>3, <2>2 DEF BlockClusterPromotion, PrepareFailback, WriteClusterLock,
       TypeOK, FailStopInv, StandbyYields
  <2>4. StandbyYields(NodeB)'
    BY <2>1, <2>3 DEF FailStopInv, StandbyYields
  <2>5. HostsFailWhole' /\ FormerPrimaryStaysOut'
    BY <2>1 DEF FailStopInv, HostsFailWhole, FormerPrimaryStaysOut, ActivatedThisBoot
  <2>6. SawPeerDown' => ~ActivatedThisBoot(NodeA)'
    BY <2>1 DEF FailStopInv, SawPeerDown, ActivatedThisBoot
  <2> QED
    BY <2>4, <2>5, <2>6 DEF FailStopInv
<1>4. CASE SetMaintenance(n) \/ RecreateTronfire(n) \/ SyncToPeer(n)
  <2>1. UNCHANGED <<power, boot, link, role, lock, activation, down, task>>
    BY <1>4 DEF SetMaintenance, RecreateTronfire, SyncToPeer, disk, hosts, mem
  <2> QED
    BY <2>1, QuietStep DEF QuietTask
<1> QED
  BY <1>1, <1>2, <1>3, <1>4 DEF Operator

(* A reboot of A makes its activation stale; a reboot of B forgets what B  *)
(* saw, but not its role.                                                  *)
LEMMA FailStopEnvironment ==
  ASSUME FailStop, FailStopInv, TypeOK',
         \/ \E n \in Node : Environment(n)
         \/ LinkBreaks \/ LinkHeals
  PROVE  FailStopInv'
<1> USE ValueTypes, NodesDiffer
<1>0. TypeOK /\ Node = {NodeA, NodeB}
  BY DEF FailStopInv, Node
<1>1. ASSUME NEW n \in Node, TimeoutElapses(n)
      PROVE  FailStopInv'
  BY <1>0, <1>1, QuietStep DEF TimeoutElapses, disk, hosts, QuietTask, TypeOK
<1>2. ASSUME NEW n \in Node, PowerOff(n)
      PROVE  FailStopInv'
  <2>1. /\ power' = [power EXCEPT ![n] = "off"]
        /\ boot' = [boot EXCEPT ![n] = @ + 1]
        /\ LoseMemory(n)
        /\ UNCHANGED <<role, lock, activation, link>>
    BY <1>2 DEF PowerOff, disk
  <2>2. \A m \in Node, u \in Task :
           /\ task'[m][u].pc \in {"idle", task[m][u].pc}
           /\ task'[m][u].pc # "idle" => task'[m][u].role = task[m][u].role
    BY <1>0, <2>1 DEF LoseMemory, TypeOK, Idle
  <2>3. activation[NodeA].boot \in Nat /\ boot[NodeA] \in Nat
    BY <1>0 DEF TypeOK, Activation
  <2>4. ActivatedThisBoot(NodeA)' => ActivatedThisBoot(NodeA) /\ n # NodeA
    BY <1>0, <2>1, <2>3 DEF ActivatedThisBoot, TypeOK, FailStopInv, FormerPrimaryStaysOut
  <2>5. HostsFailWhole'
    BY <1>0, <2>1 DEF FailStopInv, HostsFailWhole, TypeOK
  <2>6. FormerPrimaryStaysOut'
    BY <1>0, <2>1, <2>2, <2>3, <2>4 DEF FailStopInv, FormerPrimaryStaysOut, TypeOK
  <2>7. StandbyYields(NodeB)'
    BY <2>1, <2>2 DEF FailStopInv, StandbyYields
  <2>8. SawPeerDown' => SawPeerDown
    BY <1>0, <2>1, <2>2 DEF SawPeerDown, LoseMemory, TypeOK
  <2> QED
    BY <2>4, <2>5, <2>6, <2>7, <2>8 DEF FailStopInv
<1>3. ASSUME NEW n \in Node, PowerOn(n)
      PROVE  FailStopInv'
  <2>1. /\ power' = [power EXCEPT ![n] = "running"]
        /\ UNCHANGED <<role, lock, activation, boot, link, down, task>>
    BY <1>3 DEF PowerOn, disk, mem
  <2>2. HostsFailWhole' /\ FormerPrimaryStaysOut'
    BY <1>0, <2>1 DEF FailStopInv, HostsFailWhole, FormerPrimaryStaysOut,
       ActivatedThisBoot, TypeOK
  <2>3. StandbyYields(NodeB)' /\ (SawPeerDown' => ~ActivatedThisBoot(NodeA)')
    BY <2>1 DEF FailStopInv, StandbyYields, SawPeerDown, ActivatedThisBoot
  <2> QED
    BY <2>2, <2>3 DEF FailStopInv
<1>4. ASSUME NEW n \in Node PROVE ~ServiceStops(n) /\ ~ServiceStarts(n)
  BY DEF ServiceStops, UseFault, FailStop, ServiceStarts, FailStopInv, HostsFailWhole
<1>5. ~LinkBreaks /\ ~LinkHeals
  BY DEF LinkBreaks, LinkHeals, UseFault, FailStop, FailStopInv, HostsFailWhole
<1> QED
  BY <1>1, <1>2, <1>3, <1>4, <1>5 DEF Environment

(* The installed cluster satisfies FailStopInv.                            *)
LEMMA FailStopInit == Init => FailStopInv
<1> SUFFICES ASSUME Init PROVE FailStopInv
  OBVIOUS
<1> USE ValueTypes, NodesDiffer, NamesDiffer
<1>1. TypeOK
  BY InitType
<1>2. HostsFailWhole
  BY DEF Init, HostsFailWhole
<1>3. FormerPrimaryStaysOut
  BY DEF Init, FormerPrimaryStaysOut, Idle
<1>4. StandbyYields(NodeB)
  BY DEF Init, StandbyYields, Idle, NoLock
<1>5. ~SawPeerDown
  BY DEF Init, SawPeerDown, Idle
<1> QED
  BY <1>1, <1>2, <1>3, <1>4, <1>5 DEF FailStopInv

(* FailStopInv is inductive when hosts fail by losing power.               *)
LEMMA FailStopNext ==
  ASSUME FailStop
  PROVE  FailStopInv /\ [Next]_vars => FailStopInv'
<1> SUFFICES ASSUME FailStopInv, [Next]_vars PROVE FailStopInv'
  OBVIOUS
<1>0. TypeOK'
  BY NextType DEF FailStopInv
<1>1. ASSUME NEW n \in Node, NEW t \in Task, TaskStep(n, t) \/ TaskFault(n, t)
      PROVE  FailStopInv'
  BY <1>0, <1>1, FailStopWatchdog, FailStopActivate, FailStopRecovery DEF TaskStep, TaskFault
<1>2. ASSUME NEW n \in Node, Operator(n)
      PROVE  FailStopInv'
  BY <1>0, <1>2, FailStopOperator
<1>3. CASE (\E n \in Node : Environment(n)) \/ LinkBreaks \/ LinkHeals
  BY <1>0, <1>3, FailStopEnvironment
<1>4. CASE UNCHANGED vars
  BY <1>0, <1>4, QuietStep DEF vars, disk, mem, hosts, QuietTask
<1> QED
  BY <1>1, <1>2, <1>3, <1>4 DEF Next

(* A node that is entitled to the VIP has role primary and an activation   *)
(* of this boot, or has another role than primary and is named active.     *)
LEMMA FailStopImplies == FailStopInv => AtMostOneServing
<1> SUFFICES ASSUME FailStopInv, Serving(NodeA), Serving(NodeB) PROVE FALSE
  BY DEF AtMostOneServing
<1> USE ValueTypes, NodesDiffer, NamesDiffer
<1>0. /\ role[NodeA] \in Role /\ role[NodeB] \in Role
      /\ CanHoldVip(NodeA) /\ CanHoldVip(NodeB)
  BY DEF FailStopInv, TypeOK, Serving, CanServeProduction
<1>1. role[NodeA] = "primary"
  BY <1>0 DEF CanHoldVip, FailStopInv, FormerPrimaryStaysOut, Role
<1>2. ActivatedThisBoot(NodeA)
  BY <1>0, <1>1 DEF CanHoldVip, LocalActivationValid, ActivatedThisBoot
<1>3. role[NodeB] # "standby"
  BY <1>0 DEF CanHoldVip, ClusterLock, FailStopInv, StandbyYields
<1>4. role[NodeB] = "primary"
  BY <1>0, <1>3 DEF CanHoldVip, Role
<1> QED
  BY <1>2, <1>4 DEF FailStopInv, SawPeerDown

(* The inductive invariant holds when hosts only fail by losing power.     *)
THEOREM FailStopInvariant ==
  ASSUME FailStop
  PROVE  Spec => []FailStopInv
BY FailStopInit, FailStopNext, PTL DEF Spec

(* When hosts only fail by losing power, commands may fail, and the        *)
(* operator neither activates a node by hand nor edits identities or       *)
(* locks, the automatic failover never makes both nodes serve: for any     *)
(* number of power cycles, overlapping watchdog ticks and recoveries.      *)
THEOREM FailStopSafety ==
  ASSUME FailStop
  PROVE  Spec => []AtMostOneServing
BY FailStopInvariant, FailStopImplies, PTL

(***************************************************************************)
(* A node becomes entitled to the VIP only by an activation or an edit     *)
(***************************************************************************)
(* writeClusterActivation stores the boot_id of the moment, and boots only *)
(* advance.                                                                *)
LEMMA ActivationsInit == Init => ActivationsArePast
BY DEF Init, ActivationsArePast, NoActivation

(* No step records an activation of a boot still to come.                  *)
LEMMA ActivationsNext ==
  TypeOK /\ ActivationsArePast /\ [Next]_vars => ActivationsArePast'
<1> SUFFICES ASSUME TypeOK, ActivationsArePast, [Next]_vars PROVE ActivationsArePast'
  OBVIOUS
<1>1. ASSUME UNCHANGED <<activation, boot>> PROVE ActivationsArePast'
  BY <1>1 DEF ActivationsArePast
<1>2. ASSUME NEW n \in Node, NEW t \in Task, RecordActivation(n, t), UNCHANGED boot
      PROVE  ActivationsArePast'
  <2>1. boot[n] \in Nat /\ boot' = boot
    BY <1>2 DEF TypeOK
  <2>2. \A m \in Node : activation'[m] = IF m = n
           THEN [present |-> TRUE, boot |-> boot[n],
                 exempt |-> task[n][t].role = "standby" \/ task[n][t].exempt]
           ELSE activation[m]
    BY <1>2 DEF RecordActivation, TypeOK
  <2> QED
    BY <2>1, <2>2 DEF ActivationsArePast
<1>3. ASSUME NEW n \in Node, NEW t \in Task, TaskStep(n, t) \/ TaskFault(n, t)
      PROVE  ActivationsArePast'
  <2>1. CASE SetRolePrimary(n, t) \/ RestartAndRecord(n, t)
    BY <1>2, <2>1 DEF SetRolePrimary, RestartAndRecord, hosts
  <2>2. CASE RecoveryWrites(n, t)
    BY <2>2 DEF RecoveryWrites, hosts, NoActivation, TypeOK, ActivationsArePast
  <2>3. CASE UNCHANGED <<activation, boot>>
    BY <1>1, <2>3
  <2> QED
    BY <1>3, <2>1, <2>2, <2>3 DEF TaskStep, TaskFault, disk, hosts, TickProbesPeer,
       TickProbesHealth, TickHasNothingToDo, PeerGuardDemotes, PeerGuardHarmless,
       PeerGuardLate, HealthOk, HealthFailed, HealthLate, HaStatusNotReady,
       HaStatusUnavailable, HaStatusReady, PromoteOk, PromoteRefused, PromoteFails,
       SetRolePromoted, SetRoleFails, RecoveryFails, RecoveryRestarts
<1>4. ASSUME NEW n \in Node, Operator(n)
      PROVE  ActivationsArePast'
  BY <1>1, <1>4 DEF Operator, disk, hosts, ActivateRequest, RecoveryRequest, PatchIdentity,
     PatchLock, BlockClusterPromotion, SetMaintenance, PrepareFailback,
     RecreateTronfire, SyncToPeer
<1>5. ASSUME NEW n \in Node, PowerOff(n)
      PROVE  ActivationsArePast'
  <2>1. \A m \in Node : /\ activation[m].boot \in Nat /\ boot[m] \in Nat
                        /\ boot'[m] \in {boot[m], boot[m] + 1}
                        /\ activation' = activation
    BY <1>5 DEF PowerOff, disk, TypeOK, Activation
  <2> QED
    BY <2>1 DEF ActivationsArePast
<1>6. ASSUME NEW n \in Node, Environment(n), ~PowerOff(n)
      PROVE  ActivationsArePast'
  BY <1>1, <1>6 DEF Environment, TimeoutElapses, PowerOn, ServiceStops, ServiceStarts,
     disk, hosts
<1>7. CASE LinkBreaks \/ LinkHeals \/ UNCHANGED vars
  BY <1>1, <1>7 DEF LinkBreaks, LinkHeals, vars, disk, hosts
<1> QED
  BY <1>3, <1>4, <1>5, <1>6, <1>7 DEF Next

(* The guard of a node depends on its own files and boot alone.            *)
LEMMA VipFrame ==
  ASSUME NEW n \in Node,
         role'[n] = role[n], lock'[n] = lock[n], boot'[n] = boot[n],
         activation'[n] = activation[n]
  PROVE  CanHoldVip(n)' => CanHoldVip(n)
BY DEF CanHoldVip, ClusterLock, ReturnedFormerPrimary, LocalActivationValid

(* Writing back the active node of the lock, or the name primary-offline   *)
(* in place of an empty one, does not entitle the node.                    *)
LEMMA VipRewrite ==
  ASSUME TypeOK, NEW n \in Node,
         role' = role, boot' = boot, activation' = activation,
         NEW active, NEW allow, WriteClusterLock(n, active, allow),
         active \in {ClusterLock(n).active, PrimaryOffline}
  PROVE  CanHoldVip(n)' => CanHoldVip(n)
<1>1. lock'[n] = [file |-> TRUE, active |-> active, allow |-> allow]
  BY DEF WriteClusterLock, TypeOK
<1>2. ClusterLock(n)'.active = active
  BY <1>1 DEF ClusterLock
<1>3. CASE active = PrimaryOffline
  BY <1>2, <1>3, NamesDiffer DEF CanHoldVip
<1>4. CASE active = ClusterLock(n).active
  BY <1>2, <1>4 DEF CanHoldVip, ReturnedFormerPrimary, LocalActivationValid
<1> QED
  BY <1>3, <1>4

(* A step of an activity of node m, seen from node n. *)
LEMMA TaskEligibility ==
  ASSUME TypeOK, NEW m \in Node, NEW t \in Task, TaskStep(m, t) \/ TaskFault(m, t),
         NEW n \in Node, ~CanHoldVip(n), CanHoldVip(n)'
  PROVE  /\ \E u \in Task : /\ task[n][u].pc \in {"setRole", "restart"}
                            /\ task'[n][u].pc # task[n][u].pc
         /\ activation'[n].present /\ activation'[n].boot = boot[n]
<1>1. CASE UNCHANGED <<role, lock, boot, activation>>
  BY <1>1, VipFrame
<1>2. CASE HaStatusReady(m, t)
  <2> DEFINE active == IF ClusterLock(m).active = NoNode THEN PrimaryOffline
                                                        ELSE ClusterLock(m).active
  <2>1. WriteClusterLock(m, active, TRUE) /\ UNCHANGED <<role, boot, activation>>
    BY <1>2 DEF HaStatusReady, hosts
  <2>2. m = n
    BY <2>1, VipFrame DEF WriteClusterLock, TypeOK
  <2> QED
    BY <2>1, <2>2, VipRewrite
<1>3. CASE SetRolePromoted(m, t)
  <2>1. m = n
    BY <1>3, VipFrame DEF SetRolePromoted, hosts, TypeOK
  <2>2. role'[n] = "primary" /\ UNCHANGED <<activation, boot>>
    BY <1>3, <2>1 DEF SetRolePromoted, hosts, TypeOK
  <2>3. activation'[n].present /\ activation'[n].boot = boot[n]
    BY <2>2 DEF CanHoldVip, LocalActivationValid
  <2>4. task[n][t].pc = "setRole" /\ task'[n][t].pc = "restart"
    BY <1>3, <2>1, GotoFacts DEF SetRolePromoted, At
  <2> QED
    BY <2>3, <2>4
<1>4. CASE SetRolePrimary(m, t) \/ RestartAndRecord(m, t)
  <2>1. RecordActivation(m, t) /\ UNCHANGED <<role, boot>>
    BY <1>4 DEF SetRolePrimary, RestartAndRecord, hosts
  <2>2. m = n
    BY <2>1, VipFrame DEF RecordActivation, WriteClusterLock, TypeOK
  <2>3. activation'[n].present /\ activation'[n].boot = boot[n]
    BY <2>1, <2>2 DEF RecordActivation, TypeOK
  <2>4. task[n][t].pc \in {"setRole", "restart"} /\ task'[n][t].pc = "idle"
    BY <1>4, <2>1, <2>2, FinishFacts DEF SetRolePrimary, RestartAndRecord, RecordActivation, At
  <2> QED
    BY <2>3, <2>4
<1>5. CASE RecoveryWrites(m, t)
  <2>1. m = n
    BY <1>5, VipFrame DEF RecoveryWrites, WriteClusterLock, hosts, TypeOK
  <2>2. role'[n] = "recovery"
    BY <1>5, <2>1 DEF RecoveryWrites, TypeOK
  <2> QED
    BY <2>2 DEF CanHoldVip
<1> QED
  BY <1>1, <1>2, <1>3, <1>4, <1>5 DEF TaskStep, TaskFault, disk, hosts, TickProbesPeer,
     TickProbesHealth, TickHasNothingToDo, PeerGuardDemotes, PeerGuardHarmless,
     PeerGuardLate, HealthOk, HealthFailed, HealthLate, HaStatusNotReady,
     HaStatusUnavailable, PromoteOk, PromoteRefused, PromoteFails,
     SetRoleFails, RecoveryFails, RecoveryRestarts

(* The other steps: only an edit of identity or lock entitles a node; a    *)
(* power cycle cannot, because activations are of past boots.              *)
LEMMA OtherEligibility ==
  ASSUME TypeOK, ActivationsArePast,
         \/ \E m \in Node : Operator(m) \/ Environment(m)
         \/ LinkBreaks \/ LinkHeals \/ UNCHANGED vars,
         NEW n \in Node, ~CanHoldVip(n), CanHoldVip(n)'
  PROVE  PatchIdentity(n) \/ PatchLock(n)
<1>1. CASE UNCHANGED <<role, lock, boot, activation>>
  BY <1>1, VipFrame
<1>2. ASSUME NEW m \in Node, PatchIdentity(m) \/ PatchLock(m)
      PROVE  PatchIdentity(n) \/ PatchLock(n)
  <2>1. m = n
    BY <1>2, VipFrame DEF PatchIdentity, PatchLock, WriteClusterLock, hosts, TypeOK
  <2> QED
    BY <1>2, <2>1
<1>3. ASSUME NEW m \in Node, BlockClusterPromotion(m) \/ PrepareFailback(m)
      PROVE  FALSE
  <2>1. /\ WriteClusterLock(m, ClusterLock(m).active, FALSE)
        /\ role' = role /\ boot' = boot /\ activation' = activation
    BY <1>3 DEF BlockClusterPromotion, PrepareFailback, hosts
  <2>2. m = n
    BY <2>1, VipFrame DEF WriteClusterLock, TypeOK
  <2> QED
    BY <2>1, <2>2, VipRewrite
<1>4. ASSUME NEW m \in Node, PowerOff(m)
      PROVE  FALSE
  <2>1. UNCHANGED <<role, lock, activation>>
    BY <1>4 DEF PowerOff, disk
  <2>2. m = n
    BY <1>4, <2>1, VipFrame DEF PowerOff, TypeOK
  <2>3. boot[n] \in Nat /\ boot'[n] = boot[n] + 1 /\ activation[n].boot \in Nat
    BY <1>4, <2>2 DEF PowerOff, TypeOK, Activation
  <2>4. activation[n].present => activation[n].boot # boot'[n]
    BY <2>3 DEF ActivationsArePast
  <2>5. role[n] # "primary"
    BY <2>1, <2>4 DEF CanHoldVip, LocalActivationValid
  <2> QED
    BY <2>1, <2>5 DEF CanHoldVip, ClusterLock, ReturnedFormerPrimary
<1> QED
  BY <1>1, <1>2, <1>3, <1>4 DEF Operator, Environment, disk, hosts, vars,
     ActivateRequest, RecoveryRequest, SetMaintenance, RecreateTronfire, SyncToPeer,
     TimeoutElapses, PowerOn, ServiceStops, ServiceStarts, LinkBreaks, LinkHeals

(* A node never becomes entitled to the VIP by a reboot, a restart, a      *)
(* recovery or by what the other node does: in every behaviour, only       *)
(* activateLocalNode with an activation of the current boot, or an edit of *)
(* its identity or lock, has that effect.                                  *)
THEOREM ExplicitEligibility == Spec => EligibilityIsExplicit
<1> DEFINE Explicit(n) ==
      ~CanHoldVip(n) /\ CanHoldVip(n)' =>
        \/ /\ \E t \in Task : /\ task[n][t].pc \in {"setRole", "restart"}
                              /\ task'[n][t].pc # task[n][t].pc
           /\ activation'[n].present /\ activation'[n].boot = boot[n]
        \/ PatchIdentity(n) \/ PatchLock(n)
<1>1. TypeOK /\ ActivationsArePast /\ [Next]_vars => [\A n \in Node : Explicit(n)]_vars
  BY TaskEligibility, OtherEligibility DEF Next
<1>2. Spec => [](TypeOK /\ ActivationsArePast)
  BY InitType, NextType, ActivationsInit, ActivationsNext, PTL DEF Spec
<1> QED
  BY <1>1, <1>2, PTL DEF Spec, EligibilityIsExplicit
(***************************************************************************)
(* A standby has no VIP, whatever fails                                    *)
(***************************************************************************)
(* An activity that cannot name its node active while it is a standby. *)
MildTask(n, u) ==
  \/ task'[n][u].pc = task[n][u].pc /\ task'[n][u].role = task[n][u].role
  \/ task'[n][u].pc \notin {"promote", "setRole", "restart"}
  \/ task'[n][u].pc \in {"promote", "setRole"} /\ task'[n][u].role = "standby"

(* A step that leaves identity and lock of n alone and has only such       *)
(* activities.                                                             *)
LEMMA MildStep ==
  ASSUME NEW n \in Node, StandbyYields(n),
         role'[n] = "standby" => role[n] = "standby" /\ lock'[n].active # n,
         \A u \in Task : MildTask(n, u)
  PROVE  StandbyYields(n)'
BY DEF StandbyYields, MildTask

(* clusterLock() does not name a standby active before its file does.      *)
LEMMA DefaultLock ==
  ASSUME NEW n \in Node, StandbyYields(n), role[n] = "standby"
  PROVE  ClusterLock(n).active # n
BY NamesDiffer DEF ClusterLock, StandbyYields

(* An activity of m keeps StandbyYields of every node.                     *)
LEMMA StandbyYieldsTask ==
  ASSUME TypeOK, NEW n \in Node, StandbyYields(n),
         NEW m \in Node, NEW t \in Task, TaskStep(m, t) \/ TaskFault(m, t)
  PROVE  StandbyYields(n)'
<1>1. ASSUME Finish(m, t) PROVE \A u \in Task : MildTask(n, u)
  BY <1>1, FinishFacts DEF MildTask
<1>2. ASSUME NEW pc, pc \notin {"promote", "setRole", "restart"}, Goto(m, t, pc)
      PROVE  \A u \in Task : MildTask(n, u)
  BY <1>2, GotoFacts DEF MildTask
<1>3. ASSUME NEW pc \in {"peer", "health"}, Tick(m, t, pc)
      PROVE  \A u \in Task : MildTask(n, u)
  BY <1>3 DEF Tick, MildTask, TypeOK
<1>4. CASE TickProbesPeer(m, t) \/ TickProbesHealth(m, t)
  <2>1. Tick(m, t, "peer") \/ Tick(m, t, "health")
    BY <1>4 DEF TickProbesPeer, TickProbesHealth
  <2>2. \A u \in Task : MildTask(n, u)
    BY <1>3, <2>1
  <2> QED
    BY <1>4, <2>2, MildStep DEF TickProbesPeer, TickProbesHealth, disk, StandbyYields
<1>5. CASE TickHasNothingToDo(m, t)
  BY <1>5 DEF TickHasNothingToDo, disk, StandbyYields
<1>6. CASE PeerGuardDemotes(m, t)
  <2>1. \A u \in Task : MildTask(n, u)
    BY <1>6 DEF PeerGuardDemotes, MildTask, TypeOK
  <2> QED
    BY <1>6, <2>1, MildStep DEF PeerGuardDemotes, disk, StandbyYields
<1>7. CASE \/ PeerGuardHarmless(m, t) \/ PeerGuardLate(m, t) \/ HealthOk(m, t)
           \/ HaStatusNotReady(m, t) \/ HaStatusUnavailable(m, t) \/ PromoteRefused(m, t)
           \/ PromoteFails(m, t) \/ SetRoleFails(m, t) \/ RecoveryFails(m, t)
           \/ RecoveryRestarts(m, t)
  <2>1. Finish(m, t) /\ UNCHANGED <<role, lock>>
    BY <1>7 DEF PeerGuardHarmless, PeerGuardLate, HealthOk, HaStatusNotReady,
       HaStatusUnavailable, PromoteRefused, PromoteFails, SetRoleFails, RecoveryFails,
       RecoveryRestarts, disk
  <2> QED
    BY <1>1, <2>1, MildStep DEF StandbyYields
<1>8. CASE HealthFailed(m, t) \/ HealthLate(m, t)
  <2>1. Goto(m, t, "haStatus") \/ Finish(m, t)
    BY <1>8 DEF HealthFailed, HealthLate, AfterFailedHealth
  <2>2. \A u \in Task : MildTask(n, u)
    BY <1>1, <1>2, <2>1
  <2> QED
    BY <1>8, <2>2, MildStep DEF HealthFailed, HealthLate, disk, StandbyYields
<1>9. CASE HaStatusReady(m, t)
  <2> DEFINE active == IF ClusterLock(m).active = NoNode THEN PrimaryOffline
                                                        ELSE ClusterLock(m).active
             s == [pc |-> IF role[m] = "standby" THEN "promote" ELSE "setRole",
                   role |-> role[m], active |-> NoNode, auto |-> TRUE, exempt |-> TRUE]
  <2>1. /\ role' = role
        /\ lock' = [lock EXCEPT ![m] = [file |-> TRUE, active |-> active, allow |-> TRUE]]
    BY <1>9 DEF HaStatusReady, WriteClusterLock
  <2>2. role'[n] = "standby" => lock'[n].active # n
    BY <2>1, DefaultLock, NamesDiffer DEF TypeOK, StandbyYields
  <2>3. Finish(m, t) \/ task' = [task EXCEPT ![m][t] = s]
    BY <1>9 DEF HaStatusReady
  <2>4. CASE Finish(m, t)
    BY <1>1, <2>1, <2>2, <2>4, MildStep
  <2>5. CASE task' = [task EXCEPT ![m][t] = s]
    <3>1. \A u \in Task : task'[n][u] \in {task[n][u], s} /\ (m # n => task'[n][u] = task[n][u])
      BY <2>5 DEF TypeOK
    <3> QED
      BY <2>1, <2>2, <3>1 DEF StandbyYields
  <2> QED
    BY <2>3, <2>4, <2>5
<1>10. CASE PromoteOk(m, t)
  <2>1. \A u \in Task : /\ task'[n][u].pc = IF m = n /\ u = t THEN "setRole" ELSE task[n][u].pc
                        /\ task'[n][u].role = task[n][u].role
    BY <1>10, GotoFacts DEF PromoteOk
  <2>2. \A u \in Task : MildTask(n, u)
    BY <1>10, <2>1 DEF PromoteOk, At, MildTask, StandbyYields
  <2> QED
    BY <1>10, <2>2, MildStep DEF PromoteOk, disk, StandbyYields
<1>11. CASE SetRolePromoted(m, t)
  <2>1. \A u \in Task : /\ task'[n][u].pc = IF m = n /\ u = t THEN "restart" ELSE task[n][u].pc
                        /\ task'[n][u].role = task[n][u].role
    BY <1>11, GotoFacts DEF SetRolePromoted
  <2>2. role'[n] = (IF m = n THEN "primary" ELSE role[n]) /\ lock' = lock
    BY <1>11 DEF SetRolePromoted, TypeOK
  <2> QED
    BY <2>1, <2>2 DEF StandbyYields
<1>12. CASE SetRolePrimary(m, t) \/ RestartAndRecord(m, t)
  <2>1. RecordActivation(m, t) /\ role' = role
    BY <1>12 DEF SetRolePrimary, RestartAndRecord
  <2>2. m = n => role[n] # "standby"
    BY <1>12 DEF SetRolePrimary, RestartAndRecord, At, StandbyYields
  <2>3. m # n => lock'[n] = lock[n]
    BY <2>1 DEF RecordActivation, WriteClusterLock, TypeOK
  <2> QED
    BY <1>1, <2>1, <2>2, <2>3, MildStep DEF RecordActivation, StandbyYields
<1>13. CASE RecoveryWrites(m, t)
  <2>1. role'[n] = (IF m = n THEN "recovery" ELSE role[n]) /\ (m # n => lock'[n] = lock[n])
    BY <1>13 DEF RecoveryWrites, WriteClusterLock, TypeOK
  <2>2. \A u \in Task : MildTask(n, u)
    BY <1>2, <1>13 DEF RecoveryWrites
  <2> QED
    BY <2>1, <2>2, MildStep DEF StandbyYields
<1> QED
  BY <1>4, <1>5, <1>6, <1>7, <1>8, <1>9, <1>10, <1>11, <1>12, <1>13 DEF TaskStep, TaskFault

(* A request of the operator keeps StandbyYields, unless it edits the      *)
(* lock or the identity.                                                   *)
LEMMA StandbyYieldsOperator ==
  ASSUME TypeOK, NEW n \in Node, StandbyYields(n), NEW m \in Node, Operator(m)
  PROVE  StandbyYields(n)' \/ PatchIdentity(m) \/ PatchLock(m)
<1>1. ASSUME NEW t \in Task, ActivateRequest(m, t)
      PROVE  StandbyYields(n)'
  <2>1. PICK exempt \in BOOLEAN : task' = [task EXCEPT ![m][t] =
         [pc |-> IF role[m] = "standby" THEN "promote" ELSE "setRole",
          role |-> role[m], active |-> NoNode, auto |-> FALSE, exempt |-> exempt]]
    BY <1>1 DEF ActivateRequest
  <2>2. UNCHANGED <<role, lock>>
    BY <1>1 DEF ActivateRequest, disk
  <2>3. \A u \in Task : \/ task'[n][u] = task[n][u]
                        \/ /\ m = n /\ task'[n][u].role = role[n]
                           /\ task'[n][u].pc = IF role[n] = "standby" THEN "promote" ELSE "setRole"
    BY <2>1 DEF TypeOK
  <2> QED
    BY <2>2, <2>3 DEF StandbyYields
<1>2. ASSUME NEW t \in Task, RecoveryRequest(m, t)
      PROVE  StandbyYields(n)'
  <2>1. \A u \in Task : MildTask(n, u)
    BY <1>2 DEF RecoveryRequest, MildTask, TypeOK
  <2> QED
    BY <1>2, <2>1, MildStep DEF RecoveryRequest, disk, StandbyYields
<1>3. CASE BlockClusterPromotion(m) \/ PrepareFailback(m)
  <2>1. /\ UNCHANGED <<role, task>>
        /\ lock'[n] = IF m = n THEN [file |-> TRUE, active |-> ClusterLock(n).active, allow |-> FALSE]
                               ELSE lock[n]
    BY <1>3 DEF BlockClusterPromotion, PrepareFailback, WriteClusterLock, mem, TypeOK
  <2> QED
    BY <2>1, DefaultLock DEF StandbyYields
<1>4. CASE SetMaintenance(m) \/ RecreateTronfire(m) \/ SyncToPeer(m)
  <2>1. UNCHANGED <<role, lock, task>>
    BY <1>4 DEF SetMaintenance, RecreateTronfire, SyncToPeer, disk, mem
  <2> QED
    BY <2>1 DEF StandbyYields
<1> QED
  BY <1>1, <1>2, <1>3, <1>4 DEF Operator

(* Faults and repairs keep StandbyYields.                                  *)
LEMMA StandbyYieldsEnvironment ==
  ASSUME TypeOK, NEW n \in Node, StandbyYields(n),
         \/ \E m \in Node : Environment(m)
         \/ LinkBreaks \/ LinkHeals \/ UNCHANGED vars
  PROVE  StandbyYields(n)'
<1>1. CASE UNCHANGED <<role, lock, task>>
  BY <1>1 DEF StandbyYields
<1>2. ASSUME NEW m \in Node, PowerOff(m) \/ ServiceStops(m)
      PROVE  StandbyYields(n)'
  <2>1. UNCHANGED <<role, lock>> /\ task' = [task EXCEPT ![m] = [t \in Task |-> Idle]]
    BY <1>2 DEF PowerOff, ServiceStops, LoseMemory, disk
  <2>2. \A u \in Task : MildTask(n, u)
    BY <2>1 DEF MildTask, TypeOK, Idle
  <2> QED
    BY <2>1, <2>2, MildStep DEF StandbyYields
<1> QED
  BY <1>1, <1>2 DEF Environment, TimeoutElapses, PowerOn, ServiceStarts, LinkBreaks,
     LinkHeals, vars, disk, mem

(* StandbyInv is inductive while nobody is made a standby again.           *)
LEMMA StandbyNext ==
  ASSUME NobodyReturns
  PROVE  StandbyInv /\ [Next]_vars => StandbyInv'
<1> SUFFICES ASSUME StandbyInv, [Next]_vars PROVE StandbyInv'
  OBVIOUS
<1>0. TypeOK /\ TypeOK'
  BY NextType DEF StandbyInv
<1> SUFFICES ASSUME NEW n \in Node, StandbyYields(n) PROVE StandbyYields(n)'
  BY <1>0 DEF StandbyInv
<1>1. ASSUME NEW m \in Node, NEW t \in Task, TaskStep(m, t) \/ TaskFault(m, t)
      PROVE  StandbyYields(n)'
  BY <1>0, <1>1, StandbyYieldsTask
<1>2. ASSUME NEW m \in Node, Operator(m)
      PROVE  StandbyYields(n)'
  <2>1. CASE PatchIdentity(m)
    <3>1. PICK r \in Role : <<role[m], r>> \in RoleChanges /\ role' = [role EXCEPT ![m] = r]
      BY <2>1 DEF PatchIdentity
    <3>2. r # "standby" /\ UNCHANGED <<lock, task>>
      BY <2>1, <3>1 DEF PatchIdentity, UseOp, NobodyReturns, mem
    <3>3. role'[n] = "standby" => role[n] = "standby"
      BY <1>0, <3>1, <3>2 DEF TypeOK
    <3> QED
      BY <3>2, <3>3 DEF StandbyYields
  <2>2. ~PatchLock(m)
    BY DEF PatchLock, UseOp, NobodyReturns
  <2> QED
    BY <1>0, <1>2, <2>1, <2>2, StandbyYieldsOperator
<1>3. CASE (\E m \in Node : Environment(m)) \/ LinkBreaks \/ LinkHeals \/ UNCHANGED vars
  BY <1>0, <1>3, StandbyYieldsEnvironment
<1> QED
  BY <1>1, <1>2, <1>3 DEF Next

(* The installed cluster satisfies StandbyInv.                             *)
LEMMA StandbyInit == Init => StandbyInv
BY InitType, NodesDiffer, NamesDiffer DEF Init, StandbyInv, StandbyYields, Idle, NoLock, Node

(* StandbyYields is why a standby is not entitled to the VIP.              *)
LEMMA StandbyImplies ==
  ASSUME NEW n \in Node, StandbyYields(n), role[n] = "standby"
  PROVE  ~CanHoldVip(n)
BY DefaultLock DEF CanHoldVip

(* Whatever hosts, services, links and commands do, and whatever is        *)
(* activated or put in recovery by hand, a node with role standby is not   *)
(* entitled to the VIP, as long as no lock is edited and no node is set    *)
(* back to standby (StandbyHasNoVip).                                      *)
THEOREM StandbySafety ==
  ASSUME NobodyReturns
  PROVE  Spec => []StandbyHasNoVip
<1>1. StandbyInv => StandbyHasNoVip
  BY StandbyImplies DEF StandbyInv, StandbyHasNoVip
<1> QED
  BY <1>1, StandbyInit, StandbyNext, PTL DEF Spec

(***************************************************************************)
(* The handover is in order when the operator makes the former primary a   *)
(* standby again                                                           *)
(***************************************************************************)
(* An activity of one node leaves the files and the memory of the other    *)
(* alone, and hosts and network as they are.                               *)
LEMMA TaskFrame ==
  ASSUME TypeOK, NEW m \in Node, NEW t \in Task, TaskStep(m, t) \/ TaskFault(m, t),
         NEW n \in Node, n # m
  PROVE  /\ task'[n] = task[n] /\ role'[n] = role[n] /\ lock'[n] = lock[n]
         /\ activation'[n] = activation[n] /\ down'[n] = down[n]
         /\ UNCHANGED <<power, boot, link>>
<1> USE DEF TypeOK, disk, hosts, Goto, Finish, WriteClusterLock
<1>1. CASE \/ TickProbesPeer(m, t) \/ TickProbesHealth(m, t) \/ TickHasNothingToDo(m, t)
           \/ PeerGuardDemotes(m, t) \/ PeerGuardHarmless(m, t) \/ PeerGuardLate(m, t)
  BY <1>1 DEF TickProbesPeer, TickProbesHealth, TickHasNothingToDo, Tick, PeerGuardDemotes,
     PeerGuardHarmless, PeerGuardLate
<1>2. CASE \/ HealthOk(m, t) \/ HealthFailed(m, t) \/ HealthLate(m, t)
           \/ HaStatusNotReady(m, t) \/ HaStatusUnavailable(m, t)
  BY <1>2 DEF HealthOk, HealthFailed, HealthLate, AfterFailedHealth, HaStatusNotReady,
     HaStatusUnavailable
<1>3. CASE HaStatusReady(m, t)
  BY <1>3 DEF HaStatusReady
<1>4. CASE \/ PromoteOk(m, t) \/ PromoteRefused(m, t) \/ PromoteFails(m, t)
           \/ SetRolePromoted(m, t) \/ SetRoleFails(m, t)
  BY <1>4 DEF PromoteOk, PromoteRefused, PromoteFails, SetRolePromoted, SetRoleFails
<1>5. CASE SetRolePrimary(m, t) \/ RestartAndRecord(m, t)
  BY <1>5 DEF SetRolePrimary, RestartAndRecord, RecordActivation
<1>6. CASE RecoveryWrites(m, t) \/ RecoveryFails(m, t) \/ RecoveryRestarts(m, t)
  BY <1>6 DEF RecoveryWrites, RecoveryFails, RecoveryRestarts
<1> QED
  BY <1>1, <1>2, <1>3, <1>4, <1>5, <1>6 DEF TaskStep, TaskFault

(* Under ReturnInv only an activation of this boot lets A hold the VIP, and *)
(* B only as primary.                                                      *)
LEMMA ReturnVip ==
  ASSUME ReturnInv
  PROVE  /\ CanHoldVip(NodeA) => role[NodeA] = "primary" /\ ActivatedThisBoot(NodeA)
         /\ CanHoldVip(NodeB) => role[NodeB] = "primary"
<1> USE ValueTypes, NodesDiffer, NamesDiffer
<1>1. role[NodeA] \in Role /\ role[NodeB] \in Role
  BY DEF ReturnInv, TypeOK
<1>2. role[NodeA] = "standby" => ~CanHoldVip(NodeA)
  BY DEF CanHoldVip, ClusterLock, ReturnInv, ReturnedYields
<1>3. role[NodeA] = "recovery" => ~CanHoldVip(NodeA)
  BY DEF CanHoldVip
<1>4. role[NodeA] = "primary" /\ CanHoldVip(NodeA) => ActivatedThisBoot(NodeA)
  BY DEF CanHoldVip, LocalActivationValid, ActivatedThisBoot
<1>5. role[NodeB] # "primary" => ~CanHoldVip(NodeB)
  BY <1>1, StandbyImplies DEF ReturnInv, CanHoldVip, Role
<1> QED
  BY <1>1, <1>2, <1>3, <1>4, <1>5 DEF Role

(* What A does: it yields, or notices nothing.                             *)
LEMMA ReturnFormer ==
  ASSUME PrimaryReturns, ReturnInv, NEW t \in Task,
         TaskStep(NodeA, t) \/ TaskFault(NodeA, t)
  PROVE  ReturnedYields' /\ (ActivatedThisBoot(NodeA)' => ActivatedThisBoot(NodeA))
<1> USE ValueTypes, NodesDiffer, NamesDiffer
<1>0. TypeOK /\ Peer(NodeA) = NodeB /\ Reachable(NodeA)
  BY DEF ReturnInv, Peer, Reachable, HostsFailWhole, SuccessorStays
<1>1. UNCHANGED <<power, boot, link>>
  BY <1>0, TaskFrame
<1>2. ASSUME UNCHANGED <<role, lock, activation>>,
             \A u \in Task :
               \/ task'[NodeA][u].pc \in {"idle", "peer", "health", "recRestart"}
               \/ task'[NodeA][u].pc = "recRole" /\ task'[NodeA][u].active # NodeA
               \/ task'[NodeA][u] = task[NodeA][u]
      PROVE  ReturnedYields' /\ (ActivatedThisBoot(NodeA)' => ActivatedThisBoot(NodeA))
  BY <1>1, <1>2 DEF ReturnInv, ReturnedYields, ActivatedThisBoot
<1>3. ASSUME Finish(NodeA, t), UNCHANGED <<role, lock, activation>>
      PROVE  ReturnedYields' /\ (ActivatedThisBoot(NodeA)' => ActivatedThisBoot(NodeA))
  <2>1. \A u \in Task : task'[NodeA][u] = task[NodeA][u] \/ task'[NodeA][u].pc = "idle"
    BY <1>0, <1>3 DEF Finish, TypeOK, Idle
  <2> QED
    BY <1>2, <1>3, <2>1
<1>4. CASE TickProbesPeer(NodeA, t) \/ TickProbesHealth(NodeA, t)
  <2>1. UNCHANGED <<role, lock, activation>>
    BY <1>4 DEF TickProbesPeer, TickProbesHealth, disk
  <2>2. \A u \in Task : \/ task'[NodeA][u] = task[NodeA][u]
                        \/ task'[NodeA][u].pc \in {"peer", "health"}
    BY <1>0, <1>4 DEF TickProbesPeer, TickProbesHealth, Tick, TypeOK
  <2> QED
    BY <1>2, <2>1, <2>2
<1>5. CASE TickHasNothingToDo(NodeA, t)
  BY <1>2, <1>5 DEF TickHasNothingToDo, disk
<1>6. CASE PeerGuardDemotes(NodeA, t)
  <2>1. ClusterLock(NodeB).active # NodeA /\ UNCHANGED <<role, lock, activation>>
    BY <1>0, <1>6 DEF PeerGuardDemotes, PeerServesAnother, disk
  <2>2. \A u \in Task :
          \/ task'[NodeA][u] = task[NodeA][u]
          \/ task'[NodeA][u].pc = "recRole" /\ task'[NodeA][u].active = ClusterLock(NodeB).active
    BY <1>0, <1>6 DEF PeerGuardDemotes, TypeOK
  <2> QED
    BY <1>2, <2>1, <2>2
<1>7. CASE PeerGuardHarmless(NodeA, t) \/ HealthOk(NodeA, t) \/ RecoveryFails(NodeA, t)
           \/ RecoveryRestarts(NodeA, t)
  BY <1>3, <1>7 DEF PeerGuardHarmless, HealthOk, RecoveryFails, RecoveryRestarts, disk
<1>8. ~PeerGuardLate(NodeA, t) /\ ~HealthLate(NodeA, t) /\ ~HealthFailed(NodeA, t)
  BY <1>0 DEF PeerGuardLate, HealthLate, HealthFailed, UseFault, PrimaryReturns
<1>9. /\ ~HaStatusNotReady(NodeA, t) /\ ~HaStatusUnavailable(NodeA, t)
      /\ ~HaStatusReady(NodeA, t) /\ ~PromoteOk(NodeA, t) /\ ~PromoteRefused(NodeA, t)
      /\ ~PromoteFails(NodeA, t) /\ ~SetRolePromoted(NodeA, t) /\ ~SetRolePrimary(NodeA, t)
      /\ ~SetRoleFails(NodeA, t) /\ ~RestartAndRecord(NodeA, t)
  BY DEF HaStatusNotReady, HaStatusUnavailable, HaStatusReady, PromoteOk, PromoteRefused,
     PromoteFails, SetRolePromoted, SetRolePrimary, SetRoleFails, RestartAndRecord, At,
     ReturnInv, ReturnedYields
<1>10. CASE RecoveryWrites(NodeA, t)
  <2>1. /\ role'[NodeA] = "recovery"
        /\ activation'[NodeA] = NoActivation
        /\ lock'[NodeA].active = task[NodeA][t].active
    BY <1>0, <1>10 DEF RecoveryWrites, WriteClusterLock, TypeOK
  <2>2. task[NodeA][t].active # NodeA
    BY <1>10 DEF RecoveryWrites, At, ReturnInv, ReturnedYields
  <2>3. \A u \in Task : task'[NodeA][u] = task[NodeA][u] \/ task'[NodeA][u].pc = "recRestart"
    BY <1>0, <1>10 DEF RecoveryWrites, Goto, TypeOK, TaskState
  <2>4. ~ActivatedThisBoot(NodeA)' /\ ~activation'[NodeA].present
    BY <2>1 DEF ActivatedThisBoot, NoActivation
  <2> QED
    BY <2>1, <2>2, <2>3, <2>4 DEF ReturnInv, ReturnedYields
<1> QED
  BY <1>4, <1>5, <1>6, <1>7, <1>8, <1>9, <1>10 DEF TaskStep, TaskFault

(* What B does: it is never demoted, because A does not serve once B is    *)
(* primary, and it starts towards serving only when it finds A down.       *)
LEMMA ReturnSuccessor ==
  ASSUME PrimaryReturns, ReturnInv, NEW t \in Task,
         TaskStep(NodeB, t) \/ TaskFault(NodeB, t)
  PROVE  SuccessorStays' /\ (SawPeerDown' => SawPeerDown \/ ~ActivatedThisBoot(NodeA))
<1> USE ValueTypes, NodesDiffer, NamesDiffer
<1>0. TypeOK /\ Peer(NodeB) = NodeA
  BY DEF ReturnInv, Peer
<1>1. power' = power
  BY <1>0, TaskFrame
<1>2. ASSUME role' = role,
             down'[NodeB] # "none" => SawPeerDown \/ ~ActivatedThisBoot(NodeA),
             \A u \in Task :
               \/ task'[NodeB][u].pc \in {"idle", "health", task[NodeB][u].pc}
               \/ task'[NodeB][u].pc = "peer" /\ role[NodeB] = "primary"
               \/ /\ task'[NodeB][u].pc \in {"haStatus", "promote", "setRole"}
                  /\ SawPeerDown \/ ~ActivatedThisBoot(NodeA)
      PROVE  SuccessorStays' /\ (SawPeerDown' => SawPeerDown \/ ~ActivatedThisBoot(NodeA))
  BY <1>1, <1>2 DEF ReturnInv, SuccessorStays, SawPeerDown
<1>3. ASSUME Finish(NodeB, t), role' = role,
             down'[NodeB] # "none" => SawPeerDown \/ ~ActivatedThisBoot(NodeA)
      PROVE  SuccessorStays' /\ (SawPeerDown' => SawPeerDown \/ ~ActivatedThisBoot(NodeA))
  <2>1. \A u \in Task : task'[NodeB][u].pc \in {"idle", task[NodeB][u].pc}
    BY <1>0, <1>3, FinishFacts
  <2> QED
    BY <1>2, <1>3, <2>1
<1>4. CASE TickProbesPeer(NodeB, t) \/ TickProbesHealth(NodeB, t)
  <2>1. \A u \in Task : \/ task'[NodeB][u].pc \in {"health", task[NodeB][u].pc}
                        \/ task'[NodeB][u].pc = "peer" /\ role[NodeB] = "primary"
    BY <1>0, <1>4 DEF TickProbesPeer, TickProbesHealth, Tick, TypeOK
  <2>2. role' = role /\ down' = down
    BY <1>4 DEF TickProbesPeer, TickProbesHealth, disk
  <2> QED
    BY <1>2, <2>1, <2>2 DEF SawPeerDown
<1>5. CASE TickHasNothingToDo(NodeB, t)
  BY <1>0, <1>2, <1>5 DEF TickHasNothingToDo, disk, TypeOK
<1>6. ~PeerGuardDemotes(NodeB, t)
  <2>1. At(NodeB, t, "peer") => ~ActivatedThisBoot(NodeA)
    BY DEF At, ReturnInv, SuccessorStays, SawPeerDown
  <2>2. CanServeProduction(NodeA) => ActivatedThisBoot(NodeA)
    BY ReturnVip DEF CanServeProduction
  <2> QED
    BY <1>0, <2>1, <2>2 DEF PeerGuardDemotes, PeerServesAnother
<1>7. CASE PeerGuardHarmless(NodeB, t) \/ HealthOk(NodeB, t)
  BY <1>0, <1>3, <1>7 DEF PeerGuardHarmless, HealthOk, disk, TypeOK
<1>8. ~PeerGuardLate(NodeB, t) /\ ~HealthLate(NodeB, t)
  BY DEF PeerGuardLate, HealthLate, UseFault, PrimaryReturns
<1>9. CASE HealthFailed(NodeB, t)
  <2>1. power[NodeA] = "off"
    BY <1>0, <1>9 DEF HealthFailed, Reachable, ReturnInv, HostsFailWhole, TypeOK
  <2>2. ~ActivatedThisBoot(NodeA) /\ role' = role
    BY <1>9, <2>1 DEF ReturnInv, ReturnedYields, HealthFailed, disk
  <2>3. CASE Goto(NodeB, t, "haStatus")
    BY <1>0, <1>2, <2>2, <2>3, GotoFacts
  <2>4. CASE Finish(NodeB, t)
    BY <1>3, <2>2, <2>4
  <2> QED
    BY <1>9, <2>3, <2>4 DEF HealthFailed, AfterFailedHealth
<1>10. CASE HaStatusNotReady(NodeB, t) \/ HaStatusUnavailable(NodeB, t)
            \/ PromoteRefused(NodeB, t) \/ PromoteFails(NodeB, t) \/ SetRoleFails(NodeB, t)
  <2>1. Finish(NodeB, t) /\ role' = role /\ down' = down
    BY <1>10 DEF HaStatusNotReady, HaStatusUnavailable, PromoteRefused, PromoteFails,
       SetRoleFails, disk
  <2> QED
    BY <1>3, <2>1 DEF SawPeerDown
<1>11. CASE HaStatusReady(NodeB, t) \/ PromoteOk(NodeB, t)
  <2>1. SawPeerDown /\ role' = role
    BY <1>11 DEF HaStatusReady, PromoteOk, At, SawPeerDown, disk
  <2>2. CASE Finish(NodeB, t)
    BY <1>3, <2>1, <2>2
  <2>3. CASE ~Finish(NodeB, t)
    <3>1. \A u \in Task : task'[NodeB][u].pc \in {"promote", "setRole", task[NodeB][u].pc}
      <4>1. CASE PromoteOk(NodeB, t)
        BY <1>0, <4>1, GotoFacts DEF PromoteOk
      <4>2. CASE HaStatusReady(NodeB, t)
        <5> DEFINE s == [pc |-> IF role[NodeB] = "standby" THEN "promote" ELSE "setRole",
                         role |-> role[NodeB], active |-> NoNode, auto |-> TRUE, exempt |-> TRUE]
        <5>1. task' = [task EXCEPT ![NodeB][t] = s]
          BY <2>3, <4>2 DEF HaStatusReady
        <5>2. \A u \in Task : task'[NodeB][u] \in {s, task[NodeB][u]}
          BY <1>0, <5>1 DEF TypeOK
        <5> QED
          BY <5>2
      <4> QED
        BY <1>11, <4>1, <4>2
    <3> QED
      BY <1>2, <2>1, <3>1
  <2> QED
    BY <2>2, <2>3
<1>12. CASE SetRolePromoted(NodeB, t)
  <2>1. role'[NodeB] = "primary" /\ SawPeerDown
    BY <1>0, <1>12 DEF SetRolePromoted, At, SawPeerDown, TypeOK
  <2>2. \A u \in Task : task'[NodeB][u].pc \in {"restart", task[NodeB][u].pc}
    BY <1>0, <1>12, GotoFacts DEF SetRolePromoted
  <2> QED
    BY <1>1, <2>1, <2>2 DEF ReturnInv, SuccessorStays
<1>13. CASE SetRolePrimary(NodeB, t) \/ RestartAndRecord(NodeB, t)
  <2>1. SawPeerDown /\ role' = role /\ Finish(NodeB, t)
    BY <1>13 DEF SetRolePrimary, RestartAndRecord, RecordActivation, At, SawPeerDown
  <2> QED
    BY <1>3, <2>1
<1>14. ~RecoveryWrites(NodeB, t) /\ ~RecoveryFails(NodeB, t) /\ ~RecoveryRestarts(NodeB, t)
  BY DEF RecoveryWrites, RecoveryFails, RecoveryRestarts, At, ReturnInv, SuccessorStays
<1> QED
  BY <1>4, <1>5, <1>6, <1>7, <1>8, <1>9, <1>10, <1>11, <1>12, <1>13, <1>14 DEF TaskStep, TaskFault

(* The activities of both nodes keep ReturnInv.                            *)
LEMMA ReturnTask ==
  ASSUME PrimaryReturns, ReturnInv, TypeOK', NEW m \in Node, NEW t \in Task,
         TaskStep(m, t) \/ TaskFault(m, t)
  PROVE  ReturnInv'
<1> USE ValueTypes, NodesDiffer
<1>0. TypeOK /\ StandbyYields(NodeB)'
  BY StandbyYieldsTask DEF ReturnInv
<1>1. CASE m = NodeA
  <2>1. /\ task'[NodeB] = task[NodeB] /\ role'[NodeB] = role[NodeB]
        /\ down'[NodeB] = down[NodeB] /\ UNCHANGED <<power, boot, link>>
    BY <1>0, <1>1, TaskFrame
  <2>2. HostsFailWhole' /\ SuccessorStays' /\ (SawPeerDown' => SawPeerDown)
    BY <2>1 DEF ReturnInv, HostsFailWhole, SuccessorStays, SawPeerDown
  <2> QED
    BY <1>0, <1>1, <2>2, ReturnFormer DEF ReturnInv
<1>2. CASE m = NodeB
  <2>1. /\ task'[NodeA] = task[NodeA] /\ role'[NodeA] = role[NodeA]
        /\ lock'[NodeA] = lock[NodeA] /\ activation'[NodeA] = activation[NodeA]
        /\ UNCHANGED <<power, boot, link>>
    BY <1>0, <1>2, TaskFrame
  <2>2. HostsFailWhole' /\ ReturnedYields' /\ (ActivatedThisBoot(NodeA)' = ActivatedThisBoot(NodeA))
    BY <2>1 DEF ReturnInv, HostsFailWhole, ReturnedYields, ActivatedThisBoot
  <2> QED
    BY <1>0, <1>2, <2>2, ReturnSuccessor DEF ReturnInv
<1> QED
  BY <1>1, <1>2 DEF Node

(* The requests that PrimaryReturns admits keep ReturnInv.                 *)
LEMMA ReturnOperator ==
  ASSUME PrimaryReturns, ReturnInv, TypeOK', NEW m \in Node, Operator(m)
  PROVE  ReturnInv'
<1> USE ValueTypes, NodesDiffer, NamesDiffer
<1>0. TypeOK /\ m \in {NodeA, NodeB}
  BY DEF ReturnInv, Node
<1>1. /\ ~PatchLock(m)
      /\ \A t \in Task : ~ActivateRequest(m, t) /\ ~RecoveryRequest(m, t)
  BY DEF PatchLock, ActivateRequest, RecoveryRequest, UseOp, PrimaryReturns
<1>2. UNCHANGED <<task, down, power, boot, link, activation>>
  BY <1>1 DEF Operator, PatchIdentity, BlockClusterPromotion, SetMaintenance,
     PrepareFailback, RecreateTronfire, SyncToPeer, mem, hosts, disk
<1>3. CASE PatchIdentity(m)
  <2>1. PICK r \in Role : <<role[m], r>> \in RoleChanges /\ role' = [role EXCEPT ![m] = r]
    BY <1>3 DEF PatchIdentity
  <2>2. role[m] = "recovery" /\ r = "standby" /\ lock' = lock
    BY <1>3, <2>1 DEF PatchIdentity, PrimaryReturns
  <2>3. m = NodeA
    BY <1>0, <2>2 DEF ReturnInv, SuccessorStays
  <2>4. role'[NodeB] = role[NodeB] /\ role[NodeA] # "primary"
    BY <1>0, <2>1, <2>2, <2>3 DEF TypeOK
  <2>5. HostsFailWhole' /\ ReturnedYields' /\ SuccessorStays'
    BY <1>2, <2>2, <2>4 DEF ReturnInv, HostsFailWhole, ReturnedYields, SuccessorStays,
       ActivatedThisBoot
  <2>6. StandbyYields(NodeB)' /\ (SawPeerDown' => ~ActivatedThisBoot(NodeA)')
    BY <1>2, <2>2, <2>4 DEF ReturnInv, StandbyYields, SawPeerDown, ActivatedThisBoot
  <2> QED
    BY <2>5, <2>6 DEF ReturnInv
<1>4. CASE ~PatchIdentity(m)
  <2>1. StandbyYields(NodeB)' /\ role' = role
    BY <1>0, <1>1, <1>4, StandbyYieldsOperator DEF ReturnInv, Operator, BlockClusterPromotion,
       SetMaintenance, PrepareFailback, RecreateTronfire, SyncToPeer, disk
  <2>2. \/ lock'[NodeA] = lock[NodeA]
        \/ lock'[NodeA].active = ClusterLock(NodeA).active
    BY <1>0, <1>1, <1>4 DEF Operator, BlockClusterPromotion, SetMaintenance, PrepareFailback,
       RecreateTronfire, SyncToPeer, disk, WriteClusterLock, TypeOK
  <2>3. role[NodeA] # "primary" => lock'[NodeA].active # NodeA
    BY <2>2 DEF ClusterLock, ReturnInv, ReturnedYields
  <2>4. HostsFailWhole' /\ ReturnedYields' /\ SuccessorStays'
    BY <1>2, <2>1, <2>3 DEF ReturnInv, HostsFailWhole, ReturnedYields, SuccessorStays,
       ActivatedThisBoot
  <2>5. SawPeerDown' => ~ActivatedThisBoot(NodeA)'
    BY <1>2, <2>1 DEF ReturnInv, SawPeerDown, ActivatedThisBoot
  <2> QED
    BY <2>1, <2>4, <2>5 DEF ReturnInv
<1> QED
  BY <1>3, <1>4

(* Power cycles of A keep ReturnInv: they only make its activation stale.  *)
LEMMA ReturnEnvironment ==
  ASSUME PrimaryReturns, ReturnInv, TypeOK',
         \/ \E m \in Node : Environment(m)
         \/ LinkBreaks \/ LinkHeals \/ UNCHANGED vars
  PROVE  ReturnInv'
<1> USE ValueTypes, NodesDiffer
<1>0. TypeOK /\ Node = {NodeA, NodeB} /\ StandbyYields(NodeB)'
  BY StandbyYieldsEnvironment DEF ReturnInv, Node
<1>1. UNCHANGED <<role, lock, activation, link>>
  BY DEF Environment, TimeoutElapses, PowerOff, PowerOn, ServiceStops, ServiceStarts,
     LinkBreaks, LinkHeals, vars, disk, hosts, UseFault, PrimaryReturns, ReturnInv, HostsFailWhole
<1>2. ASSUME NEW m \in Node PROVE ~ServiceStops(m) /\ ~ServiceStarts(m)
  BY DEF ServiceStops, UseFault, PrimaryReturns, ServiceStarts, ReturnInv, HostsFailWhole
<1>3. ASSUME UNCHANGED <<power, boot, task>>, down'[NodeB] # "none" => down[NodeB] # "none"
      PROVE  ReturnInv'
  <2>1. HostsFailWhole' /\ ReturnedYields' /\ SuccessorStays'
    BY <1>1, <1>3 DEF ReturnInv, HostsFailWhole, ReturnedYields, SuccessorStays, ActivatedThisBoot
  <2>2. SawPeerDown' => ~ActivatedThisBoot(NodeA)'
    BY <1>1, <1>3 DEF ReturnInv, SawPeerDown, ActivatedThisBoot
  <2> QED
    BY <1>0, <2>1, <2>2 DEF ReturnInv
<1>4. ASSUME NEW m \in Node, PowerOff(m)
      PROVE  ReturnInv'
  <2>1. m = NodeA
    BY <1>4 DEF PowerOff, PrimaryReturns
  <2>2. /\ power' = [power EXCEPT ![NodeA] = "off"]
        /\ boot' = [boot EXCEPT ![NodeA] = @ + 1]
        /\ down'[NodeB] = down[NodeB]
        /\ task' = [task EXCEPT ![NodeA] = [t \in Task |-> Idle]]
    BY <1>0, <1>4, <2>1 DEF PowerOff, LoseMemory, TypeOK
  <2>3. activation[NodeA].boot \in Nat /\ boot[NodeA] \in Nat /\ boot'[NodeA] = boot[NodeA] + 1
    BY <1>0, <2>2 DEF TypeOK, Activation
  <2>4. ~ActivatedThisBoot(NodeA)'
    BY <1>1, <2>3 DEF ActivatedThisBoot, ReturnInv, ReturnedYields
  <2>5. \A u \in Task : task'[NodeA][u].pc = "idle" /\ task'[NodeB] = task[NodeB]
    BY <1>0, <2>2 DEF TypeOK, Idle
  <2>6. HostsFailWhole' /\ SuccessorStays'
    BY <1>0, <1>1, <2>2, <2>5 DEF ReturnInv, HostsFailWhole, SuccessorStays, TypeOK
  <2>7. ReturnedYields'
    BY <1>1, <2>3, <2>4, <2>5 DEF ReturnInv, ReturnedYields
  <2> QED
    BY <1>0, <2>4, <2>6, <2>7 DEF ReturnInv
<1>5. ASSUME NEW m \in Node, PowerOn(m)
      PROVE  ReturnInv'
  <2>1. power' = [power EXCEPT ![m] = "running"] /\ UNCHANGED <<boot, down, task>>
    BY <1>5 DEF PowerOn, mem
  <2>2. HostsFailWhole' /\ SuccessorStays'
    BY <1>0, <1>1, <2>1 DEF ReturnInv, HostsFailWhole, SuccessorStays, TypeOK
  <2>3. ReturnedYields' /\ (SawPeerDown' => ~ActivatedThisBoot(NodeA)')
    BY <1>0, <1>1, <2>1 DEF ReturnInv, ReturnedYields, SawPeerDown, ActivatedThisBoot, TypeOK
  <2> QED
    BY <1>0, <2>2, <2>3 DEF ReturnInv
<1>6. ASSUME NEW m \in Node, TimeoutElapses(m)
      PROVE  ReturnInv'
  <2>1. UNCHANGED <<power, boot, task>> /\ (down'[NodeB] # "none" => down[NodeB] # "none")
    BY <1>0, <1>6 DEF TimeoutElapses, hosts, TypeOK
  <2> QED
    BY <1>3, <2>1
<1>7. CASE LinkBreaks \/ LinkHeals \/ UNCHANGED vars
  BY <1>3, <1>7 DEF LinkBreaks, LinkHeals, vars, mem, hosts
<1> QED
  BY <1>2, <1>4, <1>5, <1>6, <1>7 DEF Environment

(* The installed cluster satisfies ReturnInv.                              *)
LEMMA ReturnInit == Init => ReturnInv
<1> SUFFICES ASSUME Init PROVE ReturnInv
  OBVIOUS
<1> USE ValueTypes, NodesDiffer, NamesDiffer
<1>1. TypeOK /\ HostsFailWhole
  BY InitType DEF Init, HostsFailWhole
<1>2. ReturnedYields /\ SuccessorStays
  BY DEF Init, ReturnedYields, SuccessorStays, Idle, ActivatedThisBoot
<1>3. StandbyYields(NodeB) /\ ~SawPeerDown
  BY StandbyInit DEF StandbyInv, Init, SawPeerDown, Idle
<1> QED
  BY <1>1, <1>2, <1>3 DEF ReturnInv

(* ReturnInv is inductive.                                                 *)
LEMMA ReturnNext ==
  ASSUME PrimaryReturns
  PROVE  ReturnInv /\ [Next]_vars => ReturnInv'
<1> SUFFICES ASSUME ReturnInv, [Next]_vars PROVE ReturnInv'
  OBVIOUS
<1>0. TypeOK'
  BY NextType DEF ReturnInv
<1> QED
  BY <1>0, ReturnTask, ReturnOperator, ReturnEnvironment DEF Next

(* ReturnInv excludes two servers.                                         *)
LEMMA ReturnImplies == ReturnInv => AtMostOneServing /\ StandbyHasNoVip
<1> SUFFICES ASSUME ReturnInv PROVE AtMostOneServing /\ StandbyHasNoVip
  OBVIOUS
<1>1. CanHoldVip(NodeB) => ~ActivatedThisBoot(NodeA)
  BY ReturnVip DEF ReturnInv, SawPeerDown
<1> QED
  BY <1>1, ReturnVip DEF AtMostOneServing, Serving, CanServeProduction, StandbyHasNoVip, Node

(* ReturnInv holds while B stays up and nodes only return as standby.      *)
THEOREM ReturnInvariant ==
  ASSUME PrimaryReturns
  PROVE  Spec => []ReturnInv
BY ReturnInit, ReturnNext, PTL DEF Spec

(* When the former primary returns, is demoted by its watchdog and made a  *)
(* standby again by the operator, any number of times, a standby never has *)
(* the VIP and the nodes never both serve (StandbyHasNoVip,                *)
(* AtMostOneServing).                                                      *)
THEOREM ReturnSafety ==
  ASSUME PrimaryReturns
  PROVE  Spec => [](StandbyHasNoVip /\ AtMostOneServing)
BY ReturnInvariant, ReturnImplies, PTL

(***************************************************************************)
(* The cluster implements Succession                                       *)
(***************************************************************************)
(* What both arguments above have in common: A serves only with its        *)
(* activation, and not after B came near serving.                          *)
OrderInv ==
  /\ TypeOK /\ ActivationsArePast /\ AtMostOneServing
  /\ CanHoldVip(NodeA) => role[NodeA] = "primary" /\ ActivatedThisBoot(NodeA)
  /\ power[NodeA] # "running" => ~ActivatedThisBoot(NodeA)
  /\ \A t \in Task : task[NodeA][t].pc \notin {"setRole", "restart"}
  /\ CanHoldVip(NodeB) => role[NodeB] = "primary"
  /\ SawPeerDown => ~ActivatedThisBoot(NodeA)

(* No lock is edited, and identities only from recovery to standby.        *)
FewEdits == /\ "lock" \notin Ops
            /\ "identity" \in Ops => RoleChanges \subseteq {<<"recovery", "standby">>}

(* A node that gets the VIP was at the end of its activation.              *)
LEMMA OrderVip ==
  ASSUME FewEdits, OrderInv, OrderInv', [Next]_vars, NEW n \in Node,
         ~CanHoldVip(n), CanHoldVip(n)'
  PROVE  \E t \in Task : task[n][t].pc \in {"setRole", "restart"}
<1>1. TypeOK /\ ActivationsArePast /\ role'[n] = "primary"
  BY DEF OrderInv, Node
<1>2. ~PatchLock(n)
  BY DEF PatchLock, UseOp, FewEdits
<1>3. ~PatchIdentity(n)
  <2> SUFFICES ASSUME PatchIdentity(n) PROVE FALSE
    OBVIOUS
  <2>1. PICK r \in Role : <<role[n], r>> \in RoleChanges /\ role' = [role EXCEPT ![n] = r]
    BY DEF PatchIdentity
  <2>2. r = "standby"
    BY <2>1 DEF PatchIdentity, UseOp, FewEdits
  <2> QED
    BY <1>1, <2>1, <2>2 DEF TypeOK
<1> QED
  BY <1>1, <1>2, <1>3, TaskEligibility, OtherEligibility DEF Next

(* Every step maps to a step of Succession or to a stutter.                *)
LEMMA OrderStep ==
  ASSUME FewEdits, OrderInv, OrderInv', [Next]_vars
  PROVE  [Handover!Next]_{n \in Node : Serving(n)}
<1> USE ValueTypes, NodesDiffer
<1>1. Serving(NodeA)' => Serving(NodeA)
  <2> SUFFICES ASSUME Serving(NodeA)' PROVE Serving(NodeA)
    OBVIOUS
  <2>1. CanHoldVip(NodeA)' /\ ActivatedThisBoot(NodeA)'
    BY DEF Serving, CanServeProduction, OrderInv
  <2>2. CanHoldVip(NodeA)
    BY <2>1, OrderVip DEF OrderInv
  <2>3. power[NodeA] = "running"
    BY <2>2 DEF OrderInv
  <2> QED
    BY <2>2, <2>3 DEF Serving, CanServeProduction, CanHoldVip
<1>2. Serving(NodeB)' /\ ~Serving(NodeB) => ~Serving(NodeA)
  <2> SUFFICES ASSUME Serving(NodeB)', ~Serving(NodeB) PROVE ~Serving(NodeA)
    OBVIOUS
  <2>1. CASE CanHoldVip(NodeB)
    <3>1. ~ActivatedThisBoot(NodeA)
      BY <2>1 DEF OrderInv, SawPeerDown
    <3> QED
      BY <3>1 DEF OrderInv, Serving, CanServeProduction
  <2>2. CASE ~CanHoldVip(NodeB)
    <3>1. \E t \in Task : task[NodeB][t].pc \in {"setRole", "restart"}
      BY <2>2, OrderVip DEF Serving, CanServeProduction
    <3>2. ~ActivatedThisBoot(NodeA)
      BY <3>1 DEF OrderInv, SawPeerDown
    <3> QED
      BY <3>2 DEF OrderInv, Serving, CanServeProduction
  <2> QED
    BY <2>1, <2>2
<1>3. ~(Serving(NodeA) /\ Serving(NodeB)) /\ ~(Serving(NodeA)' /\ Serving(NodeB)')
  BY DEF OrderInv, AtMostOneServing
<1> DEFINE S == {n \in Node : Serving(n)}
           T == {n \in Node : Serving(n)'}
<1>4. /\ S = (IF Serving(NodeA) THEN {NodeA} ELSE IF Serving(NodeB) THEN {NodeB} ELSE {})
      /\ T = (IF Serving(NodeA)' THEN {NodeA} ELSE IF Serving(NodeB)' THEN {NodeB} ELSE {})
  BY <1>3 DEF Node
<1>5. T = S \/ (S # {} /\ T = {}) \/ (S = {} /\ T = {NodeB})
  BY <1>1, <1>2, <1>3, <1>4
<1> QED
  BY <1>5 DEF Handover!Next, Handover!Stop, Handover!TakeOver

(* Both inductive invariants give OrderInv.                                *)
LEMMA FailStopOrder ==
  ASSUME FailStopInv, ActivationsArePast
  PROVE  OrderInv
<1> USE ValueTypes, NodesDiffer, NamesDiffer
<1>1. role[NodeA] \in Role /\ role[NodeB] \in Role /\ power[NodeA] \in {"off", "stopped", "running"}
  BY DEF FailStopInv, TypeOK
<1>2. CanHoldVip(NodeA) => role[NodeA] = "primary" /\ ActivatedThisBoot(NodeA)
  BY <1>1 DEF CanHoldVip, LocalActivationValid, ActivatedThisBoot, FailStopInv,
     FormerPrimaryStaysOut, Role
<1>3. CanHoldVip(NodeB) => role[NodeB] = "primary"
  BY <1>1, StandbyImplies DEF CanHoldVip, FailStopInv, Role
<1>4. power[NodeA] # "running" => ~ActivatedThisBoot(NodeA)
  BY <1>1 DEF FailStopInv, HostsFailWhole, FormerPrimaryStaysOut
<1>5. \A t \in Task : task[NodeA][t].pc \notin {"setRole", "restart"}
  BY DEF FailStopInv, FormerPrimaryStaysOut
<1> QED
  BY <1>2, <1>3, <1>4, <1>5, FailStopImplies DEF FailStopInv, OrderInv

(* The same for ReturnInv.                                                 *)
LEMMA ReturnOrder ==
  ASSUME ReturnInv, ActivationsArePast
  PROVE  OrderInv
<1> USE ValueTypes, NodesDiffer
<1>1. power[NodeA] # "running" => ~ActivatedThisBoot(NodeA)
  BY DEF ReturnInv, TypeOK, HostsFailWhole, ReturnedYields
<1>2. \A t \in Task : task[NodeA][t].pc \notin {"setRole", "restart"}
  BY DEF ReturnInv, ReturnedYields
<1> QED
  BY <1>1, <1>2, ReturnVip, ReturnImplies DEF ReturnInv, OrderInv

(* The installed primary serves.                                           *)
LEMMA HandoverInit == Init => Handover!Init
<1> SUFFICES ASSUME Init PROVE Serving(NodeA) /\ ~Serving(NodeB)
  BY NodesDiffer DEF Handover!Init, Node
<1> USE ValueTypes, NodesDiffer, NamesDiffer
<1>1. Serving(NodeA)
  BY DEF Init, Serving, CanServeProduction, CanHoldVip, ClusterLock, ReturnedFormerPrimary,
     LocalActivationValid
<1>2. ~Serving(NodeB)
  BY StandbyInit, StandbyImplies DEF StandbyInv, Init, Serving, CanServeProduction
<1> QED
  BY <1>1, <1>2

(* When hosts fail only by losing power, production is handed over in      *)
(* order (HandoverInOrder): either the operator leaves identities alone    *)
(* and both nodes may fail, or the former primary is made a standby again  *)
(* and B stays up.                                                         *)
THEOREM OrderlyHandover ==
  ASSUME FailStop \/ PrimaryReturns
  PROVE  Spec => HandoverInOrder
<1>1. FewEdits
  BY DEF FailStop, PrimaryReturns, FewEdits
<1>2. OrderInv /\ OrderInv' /\ [Next]_vars => [Handover!Next]_{n \in Node : Serving(n)}
  BY <1>1, OrderStep
<1>3. Spec => []ActivationsArePast
  BY ActivationsInit, ActivationsNext, TypeCorrect, PTL DEF Spec
<1>4. Spec => []OrderInv
  <2>1. CASE FailStop
    <3>1. FailStopInv /\ ActivationsArePast => OrderInv
      BY FailStopOrder
    <3> QED
      BY <1>3, <2>1, <3>1, FailStopInvariant, PTL
  <2>2. CASE PrimaryReturns
    <3>1. ReturnInv /\ ActivationsArePast => OrderInv
      BY ReturnOrder
    <3> QED
      BY <1>3, <2>2, <3>1, ReturnInvariant, PTL
  <2> QED
    BY <2>1, <2>2
<1> QED
  BY <1>2, <1>4, HandoverInit, PTL DEF Spec, HandoverInOrder, Handover!Spec
=============================================================================
