SPECIFICATION FairSpec
CONSTANTS
  NodeA = NodeA
  NodeB = NodeB
  NoNode = NoNode
  PrimaryOffline = PrimaryOffline
  Task = {t1, t2}
  PeerConfigured = {NodeA, NodeB}
  HealthConfigured = {NodeA, NodeB}
  FailoverEnabled = {NodeA, NodeB}
  Faults = {"power"}
  FaultNodes = {NodeA}
  Ops = {"identity", "block", "maintenance", "failback", "recreate", "sync"}
  RoleChanges <- RecoveredStandby
  GivenActive = {NoNode}
  MaxFaults = 3
  MaxOps = 3
INVARIANTS StandbyHasNoVip AtMostOneServing
PROPERTIES HandoverInOrder FailoverCompletes
