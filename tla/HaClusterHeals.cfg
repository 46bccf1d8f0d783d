SPECIFICATION FairSpec
CONSTANTS
  NodeA = NodeA
  NodeB = NodeB
  NoNode = NoNode
  PrimaryOffline = PrimaryOffline
  Task = {t1, t2}
  PeerConfigured = {NodeA, NodeB}
  HealthConfigured = {NodeA, NodeB}
  FailoverEnabled = {NodeA, NodeB}
  Faults = {"service", "link", "slow", "cmd"}
  FaultNodes = {NodeA}
  Ops = {"block", "maintenance"}
  RoleChanges <- NoRoleChange
  GivenActive = {NoNode}
  MaxFaults = 2
  MaxOps = 2
PROPERTY DualServingEnds
