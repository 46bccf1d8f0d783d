SPECIFICATION Spec
CONSTANTS
  NodeA = NodeA
  NodeB = NodeB
  NoNode = NoNode
  PrimaryOffline = PrimaryOffline
  Task = {t1, t2}
  PeerConfigured = {NodeA, NodeB}
  HealthConfigured = {NodeA, NodeB}
  FailoverEnabled = {NodeA, NodeB}
  Faults = {"power", "service", "link", "cmd"}
  FaultNodes = {NodeA, NodeB}
  Ops = {"activate", "recovery", "identity", "lock"}
  RoleChanges <- RecoveredStandby
  GivenActive = {NoNode}
  MaxFaults = 1
  MaxOps = 2
SYMMETRY TaskSymmetry
INVARIANT TypeOK
PROPERTY EligibilityIsExplicit
