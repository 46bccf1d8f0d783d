SPECIFICATION FairSpec
CONSTANTS
  Alert = {k1}
  Central = {c1,c2}
  Account = {a1,a2}
  Pairing = {p1,p2}
  EnvEnabled = FALSE
  None = None
  MaxEvents = 4
INVARIANTS
  EnabledIsPaired
  ActiveIsTold
PROPERTIES
  CentralLearns
  QuotaAgrees
CHECK_DEADLOCK FALSE
