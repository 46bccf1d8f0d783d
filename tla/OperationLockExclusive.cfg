SPECIFICATION Spec
CONSTANTS
  r1 = r1
  r2 = r2
  r3 = r3
  Req = {r1, r2, r3}
  NoReq = NoReq
  HaMode = FALSE
  HostMode = TRUE
  Kinds = {"PREPARE", "RELEASE", "RESTORE", "MAINTENANCE", "BACKUP", "AUTO_BACKUP"}
  Faults = {"crash", "ps", "script", "query"}
  MaxFaults = 1
SYMMETRY ReqSymmetry
INVARIANTS
  ExclusiveWork
  LockHasOwner
CHECK_DEADLOCK FALSE
