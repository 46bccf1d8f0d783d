SPECIFICATION FairSpec
CONSTANTS
  r1 = r1
  r2 = r2
  r3 = r3
  Req = {r1, r2, r3}
  NoReq = NoReq
  HaMode = TRUE
  HostMode = FALSE
  Kinds = {"PREPARE", "RELEASE", "RESTORE"}
  Faults = {"crash", "ps", "script", "query"}
  MaxFaults = 2
INVARIANTS
  TypeOK
  ReservationEndsOnce
PROPERTIES
  LockEnds
CHECK_DEADLOCK FALSE
