SPECIFICATION FairSpec
CONSTANTS
  DB = {d1, d2}
  Hosts = {"A", "B"}
  Bodies <- MCBodies
  Standby = "A"
  MaxVersion = 2
  MaxRequests = 1
  MaxFaults = 1
  Faults = {"ssh", "backup", "operation", "net", "nbackup", "script", "hidden", "crash", "standby", "role"}
  Tokens = {TRUE, FALSE}
  Overlap = TRUE
CHECK_DEADLOCK FALSE
INVARIANTS  ValidatedHostAnswered
PROPERTIES  CatchesUp BackupModeEnds
