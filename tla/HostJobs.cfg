SPECIFICATION FairSpec
CONSTANTS
  MaxRequests = 2
  MaxFaults = 2
  Roles = {"solo", "primary", "standby"}
  Ops = {"update", "app", "settings", "standbyKeepalived", "localKeepalived", "power", "block", "failback"}
  Faults = {"cmd", "timeout", "crash", "power"}
  Branches = {"main", "qa"}
CHECK_DEADLOCK FALSE
INVARIANT SuccessIsInstalled
PROPERTIES FinalStays PanelLearns
