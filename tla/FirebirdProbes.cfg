SPECIFICATION FairSpec
CONSTANTS
  Db = {d1}
  WKey = {session}
  Reader = {r1, r2}
  None = None
  MaxEvents = 1
INVARIANTS
  OneProbe
  WaitsForScript
PROPERTIES
  AlertsAgree
  SlowAlertClears
