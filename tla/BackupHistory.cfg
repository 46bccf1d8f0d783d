CONSTANTS
  Week = 3
  Slots = 3
  Policies <- MCPolicies
  Cleanups <- MCCleanups
  Retention = 1
  Take = 80
  TakeFailed = 10
  MaxRows = 9
  MaxRun = 1
  MaxIncidents = 2
SPECIFICATION HistoryFairSpec
INVARIANTS KeepsABackup OneValidation
PROPERTY ValidatedEveryWeek
