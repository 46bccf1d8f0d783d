SPECIFICATION FairSpec
CONSTANTS
  DB = {d1}
  Backed = {d1}
  PrimaryDb = d1
  NoDb = NoDb
  Threshold = 2
  MaxRetries = 2
  MaxEvents = 2
INVARIANTS OneRoutine SweepNotForgotten
PROPERTIES BackupAttempted OutageClears
