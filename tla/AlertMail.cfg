SPECIFICATION FairSpec
CONSTANTS
  Host = {}
  Counting = {}
  Seconds = 0
  Tf = {t1}
  AutoEnds = {t1}
  Tick = {w1, w2}
  Caller = {agent, panel}
  MaxEvents = 2
INVARIANTS
  EntryIsMail
  OneMailAnHour
PROPERTIES
  MailArrives
  RecoveryArrives
  RowEnds
