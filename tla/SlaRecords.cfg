CONSTANTS
  Rows = {k1, k2}
  Ticks = {t1, t2}
  MaxDay = 1
  MaxResults = 1
  MaxFaults = 1
SPECIFICATION FairSpec
INVARIANTS
  TypeOK
  NothingInvented
PROPERTIES
  RecordsOnlyGrow
  TodayIsCaughtUp
