CONSTANTS
  Rows = {k1}
  Ticks = {t1}
  MaxDay = 1
  MaxResults = 1
  MaxFaults = 0
SPECIFICATION FairSpec
PROPERTY EveryResultCounted
