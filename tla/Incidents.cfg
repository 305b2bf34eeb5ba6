CONSTANTS
  Alerts = {a1}
  Regions = {r1, r2}
  Txs = {t1, t2}
  Editors = {e1, e2}
  MaxFaults = 1
SPECIFICATION FairSpec
INVARIANTS
  TypeOK
  NoOrphans
PROPERTIES
  OffIsQuiet
  DownIsReported
  RecoveryCloses
