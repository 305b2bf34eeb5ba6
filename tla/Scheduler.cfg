CONSTANTS
  MaxSites = 2
  Regions = {r1, r2}
  MaxInterval = 2
  Intervals = {2}
  MaxLag = 1
  Editors = {e1, e2}
  MaxFaults = 1
SPECIFICATION FairSpec
INVARIANTS
  TypeOK
  RegionsInStep
PROPERTIES
  Spacing
  OffStaysOff
  EveryRegionChecked
