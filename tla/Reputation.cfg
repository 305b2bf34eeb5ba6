CONSTANTS
  Handlers = {h1, h2, h3}
  Best = 60
  MaxResults = 6
  MaxFaults = 1
SPECIFICATION Spec
INVARIANTS
  TypeOK
  NoUndeservedPenalty
  PerfectRecord
  CountedOnce
CHECK_DEADLOCK FALSE
