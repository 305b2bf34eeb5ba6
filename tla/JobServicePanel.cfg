CONSTANTS
  NoNode = NoNode
  Nodes = {n1, n2, n3}
  Loops = {l1, l2, l3}
  MaxJobs = 1
  MaxAssign = 3
  Window = 1
  StaleBatch = 1
  Interval = 1
  StaleAfter = 0
  Reports = {"UP", "DOWN", "UNKNOWN"}
  Alerts = 1
  MaxFaults = 0
SYMMETRY Interchangeable
SPECIFICATION Spec
INVARIANTS TypeOK CompletedIsDecided VerdictStillHolds MarksAgree MarksComplete NoFalseAlarm IncidentBound
PROPERTIES ReviveNeedsStaleReader KeepsContract
