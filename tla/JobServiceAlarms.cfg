CONSTANTS
  NoNode = NoNode
  Nodes = {n1, n2, n3}
  Loops = {l1, l2}
  MaxJobs = 1
  MaxAssign = 3
  Window = 1
  StaleBatch = 1
  Interval = 1
  StaleAfter = 0
  Reports = {"UP", "DOWN"}
  Alerts = 1
  MaxFaults = 0
SPECIFICATION Spec
INVARIANT OneAlarmPerJob
