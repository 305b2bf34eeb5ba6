CONSTANTS
  NoNode = NoNode
  Nodes = {n1, n2}
  Loops = {l1, l2}
  MaxJobs = 2
  MaxAssign = 3
  Window = 1
  StaleBatch = 1
  Interval = 1
  StaleAfter = 0
  Reports = {"UP"}
  Alerts = 1
  MaxFaults = 1
SPECIFICATION HubSpec
INVARIANT OneResultPerNode
PROPERTY FinallySettled
