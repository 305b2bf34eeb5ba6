CONSTANTS
  Nodes = {n1}
  GoNodes = {n1}
  Padded = {}
  Seeded = {n1}
  Regions = {g1}
  Home = g1
  CheckTypes = {"HTTP"}
  MaxAssign = 1
  MaxRegs = 1
  MaxFaults = 0
SPECIFICATION Spec
INVARIANT RefusedAreOutdated
