CONSTANTS
  Nodes = {n1, n2}
  GoNodes = {n2}
  Padded = {}
  Seeded = {n1, n2}
  Regions = {g1, g2}
  Home = g1
  CheckTypes = {"TCP"}
  MaxAssign = 1
  MaxRegs = 1
  MaxFaults = 1
SPECIFICATION FairSpec
INVARIANTS
  TypeOK
  ReplacedCredentialsAreDead
  RefusedForCause
PROPERTY DeadNodesDropOut
