SPECIFICATION FairSpec
CONSTANTS
  dir = dir
  rbd = rbd
  v1 = v1
  v2 = v2
  Calls = {"c1"}
  Pools = {dir, rbd}
  CephPools = {rbd}
  Configs <- MCConfigs
  Versions = {v1, v2}
  MaxSetups = 2
  MaxFaults = 1
  None = None
INVARIANTS
  DispensedIsSetUp
  UsedConnectionIsOpen
PROPERTIES
  CephPoolsRun
  StreamEnds
