SPECIFICATION Spec
CONSTANTS
  i1 = i1
  i2 = i2
  s1 = s1
  dir = dir
  c1 = c1
  c2 = c2
  c3 = c3
  c4 = c4
  here = here
  there = there
  Images = {i1, i2}
  Opaque = {i2}
  Sources = {s1}
  Mounts <- MCMounts
  Pools = {dir, c1, c2, c3, c4}
  Remote <- MCRemote
  RemoteName <- MCRemoteName
  CephPools = {c1, c2, c3, c4}
  Default = dir
  Virtual <- MCVirtual
  Packed <- MCPacked
  Multiplier <- MCMultiplier
  Word <- MCWord
  Jobs <- MCJobs
  None = None
  Bad = Bad
INVARIANTS
  DeviceNamesDiffer
  UploadsMatchFormat
  VolumesHoldSource
  DestroyLeavesParents
CHECK_DEADLOCK FALSE
