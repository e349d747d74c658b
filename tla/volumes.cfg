SPECIFICATION FairSpec
CONSTANTS
  t1 = t1
  t2 = t2
  i1 = i1
  i2 = i2
  s1 = s1
  Tasks = {t1, t2}
  Images = {i1, i2}
  Shared = {s1}
  Jobs <- MCJobs
  MaxDisks = 2
  VirtualSize <- MCVirtualSize
  FileSize <- MCFileSize
  None = None
  MaxFaults = 2
  MaxCrashes = 1
INVARIANTS
  ChainsResolve
  RunningDisksAreWhole
  OneWriter
  GoneLeavesNothing
PROPERTIES
  PoolKeepsPromises
  WaitersEnd
CHECK_DEADLOCK FALSE
