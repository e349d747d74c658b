SPECIFICATION Spec
CONSTANTS
  Tasks = {t1}
  VMName <- MCVMName
  Disks = {d1, d2}
  NetItems = {"filter", "reservation"}
  Calls = {c1, c2}
  MaxFaults = 2
  MaxCrashes = 1
  EarlyCalls = FALSE
SYMMETRY Symmetry
INVARIANTS
  TypeOK
  DestroyedMeansGone
  StoppedMeansDown
  FinalExitIsReal
  DefinedVMIsWhole
  FailedStartRemovesVolumes
PROPERTY LivesOneWay
