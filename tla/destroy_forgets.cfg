SPECIFICATION Spec
CONSTANTS
  Tasks = {t1}
  VMName <- MCVMName
  Disks = {d1}
  NetItems = {"filter"}
  Calls = {c1, c2}
  MaxFaults = 0
  MaxCrashes = 0
  EarlyCalls = FALSE
SYMMETRY Symmetry
INVARIANTS
  DestroyForgetsTask
