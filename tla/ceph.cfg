SPECIFICATION Spec
SYMMETRY Symmetry
CONSTANTS
  Copies = {c1, c2}
  Upload = upload
  Files <- MCFiles
  Stored <- MCStored
  Buffer = 3
  Given = given
  None = None
  MaxEvents = 1
INVARIANTS
  CopiesAreWhole
  UploadIsWhole
  SnapshotsStayProtected
  LockHolderIsAtWork
CHECK_DEADLOCK FALSE
