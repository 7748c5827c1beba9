CONSTANTS
  f1 = f1
  f2 = f2
  f3 = f3
  t1 = t1
  t2 = t2
  d = d
  File = {f1, f2, f3}
  Tape = {t1, t2}
  Disk = {d}
  SizeOf <- Sizes
  Current <- Contents
  Library <- Versions
  Shelf <- Stored
  NewContent <- Edited
  Requests <- Named
  MaxEdits = 2
  MaxSwaps = 1
  MaxFaults = 1
SPECIFICATION Spec
INVARIANT TypeOK
INVARIANT EmptiedMeansRestored
 
PROPERTY WaitsForManifest
PROPERTY RestoreEnds
CHECK_DEADLOCK FALSE
