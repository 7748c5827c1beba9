CONSTANTS
  Job = {j1, j2}
  Request = {r1, r2}
  MaxMedia = 2
  CronEnabled = TRUE
  CanRestart = TRUE
SPECIFICATION Spec
SYMMETRY Symmetry
INVARIANT TypeOK
INVARIANT OrphanCauses
PROPERTY OnlyAutoRevives
