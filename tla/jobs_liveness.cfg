CONSTANTS
  Job = {j1, j2}
  Request = {r1}
  MaxMedia = 2
  CronEnabled = FALSE
  CanRestart = TRUE
SPECIFICATION FairSpec
INVARIANT OneActivePerKind
PROPERTY CancelStopsWorker
PROPERTY RunSettles
PROPERTY CancelInTime
