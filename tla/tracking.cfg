CONSTANTS
  File <- Files
  RulePath <- Dirs
  Alike <- Names
  Exclusions <- Globs
  Request = {r1, r2}
  Batch <- Lists
  MaxEdits = 3
SPECIFICATION Spec
INVARIANT TypeOK
INVARIANT FlagsFollowRules
PROPERTY FlagsSettle
