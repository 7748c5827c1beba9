CONSTANTS
  File = {f1}
  Scanning = {s1, s2}
  Hashing = {h1, h2}
  Unreadable = {}
  BatchSize = 1
  FetchLimit = 1
  MaxChanges = 2
  MaxFaults = 0
SPECIFICATION Spec
SYMMETRY Symmetry
INVARIANT TypeOK
INVARIANT WrongHashesShow
INVARIANT DeletedWasAway
INVARIANT HashRowSettles
