CONSTANTS
  File = {f1}
  Scanning = {s1}
  Hashing = {h1, h2}
  Unreadable = {}
  BatchSize = 1
  FetchLimit = 1
  MaxChanges = 1
  MaxFaults = 1
SPECIFICATION FairSpec
PROPERTY ChangesAreHashed
PROPERTY RemovedIsNoticed
