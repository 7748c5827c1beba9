CONSTANTS
  f1 = f1  f2 = f2  a = a  b = b  c = c  d = d  m1 = m1  m2 = m2  m3 = m3  w1 = w1  w2 = w2
  File = {f1, f2}
  Medium = {m1, m2}
  Content = {a, c}
  Worker = {w1}
  Gone = Gone
  Pad = Pad
  Size <- SizeLarge
  Capacity <- Tight
  MinFragment = 1
  Target = 1
  RandomAccess = {m1}
  Streaming = TRUE
  CommitsWipe = {m1, m2}
  Events = {"write", "remove", "cancel"}
  Quiet = FALSE
  MaxCommits = 2
  MaxMembers = 3
  MaxWrites = 1
SPECIFICATION FairSpec
INVARIANT CoveredMeansEveryByte
PROPERTY JobEnds
