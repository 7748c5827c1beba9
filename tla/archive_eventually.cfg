CONSTANTS
  f1 = f1  f2 = f2  a = a  b = b  c = c  d = d  m1 = m1  m2 = m2  m3 = m3  w1 = w1  w2 = w2
  File = {f1, f2}
  Medium = {m1, m2, m3}
  Content = {a, d}
  Worker = {w1}
  Gone = Gone
  Pad = Pad
  Size <- SizeSmall
  Capacity <- Roomy
  MinFragment = 1
  Target = 2
  RandomAccess = {m1}
  Streaming = FALSE
  CommitsWipe = {m1, m2}
  Events = {}
  Quiet = FALSE
  MaxCommits = 4
  MaxMembers = 9
  MaxWrites = 0
SPECIFICATION ScheduledSpec
INVARIANT NoSpareCopies
 
