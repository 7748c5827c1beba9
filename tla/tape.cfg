CONSTANTS
  t1 = t1  t2 = t2
  Tape = {t1, t2}
  Known = {t1}
  Readable = {t1}
  Writer = {w1, w2}
  None = None
  Unhurried = TRUE
  MaxActs = 3
  MaxArchives = 2
SPECIFICATION Spec
SYMMETRY Symmetry
INVARIANT TypeOK
INVARIANT RowsNameTheirArchive
 
 
