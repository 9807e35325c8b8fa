SPECIFICATION FileSpec
CONSTANTS
  t1 = t1
  t2 = t2
  a = a
  b = b
  Putters = {t1, t2}
  Parts = {a, b}
  MaxFiles = 4
SYMMETRY Symmetry
CHECK_DEADLOCK FALSE
INVARIANT PutIsAtomic
