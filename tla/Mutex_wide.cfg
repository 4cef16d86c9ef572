SPECIFICATION Spec
CONSTANTS
  t1 = t1
  t2 = t2
  t3 = t3
  NoThread = NoThread
  Threads = {t1, t2}
  Id <- Wide2
  IdBound = 8
  MaxDepth = 3
INVARIANTS Released
