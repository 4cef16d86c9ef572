SPECIFICATION FairSpec
CONSTANTS
  t1 = t1
  t2 = t2
  t3 = t3
  NoThread = NoThread
  Threads = {t1, t2, t3}
  Id <- Narrow3
  IdBound = 8
  MaxDepth = 3
INVARIANTS Released
PROPERTIES ImplementsLock SomebodyGetsIt
