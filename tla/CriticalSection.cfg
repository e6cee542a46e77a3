CONSTANTS
  t1 = t1
  t2 = t2
  t3 = t3
  Threads = {t1, t2, t3}
  NoThread = NoThread
  SpinCount = 1
  MaxDepth = 2
SPECIFICATION FairSpec
PROPERTIES SectionImplemented WaiterIsLetIn
