CONSTANTS
  t1 = t1
  t2 = t2
  t3 = t3
  t4 = t4
  t5 = t5
  Threads = {t1, t2, t3, t4, t5}
  Word = 8
SPECIFICATION FairSpec
INVARIANTS CountsAgree
PROPERTIES NoOvertaking WaitersAreServed LockImplemented
CHECK_DEADLOCK FALSE
