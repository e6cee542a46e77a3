CONSTANTS
  t1 = t1
  t2 = t2
  auto = auto
  manual = manual
  sem = sem
  mutant = mutant
  Threads = {t1, t2}
  Nobody = Nobody
  ManualEvents = {manual}
  AutoEvents = {auto}
  Semaphores = {sem}
  Mutants = {mutant}
  InitialCount = 1
  InitialOwner = t1
  MaximumCount = 2
  Requests <- OverlappingWaits
  NoWait = NoWait
  MaxCalls = 2
  MaxCallbacks = 1
  ForeignReleases = FALSE
SPECIFICATION FairSpec
INVARIANTS SleepersAreNotMissed
PROPERTIES ImplementsObjects WaitsMoveOn
CHECK_DEADLOCK FALSE
