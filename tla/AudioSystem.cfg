CONSTANTS
  Slots = {0, 1}
  QueuedFrames = 2
  NoSlot = NoSlot
SPECIFICATION FairSpec
INVARIANTS PermitsInCirculation PausedWorkerCallsNobody
PROPERTIES PauseAndStopTakeEffect
CHECK_DEADLOCK FALSE
