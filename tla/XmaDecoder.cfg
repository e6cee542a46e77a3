CONSTANTS
  ContextCount = 2
  Buffers = {b0}
  Guests = {g1, g2}
  Players = {g1}
  Worker = Worker
  Nobody = Nobody
  NoContext = NoContext
SPECIFICATION FairSpec
INVARIANTS FreshContextIsFree OfferedBuffersStay KickIsTaken PausedWorkerIsStill
PROPERTIES PauseAndStopTakeEffect
CHECK_DEADLOCK FALSE
