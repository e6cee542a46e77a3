CONSTANTS
  ContextCount = 1
  Buffers = {b0}
  Guests = {g1}
  Players = {g1}
  Worker = Worker
  Nobody = Nobody
  NoContext = NoContext
SPECIFICATION Spec
INVARIANT DisabledContextIsQuiet
CHECK_DEADLOCK FALSE
