CONSTANTS
  Blocks = {a1, a2, a3}
  GuestApcs = {g1}
  Senders = {Dispatcher, Peer}
  o1 = o1
  Routines = {o1}
  Overlapped = {o1}
  Asks <- AskedFor
  NoRoutine = NoRoutine
  NoApc = NoApc
  Lasting = {}
  MaxHints = 1
  Dispatcher = Dispatcher
  Peer = Peer
SPECIFICATION FairSpec
INVARIANTS SleeperIsHinted BlocksInOnePlace NoticeMeansComplete
PROPERTIES RequestCompletes DispatchEnds
CHECK_DEADLOCK FALSE
