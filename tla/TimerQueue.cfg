CONSTANTS
  a = a
  b = b
  c = c
  c1 = c1
  c2 = c2
  Callback = Callback
  Kick = Kick
  Items = {a, b, c}
  Clients = {c1, c2}
  Interval <- MCInterval
  Delays <- MCDelays
  Queues <- MCQueues
  Disarms <- MCDisarms
  RingSize = 4
  MaxLate = 0
  MaxSelfDisarm = 1
SPECIFICATION FairSpec
INVARIANTS NoCallbackAfterDisarm NeverPopsRunningItem
PROPERTIES ImplementsService ArmedItemFires CallsReturn
CHECK_DEADLOCK FALSE
