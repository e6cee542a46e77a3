CONSTANTS
  Items = {i1, i2, i3}
  Recurring = {i1, i2}
  NoItem = NoItem
  s1 = s1
  s2 = s2
  D = D
  Setters = {s1, s2}
  Dispatcher = D
  Nobody = Nobody
  Uses <- OwnerOrCallback
  CallbackCancels = TRUE
  ManualReset = FALSE
SPECIFICATION ClientSpec
INVARIANTS CancelSilences CallbackIsOwn SignalIsCurrent
PROPERTIES TimerQueuesItsOwnApc CallsReturn
CHECK_DEADLOCK FALSE
