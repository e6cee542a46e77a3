CONSTANTS
  c1 = c1
  c2 = c2
  Controllers = {c1, c2}
  Nobody = Nobody
  Self = Self
  Uses <- ServedOrStarted
  MaxNesting = 1
  MaxWaits = 1
  MaxTerminates = 2
SPECIFICATION FairSpec
INVARIANTS NoCodeWhileSuspended TokensMatchWaits
PROPERTIES SuspensionTakesEffect CallsComplete
CHECK_DEADLOCK FALSE
