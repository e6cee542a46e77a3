CONSTANTS
  c1 = c1
  c2 = c2
  Controllers = {c1}
  Nobody = Nobody
  Self = Self
  Uses <- StartedOnly
  MaxNesting = 1
  MaxWaits = 0
  MaxTerminates = 0
SPECIFICATION FairSpec
PROPERTIES CreatedThreadStarts
CHECK_DEADLOCK FALSE
