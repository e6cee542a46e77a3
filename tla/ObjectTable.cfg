SPECIFICATION Spec
CONSTANTS
  Threads = {t1, t2, t3}
  Nobody = Nobody
  Names = {event}
  NoName = NoName
  Objects = {o1, o2, o3}
  NoObject = NoObject
  Capacity = 4
  MaxCalls = 3
SYMMETRY Alike
INVARIANTS ReferencesCounted AddedHandleStaysOpen NamesLeadToNamed SomebodyMoves
