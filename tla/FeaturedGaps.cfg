\* PositionsDistinct (INVARIANT), AddAppends and MovesAreOneSlot (PROPERTY) fail
\* with SPECIFICATION Spec and hold with SPECIFICATION SerialSpec.
SPECIFICATION Spec
CONSTANTS
  Titles = {x1, x2, x3}
  Operators = {o1, o2}
  None = None
  MaxEvents = 6
INVARIANTS
  TypeOK
  PositionsDistinct
PROPERTIES
  AddAppends
  MovesAreOneSlot
CHECK_DEADLOCK FALSE
