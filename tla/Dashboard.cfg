CONSTANTS
  e1 = e1
  e2 = e2
  None = None
  Events = {e1, e2}
  MaxAsks = 1
SPECIFICATION BoundedSpec
INVARIANTS TypeOK FormIsSelected
PROPERTY ButtonsReturn
CHECK_DEADLOCK FALSE
