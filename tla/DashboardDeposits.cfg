CONSTANTS
  None = None
  Events = {e1, e2}
  MaxAsks = 2
SPECIFICATION Spec
INVARIANT DepositsAreOfSelected
CHECK_DEADLOCK FALSE
