CONSTANTS
  None = None
  Events = {e1, e2}
  MaxAsks = 1
SPECIFICATION Spec
PROPERTY PaidIsKept
CHECK_DEADLOCK FALSE
