CONSTANTS
  w1 = w1
  q1 = q1
  f1 = f1
  f2 = f2
  None = None
  Refs = {w1, q1}
  QrRefs = {q1}
  Flows = {f1, f2}
  Methods = {"wallet", "qr"}
  MaxChecks = 1
SPECIFICATION BoundedSpec
INVARIANTS TypeOK ShownPaidIsPaid StatusIsOfReference
PROPERTIES QrPaidIsShown BusyEnds
CHECK_DEADLOCK FALSE
