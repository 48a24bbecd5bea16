CONSTANTS
  e1 = e1
  r1 = r1
  r2 = r2
  s1 = s1
  s2 = s2
  s3 = s3
  a1 = a1
  merchant = merchant
  alice = alice
  m1 = m1
  m2 = m2
  None = None
  Events = {e1}
  Edited = {}
  Refs = {r1, r2}
  LegacyRefs = {}
  Sigs = {s1, s2}
  Amounts = {a1}
  Wallets = {alice, merchant}
  Emails = {m1, m2}
  Address <- MCAddress
  Padded = {m2}
  Tx <- EachTx
  Price <- MCPrice
  Procs = {p1}
  Ops = {"create", "detect"}
  Reqs = {q1, q2}
  VOps = {"create", "cancel", "detect"}
  Keys = {k1, k2}
SPECIFICATION ESpec
CONSTRAINT EitherRule
PROPERTIES SameAnswer OnlyRacesRepeat
SYMMETRY SessionSymmetry
CHECK_DEADLOCK FALSE
