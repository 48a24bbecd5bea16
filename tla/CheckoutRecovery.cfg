CONSTANTS
  e1 = e1
  r1 = r1
  r2 = r2
  s1 = s1
  s2 = s2
  s3 = s3
  a1 = a1
  merchant = merchant
  alice = alice
  m1 = m1
  m2 = m2
  None = None
  Events = {e1}
  Edited = {}
  Refs = {r1}
  LegacyRefs = {}
  Sigs = {s1}
  Amounts = {a1}
  Wallets = {alice, merchant}
  Emails = {m1}
  Address <- MCAddress
  Padded = {}
  Tx <- OnceTx
  Price <- MCPrice
  Procs = {p1}
  Ops = {"create", "confirm", "recheck", "detect", "watcher"}
SPECIFICATION FairSpec
PROPERTY ErrorIsRecovered
CHECK_DEADLOCK FALSE
