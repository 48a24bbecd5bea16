CONSTANTS
  a = a
  b = b
  k1 = k1
  k2 = k2
  NoKey = NoKey
  Agents = {a, b}
  KeyVals = {k1, k2}
  Env <- MCEnv
  Calls = {c1, c2}
SPECIFICATION FairSpec
INVARIANTS TypeOK StaleIsExplained
PROPERTY AnswersSettle
CHECK_DEADLOCK FALSE
