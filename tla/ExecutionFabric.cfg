SPECIFICATION FairSpec
CONSTANTS
  Consumers = {c1, c2}
  Keys = {k1, k2}
  Editor = Editor
  NoKey = NoKey
  NoPermit = NoPermit
  MaxUpsets = 2
INVARIANTS TypeOK
PROPERTIES LedgerSpec AbandonedRecovered
CHECK_DEADLOCK FALSE
