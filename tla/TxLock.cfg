CONSTANTS
  a = a
  b = b
  t1 = t1
  t2 = t2
  t3 = t3
  Signers = {a, b}
  Tx = {t1, t2, t3}
  Tabs = {b}
  First = t1
  Proposer = a
  Threshold = 1
  ReportGrace = 0
  ShortTTL = 1
  LongTTL = 3
  ProbeAge = 1
  MaxAge = 1
  None = None
SPECIFICATION FairSpec
CHECK_DEADLOCK FALSE
PROPERTIES
  LockLifts
  CreateSettles
