CONSTANTS
  a = a
  b = b
  t1 = t1
  t2 = t2
  t3 = t3
  Signers = {a, b}
  Tx = {t1, t2}
  First = t1
  Proposer = a
  Reports = {r1, r2}
  Threshold = 1
  Tries = 1
  PerProposal = 1
  Total = 2
  SingleWriter = TRUE
  MaxFaults = 1
  None = None
SPECIFICATION FairSpec
CHECK_DEADLOCK FALSE
INVARIANTS
  SlotsMatchChecks
  OnlyRealRecorded
  NoOrphanHash
PROPERTY
  RecordedSettles
