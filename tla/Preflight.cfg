CONSTANTS
  a = a
  b = b
  c = c
  Owners = {a, b, c}
  Actor = a
  Proposer = b
  Uploads = {"propose", "approve"}
  Threshold = 1
  MaxMoves = 1
  MaxFaults = 1
  MaxHosts = 1
  MaxLeaves = 1
  None = None
SPECIFICATION FairSpec
INVARIANTS
  PanelAnswerable
  SentOnceAndKept
  SentAsPrepared
PROPERTIES
  LeavingEnds
