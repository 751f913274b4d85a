CONSTANTS
  Owners = {1, 2}
  FirstOwners <- MCFirstOwners
  Worlds <- MCWorlds
  PageSize = 2
  None = None
SPECIFICATION FairSpec
CHECK_DEADLOCK FALSE
INVARIANTS
  RebuildFaithful
  IncrementalAgrees
PROPERTIES
  LoadsRecover
