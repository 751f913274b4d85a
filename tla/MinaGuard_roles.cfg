CONSTANTS
  root = root
  child = child
  rogue = rogue
  alice = alice
  negAlice = negAlice
  bob = bob
  carol = carol
  junk = junk
  empty = empty
  Empty = empty
  Guards <- RolesGuards
  Keys <- MCKeys
  OnCurve <- MCOnCurve
  xOf <- MCxOf
  Proposals <- RolesProposals
  SetupConfigs <- RolesConfigs
  MAX_OWNERS = 2
  EXECUTED_MARKER = 99
  MaxSlot = 0
  MaxBalance = 0
SPECIFICATION Spec
CHECK_DEADLOCK FALSE
INVARIANTS
  TypeOK
  TwoLevelHierarchy
  GovernanceSound
