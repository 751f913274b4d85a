CONSTANTS
  root = root
  child = child
  rogue = rogue
  alice = alice
  negAlice = negAlice
  bob = bob
  carol = carol
  junk = junk
  empty = empty
  Empty = empty
  Guards <- GovGuards
  Keys <- MCKeys
  OnCurve <- MCOnCurve
  xOf <- MCxOf
  Proposals <- GovProposals
  SetupConfigs <- GovConfigs
  MAX_OWNERS = 3
  EXECUTED_MARKER = 99
  MaxSlot = 2
  MaxBalance = 2
SPECIFICATION Spec
CHECK_DEADLOCK FALSE
INVARIANTS
  LiveVotesByOwners
  SafetyInv
PROPERTIES
  ExecutionAuthorised
  ImplementsPolicy
