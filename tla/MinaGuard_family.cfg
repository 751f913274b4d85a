CONSTANTS
  root = root
  child = child
  rogue = rogue
  alice = alice
  negAlice = negAlice
  bob = bob
  carol = carol
  junk = junk
  empty = empty
  Empty = empty
  Guards <- FamGuards
  Keys <- MCKeys
  OnCurve <- MCOnCurve
  xOf <- MCxOf
  Proposals <- FamProposals
  SetupConfigs <- FamConfigs
  MAX_OWNERS = 2
  EXECUTED_MARKER = 99
  MaxSlot = 0
  MaxBalance = 1
SPECIFICATION Spec
CHECK_DEADLOCK FALSE
INVARIANTS
  NonceConsumedOnce
  FrozenChildHasNoLiveProposal
PROPERTIES
  ChildStartsAsPublished
  EffectsOnlyByExecution
  ImplementsPolicy
