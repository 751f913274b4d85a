CONSTANTS
  None = None
  MAX_RECEIVERS = 2
  MAX_OWNERS = 2
  Threshold = 2
  Domains = {"testnet", "mainnet"}
  NetworkId = "devnet"
  Fees = {1, 2}
  OFFLINE_MIN_FEE = 1
  OFFLINE_MAX_FEE = 2
  Worlds <- AllWorlds
  Foreign <- AnyField
SPECIFICATION Spec
CHECK_DEADLOCK FALSE
INVARIANTS
  SignedAsShown
  SignedLandsIfUnmoved
  LandedOnItsPage
