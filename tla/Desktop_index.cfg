CONSTANTS
  a = a
  b = b
  r1 = r1
  r2 = r2
  plain = plain
  auro = auro
  k1 = k1
  k2 = k2
  None = None
  Endpoints = {a, b}
  Networks = {"mainnet", "testnet", "devnet"}
  BuildNetwork = "testnet"
  Heights = {0, 2}
  MaxLag = 1
  Statements = 2
  Builds = 2
  RemovalFails = FALSE
  Requests = {r1}
  Browsers = {plain, auro}
  Default = plain
  HasAuro = {auro}
  Accounts = {k1, k2}
SPECIFICATION Spec
INVARIANTS
  IndexMatchesConfig
