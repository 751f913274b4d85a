CONSTANTS
  va = va
  vb = vb
  nil = nil
  Nothing = nil
  Vaults <- Both
  Fields <- SomeFields
  Deployments <- Backends
SPECIFICATION FairSpec
INVARIANTS
  RowsHaveHeaders
  ConfigFaithful
  RecordedMeansApplied
  NothingSkipped
  OnlySafeIndexed
  DeploysRetried
PROPERTY
  CatchesUp
