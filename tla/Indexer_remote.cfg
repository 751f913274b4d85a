CONSTANTS
  va = va
  vb = vb
  nil = nil
  Nothing = nil
  Vaults <- Both
  Fields <- SomeFields
  Deployments <- RemoteBackend
SPECIFICATION Spec
INVARIANT
  RecordedMeansApplied
