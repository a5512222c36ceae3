CONSTANTS
  k1 = k1
  k2 = k2
  v1 = v1
  Keys <- MCKeys
  Values <- MCValues
  Registered <- MCRegistered
  N = 2
  Nil = Nil
  Estimate = Estimate
  Root = Root
  None = None
SPECIFICATION Spec
INVARIANTS
  TypeOK
  WritesetPublished
  PublishInv
PROPERTIES
  NoGap
  EstimatesStay
