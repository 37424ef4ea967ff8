\* Two processes open, create, use and close stores at one path, and crash.
SPECIFICATION Spec

CONSTANTS
  a = a
  b = b
  s1 = s1
  s2 = s2
  s3 = s3
  Pools = {a, b}
  Paths = {f1}
  Stores = {s1, s2, s3}
  PoolOf <- MCPoolOf
  DataPage = DataPage
  MaxPages = 3
  CanFail = TRUE
  kGlobalMagic = 10
  kStoreMagic = 11
  PageShift = 12

INVARIANT HandlesAreOwned
INVARIANT OpenStoresAreRegistered
INVARIANT ExclusiveStoresAreAlone
INVARIANT CreatedStoresAreComplete
INVARIANT Inv
PROPERTY OpensKeepData
