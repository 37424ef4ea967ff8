\* Two stores share one frame; reads and writes may fail.
SPECIFICATION SpecH

CONSTANTS
  f1 = f1
  f2 = f2
  s1 = s1
  s2 = s2
  i1 = i1
  i2 = i2
  t1 = t1
  t2 = t2
  v0 = v0
  v1 = v1
  Garbage = Garbage
  NoFrame = NoFrame
  NoTxn = NoTxn
  Frames = {f1}
  Stores = {s1, s2}
  Txns = {i1, i2, t1, t2}
  StoreOf <- MCStoreOf2
  InitTxn <- MCInitTxn2
  PageIds = {0}
  Values = {v0, v1, Garbage}
  WritesCanFail = TRUE
  ReadsCanFail = TRUE
  MaxPins = 2

SYMMETRY StoreSymmetry
INVARIANT Inv
INVARIANT CommittedWritesAreDurable
PROPERTY IsPageStore
CHECK_DEADLOCK FALSE
