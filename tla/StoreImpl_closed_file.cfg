\* A failed eviction closes the file that StorePage then reads.
SPECIFICATION Spec

CONSTANTS
  f1 = f1
  f2 = f2
  s1 = s1
  s2 = s2
  i1 = i1
  i2 = i2
  t1 = t1
  t2 = t2
  v0 = v0
  v1 = v1
  Garbage = Garbage
  NoFrame = NoFrame
  NoTxn = NoTxn
  Frames = {f1}
  Stores = {s1}
  Txns = {i1, t1, t2}
  StoreOf <- MCStoreOf1
  InitTxn <- MCInitTxn1
  PageIds = {0, 1}
  Values = {v0, Garbage}
  WritesCanFail = TRUE
  ReadsCanFail = FALSE
  MaxPins = 1

INVARIANT FilesAreOpenWhenUsed
CHECK_DEADLOCK FALSE
