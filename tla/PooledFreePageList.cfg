\* A list with one-entry pages on a pool of one frame, reads may fail.
SPECIFICATION SpecL

CONSTANTS
  f1 = f1
  f2 = f2
  s1 = s1
  i1 = i1
  t1 = t1
  Garbage = Garbage
  NoFrame = NoFrame
  NoTxn = NoTxn
  Frames = {f1}
  Stores = {s1}
  Txns = {i1, t1}
  StoreOf <- MCStoreOf
  InitTxn <- MCInitTxn
  PageIds = {0, 1, 2, 3}
  Values <- MCValues
  WritesCanFail = FALSE
  ReadsCanFail = TRUE
  MaxPins = 2
  TheStore = s1
  PageSize = 24

INVARIANT PinsAreReturned
PROPERTY IsFreePageList
PROPERTY ListCallsReturn
