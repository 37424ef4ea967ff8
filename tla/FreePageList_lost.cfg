\* A successful merge loses pages.
SPECIFICATION Spec

CONSTANTS
  Pages = {p1, p2, p3, p4, p5}
  kInvalidPageId = kInvalidPageId
  StoreList = StoreList
  TxnLists = {x1}
  PageSize = 32
  kGlobalMagic = 1000
  kStoreMagic = kStoreMagic

SYMMETRY PageSymmetry
INVARIANT ListsHoldTheirPages
