\* Lists of up to three list pages, and a merge.
SPECIFICATION Spec

CONSTANTS
  Pages = {p1, p2, p3, p4, p5, p6, p7}
  kInvalidPageId = kInvalidPageId
  StoreList = StoreList
  TxnLists = {x1}
  PageSize = 32
  kGlobalMagic = 1000
  kStoreMagic = kStoreMagic

SYMMETRY PageSymmetry
INVARIANT TypeOK
INVARIANT NoPageIsFreeTwice
INVARIANT PagesAfterHeadAreFull
INVARIANT TailIsTheLastPage
PROPERTY IsFreePageStack
