------------------------- MODULE FreePageListProofs -------------------------
(***************************************************************************)
(* The free page lists keep what Pop, Push and Merge rely on, and each of  *)
(* them is a stack of pages (FreePageStack).                               *)
(***************************************************************************)
EXTENDS FreePageListLemmas

-----------------------------------------------------------------------------
(* Merge *)

\* The list o is merged: the store's list has no other pages than the two lists
\* had, and the other lists' pages stay.
Merges(o) ==
  /\ was_merged' = [was_merged EXCEPT ![o] = TRUE] /\ used' = used
  /\ Range(Contents(StoreList)') \subseteq Range(Contents(StoreList)) \union Range(Contents(o))
  /\ \A k \in LiveLists' \ {StoreList} : Contents(k)' = Contents(k)

\* A merge makes c the chain of the store's list.
LEMMA MergeStep ==
  ASSUME IInv, TypeOK', NEW o \in TxnLists, ~was_merged[o],
         was_merged' = [was_merged EXCEPT ![o] = TRUE],
         UNCHANGED <<head_page_id, tail_page_id, used>>,
         NEW c, IsChain(c, head_page_id[StoreList], next_page_id'),
         Range(c) \subseteq Range(Chain(StoreList)) \union Range(Chain(o)),
         \A p \in Pages \ (Range(Chain(StoreList)) \union Range(Chain(o))) :
           next_page_id'[p] = next_page_id[p] /\ entries'[p] = entries[p],
         \A i \in 1..(Len(c) - 1) : Len(entries'[c[i]]) = EntriesPerPage,
         \A p \in Range(c) : Range(entries'[p]) \subseteq
           Range(Contents(StoreList)) \union Range(Contents(o)),
         NEW P, Once(P, entries', used), Range(c) \subseteq P,
         ListPages \ (Range(Chain(StoreList)) \union Range(Chain(o))) \subseteq P
  PROVE  IInv' /\ Merges(o)
<1> DEFINE l == StoreList
           others == UNION {Range(Chain(k)) : k \in LiveLists' \ {l}}
<1>1. /\ l \in FreeLists /\ o \in FreeLists /\ o # l /\ ~was_merged[l]
      /\ was_merged \in [FreeLists -> BOOLEAN]
  BY ListAssumption, Zenon DEF FreeLists, IInv, ListsAreChains, TypeOK
<1>2. /\ ~was_merged'[l] /\ was_merged'[o]
      /\ \A k \in FreeLists : was_merged[k] => was_merged'[k]
      /\ LiveLists' = LiveLists \ {o} /\ l \in LiveLists /\ o \in LiveLists
  BY <1>1, Zenon DEF LiveLists
<1>3. \A k \in LiveLists' \ {l} : \A p \in Range(Chain(k)) :
        p \in Pages /\ p \notin Range(Chain(l)) /\ p \notin Range(Chain(o)) /\ p \in ListPages
  <2>1. \A k \in LiveLists' \ {l} : k \in LiveLists /\ k # l /\ k # o
    BY <1>2, Zenon
  <2>2. \A k \in LiveLists' \ {l} : Range(Chain(k)) \intersect Range(Chain(l)) = {}
                                   /\ Range(Chain(k)) \intersect Range(Chain(o)) = {}
    BY <1>2, <2>1, Zenon DEF IInv, ListsAreChains
  <2>3. \A k \in LiveLists : Range(Chain(k)) \subseteq Pages
    BY ListPagesArePages, Zenon
  <2> QED BY <2>1, <2>2, <2>3, Zenon DEF ListPages
<1>4. Range(c) \intersect others = {}
  BY <1>3, Zenon
<1>5. /\ ListsAreChains' /\ PagesAfterHeadAreFull' /\ TailIsTheLastPage'
      /\ Contents(l)' = Joined(c, entries')
      /\ \A k \in LiveLists' \ {l} : Contents(k)' = Contents(k)
      /\ ListPages' = Range(c) \union others
  <2>1. IsChain(c, head_page_id'[l], next_page_id')
    BY Zenon
  <2>2. \A k \in LiveLists' \ {l} :
          /\ head_page_id'[k] = head_page_id[k] /\ tail_page_id'[k] = tail_page_id[k]
          /\ \A p \in Range(Chain(k)) :
                next_page_id'[p] = next_page_id[p] /\ entries'[p] = entries[p]
    BY <1>3, Zenon
  <2>3. l \in TxnLists => tail_page_id'[l] = IF c = <<>> THEN kInvalidPageId ELSE c[1]
    BY ListAssumption, Zenon
  <2> QED BY <1>1, <1>2, <1>4, <2>1, <2>2, <2>3, ChainsStep, SMTT(30)
<1>6. Once(ListPages', entries', used')
  <2>1. ListPages' \subseteq P
    BY <1>3, <1>5, Zenon
  <2> QED BY <2>1, OnceOfFewer, Zenon
<1>7. Range(Contents(l)') \subseteq Range(Contents(l)) \union Range(Contents(o))
  <2>1. c \in Seq(Pages) /\ entries' \in [Pages -> Seq(Pages)]
    BY Zenon DEF IsChain, TypeOK
  <2>2. Range(Joined(c, entries')) = Range(c) \union UNION {Range(entries'[p]) : p \in Range(c)}
    BY <2>1, JoinedElements, Zenon
  <2>3. Range(Chain(l)) \subseteq Range(Contents(l)) /\ Range(Chain(o)) \subseteq Range(Contents(o))
    BY <1>1, ContentsElements, Zenon
  <2> QED BY <1>5, <2>2, <2>3
<1> QED BY <1>5, <1>6, <1>7, Zenon DEF IInv, Merges

\* A merge that leaves the store's list as it is.
LEMMA MergeKeepsStep ==
  ASSUME IInv, NEW o \in TxnLists, ~was_merged[o],
         was_merged' = [was_merged EXCEPT ![o] = TRUE],
         UNCHANGED <<head_page_id, tail_page_id, used, entries, free>>,
         next_page_id' \in [Pages -> Pages \union {kInvalidPageId, kStoreMagic}],
         \A p \in Pages \ Range(Chain(o)) : next_page_id'[p] = next_page_id[p],
         status' \in {"kSuccess", "kIoError", "kDataCorrupted"}
  PROVE  IInv' /\ Merges(o)
<1> DEFINE l == StoreList
           c == Chain(l)
<1>1. /\ l \in FreeLists /\ o \in FreeLists /\ o # l /\ ~was_merged[l]
      /\ l \in LiveLists /\ o \in LiveLists
  BY ListAssumption, Zenon DEF FreeLists, IInv, ListsAreChains, LiveLists
<1>2. TypeOK'
  <2>1. was_merged' \in [FreeLists -> BOOLEAN]
    BY <1>1, Zenon DEF IInv, TypeOK
  <2> QED BY <2>1, Zenon DEF IInv, TypeOK, EntriesPerPage
<1>3. IsChain(c, head_page_id[l], next_page_id')
  <2>1. IsChain(c, head_page_id[l], next_page_id)
    BY <1>1, EmptyChain, Zenon
  <2>2. Range(c) \subseteq Pages /\ Range(c) \intersect Range(Chain(o)) = {}
    BY <1>1, ListPagesArePages, Zenon DEF IInv, ListsAreChains
  <2>3. \A p \in Range(c) : next_page_id'[p] = next_page_id[p]
    BY <2>2, Zenon
  <2> QED BY <2>1, <2>3, ChainStays, Zenon
<1>4. \A i \in 1..(Len(c) - 1) : Len(entries'[c[i]]) = EntriesPerPage
  BY <1>1, Zenon DEF IInv, PagesAfterHeadAreFull
<1>5. \A p \in Range(c) : Range(entries'[p]) \subseteq
        Range(Contents(StoreList)) \union Range(Contents(o))
  <2>1. \A p \in Range(c) : Range(entries[p]) \subseteq Range(Contents(l))
    BY <1>1, ContentsElements, Zenon
  <2> QED BY <2>1, Zenon
<1>6. Once(ListPages, entries', used)
  BY Zenon DEF IInv
<1>7. Range(c) \subseteq ListPages
  BY <1>1, Zenon DEF ListPages
<1>8. \A p \in Pages \ (Range(Chain(StoreList)) \union Range(Chain(o))) :
        next_page_id'[p] = next_page_id[p] /\ entries'[p] = entries[p]
  BY Zenon
<1> QED BY <1>2, <1>3, <1>4, <1>5, <1>6, <1>7, <1>8, MergeStep, ZenonT(60)

\* Step 1 changes the link of the other list's last page, or nothing.
LEMMA FullPagesLinks ==
  ASSUME IInv, NEW o \in TxnLists, ~was_merged[o], ~is_empty(o)
  PROVE  LET c == Chain(o)
             F == FullPagesChained(o)
         IN  /\ F \in [Pages -> Pages \union {kInvalidPageId, kStoreMagic}]
             /\ c \in Seq(Pages) /\ c # <<>> /\ c[1] \in Range(c) /\ Range(c) \subseteq Pages
             /\ \A p \in Pages \ {c[1]} : F[p] = next_page_id[p]
             /\ IF Len(c) = 1 THEN F = next_page_id
                ELSE F[c[1]] = NextPageId64(head_page_id[StoreList])
<1> DEFINE c == Chain(o)
           F == FullPagesChained(o)
           x == NextPageId64(head_page_id[StoreList])
<1>1. o \in FreeLists /\ o \in LiveLists /\ StoreList \in FreeLists
  BY Zenon DEF FreeLists, LiveLists
<1>2. c \in Seq(Pages) /\ c # <<>> /\ IsChain(c, head_page_id[o], next_page_id)
  BY <1>1, EmptyChain, Zenon
<1>3. /\ tail_page_id[o] = c[1]
  BY <1>1, Zenon DEF IInv, TailIsTheLastPage
<1>4. TypeOK
  BY Zenon DEF IInv
<1>5. x \in Pages \union {kInvalidPageId, kStoreMagic}
  <2>1. head_page_id[StoreList] \in Pages \union {kInvalidPageId}
    BY <1>1, <1>4, Zenon DEF TypeOK
  <2> QED BY <1>4, <2>1, Zenon DEF NextPageId64, TypeOK
<1> HIDE DEF c, x
<1>6. /\ head_page_id[o] = c[Len(c)] /\ Len(c) \in Nat /\ Len(c) # 0
      /\ c[1] \in Pages /\ c[1] \in Range(c) /\ Range(c) \subseteq Pages
      /\ c[1] = c[Len(c)] => Len(c) = 1
  <2>1. Len(c) \in Nat /\ Len(c) # 0 /\ 1 \in 1..Len(c) /\ Len(c) \in 1..Len(c)
    BY <1>2
  <2>2. c[1] = c[Len(c)] => Len(c) = 1
    <3>1. IsInjective(c) /\ DOMAIN c = 1..Len(c)
      BY <1>2 DEF IsChain
    <3> QED BY <2>1, <3>1, Zenon DEF IsInjective
  <2>3. c[1] \in Pages /\ c[1] \in Range(c) /\ Range(c) \subseteq Pages
    BY <1>2, <2>1 DEF Range
  <2> QED BY <1>2, <2>1, <2>2, <2>3, ZenonT(60) DEF IsChain
<1>7. F = IF Len(c) = 1 THEN next_page_id ELSE [next_page_id EXCEPT ![c[1]] = x]
  BY <1>3, <1>6, Zenon DEF FullPagesChained, x
<1> HIDE DEF F
<1>8. F \in [Pages -> Pages \union {kInvalidPageId, kStoreMagic}]
  BY <1>4, <1>5, <1>6, <1>7, SMTT(30) DEF TypeOK
<1>9. \A p \in Pages \ {c[1]} : F[p] = next_page_id[p]
  BY <1>4, <1>6, <1>7, Zenon DEF TypeOK
<1>10. IF Len(c) = 1 THEN F = next_page_id ELSE F[c[1]] = x
  BY <1>4, <1>6, <1>7, Zenon DEF TypeOK
<1> QED BY <1>2, <1>6, <1>8, <1>9, <1>10, SMTT(30) DEF c, F, x

\* A merge that finds a corrupt offset leaves the store's list alone.
LEMMA MergeIsRefusedStep ==
  ASSUME IInv, NEW o \in TxnLists, ~was_merged[o], ~is_empty(o),
         was_merged' = [was_merged EXCEPT ![o] = TRUE],
         UNCHANGED <<head_page_id, tail_page_id, used, entries, free>>,
         next_page_id' = FullPagesChained(o), status' = "kDataCorrupted"
  PROVE  IInv' /\ Merges(o)
<1>1. /\ next_page_id' \in [Pages -> Pages \union {kInvalidPageId, kStoreMagic}]
      /\ Chain(o)[1] \in Range(Chain(o))
      /\ \A p \in Pages \ {Chain(o)[1]} : next_page_id'[p] = next_page_id[p]
  BY FullPagesLinks, Zenon
<1>2. \A p \in Pages \ Range(Chain(o)) : next_page_id'[p] = next_page_id[p]
  BY <1>1, Zenon
<1> QED BY <1>1, <1>2, MergeKeepsStep, Zenon

\* The heads' offsets are not corrupt: the store's list has a head page, and
\* both heads have room.
LEMMA HeadsHaveRoom ==
  ASSUME IInv, NEW o \in TxnLists, ~was_merged[o], ~is_empty(o),
         ~MergeIsRefused(head_page_id[StoreList], head_page_id[o])
  PROVE  LET h == head_page_id[StoreList]
             g == head_page_id[o]
             a == Len(entries[g])
             b == Len(entries[h])
         IN  /\ ~is_empty(StoreList) /\ h \in Pages /\ g \in Pages /\ g # h
             /\ h \in Range(Chain(StoreList)) /\ g \in Range(Chain(o))
             /\ Range(Chain(StoreList)) \intersect Range(Chain(o)) = {}
             /\ h \in ListPages /\ g \in ListPages
             /\ entries[h] \in Seq(Pages) /\ entries[g] \in Seq(Pages)
             /\ EntriesPerPage \in Nat /\ a \in Nat /\ b \in Nat
             /\ a < EntriesPerPage /\ b < EntriesPerPage
             /\ HeadsFit(h, g) <=> a + b < EntriesPerPage
             /\ (PageSize - NextEntryOffset(g)) \div kEntrySize = EntriesPerPage - a
<1> DEFINE h == head_page_id[StoreList]
           g == head_page_id[o]
           a == Len(entries[g])
           b == Len(entries[h])
<1>1. /\ StoreList \in FreeLists /\ o \in FreeLists /\ o # StoreList /\ ~was_merged[StoreList]
      /\ o \in LiveLists /\ StoreList \in LiveLists /\ TypeOK
  BY ListAssumption, Zenon DEF FreeLists, IInv, ListsAreChains, LiveLists
<1>2. ~is_empty(StoreList)
  BY FormatAssumption, Zenon DEF MergeIsRefused, is_empty, NextEntryOffset, IsCorruptEntryOffset
<1>3. /\ h \in Pages /\ h \in ListPages /\ h \in Range(Chain(StoreList))
      /\ g \in Pages /\ g \in ListPages /\ g \in Range(Chain(o))
  <2>1. h \in Pages /\ h \in ListPages
    BY <1>1, <1>2, HeadPage, Zenon
  <2>2. g \in Pages /\ g \in ListPages
    BY <1>1, HeadPage, Zenon
  <2>3. \E D : Range(Chain(StoreList)) = D \union {h}
    BY <1>1, <1>2, HeadPage, Zenon
  <2>4. \E D : Range(Chain(o)) = D \union {g}
    BY <1>1, HeadPage, Zenon
  <2> QED BY <2>1, <2>2, <2>3, <2>4, SMTT(30)
<1>4. Range(Chain(StoreList)) \intersect Range(Chain(o)) = {}
  BY <1>1, Zenon DEF IInv, ListsAreChains
<1>5. g # h
  BY <1>3, <1>4, Zenon
<1>6. ~IsCorruptEntryOffset(NextEntryOffset(h)) /\ ~IsCorruptEntryOffset(NextEntryOffset(g))
  BY Zenon DEF MergeIsRefused
<1> HIDE DEF h, g
<1>7. /\ EntriesPerPage \in Nat /\ PageSize = 16 + 8 * EntriesPerPage
      /\ entries[h] \in Seq(Pages) /\ b \in Nat /\ NextEntryOffset(h) = 16 + 8 * b
      /\ ~(b >= EntriesPerPage)
  BY <1>1, <1>3, <1>6, Offsets, ZenonT(60)
<1>8. /\ entries[g] \in Seq(Pages) /\ a \in Nat /\ NextEntryOffset(g) = 16 + 8 * a
      /\ ~(a >= EntriesPerPage)
  BY <1>1, <1>3, <1>6, Offsets, ZenonT(60)
<1> HIDE DEF a, b
<1>9. a < EntriesPerPage /\ b < EntriesPerPage
  BY <1>7, <1>8
<1>10. HeadsFit(h, g) <=> a + b < EntriesPerPage
  BY <1>7, <1>8 DEF HeadsFit, kFirstEntryOffset
<1>11. (PageSize - NextEntryOffset(g)) \div kEntrySize = EntriesPerPage - a
  <2>1. PageSize - NextEntryOffset(g) = 8 * (EntriesPerPage - a)
    BY <1>7, <1>8
  <2>2. \A n \in Nat : (8 * n) \div 8 = n
    OBVIOUS
  <2>3. EntriesPerPage - a \in Nat
    BY <1>7, <1>8, SMTT(30)
  <2> QED BY <2>1, <2>2, <2>3, ZenonT(60) DEF kEntrySize
<1> QED BY <1>2, <1>3, <1>4, <1>5, <1>7, <1>8, <1>9, <1>10, <1>11, ZenonT(60) DEF h, g, a, b

\* A merge whose heads fit on one page.
LEMMA JoinHeadsStep ==
  ASSUME IInv, NEW o \in TxnLists, ~was_merged[o], ~is_empty(o),
         was_merged' = [was_merged EXCEPT ![o] = TRUE],
         UNCHANGED <<head_page_id, tail_page_id, used>>,
         ~MergeIsRefused(head_page_id[StoreList], head_page_id[o]),
         HeadsFit(head_page_id[StoreList], head_page_id[o]),
         JoinHeads(head_page_id[StoreList], head_page_id[o], FullPagesChained(o)),
         free' \in [FreeLists -> SUBSET Pages], status' = "kSuccess"
  PROVE  IInv' /\ Merges(o)
<1> DEFINE h == head_page_id[StoreList]
           g == head_page_id[o]
           c == Chain(StoreList)
           q == Chain(o)
           F == FullPagesChained(o)
           s == entries[h] \o <<g>> \o entries[g]
<1>1. /\ StoreList \in FreeLists /\ o \in FreeLists /\ ~was_merged[StoreList]
      /\ StoreList \in LiveLists /\ o \in LiveLists /\ TypeOK
  BY ListAssumption, Zenon DEF FreeLists, IInv, ListsAreChains, LiveLists
<1>2. /\ ~is_empty(StoreList) /\ h \in Pages /\ g \in Pages /\ g # h
      /\ h \in Range(c) /\ g \in Range(q) /\ Range(c) \intersect Range(q) = {}
      /\ h \in ListPages /\ g \in ListPages
      /\ entries[h] \in Seq(Pages) /\ entries[g] \in Seq(Pages)
      /\ EntriesPerPage \in Nat /\ Len(entries[g]) \in Nat /\ Len(entries[h]) \in Nat
      /\ Len(entries[g]) + Len(entries[h]) < EntriesPerPage
  BY HeadsHaveRoom, Zenon
<1>3. /\ F \in [Pages -> Pages \union {kInvalidPageId, kStoreMagic}]
      /\ q[1] \in Range(q) /\ Range(q) \subseteq Pages
      /\ \A p \in Pages \ {q[1]} : F[p] = next_page_id[p]
  BY FullPagesLinks, Zenon
<1>4. /\ entries' = [entries EXCEPT ![h] = @ \o <<g>> \o entries[g], ![g] = <<>>]
      /\ next_page_id' = [F EXCEPT ![g] = kInvalidPageId]
  BY Zenon DEF JoinHeads
<1> HIDE DEF h, g, c, q, F
<1>5. /\ entries'[h] = s /\ entries'[g] = <<>>
      /\ \A p \in Pages \ {g, h} : entries'[p] = entries[p]
  BY <1>1, <1>2, <1>4, ZenonT(60) DEF TypeOK
<1>6. \A p \in Pages \ Range(q) : next_page_id'[p] = next_page_id[p]
  BY <1>2, <1>3, <1>4, ZenonT(60)
<1>7. /\ Once(ListPages, entries, used) /\ IsInjective(entries[h]) /\ IsInjective(entries[g])
      /\ g \notin Range(entries[h]) /\ g \notin Range(entries[g])
      /\ Range(entries[h]) \intersect Range(entries[g]) = {}
  BY <1>2, Zenon DEF IInv, Once
<1>8. /\ s \in Seq(Pages) /\ Range(s) = Range(entries[h]) \union {g} \union Range(entries[g])
      /\ IsInjective(s)
  <2> DEFINE x == entries[h]
             y == entries[g]
  <2>1. /\ x \in Seq(Pages) /\ y \in Seq(Pages) /\ g \in Pages
        /\ IsInjective(x) /\ IsInjective(y)
        /\ g \notin Range(x) /\ g \notin Range(y) /\ Range(x) \intersect Range(y) = {}
    BY <1>2, <1>7, ZenonT(60)
  <2> HIDE DEF x, y
  <2>2. /\ x \o <<g>> \o y \in Seq(Pages)
        /\ Range(x \o <<g>> \o y) = Range(x) \union {g} \union Range(y)
        /\ IsInjective(x \o <<g>> \o y)
    BY <2>1, ConcatProperties
  <2> QED BY <2>2, Zenon DEF x, y
<1>9. Len(s) <= EntriesPerPage
  <2>1. Len(s) = Len(entries[h]) + 1 + Len(entries[g])
    BY <1>2
  <2> DEFINE a == Len(entries[g])
             b == Len(entries[h])
             n == EntriesPerPage
  <2>2. a \in Nat /\ b \in Nat /\ n \in Nat /\ a + b < n
    BY <1>2, Zenon
  <2> HIDE DEF s, a, b, n
  <2>3. b + 1 + a <= n
    BY <2>2
  <2> QED BY <2>1, <2>3, ZenonT(60) DEF a, b, n
<1> HIDE DEF s
<1>10. TypeOK'
  <2>1. <<>> \in Seq(Pages) /\ Len(<<>>) = 0
    OBVIOUS
  <2>2. \A p \in Pages : entries'[p] \in Seq(Pages) /\ Len(entries'[p]) <= EntriesPerPage
    <3>1. \A p \in Pages : entries[p] \in Seq(Pages) /\ Len(entries[p]) <= EntriesPerPage
      BY <1>1, Zenon DEF TypeOK
    <3>2. entries'[h] \in Seq(Pages) /\ Len(entries'[h]) <= EntriesPerPage
      BY <1>5, <1>8, <1>9, ZenonT(60)
    <3>3. entries'[g] \in Seq(Pages) /\ Len(entries'[g]) <= EntriesPerPage
      BY <1>2, <1>5, <2>1, SMTT(30)
    <3> QED BY <1>5, <3>1, <3>2, <3>3, ZenonT(60)
  <2>3. entries' \in [Pages -> Seq(Pages)]
    <3>1. entries' = [p \in Pages |-> entries'[p]]
      BY <1>1, <1>4, ZenonT(60) DEF TypeOK
    <3> QED BY <2>2, <3>1, ZenonT(60)
  <2>4. next_page_id' \in [Pages -> Pages \union {kInvalidPageId, kStoreMagic}]
    BY <1>3, <1>4, ZenonT(60)
  <2>5. was_merged' \in [FreeLists -> BOOLEAN]
    BY <1>1, Zenon DEF TypeOK
  <2> QED BY <1>1, <2>2, <2>3, <2>4, <2>5, ZenonT(60) DEF TypeOK, EntriesPerPage
<1>11. IsChain(c, h, next_page_id')
  <2>1. IsChain(c, h, next_page_id)
    BY <1>1, EmptyChain, Zenon DEF c, h
  <2>2. Range(c) \subseteq Pages
    BY <1>1, ListPagesArePages, Zenon DEF c
  <2>3. \A p \in Range(c) : next_page_id'[p] = next_page_id[p]
    BY <1>2, <1>6, <2>2, ZenonT(60)
  <2> QED BY <2>1, <2>3, ChainStays, ZenonT(60)
<1>12. \A i \in 1..(Len(c) - 1) : Len(entries'[c[i]]) = EntriesPerPage
  <2>1. \A i \in 1..(Len(c) - 1) : Len(entries[c[i]]) = EntriesPerPage
    BY <1>1, Zenon DEF IInv, PagesAfterHeadAreFull, c
  <2>2. c \in Seq(Pages) /\ IsInjective(c) /\ h = c[Len(c)] /\ Len(c) \in Nat
    BY <1>2, <1>11, SMTT(30) DEF IsChain, Range
  <2>3. \A i \in 1..(Len(c) - 1) : c[i] \in Pages /\ c[i] # h /\ c[i] \in Range(c)
    BY <2>2 DEF IsInjective, Range
  <2>4. \A i \in 1..(Len(c) - 1) : c[i] # g
    BY <1>2, <2>3, Zenon
  <2> QED BY <1>5, <2>1, <2>3, <2>4, ZenonT(60)
<1>13. Once(ListPages \ {g}, entries', used)
  <2>1. \A p \in ListPages \ {g, h} : entries'[p] = entries[p]
    BY <1>5, ListPagesArePages, Zenon
  <2>2. /\ IsInjective(entries'[h])
        /\ Range(entries'[h]) = Range(entries[h]) \union {g} \union Range(entries[g])
    BY <1>5, <1>8, Zenon
  <2> QED BY <1>2, <1>7, <2>1, <2>2, OnceJoinHeads, ZenonT(60)
<1>14. /\ Range(c) \subseteq ListPages \ {g}
       /\ ListPages \ (Range(c) \union Range(q)) \subseteq ListPages \ {g}
  <2>1. Range(c) \subseteq ListPages
    BY <1>1, Zenon DEF ListPages, c
  <2> QED BY <1>2, <2>1, Zenon
<1>15. \A p \in Range(c) : Range(entries'[p]) \subseteq
         Range(Contents(StoreList)) \union Range(Contents(o))
  <2>1. \A p \in Range(c) : Range(entries[p]) \subseteq Range(Contents(StoreList))
    BY <1>1, ContentsElements, Zenon DEF c
  <2>2. Range(entries[g]) \subseteq Range(Contents(o)) /\ g \in Range(Contents(o))
    BY <1>1, <1>2, ContentsElements, ZenonT(60) DEF q
  <2>3. \A p \in Range(c) \ {h} : entries'[p] = entries[p]
    <3>1. Range(c) \subseteq Pages
      BY <1>1, ListPagesArePages, Zenon DEF c
    <3> QED BY <1>2, <1>5, <3>1, SMTT(30)
  <2>4. Range(entries'[h]) \subseteq Range(Contents(StoreList)) \union Range(Contents(o))
    BY <1>2, <1>5, <1>8, <2>1, <2>2, SMTT(30)
  <2> QED BY <2>1, <2>3, <2>4, ZenonT(60)
<1>16. \A p \in Pages \ (Range(c) \union Range(q)) :
         next_page_id'[p] = next_page_id[p] /\ entries'[p] = entries[p]
  BY <1>2, <1>5, <1>6, ZenonT(60)
<1>17. Range(c) \subseteq Range(c) \union Range(q)
  BY ZenonT(60)
<1> QED BY <1>10, <1>11, <1>12, <1>13, <1>14, <1>15, <1>16, <1>17, MergeStep, ZenonT(60) DEF c, q, h

\* The chain of the store's list after the other head page was filled up: the
\* store's full pages follow the other list's, if that has full pages.
LEMMA FilledChain ==
  ASSUME IInv, NEW o \in TxnLists, ~was_merged[o], ~is_empty(o),
         ~MergeIsRefused(head_page_id[StoreList], head_page_id[o]),
         next_page_id' = [FullPagesChained(o) EXCEPT ![head_page_id[StoreList]] = head_page_id[o]]
  PROVE  LET h == head_page_id[StoreList]
             d == SubSeq(Chain(StoreList), 1, Len(Chain(StoreList)) - 1)
             w == IF Len(Chain(o)) = 1 THEN Chain(o) ELSE d \o Chain(o)
         IN  /\ IsChain(Append(w, h), h, next_page_id')
             /\ w \in Seq(Pages) /\ Len(Append(w, h)) = Len(w) + 1
             /\ \A i \in 1..Len(w) : Append(w, h)[i] = w[i] /\ w[i] \in Range(w)
             /\ Range(Append(w, h)) = Range(w) \union {h} /\ h \notin Range(w)
             /\ Range(w) \subseteq Range(Chain(StoreList)) \union Range(Chain(o))
             /\ next_page_id' \in [Pages -> Pages \union {kInvalidPageId, kStoreMagic}]
             /\ \A p \in Pages \ (Range(Chain(StoreList)) \union Range(Chain(o))) :
                  next_page_id'[p] = next_page_id[p]
<1> DEFINE h == head_page_id[StoreList]
           g == head_page_id[o]
           c == Chain(StoreList)
           d == SubSeq(c, 1, Len(c) - 1)
           q == Chain(o)
           F == FullPagesChained(o)
           w == IF Len(q) = 1 THEN q ELSE d \o q
<1>1. /\ StoreList \in FreeLists /\ o \in FreeLists /\ ~was_merged[StoreList] /\ TypeOK
  BY ListAssumption, Zenon DEF FreeLists, IInv, ListsAreChains
<1>2. /\ ~is_empty(StoreList) /\ h \in Pages /\ g \in Pages /\ g # h
      /\ h \in Range(c) /\ g \in Range(q) /\ Range(c) \intersect Range(q) = {}
  BY HeadsHaveRoom, Zenon
<1>3. /\ F \in [Pages -> Pages \union {kInvalidPageId, kStoreMagic}]
      /\ q \in Seq(Pages) /\ q # <<>> /\ q[1] \in Range(q) /\ Range(q) \subseteq Pages
      /\ \A p \in Pages \ {q[1]} : F[p] = next_page_id[p]
      /\ IF Len(q) = 1 THEN F = next_page_id ELSE F[q[1]] = NextPageId64(h)
  BY FullPagesLinks, Zenon
<1>4. NextPageId64(h) = next_page_id[h]
  BY <1>2, ListAssumption, Zenon DEF NextPageId64
<1>5. /\ h \notin Range(d) /\ d \in Seq(Pages) /\ Range(c) = Range(d) \union {h}
      /\ IsChain(d, next_page_id[h], next_page_id)
  BY <1>1, <1>2, HeadPage, ZenonT(60)
<1>6. IsChain(q, g, next_page_id)
  BY <1>1, EmptyChain, ZenonT(60)
<1>7. next_page_id' = [F EXCEPT ![h] = g]
  BY Zenon
<1> HIDE DEF h, g, c, d, q, F
<1>8. /\ next_page_id' \in [Pages -> Pages \union {kInvalidPageId, kStoreMagic}]
      /\ next_page_id'[h] = g
      /\ \A p \in Pages \ {h} : next_page_id'[p] = F[p]
  BY <1>2, <1>3, <1>7, ZenonT(60)
<1>9. \A p \in Pages \ {h, q[1]} : next_page_id'[p] = next_page_id[p]
  BY <1>3, <1>8, Zenon
<1>10. Range(d) \subseteq Pages /\ h \notin Range(q) /\ Range(d) \intersect Range(q) = {}
       /\ q[1] # h /\ q[1] \in Pages
  <2>1. Range(d) \subseteq Pages
    BY <1>5 DEF Range
  <2> QED BY <1>2, <1>3, <1>5, <2>1, ZenonT(60)
<1>11. IsChain(w, g, next_page_id') /\ Range(w) \subseteq Range(d) \union Range(q) /\ w \in Seq(Pages)
  <2>1. CASE Len(q) = 1
    <3>1. \A p \in Range(q) : next_page_id'[p] = next_page_id[p]
      BY <1>3, <1>8, <1>10, <2>1, SMTT(30)
    <3>2. IsChain(q, g, next_page_id')
      BY <1>6, <3>1, ChainStays, ZenonT(60)
    <3> QED BY <1>3, <2>1, <3>2, ZenonT(60)
  <2>2. CASE Len(q) # 1
    <3>1. next_page_id'[q[1]] = next_page_id[h]
      BY <1>3, <1>4, <1>8, <1>10, <2>2, SMTT(30)
    <3>2. \A p \in (Range(d) \union Range(q)) \ {q[1]} : next_page_id'[p] = next_page_id[p]
      BY <1>3, <1>5, <1>9, <1>10, SMTT(30)
    <3>3. IsChain(d \o q, g, next_page_id')
      <4> DEFINE n == next_page_id[h]
                 new == next_page_id'
      <4>1. IsChain(d, n, next_page_id)
        BY <1>5, Zenon
      <4>2. q # <<>> /\ Range(d) \intersect Range(q) = {}
        BY <1>3, <1>10, ZenonT(60)
      <4>3. new[q[1]] = n
        BY <3>1, Zenon
      <4>4. \A p \in (Range(d) \union Range(q)) \ {q[1]} : new[p] = next_page_id[p]
        BY <3>2, Zenon
      <4> HIDE DEF n, new
      <4>5. IsChain(d \o q, g, new)
        BY <1>6, <4>1, <4>2, <4>3, <4>4, ChainConcat, ZenonT(60)
      <4> QED BY <4>5, Zenon DEF new
    <3>4. Range(d \o q) = Range(d) \union Range(q) /\ d \o q \in Seq(Pages)
      BY <1>3, <1>5, ConcatElements, SMTT(30)
    <3> QED BY <2>2, <3>3, <3>4, ZenonT(60)
  <2> QED BY <2>1, <2>2, Zenon
<1> HIDE DEF w
<1>12. h \notin Range(w) /\ Range(w) \subseteq Range(c) \union Range(q)
  BY <1>5, <1>10, <1>11, ZenonT(60)
<1>13. IsChain(Append(w, h), h, next_page_id')
  BY <1>2, <1>8, <1>11, <1>12, ChainPush, ZenonT(60)
<1>14. Len(Append(w, h)) = Len(w) + 1 /\ Range(Append(w, h)) = Range(w) \union {h}
  BY <1>2, <1>11, AppendElements, SMTT(30)
<1>15. \A i \in 1..Len(w) : Append(w, h)[i] = w[i] /\ w[i] \in Range(w)
  BY <1>2, <1>11, SMTT(30) DEF Range
<1>16. \A p \in Pages \ (Range(c) \union Range(q)) : next_page_id'[p] = next_page_id[p]
  BY <1>2, <1>3, <1>9, ZenonT(60)
<1> QED BY <1>8, <1>11, <1>12, <1>13, <1>14, <1>15, <1>16, SMTT(30) DEF h, c, d, q, w

\* A merge that fills up the other head from the store's.
LEMMA FillOtherHeadStep ==
  ASSUME IInv, NEW o \in TxnLists, ~was_merged[o], ~is_empty(o),
         was_merged' = [was_merged EXCEPT ![o] = TRUE],
         UNCHANGED <<head_page_id, tail_page_id, used>>,
         ~MergeIsRefused(head_page_id[StoreList], head_page_id[o]),
         ~HeadsFit(head_page_id[StoreList], head_page_id[o]),
         FillOtherHead(head_page_id[StoreList], head_page_id[o], FullPagesChained(o)),
         free' \in [FreeLists -> SUBSET Pages], status' = "kSuccess"
  PROVE  IInv' /\ Merges(o)
<1> DEFINE h == head_page_id[StoreList]
           g == head_page_id[o]
           c == Chain(StoreList)
           q == Chain(o)
           d == SubSeq(c, 1, Len(c) - 1)
           w == IF Len(q) = 1 THEN q ELSE d \o q
           r == Append(w, h)
           x == entries[h]
           y == entries[g]
           kept == Len(x) - (EntriesPerPage - Len(y))
           left == SubSeq(x, 1, kept)
           all == y \o SubSeq(x, kept + 1, Len(x))
<1>1. /\ StoreList \in FreeLists /\ o \in FreeLists /\ ~was_merged[StoreList]
      /\ StoreList \in LiveLists /\ o \in LiveLists /\ TypeOK
  BY ListAssumption, Zenon DEF FreeLists, IInv, ListsAreChains, LiveLists
<1>2. /\ h \in Pages /\ g \in Pages /\ g # h
      /\ h \in Range(c) /\ g \in Range(q) /\ Range(c) \intersect Range(q) = {}
      /\ h \in ListPages /\ g \in ListPages
      /\ x \in Seq(Pages) /\ y \in Seq(Pages)
      /\ EntriesPerPage \in Nat /\ Len(y) < EntriesPerPage /\ Len(x) < EntriesPerPage
      /\ ~(Len(y) + Len(x) < EntriesPerPage)
      /\ (PageSize - NextEntryOffset(g)) \div kEntrySize = EntriesPerPage - Len(y)
  BY HeadsHaveRoom, Zenon
<1>3. /\ entries' = [entries EXCEPT ![h] = SubSeq(@, 1, kept),
                                   ![g] = @ \o SubSeq(x, kept + 1, Len(x))]
      /\ next_page_id' = [FullPagesChained(o) EXCEPT ![h] = g]
  BY <1>2, Zenon DEF FillOtherHead
<1>4. /\ IsChain(r, h, next_page_id')
      /\ w \in Seq(Pages) /\ Len(r) = Len(w) + 1
      /\ \A i \in 1..Len(w) : r[i] = w[i] /\ w[i] \in Range(w)
      /\ Range(r) = Range(w) \union {h} /\ h \notin Range(w)
      /\ Range(w) \subseteq Range(c) \union Range(q)
      /\ next_page_id' \in [Pages -> Pages \union {kInvalidPageId, kStoreMagic}]
      /\ \A p \in Pages \ (Range(c) \union Range(q)) : next_page_id'[p] = next_page_id[p]
  BY <1>3, FilledChain, Zenon
<1> HIDE DEF h, g, c, q, d, w, r, kept
<1>5. /\ entries'[h] = left /\ entries'[g] = all
      /\ \A p \in Pages \ {g, h} : entries'[p] = entries[p]
  BY <1>1, <1>2, <1>3, ZenonT(60) DEF TypeOK
<1>6. /\ Once(ListPages, entries, used) /\ IsInjective(x) /\ IsInjective(y)
      /\ Range(x) \intersect Range(y) = {}
  BY <1>2, Zenon DEF IInv, Once
<1>7. DOMAIN entries' = Pages /\ entries' = [p \in Pages |-> entries'[p]]
  BY <1>1, <1>3, ZenonT(60) DEF TypeOK
<1> HIDE DEF x, y
<1>9. /\ left \in Seq(Pages) /\ Len(left) <= Len(x) /\ all \in Seq(Pages)
      /\ Len(all) = EntriesPerPage
      /\ Range(left) \union Range(all) = Range(x) \union Range(y)
      /\ IsInjective(left) /\ IsInjective(all) /\ Range(left) \intersect Range(all) = {}
  <2>1. /\ x \in Seq(Pages) /\ y \in Seq(Pages) /\ EntriesPerPage \in Nat
        /\ Len(y) <= EntriesPerPage /\ ~(Len(y) + Len(x) < EntriesPerPage)
    BY <1>2
  <2> QED BY <1>6, <2>1, SplitEntries, SMTT(60) DEF kept
<1> HIDE DEF left, all
<1>10. \A p \in Pages : entries'[p] \in Seq(Pages) /\ Len(entries'[p]) <= EntriesPerPage
  <2>1. \A p \in Pages : entries[p] \in Seq(Pages) /\ Len(entries[p]) <= EntriesPerPage
    BY <1>1, Zenon DEF TypeOK
  <2>2. Len(left) <= EntriesPerPage /\ Len(all) <= EntriesPerPage
    BY <1>2, <1>9, SMTT(30)
  <2> QED BY <1>5, <1>9, <2>1, <2>2, ZenonT(60)
<1>11. TypeOK'
  <2>1. entries' \in [Pages -> Seq(Pages)]
    BY <1>7, <1>10, Zenon
  <2>2. was_merged' \in [FreeLists -> BOOLEAN]
    BY <1>1, ZenonT(60) DEF TypeOK
  <2> QED BY <1>1, <1>4, <1>10, <2>1, <2>2, ZenonT(60) DEF TypeOK, EntriesPerPage
<1>12. Range(w) \subseteq Pages /\ Range(w) \subseteq ListPages /\ Range(r) \subseteq ListPages
  <2>1. Range(w) \subseteq Pages
    BY <1>4 DEF Range
  <2>2. Range(c) \subseteq ListPages /\ Range(q) \subseteq ListPages
    BY <1>1, Zenon DEF ListPages, c, q
  <2> QED BY <1>2, <1>4, <2>1, <2>2, SMTT(30)
<1>13. \A i \in 1..(Len(r) - 1) : Len(entries'[r[i]]) = EntriesPerPage
  <2>1. ASSUME NEW p \in Range(w) PROVE Len(entries'[p]) = EntriesPerPage
    <3>1. CASE p = g
      BY <1>5, <1>9, <3>1, ZenonT(60)
    <3>2. CASE p # g
      <4>1. p # h /\ p \in Pages /\ (p \in Range(c) \/ p \in Range(q))
        BY <1>4, <1>12, ZenonT(60)
      <4>2. Len(entries[p]) = EntriesPerPage
        BY <1>1, <3>2, <4>1, FullPages, ZenonT(60) DEF c, q, g, h
      <4> QED BY <1>5, <3>2, <4>1, <4>2, ZenonT(60)
    <3> QED BY <3>1, <3>2, ZenonT(60)
  <2>2. Len(r) - 1 = Len(w)
    BY <1>4
  <2> QED BY <1>4, <2>1, <2>2, ZenonT(60)
<1>14. Once(ListPages, entries', used)
  <2>1. \A p \in ListPages \ {g, h} : entries'[p] = entries[p]
    BY <1>5, ListPagesArePages, ZenonT(60)
  <2>2. /\ IsInjective(entries'[h]) /\ IsInjective(entries'[g])
        /\ Range(entries'[h]) \intersect Range(entries'[g]) = {}
        /\ Range(entries'[h]) \union Range(entries'[g]) = Range(entries[h]) \union Range(entries[g])
    BY <1>5, <1>9, ZenonT(60) DEF x, y
  <2> QED BY <1>2, <1>6, <2>1, <2>2, OnceFillOtherHead, ZenonT(60)
<1>15. \A p \in Range(r) : Range(entries'[p]) \subseteq
         Range(Contents(StoreList)) \union Range(Contents(o))
  <2> DEFINE both == Range(Contents(StoreList)) \union Range(Contents(o))
  <2>1. \A p \in Range(c) \union Range(q) : Range(entries[p]) \subseteq both
    <3>1. \A p \in Range(c) : Range(entries[p]) \subseteq Range(Contents(StoreList))
      BY <1>1, ContentsElements, ZenonT(60) DEF c
    <3>2. \A p \in Range(q) : Range(entries[p]) \subseteq Range(Contents(o))
      BY <1>1, ContentsElements, ZenonT(60) DEF q
    <3> QED BY <3>1, <3>2, ZenonT(60)
  <2> HIDE DEF both
  <2>2. Range(x) \subseteq both /\ Range(y) \subseteq both
    BY <1>2, <2>1, ZenonT(60) DEF x, y
  <2>3. Range(entries'[h]) \subseteq both /\ Range(entries'[g]) \subseteq both
    BY <1>5, <1>9, <2>2, SMTT(30)
  <2>4. \A p \in Range(r) \ {g, h} : entries'[p] = entries[p] /\ p \in Range(c) \union Range(q)
    BY <1>4, <1>5, <1>12, ZenonT(60)
  <2>5. \A p \in Range(r) : Range(entries'[p]) \subseteq both
    BY <2>1, <2>3, <2>4, ZenonT(60)
  <2> QED BY <2>5, Zenon DEF both
<1>16. \A p \in Pages \ (Range(c) \union Range(q)) :
         next_page_id'[p] = next_page_id[p] /\ entries'[p] = entries[p]
  BY <1>2, <1>4, <1>5, Zenon
<1>17. Range(r) \subseteq Range(c) \union Range(q)
  BY <1>2, <1>4, Zenon
<1>18. ListPages \ (Range(c) \union Range(q)) \subseteq ListPages
  BY Zenon
<1> QED BY <1>4, <1>11, <1>12, <1>13, <1>14, <1>15, <1>16, <1>17, <1>18, MergeStep, ZenonT(60) DEF c, q, h

\* Every way through FreePageList::Merge keeps the invariant and merges.
LEMMA MergeIsStep ==
  ASSUME IInv, NEW o \in TxnLists, Merge(o)
  PROVE  ~was_merged[o] /\ IInv' /\ Merges(o)
<1>1. /\ ~was_merged[o] /\ was_merged' = [was_merged EXCEPT ![o] = TRUE]
      /\ UNCHANGED <<head_page_id, tail_page_id, used>>
  BY Zenon DEF Merge
<1>2. CASE status' \in {"kSuccess", "kIoError"} /\ UNCHANGED <<next_page_id, entries, free>>
  <2>1. /\ next_page_id' \in [Pages -> Pages \union {kInvalidPageId, kStoreMagic}]
    BY <1>2, Zenon DEF IInv, TypeOK
  <2> QED BY <1>1, <1>2, <2>1, MergeKeepsStep, ZenonT(60)
<1>3. CASE MergePages(o)
  <2> DEFINE h == head_page_id[StoreList]
             g == head_page_id[o]
  <2>1. CASE /\ ~is_empty(o) /\ next_page_id' = FullPagesChained(o)
             /\ status' = "kDataCorrupted" /\ UNCHANGED <<entries, free>>
    BY <1>1, <2>1, MergeIsRefusedStep, ZenonT(60)
  <2>2. CASE /\ ~is_empty(o) /\ ~MergeIsRefused(h, g)
             /\ IF HeadsFit(h, g) THEN JoinHeads(h, g, FullPagesChained(o))
                ELSE FillOtherHead(h, g, FullPagesChained(o))
             /\ free' = [free EXCEPT ![StoreList] = @ \union free[o]]
             /\ status' = "kSuccess"
    <3>1. free' \in [FreeLists -> SUBSET Pages]
      <4>1. free \in [FreeLists -> SUBSET Pages] /\ StoreList \in FreeLists /\ o \in FreeLists
        BY Zenon DEF IInv, TypeOK, FreeLists
      <4> QED BY <2>2, <4>1, Zenon
    <3>2. CASE HeadsFit(h, g)
      BY <1>1, <2>2, <3>1, <3>2, JoinHeadsStep, ZenonT(60)
    <3>3. CASE ~HeadsFit(h, g)
      BY <1>1, <2>2, <3>1, <3>3, FillOtherHeadStep, ZenonT(60)
    <3> QED BY <3>2, <3>3, Zenon
  <2> QED BY <1>3, <2>1, <2>2, Zenon DEF MergePages
<1> QED BY <1>1, <1>2, <1>3, ZenonT(60) DEF Merge

-----------------------------------------------------------------------------
(* The steps together *)

\* A call that failed, or an empty list's Pop.
Stays ==
  /\ was_merged' = was_merged /\ used' = used
  /\ \A l \in LiveLists' : Contents(l)' = Contents(l)

\* A call that fails keeps the invariant and what the lists hold.
LEMMA StaysStep ==
  ASSUME IInv, UNCHANGED <<listVars, next_page_id, entries, used, free>>,
         status' \in {"kSuccess", "kIoError", "kDataCorrupted"}
  PROVE  IInv' /\ Stays
<1>1. UNCHANGED <<head_page_id, tail_page_id, was_merged, next_page_id, entries, used, free>>
  BY Zenon DEF listVars
<1>2. TypeOK'
  BY <1>1, Zenon DEF IInv, TypeOK, EntriesPerPage
<1>3. ChainFrom' = ChainFrom
  BY <1>1 DEF ChainFrom
<1>4. \A l : Chain(l)' = Chain(l)
  BY <1>1, <1>3, Zenon DEF Chain
<1>5. \A l : Contents(l)' = Contents(l)
  BY <1>1, <1>4, ZenonT(60) DEF Contents, WithEntries
<1>6. LiveLists' = LiveLists
  BY <1>1, Zenon DEF LiveLists
<1>7. ListPages' = ListPages
  BY <1>4, <1>6, Zenon DEF ListPages
<1>8. ListsAreChains'
  BY <1>1, <1>4, <1>6, SMTT(30) DEF IInv, ListsAreChains
<1>9. Once(ListPages', entries', used')
  BY <1>1, <1>7, Zenon DEF IInv
<1>10. PagesAfterHeadAreFull'
  BY <1>1, <1>4, <1>6, SMTT(30) DEF IInv, PagesAfterHeadAreFull, EntriesPerPage
<1>11. TailIsTheLastPage'
  BY <1>1, <1>4, <1>6, ZenonT(60) DEF IInv, TailIsTheLastPage, is_empty
<1> QED BY <1>1, <1>2, <1>5, <1>8, <1>9, <1>10, <1>11, SMTT(30) DEF IInv, Stays

\* Every step keeps the invariant and does one of four things to the lists.
LEMMA NextStep ==
  ASSUME IInv, [Next]_vars
  PROVE  /\ IInv'
         /\ \/ Stays
            \/ \E l \in LiveLists : TakesLast(l)
            \/ \E l \in LiveLists, p \in used : PutsLast(l, p)
            \/ \E o \in TxnLists : ~was_merged[o] /\ Merges(o)
<1>1. CASE UNCHANGED vars
  <2>1. status' \in {"kSuccess", "kIoError", "kDataCorrupted"}
    BY <1>1, Zenon DEF vars, IInv, TypeOK
  <2>2. UNCHANGED <<listVars, next_page_id, entries, used, free>>
    BY <1>1, Zenon DEF vars
  <2> QED BY <2>1, <2>2, StaysStep, ZenonT(60)
<1>2. ASSUME StorePageFails \/ PopNothing
      PROVE  IInv' /\ Stays
  <2>1. status' \in {"kSuccess", "kIoError", "kDataCorrupted"}
    BY <1>2, Zenon DEF StorePageFails, PopNothing
  <2>2. UNCHANGED <<listVars, next_page_id, entries, used, free>>
    BY <1>2, Zenon DEF StorePageFails, PopNothing
  <2> QED BY <2>1, <2>2, StaysStep, ZenonT(60)
<1>3. ASSUME NEW l \in FreeLists, Pop(l)
      PROVE  IInv' /\ (Stays \/ \E k \in LiveLists : TakesLast(k))
  <2>1. ~was_merged[l] /\ l \in LiveLists
    BY <1>3, Zenon DEF Pop, LiveLists
  <2>2. CASE PopEntry(l)
    BY <2>1, <2>2, PopEntryStep, ZenonT(60)
  <2>3. CASE PopPage(l)
    BY <2>1, <2>3, PopPageStep, ZenonT(60)
  <2>4. CASE StorePageFails \/ PopNothing
    BY <1>2, <2>4, ZenonT(60)
  <2> QED BY <1>3, <2>2, <2>3, <2>4, ZenonT(60) DEF Pop
<1>4. ASSUME NEW l \in FreeLists, NEW p \in Pages, Push(l, p)
      PROVE  IInv' /\ (Stays \/ \E k \in LiveLists, x \in used : PutsLast(k, x))
  <2>1. ~was_merged[l] /\ l \in LiveLists /\ p \in used
    BY <1>4, Zenon DEF Push, LiveLists
  <2>2. CASE PushEntry(l, p)
    BY <2>1, <2>2, PushEntryStep, Zenon
  <2>3. CASE PushPage(l, p)
    BY <2>1, <2>3, PushPageStep, ZenonT(60)
  <2>4. CASE StorePageFails
    BY <1>2, <2>4, ZenonT(60)
  <2> QED BY <1>4, <2>2, <2>3, <2>4, ZenonT(60) DEF Push
<1>5. ASSUME NEW o \in TxnLists, Merge(o)
      PROVE  IInv' /\ ~was_merged[o] /\ Merges(o)
  BY <1>5, MergeIsStep, ZenonT(60)
<1> QED BY <1>1, <1>3, <1>4, <1>5, ZenonT(60) DEF Next

\* The invariant holds at first, and the lists are empty.
LEMMA InitIInv == Init => IInv /\ \A l \in FreeLists : Contents(l) = <<>>
<1> SUFFICES ASSUME Init PROVE IInv /\ \A l \in FreeLists : Contents(l) = <<>>
  BY Zenon
<1>1. <<>> \in Seq(Pages) /\ Len(<<>>) = 0 /\ IsInjective(<<>>) /\ Range(<<>>) = {}
  BY DEF IsInjective, Range
<1>2. EntriesPerPage \in Nat
  BY FormatAssumption DEF EntriesPerPage, kFirstEntryOffset, kEntrySize
<1>3. TypeOK
  <2>1. \A p \in Pages : Len(entries[p]) <= EntriesPerPage
    BY <1>1, <1>2, SMTT(30) DEF Init
  <2> QED BY <1>1, <2>1, ZenonT(60) DEF Init, TypeOK
<1>4. \A l \in FreeLists : IsChain(<<>>, head_page_id[l], next_page_id)
  BY <1>1 DEF Init, IsChain
<1>5. \A l \in FreeLists : Chain(l) = <<>>
  BY <1>3, <1>4, TypedChains, ZenonT(60) DEF ChainsAreFound
<1>6. ListsAreChains
  <2>1. ~was_merged[StoreList]
    BY Zenon DEF Init, FreeLists
  <2> QED BY <1>1, <1>4, <1>5, <2>1, SMTT(30) DEF ListsAreChains, LiveLists
<1>7. Once(ListPages, entries, used)
  <2>1. ListPages = {}
    BY <1>1, <1>5, ZenonT(60) DEF ListPages, LiveLists
  <2> QED BY <2>1, Zenon DEF Once
<1>8. PagesAfterHeadAreFull
  BY <1>1, <1>5 DEF PagesAfterHeadAreFull, LiveLists
<1>9. TailIsTheLastPage
  BY Zenon DEF Init, TailIsTheLastPage, is_empty, LiveLists
<1>10. \A l \in FreeLists : Contents(l) = <<>>
  <2>1. entries \in [Pages -> Seq(Pages)]
    BY <1>3, Zenon DEF TypeOK
  <2>2. Joined(<<>>, entries) = <<>>
    BY <1>1, <2>1, JoinedType, ZenonT(60)
  <2> QED BY <1>5, <2>2, ContentsAreJoined, ZenonT(60)
<1> QED BY <1>3, <1>6, <1>7, <1>8, <1>9, <1>10, SMTT(30) DEF IInv

\* The inductive invariant holds: the lists' pages are disjoint chains that end,
\* whatever Push, Pop and Merge did, and failed to do, in whatever order.
THEOREM ListsInvariance == Spec => []IInv
<1>1. Init => IInv
  BY InitIInv, Zenon
<1>2. IInv /\ [Next]_vars => IInv'
  BY NextStep, Zenon
<1> QED BY <1>1, <1>2, PTL DEF Spec

\* The links, offsets and entries of the list pages stay in their ranges: no
\* entry is written past the end of a page.
THEOREM ListsAreTyped == Spec => []TypeOK
<1>1. IInv => TypeOK
  BY Zenon DEF IInv
<1> QED BY <1>1, ListsInvariance, PTL

\* Pop never hands out a page that is in use, or a page twice.
THEOREM PagesAreFreeOnce == Spec => []NoPageIsFreeTwice
BY NoPageTwice, ListsInvariance, PTL

\* Only a list's head page has room: Merge links the other pages, unread, into
\* the store's list.
THEOREM FullPagesFollow == Spec => []PagesAfterHeadAreFull
<1>1. IInv => PagesAfterHeadAreFull
  BY ZenonT(60) DEF IInv
<1> QED BY <1>1, ListsInvariance, PTL

\* Merge finds a transaction's last list page in tail_page_id_.
THEOREM TailIsKnown == Spec => []TailIsTheLastPage
<1>1. IInv => TailIsTheLastPage
  BY Zenon DEF IInv
<1> QED BY <1>1, ListsInvariance, PTL

-----------------------------------------------------------------------------
(* The lists are stacks *)

\* The stacks that the lists stand for.
Stacks == [l \in FreeLists |-> IF was_merged[l] THEN <<>> ELSE Contents(l)]

\* Taking the last page is the stack's pop.
LEMMA TakesLastIsPop ==
  ASSUME NEW l \in LiveLists, TakesLast(l)
  PROVE  Stack!PopFree(l)
<1>1. l \in FreeLists /\ ~was_merged[l] /\ LiveLists' = LiveLists /\ was_merged' = was_merged
  BY Zenon DEF LiveLists, TakesLast
<1>2. Stacks[l] = Contents(l)
  BY <1>1, Zenon DEF Stacks
<1>3. \A k \in FreeLists : Stacks'[k] = IF k = l THEN SubSeq(Contents(l), 1, Len(Contents(l)) - 1)
                                       ELSE Stacks[k]
  BY <1>1, Zenon DEF Stacks, TakesLast, LiveLists
<1>4. Stacks' = [Stacks EXCEPT ![l] = SubSeq(@, 1, Len(@) - 1)]
  BY <1>1, <1>2, <1>3, Zenon DEF Stacks
<1> QED BY <1>2, <1>4, Zenon DEF Stack!PopFree, Stacks, TakesLast

\* Putting a page last is the stack's push.
LEMMA PutsLastIsPush ==
  ASSUME NEW l \in LiveLists, NEW p \in used, PutsLast(l, p)
  PROVE  Stack!PushFree(l, p)
<1>1. l \in FreeLists /\ ~was_merged[l] /\ LiveLists' = LiveLists /\ was_merged' = was_merged
  BY Zenon DEF LiveLists, PutsLast
<1>2. Stacks[l] = Contents(l)
  BY <1>1, Zenon DEF Stacks
<1>3. \A k \in FreeLists : Stacks'[k] = IF k = l THEN Append(Contents(l), p) ELSE Stacks[k]
  BY <1>1, Zenon DEF Stacks, PutsLast, LiveLists
<1>4. Stacks' = [Stacks EXCEPT ![l] = Append(@, p)]
  BY <1>1, <1>2, <1>3, Zenon DEF Stacks
<1> QED BY <1>2, <1>4, Zenon DEF Stack!PushFree, Stacks, PutsLast

\* Merging is the stacks' merge.
LEMMA MergesIsMerge ==
  ASSUME IInv, IInv', NEW o \in TxnLists, ~was_merged[o], Merges(o)
  PROVE  Stack!MergeFree(o)
<1>1. /\ o \in FreeLists /\ StoreList \in FreeLists /\ o # StoreList /\ ~was_merged[StoreList]
      /\ was_merged \in [FreeLists -> BOOLEAN]
  BY ListAssumption, Zenon DEF FreeLists, IInv, ListsAreChains, TypeOK
<1>2. /\ was_merged'[o] /\ ~was_merged'[StoreList]
      /\ \A k \in FreeLists \ {o} : was_merged'[k] = was_merged[k]
  BY <1>1, Zenon DEF Merges
<1>3. /\ Stacks[o] = Contents(o) /\ Stacks[StoreList] = Contents(StoreList)
      /\ Stacks'[o] = <<>> /\ Stacks'[StoreList] = Contents(StoreList)'
  BY <1>1, <1>2, Zenon DEF Stacks
<1>4. IsInjective(Contents(StoreList)')
  <2>1. NoPageIsFreeTwice'
    BY NoPageTwice, PTL
  <2>2. StoreList \in LiveLists'
    BY <1>1, <1>2, ZenonT(60) DEF LiveLists
  <2> QED BY <2>1, <2>2, Zenon DEF NoPageIsFreeTwice
<1>5. \A k \in TxnLists \ {o} : Stacks'[k] = Stacks[k]
  <2> SUFFICES ASSUME NEW k \in TxnLists \ {o} PROVE Stacks'[k] = Stacks[k]
    BY Zenon
  <2>1. k \in FreeLists /\ k # StoreList
    BY ListAssumption, Zenon DEF FreeLists
  <2>2. was_merged'[k] = was_merged[k]
    BY <1>2, <2>1, ZenonT(60)
  <2>3. ~was_merged[k] => k \in LiveLists' \ {StoreList}
    BY <2>1, <2>2, ZenonT(60) DEF LiveLists
  <2> QED BY <2>1, <2>2, <2>3, ZenonT(60) DEF Stacks, Merges
<1>6. /\ IsInjective(Stacks'[StoreList])
      /\ Range(Stacks'[StoreList]) \subseteq Range(Stacks[StoreList]) \union Range(Stacks[o])
      /\ Stacks'[o] = <<>> /\ used' = used
  BY <1>3, <1>4, Zenon DEF Merges
<1>7. /\ \A s : Stack!Range(s) = Range(s)
      /\ \A s : Stack!IsInjective(s) <=> IsInjective(s)
  BY Zenon DEF Range, Stack!Range, IsInjective, Stack!IsInjective
<1>8. /\ Stack!IsInjective(Stacks'[StoreList])
      /\ Stack!Range(Stacks'[StoreList]) \subseteq
           Stack!Range(Stacks[StoreList]) \union Stack!Range(Stacks[o])
  BY <1>6, <1>7, ZenonT(60)
<1> QED BY <1>5, <1>6, <1>8, ZenonT(60) DEF Stack!MergeFree, Stacks

\* A call that fails does nothing to the stacks.
LEMMA StaysIsStutter ==
  ASSUME Stays
  PROVE  Stacks' = Stacks /\ used' = used
<1>1. \A l \in FreeLists : ~was_merged[l] => Contents(l)' = Contents(l)
  BY Zenon DEF Stays, LiveLists
<1> QED BY <1>1, Zenon DEF Stays, Stacks

\* A list is a stack of free pages: see IsFreePageStack.
THEOREM ListsAreStacks == Spec => IsFreePageStack
<1>1. Init => Stack!StackInit
  <2> SUFFICES ASSUME Init PROVE Stack!StackInit
    BY Zenon
  <2>1. \A l \in FreeLists : (IF was_merged[l] THEN <<>> ELSE Contents(l)) = <<>>
    BY InitIInv, Zenon
  <2> QED BY <2>1, Zenon DEF Init, Stack!StackInit
<1>2. IInv /\ [Next]_vars => [Stack!StackNext]_<<Stacks, used>>
  <2> SUFFICES ASSUME IInv, [Next]_vars PROVE [Stack!StackNext]_<<Stacks, used>>
    BY Zenon
  <2>1. IInv' /\ used \subseteq Pages
    BY NextStep, Zenon DEF IInv, TypeOK
  <2>2. CASE Stays
    BY <2>2, StaysIsStutter, Zenon
  <2>3. ASSUME NEW l \in LiveLists, TakesLast(l) PROVE Stack!StackNext
    <3>1. l \in FreeLists /\ Stack!PopFree(l)
      BY <2>3, TakesLastIsPop, ZenonT(60) DEF LiveLists
    <3> QED BY <3>1, Zenon DEF Stack!StackNext
  <2>4. ASSUME NEW l \in LiveLists, NEW p \in used, PutsLast(l, p) PROVE Stack!StackNext
    <3>1. l \in FreeLists /\ p \in Pages /\ Stack!PushFree(l, p)
      BY <2>1, <2>4, PutsLastIsPush, ZenonT(60) DEF LiveLists
    <3> QED BY <3>1, Zenon DEF Stack!StackNext
  <2>5. ASSUME NEW o \in TxnLists, ~was_merged[o], Merges(o) PROVE Stack!StackNext
    <3>1. Stack!MergeFree(o)
      BY <2>1, <2>5, MergesIsMerge, ZenonT(60)
    <3> QED BY <3>1, Zenon DEF Stack!StackNext
  <2> QED BY <2>2, <2>3, <2>4, <2>5, NextStep, SMTT(30)
<1> QED BY <1>1, <1>2, ListsInvariance, PTL DEF Spec, IsFreePageStack, Stack!StackSpec, Stacks
=============================================================================
