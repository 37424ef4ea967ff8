-------------------------- MODULE StoreImplProofs --------------------------
(***************************************************************************)
(* Inv is an invariant of StoreImpl, for any numbers of frames, stores,    *)
(* transactions, pages and values, with I/O errors or without them.  The   *)
(* first part is about the steps that change what a frame caches:          *)
(* StorePage on a page that is not cached, and the unassigning in Close.   *)
(***************************************************************************)
EXTENDS StoreImplSteps

-----------------------------------------------------------------------------
(* PagePool::StorePage on a page that is not cached: AllocPage, then
   AssignPageToStore; and Transaction::Close on a page of its own. *)

\* What is left to prove of AllocPage's three ways of finding frame f, which
\* leave the call StorePage, and maybe a Close of a store, on the stack.
LEMMA AllocatedInv ==
  ASSUME Inv, NEW s \in Stores, NEW id \in PageIds,
         NEW w \in UserTxns \union {NoTxn}, NEW f \in Frames,
         calls = <<>>, blank = NoFrame,
         request' = [page |-> f, store |-> s, id |-> id, writer |-> w],
         UNCHANGED <<page_id, data, txnVars, callerVars, failed>>,
         NEW r \in Stores, NEW ok,
         CloseAfterWrite(r, ok, <<"StorePage">>),
         transaction' \in [Frames -> Txns \union {NoTxn}],
         pin_count' \in [Frames -> Nat],
         is_dirty' \in [Frames -> BOOLEAN],
         pool_pages' \in [Txns -> Seq(Frames)],
         allocated' \in SUBSET Frames,
         free_list' \in Seq(Frames), lru_list' \in Seq(Frames),
         page_map' \in [Stores -> [PageIds -> Frames \union {NoFrame}]],
         disk' \in [Stores -> [PageIds -> Values]],
         FramesAreListed', PagesAreListed', PageMapIsExact',
         DirtyIffModified', PinnedPagesAreAssigned', CleanPagesMatchDisk',
         f \in allocated', transaction'[f] = NoTxn,
         page_map'[s][id] = NoFrame,
         pin_count[f] = 0, pin_count'[f] = 1,
         \A g \in Frames \ {f} : pin_count'[g] = pin_count[g]
  PROVE  Inv'
<1>1. /\ \A t \in Txns : pc[t] = "idle" /\ loop_page[t] = NoFrame
      /\ \A g \in Frames : pin_count[g] = pins[g]
  BY NoCallRuns, Zenon
<1>2. /\ IsList(<<"StorePage">>, CallNames)
      /\ Range(<<"StorePage">>) = {"StorePage"}
      /\ <<"StorePage">>[Len(<<"StorePage">>)] = "StorePage"
  BY SingleCall, Zenon DEF CallNames
<1>3. \A c \in Txns \union Stores : c # "StorePage"
  BY CallAssumption, Zenon
<1>4. /\ calls' \in Seq(Txns \union Stores \union {"StorePage", "Pool"})
      /\ IsInjective(calls')
      /\ \A c \in Txns \union {"StorePage", "Pool"} :
           c \in Range(calls') <=> c \in Range(<<"StorePage">>)
      /\ \A d \in {"StorePage", "Pool"} :
           d \in Range(calls') => calls'[Len(calls')] = d
      /\ \A q \in Stores : q \in Range(calls') => state'[q] = "kClosing"
      /\ \A q \in Stores : state'[q] = "kOpen" =>
           state[q] = "kOpen" /\ transactions'[q] = transactions[q]
      /\ state' \in [Stores -> {"kOpen", "kClosing", "kClosed"}]
      /\ transactions' \in [Stores -> Seq(UserTxns)]
      /\ rollback_queue' \in [Stores -> Seq(UserTxns)]
  <2>1. \A d \in {"StorePage", "Pool"} : d \in Range(<<"StorePage">>) =>
          <<"StorePage">>[Len(<<"StorePage">>)] = d
    BY <1>2, Zenon
  <2>2. \A q \in Stores : q \in Range(<<"StorePage">>) => state[q] = "kClosing"
    BY <1>2, <1>3, Zenon
  <2> QED BY <1>2, <2>1, <2>2, CloseAfterWriteCalls, Zenon
<1>5. "StorePage" \in Range(calls') /\ \A t \in Txns : t \notin Range(calls')
  BY <1>2, <1>3, <1>4, Zenon
<1>6. /\ request' \in Requests /\ request' # NoRequest
      /\ request'.page = f /\ request'.store = s /\ request'.id = id
  <2>1. request'.page = f /\ NoRequest.page = NoFrame /\ f # NoFrame
    BY ValueAssumption, Zenon DEF NoRequest
  <2>2. request' \in Requests
    BY Zenon DEF Requests
  <2> QED BY <2>1, <2>2, Zenon
<1>7. TypeOK'
  <2>1. PageTypes'
    BY <1>4, <1>6, Zenon DEF Inv, TypeOK, PageTypes, txnVars, callerVars
  <2>2. PoolTypes'
    BY <1>4, <1>6, Zenon DEF Inv, TypeOK, PoolTypes, txnVars, callerVars
  <2>3. StoreTypes'
    BY <1>4, <1>6, Zenon DEF Inv, TypeOK, StoreTypes, txnVars, callerVars
  <2>4. CallTypes'
    BY <1>4, <1>6, Zenon DEF Inv, TypeOK, CallTypes, txnVars, callerVars
  <2> QED BY <1>4, <1>6, <2>1, <2>2, <2>3, <2>4, SameTypes, Zenon
      DEF Inv, TypeOK, txnVars, callerVars
<1>8. CallsAreNested'
  BY <1>1, <1>4, <1>5, Zenon DEF CallsAreNested, txnVars, callerVars
<1>9. HeldFramesAreUnassigned'
  BY <1>1, <1>5, <1>6, Zenon DEF HeldFramesAreUnassigned, txnVars
<1>10. PinsAreAccounted'
  <2> SUFFICES ASSUME NEW g \in Frames
               PROVE  pin_count'[g] =
                        pins'[g] + (IF PinnedByLoop(g)' THEN 1 ELSE 0)
    BY Zenon DEF PinsAreAccounted
  <2>1. pins'[g] = pins[g] /\ pins[g] \in Nat
    BY Zenon DEF Inv, TypeOK, CallerTypes, callerVars
  <2>2. PinnedByLoop(g)' <=> g = f
    BY <1>1, <1>6, Zenon DEF PinnedByLoop, txnVars
  <2>3. CASE g = f
    <3>1. pin_count'[g] = 1 /\ pins'[g] = 0
      BY <1>1, <2>1, <2>3, Zenon
    <3> QED BY <2>2, <2>3, <3>1
  <2>4. CASE g # f
    <3>1. pin_count'[g] = pins'[g]
      BY <1>1, <2>1, <2>4, Zenon
    <3> QED BY <2>1, <2>2, <2>4, <3>1
  <2> QED BY <2>3, <2>4, Zenon
<1>11. RunningTransactionsAreListed'
  <2>1. Range(calls) = {}
    BY EmptyList, Zenon
  <2>2. \A t \in UserTxns \intersect live :
          ~is_closed'[t] \/ t \in Range(calls') <=>
            ~is_closed[t] \/ t \in Range(calls)
    BY <1>5, <2>1, Zenon DEF UserTxns, txnVars
  <2> QED BY <1>4, <2>2, SameRunningTransactions, Zenon DEF Inv, txnVars
<1> QED BY <1>7, <1>8, <1>9, <1>10, <1>11, Zenon DEF Inv

\* PagePool::StorePage does not find the page: AllocPage finds a frame.
LEMMA StorePageMissInv ==
  ASSUME Inv, NEW s \in Stores, NEW id \in PageIds,
         NEW w \in UserTxns \union {NoTxn}, NEW f \in Frames, NEW ok,
         StorePageMiss(s, id, w, f, ok)
  PROVE  Inv'
<1>1. /\ calls = <<>> /\ blank = NoFrame /\ page_map[s][id] = NoFrame
      /\ request' = [page |-> f, store |-> s, id |-> id, writer |-> w]
      /\ UNCHANGED <<page_id, data, txnVars, callerVars, failed>>
  BY Zenon DEF StorePageMiss, Idle
<1>2. \A g \in Frames : pin_count[g] = pins[g]
  BY <1>1, NoCallRuns, Zenon
<1>3. CASE /\ (AllocFreePage(f) \/ AllocNewPage(f)) /\ ok
           /\ UNCHANGED storeVars /\ calls' = <<"StorePage">>
  <2>1. CloseAfterWrite(s, ok, <<"StorePage">>)
    BY <1>3, Zenon DEF CloseAfterWrite
  <2>2. UNCHANGED <<page_map, disk, transaction, is_dirty, pool_pages, lru_list>>
    BY <1>3, Zenon DEF AllocFreePage, AllocNewPage
  <2>3. PagesAreListed' /\ DirtyIffModified'
    BY <2>2, Zenon DEF Inv, PagesAreListed, DirtyIffModified
  <2>4. PageMapIsExact'
    <3>1. UNCHANGED <<page_id, page_map, transaction>>
      BY <1>1, <2>2, Zenon
    <3> QED BY <3>1 DEF Inv, PageMapIsExact, AssignedTo
  <2>5. PinnedPagesAreAssigned' /\ CleanPagesMatchDisk'
    BY <1>1, <2>2, Zenon
       DEF Inv, PinnedPagesAreAssigned, CleanPagesMatchDisk, callerVars
  <2>6. /\ transaction[f] = NoTxn /\ pin_count[f] = 0
        /\ pin_count' \in [Frames -> Nat] /\ pin_count'[f] = 1
        /\ \A g \in Frames \ {f} : pin_count'[g] = pin_count[g]
        /\ free_list' \in Seq(Frames) /\ allocated' \in SUBSET Frames
        /\ f \in allocated' /\ FramesAreListed'
    <3>1. CASE AllocFreePage(f)
      <4>1. /\ f = Head(free_list) /\ free_list # <<>>
            /\ free_list' = Tail(free_list) /\ allocated' = allocated
            /\ pin_count' = [pin_count EXCEPT ![f] = @ + 1]
        BY <3>1, Zenon DEF AllocFreePage, AddPin
      <4>2. /\ f \in Range(free_list) /\ IsList(free_list', Frames)
            /\ Range(free_list') = Range(free_list) \ {f}
        BY <4>1, PoolLists, PopFront, Zenon
      <4>3. transaction[f] = NoTxn /\ pin_count[f] = 0 /\ f \in allocated
        BY <4>2, Zenon DEF Inv, FramesAreListed
      <4>4. /\ pin_count' \in [Frames -> Nat] /\ pin_count'[f] = 1
            /\ \A g \in Frames \ {f} : pin_count'[g] = pin_count[g]
        BY <4>1, <4>3, SMTT(30) DEF Inv, TypeOK, PageTypes
      <4>5. /\ Range(free_list') =
                 {g \in allocated : pin_count'[g] = 0 /\ transaction[g] = NoTxn}
            /\ Range(lru_list) =
                 {g \in allocated : pin_count'[g] = 0 /\ transaction[g] # NoTxn}
            /\ \A g \in Frames \ allocated :
                 pin_count'[g] = 0 /\ transaction[g] = NoTxn
        BY <4>2, <4>3, <4>4, SMTT(30)
           DEF Inv, TypeOK, PageTypes, PoolTypes, FramesAreListed
      <4>6. FramesAreListed'
        BY <2>2, <4>1, <4>2, <4>5, PoolLists, Zenon DEF FramesAreListed, IsList
      <4> QED BY <4>1, <4>2, <4>3, <4>4, <4>6, ZenonT(60)
          DEF IsList, Inv, TypeOK, PoolTypes
    <3>2. CASE AllocNewPage(f)
      <4>1. /\ f \in Frames \ allocated /\ free_list' = free_list
            /\ allocated' = allocated \union {f}
            /\ pin_count' = [pin_count EXCEPT ![f] = 1]
        BY <3>2, Zenon DEF AllocNewPage
      <4>2. transaction[f] = NoTxn /\ pin_count[f] = 0
        BY <4>1, Zenon DEF Inv, FramesAreListed
      <4>3. /\ pin_count' \in [Frames -> Nat] /\ pin_count'[f] = 1
            /\ \A g \in Frames \ {f} : pin_count'[g] = pin_count[g]
        BY <4>1, Zenon DEF Inv, TypeOK, PageTypes
      <4>4. /\ Range(free_list) =
                 {g \in allocated' : pin_count'[g] = 0 /\ transaction[g] = NoTxn}
            /\ Range(lru_list) =
                 {g \in allocated' : pin_count'[g] = 0 /\ transaction[g] # NoTxn}
            /\ \A g \in Frames \ allocated' :
                 pin_count'[g] = 0 /\ transaction[g] = NoTxn
        BY <4>1, <4>2, <4>3, SMTT(30) DEF Inv, FramesAreListed
      <4>5. FramesAreListed'
        BY <2>2, <4>1, <4>4, PoolLists, Zenon DEF FramesAreListed, IsList
      <4> QED BY <4>1, <4>2, <4>3, <4>5, Zenon DEF Inv, TypeOK, PoolTypes
    <3> QED BY <1>3, <3>1, <3>2, Zenon
  <2>7. /\ transaction' \in [Frames -> Txns \union {NoTxn}]
        /\ is_dirty' \in [Frames -> BOOLEAN]
        /\ pool_pages' \in [Txns -> Seq(Frames)]
        /\ lru_list' \in Seq(Frames)
        /\ page_map' \in [Stores -> [PageIds -> Frames \union {NoFrame}]]
        /\ disk' \in [Stores -> [PageIds -> Values]]
    BY <2>2, Zenon DEF Inv, TypeOK, PageTypes, PoolTypes
  <2>8. transaction'[f] = NoTxn /\ page_map'[s][id] = NoFrame
    BY <1>1, <2>2, <2>6, Zenon
  <2> QED BY <1>1, <2>1, <2>3, <2>4, <2>5, <2>6, <2>7, <2>8, AllocatedInv, Zenon
<1>4. CASE /\ AllocEvictedPage(f, ok)
           /\ CloseAfterWrite(StoreOf[transaction[f]], ok, <<"StorePage">>)
  <2>1. /\ lru_list # <<>> /\ f = Head(lru_list)
        /\ pin_count' = [pin_count EXCEPT ![f] = @ + 1]
        /\ lru_list' = Tail(lru_list) /\ UnassignPageFromStore(f, ok)
        /\ UNCHANGED <<allocated, free_list>>
    BY <1>4, Zenon DEF AllocEvictedPage, AddPin
  <2>2. /\ f \in Range(lru_list) /\ IsList(lru_list', Frames)
        /\ Range(lru_list') = Range(lru_list) \ {f}
    BY <2>1, PoolLists, PopFront, Zenon
  <2>3. transaction[f] # NoTxn /\ pin_count[f] = 0 /\ pins[f] = 0 /\ f \in allocated
    BY <1>2, <2>2, Zenon DEF Inv, FramesAreListed
  <2>4. /\ PagesAreListed' /\ PageMapIsExact' /\ DirtyIffModified'
        /\ PinnedPagesAreAssigned' /\ CleanPagesMatchDisk'
        /\ transaction' \in [Frames -> Txns \union {NoTxn}]
        /\ is_dirty' \in [Frames -> BOOLEAN]
        /\ pool_pages' \in [Txns -> Seq(Frames)]
        /\ page_map' \in [Stores -> [PageIds -> Frames \union {NoFrame}]]
        /\ disk' \in [Stores -> [PageIds -> Values]]
        /\ transaction'[f] = NoTxn
        /\ \A g \in Frames \ {f} : transaction'[g] = transaction[g]
        /\ \A r \in Stores, i \in PageIds :
             page_map[r][i] = NoFrame => page_map'[r][i] = NoFrame
    BY <1>1, <2>1, <2>3, UnassignFrame, Zenon DEF callerVars
  <2>5. /\ pin_count' \in [Frames -> Nat] /\ pin_count'[f] = 1
        /\ \A g \in Frames \ {f} : pin_count'[g] = pin_count[g]
    BY <2>1, <2>3 DEF Inv, TypeOK, PageTypes
  <2>6. /\ Range(free_list) =
             {g \in allocated : pin_count'[g] = 0 /\ transaction'[g] = NoTxn}
        /\ Range(lru_list') =
             {g \in allocated : pin_count'[g] = 0 /\ transaction'[g] # NoTxn}
        /\ \A g \in Frames \ allocated :
             pin_count'[g] = 0 /\ transaction'[g] = NoTxn
    <3>1. /\ \A g \in allocated \ {f} : transaction'[g] = transaction[g]
          /\ \A g \in allocated \ {f} : pin_count'[g] = pin_count[g]
      BY <2>4, <2>5, Zenon DEF Inv, TypeOK, PoolTypes
    <3>2. Range(free_list) =
            {g \in allocated : pin_count'[g] = 0 /\ transaction'[g] = NoTxn}
      <4>1. f \notin Range(free_list)
        BY <2>3, ZenonT(60) DEF Inv, FramesAreListed
      <4>2. Range(free_list) =
              {g \in allocated : pin_count[g] = 0 /\ transaction[g] = NoTxn}
        BY Zenon DEF Inv, FramesAreListed
      <4> QED BY <2>5, <3>1, <4>1, <4>2
    <3>3. Range(lru_list') =
            {g \in allocated : pin_count'[g] = 0 /\ transaction'[g] # NoTxn}
      BY <2>2, <2>4, <3>1, ZenonT(60) DEF Inv, FramesAreListed
    <3>4. \A g \in Frames \ allocated :
            pin_count'[g] = 0 /\ transaction'[g] = NoTxn
      BY <2>3, <2>4, <2>5, Zenon DEF Inv, FramesAreListed
    <3> QED BY <3>2, <3>3, <3>4, Zenon
  <2>7. FramesAreListed'
    BY <2>1, <2>2, <2>6, PoolLists, Zenon DEF FramesAreListed, IsList
  <2>8. PICK r \in Stores : CloseAfterWrite(r, ok, <<"StorePage">>)
    <3>1. StoreOf[transaction[f]] \in Stores
      BY <2>3, TxnAssumption, Zenon DEF Inv, TypeOK, PageTypes
    <3> QED BY <1>4, <3>1, Zenon
  <2>9. /\ allocated' \in SUBSET Frames /\ f \in allocated'
        /\ free_list' \in Seq(Frames) /\ lru_list' \in Seq(Frames)
        /\ page_map'[s][id] = NoFrame
    BY <1>1, <2>1, <2>2, <2>3, <2>4, ZenonT(60) DEF Inv, TypeOK, PoolTypes, IsList
  <2>10. /\ PagesAreListed' /\ PageMapIsExact' /\ DirtyIffModified'
         /\ PinnedPagesAreAssigned' /\ CleanPagesMatchDisk'
         /\ transaction' \in [Frames -> Txns \union {NoTxn}]
         /\ is_dirty' \in [Frames -> BOOLEAN]
         /\ pool_pages' \in [Txns -> Seq(Frames)]
         /\ page_map' \in [Stores -> [PageIds -> Frames \union {NoFrame}]]
         /\ disk' \in [Stores -> [PageIds -> Values]]
         /\ transaction'[f] = NoTxn
    BY <2>4, Zenon
  <2>11. pin_count[f] = 0
    BY <2>3, Zenon
  <2> QED BY <1>1, <2>5, <2>7, <2>8, <2>9, <2>10, <2>11, AllocatedInv, ZenonT(60)
<1> QED BY <1>3, <1>4, Zenon DEF StorePageMiss

\* AssignPageToStore: an unassigned frame joins the init transaction's list and
\* the page map.
LEMMA AssignFrame ==
  ASSUME Inv, NEW f \in Frames, NEW s \in Stores, NEW id \in PageIds,
         NEW fetch \in BOOLEAN, transaction[f] = NoTxn,
         page_map[s][id] = NoFrame, AssignPageToStore(f, s, id, fetch),
         UNCHANGED <<is_dirty, disk>>, blank = NoFrame,
         blank' = IF fetch THEN NoFrame ELSE f,
         pins' = [pins EXCEPT ![f] = @ + 1]
  PROVE  /\ PagesAreListed' /\ PageMapIsExact' /\ DirtyIffModified'
         /\ PinnedPagesAreAssigned' /\ CleanPagesMatchDisk'
         /\ transaction' \in [Frames -> Txns \union {NoTxn}]
         /\ page_id' \in [Frames -> PageIds]
         /\ data' \in [Frames -> Values]
         /\ pool_pages' \in [Txns -> Seq(Frames)]
         /\ page_map' \in [Stores -> [PageIds -> Frames \union {NoFrame}]]
         /\ transaction'[f] = InitTxn[s]
         /\ \A g \in Frames \ {f} : transaction'[g] = transaction[g]
<1> DEFINE t == InitTxn[s]
           v == IF fetch THEN disk[s][id] ELSE Garbage
<1>1. t \in Txns /\ t # NoTxn /\ StoreOf[t] = s /\ t \notin UserTxns
  BY TxnAssumption, ValueAssumption, Zenon DEF UserTxns, IsInit
<1>2. v \in Values
  BY ValueAssumption, Zenon DEF Inv, TypeOK, PoolTypes
<1>3. /\ transaction' = [transaction EXCEPT ![f] = t]
      /\ page_id' = [page_id EXCEPT ![f] = id]
      /\ pool_pages' = [pool_pages EXCEPT ![t] = Append(@, f)]
      /\ data' = [data EXCEPT ![f] = v]
      /\ page_map' = [page_map EXCEPT ![s][id] = f]
  BY Zenon DEF AssignPageToStore, AssignPage
<1>4. /\ IsList(Append(pool_pages[t], f), Frames)
      /\ Range(Append(pool_pages[t], f)) = Range(pool_pages[t]) \union {f}
  <2>1. f \notin Range(pool_pages[t])
    BY <1>1, PageLists, Zenon
  <2> QED BY <1>1, <2>1, PageLists, PushBack
<1>5. v = IF fetch THEN disk[s][id] ELSE Garbage
  BY Zenon
<1>6. t = InitTxn[s]
  BY Zenon
<1> HIDE DEF t, v
<1>7. /\ transaction' \in [Frames -> Txns \union {NoTxn}]
      /\ page_id' \in [Frames -> PageIds]
      /\ data' \in [Frames -> Values]
      /\ pool_pages' \in [Txns -> Seq(Frames)]
  BY <1>1, <1>2, <1>3, <1>4, ZenonT(60) DEF Inv, TypeOK, PageTypes, IsList
<1>8. page_map' \in [Stores -> [PageIds -> Frames \union {NoFrame}]]
  BY <1>3, Zenon DEF Inv, TypeOK, PoolTypes
<1>9. /\ transaction'[f] = t /\ page_id'[f] = id /\ data'[f] = v
      /\ \A g \in Frames \ {f} : /\ transaction'[g] = transaction[g]
                                 /\ page_id'[g] = page_id[g]
                                 /\ data'[g] = data[g]
      /\ pool_pages'[t] = Append(pool_pages[t], f)
      /\ \A u \in Txns \ {t} : pool_pages'[u] = pool_pages[u]
  BY <1>1, <1>3, Zenon DEF Inv, TypeOK, PageTypes
<1>10. /\ page_map'[s][id] = f
       /\ \A r \in Stores, i \in PageIds :
            r # s \/ i # id => page_map'[r][i] = page_map[r][i]
  BY <1>3, Zenon DEF Inv, TypeOK, PoolTypes
<1>11. PagesAreListed'
  <2> SUFFICES ASSUME NEW u \in Txns
               PROVE  /\ IsInjective(pool_pages'[u])
                      /\ Range(pool_pages'[u]) =
                           {g \in Frames : transaction'[g] = u}
    BY Zenon DEF PagesAreListed
  <2>1. CASE u = t
    BY <1>4, <1>9, <2>1, PageLists, ZenonT(60) DEF IsList
  <2>2. CASE u # t
    <3>1. \A g \in Frames : transaction'[g] = u <=> transaction[g] = u
      BY <1>9, <2>2, ValueAssumption, Zenon
    <3>2. /\ IsInjective(pool_pages[u])
          /\ Range(pool_pages[u]) = {g \in Frames : transaction[g] = u}
      BY Zenon DEF Inv, PagesAreListed
    <3>3. pool_pages'[u] = pool_pages[u]
      BY <1>9, <2>2, Zenon
    <3> QED BY <3>1, <3>2, <3>3, Zenon
  <2> QED BY <2>1, <2>2, Zenon
<1>12. PageMapIsExact'
  <2> SUFFICES ASSUME NEW r \in Stores, NEW i \in PageIds, NEW g \in Frames
               PROVE  page_map'[r][i] = g <=>
                        /\ transaction'[g] # NoTxn
                        /\ StoreOf[transaction'[g]] = r
                        /\ page_id'[g] = i
    BY DEF PageMapIsExact, AssignedTo
  <2>1. page_map[r][i] = g <=> /\ transaction[g] # NoTxn
                               /\ StoreOf[transaction[g]] = r
                               /\ page_id[g] = i
    BY DEF Inv, PageMapIsExact, AssignedTo
  <2>2. CASE r = s /\ i = id
    BY <1>1, <1>9, <1>10, <2>1, <2>2, ValueAssumption, Zenon
  <2>3. CASE r # s \/ i # id
    BY <1>1, <1>9, <1>10, <2>1, <2>3, Zenon
  <2> QED BY <2>2, <2>3, Zenon
<1>13. DirtyIffModified'
  BY <1>1, <1>9, ValueAssumption, ZenonT(60) DEF Inv, DirtyIffModified, UserTxns
<1>14. PinnedPagesAreAssigned'
  <2>1. \A g \in Frames \ {f} : pins'[g] = pins[g]
    BY DEF Inv
  <2> QED BY <1>1, <1>9, <2>1, Zenon DEF Inv, PinnedPagesAreAssigned
<1>15. CleanPagesMatchDisk'
  <2> SUFFICES ASSUME NEW g \in Frames, transaction'[g] # NoTxn,
                      ~is_dirty'[g], g # blank'
               PROVE  data'[g] = disk[StoreOf[transaction'[g]]][page_id'[g]]
    BY Zenon DEF CleanPagesMatchDisk
  <2>1. CASE g = f
    BY <1>1, <1>5, <1>9, <2>1, Zenon
  <2>2. CASE g # f
    BY <1>9, <2>2, ValueAssumption, ZenonT(60) DEF Inv, CleanPagesMatchDisk
  <2> QED BY <2>1, <2>2, Zenon
<1> QED BY <1>6, <1>7, <1>8, <1>9, <1>11, <1>12, <1>13, <1>14, <1>15, ZenonT(60)

\* What is left to prove when StorePage returns.
LEMMA StorePageReturns ==
  ASSUME Inv, Running("StorePage"), TypeOK', FramesAreListed',
         PagesAreListed', PageMapIsExact', DirtyIffModified',
         PinnedPagesAreAssigned', CleanPagesMatchDisk',
         request' = NoRequest, calls' = Tail(calls),
         UNCHANGED <<txnVars, storeVars>>,
         \A g \in Frames : pin_count'[g] = pins'[g]
  PROVE  Inv'
<1>1. /\ calls' = <<>>
      /\ \A t \in Txns : pc[t] = "idle" /\ loop_page[t] = NoFrame
      /\ \A t \in Txns : t \notin Range(calls)
  BY StorePageRuns, Zenon
<1>2. Range(calls') = {} /\ IsInjective(calls')
  BY <1>1, EmptyList, Zenon DEF IsList
<1>3. CallsAreNested'
  BY <1>1, <1>2, Zenon DEF CallsAreNested, txnVars, storeVars
<1>4. HeldFramesAreUnassigned'
  BY <1>1, <1>2, Zenon DEF HeldFramesAreUnassigned, txnVars
<1>5. PinsAreAccounted'
  <2>1. \A g \in Frames : ~PinnedByLoop(g)'
    BY <1>1, ValueAssumption, Zenon DEF PinnedByLoop, NoRequest, txnVars
  <2>2. \A g \in Frames : pins'[g] \in Nat
    BY Zenon DEF TypeOK, CallerTypes
  <2> QED BY <2>1, <2>2 DEF PinsAreAccounted
<1>6. RunningTransactionsAreListed'
  <2>1. \A t \in UserTxns : t \in Range(calls') <=> t \in Range(calls)
    BY <1>1, <1>2, Zenon DEF UserTxns
  <2> QED BY <2>1, SameRunningTransactions, Zenon DEF Inv, txnVars, storeVars
<1> QED BY <1>3, <1>4, <1>5, <1>6, ZenonT(60) DEF Inv

\* The rest of StorePage: the frame caches the page, or the read failed and the
\* frame is free again.
LEMMA StorePageAssignInv ==
  ASSUME Inv, NEW ok, StorePageAssign(ok)
  PROVE  Inv'
<1>1. /\ Running("StorePage") /\ request' = NoRequest /\ calls' = Tail(calls)
      /\ UNCHANGED <<is_dirty, allocated, lru_list, disk, txnVars, storeVars,
                     failed>>
  BY Zenon DEF StorePageAssign
<1>2. PICK f \in Frames, s \in Stores, id \in PageIds, w \in UserTxns \union {NoTxn} :
        /\ f = request.page /\ s = request.store
        /\ id = request.id /\ w = request.writer
        /\ transaction[f] = NoTxn /\ page_map[s][id] = NoFrame
        /\ pins[f] = 0 /\ pin_count[f] = 1
  BY <1>1, StorePageRuns, Zenon DEF Requests
<1>3. blank = NoFrame
  BY <1>1, StorePageRuns, Zenon
<1>4. \A g \in Frames \ {f} : pin_count[g] = pins[g]
  <2>1. \A g \in Frames \ {f} : ~PinnedByLoop(g)
    BY <1>1, <1>2, StorePageRuns, Zenon DEF PinnedByLoop
  <2> QED BY <2>1 DEF Inv, TypeOK, CallerTypes, PinsAreAccounted
<1>5. calls' \in Seq(Txns \union Stores \union {"StorePage", "Pool"})
  <2>1. calls' = <<>>
    BY <1>1, StorePageRuns, Zenon
  <2> QED BY <2>1, EmptyList, Zenon DEF IsList
<1>6. CASE ok
  <2> DEFINE fetch == w = NoTxn
  <2>1. /\ AssignPageToStore(f, s, id, fetch)
        /\ pins' = [pins EXCEPT ![f] = @ + 1]
        /\ blank' = IF fetch THEN NoFrame ELSE f
        /\ writer' = w
        /\ UNCHANGED <<pin_count, free_list>>
    BY <1>2, <1>6, Zenon DEF StorePageAssign
  <2>2. fetch \in BOOLEAN
    BY Zenon
  <2>3. blank' \in Frames \union {NoFrame}
    BY <2>1, Zenon
  <2> HIDE DEF fetch
  <2>4. /\ PagesAreListed' /\ PageMapIsExact' /\ DirtyIffModified'
        /\ PinnedPagesAreAssigned' /\ CleanPagesMatchDisk'
        /\ transaction' \in [Frames -> Txns \union {NoTxn}]
        /\ page_id' \in [Frames -> PageIds]
        /\ data' \in [Frames -> Values]
        /\ pool_pages' \in [Txns -> Seq(Frames)]
        /\ page_map' \in [Stores -> [PageIds -> Frames \union {NoFrame}]]
        /\ transaction'[f] = InitTxn[s]
        /\ \A g \in Frames \ {f} : transaction'[g] = transaction[g]
    <3>1. transaction[f] = NoTxn /\ page_map[s][id] = NoFrame
      BY <1>2, Zenon
    <3>2. /\ AssignPageToStore(f, s, id, fetch)
          /\ pins' = [pins EXCEPT ![f] = @ + 1]
          /\ blank' = IF fetch THEN NoFrame ELSE f
          /\ UNCHANGED <<is_dirty, disk>>
      BY <1>1, <2>1, Zenon
    <3>3. CASE fetch
      <4>1. AssignPageToStore(f, s, id, TRUE) /\ blank' = IF TRUE THEN NoFrame ELSE f
        BY <2>2, <3>2, <3>3, fetch = TRUE, Zenon
      <4> QED BY <1>3, <3>1, <3>2, <4>1, AssignFrame, Zenon
    <3>4. CASE ~fetch
      <4>1. AssignPageToStore(f, s, id, FALSE) /\ blank' = IF FALSE THEN NoFrame ELSE f
        BY <2>2, <3>2, <3>4, fetch = FALSE, Zenon
      <4> QED BY <1>3, <3>1, <3>2, <4>1, AssignFrame, Zenon
    <3> QED BY <3>3, <3>4, Zenon
  <2>5. /\ pins' \in [Frames -> Nat] /\ pins'[f] = 1
        /\ \A g \in Frames \ {f} : pins'[g] = pins[g]
    BY <1>2, <2>1 DEF Inv, TypeOK, CallerTypes
  <2>6. TypeOK'
    <3>1. PageTypes'
      BY <1>1, <1>5, <2>1, <2>3, <2>4, <2>5, ZenonT(60)
         DEF Inv, TypeOK, PageTypes, txnVars, storeVars
    <3>2. PoolTypes'
      BY <1>1, <1>5, <2>1, <2>3, <2>4, <2>5, ZenonT(60)
         DEF Inv, TypeOK, PoolTypes, txnVars, storeVars
    <3>3. CallerTypes'
      BY <1>1, <1>5, <2>1, <2>3, <2>4, <2>5, ZenonT(60)
         DEF Inv, TypeOK, CallerTypes, txnVars, storeVars
    <3>4. CallTypes'
      BY <1>1, <1>5, <2>1, <2>3, <2>4, <2>5, ZenonT(60)
         DEF Inv, TypeOK, CallTypes, txnVars, storeVars
    <3> QED BY <1>1, <1>5, <2>1, <2>3, <2>4, <2>5, <3>1, <3>2, <3>3, <3>4,
        SameTypes, ZenonT(60)
        DEF Inv, TypeOK, txnVars, storeVars
  <2>7. FramesAreListed'
    <3>1. \A g \in allocated : pin_count[g] = 0 => transaction'[g] = transaction[g]
      <4>1. allocated \subseteq Frames
        BY Zenon DEF Inv, TypeOK, PoolTypes
      <4>2. pin_count[f] # 0
        BY <1>2
      <4> QED BY <2>4, <4>1, <4>2, Zenon
    <3>2. f \in allocated
      BY <1>2, UsedFrames
    <3>3. /\ Range(free_list) =
               {g \in allocated : pin_count[g] = 0 /\ transaction'[g] = NoTxn}
          /\ Range(lru_list) =
               {g \in allocated : pin_count[g] = 0 /\ transaction'[g] # NoTxn}
      BY <3>1, Zenon DEF Inv, FramesAreListed
    <3>4. \A g \in Frames \ allocated :
            pin_count[g] = 0 /\ transaction'[g] = NoTxn
      BY <2>4, <3>2, ZenonT(60) DEF Inv, FramesAreListed
    <3> QED BY <1>1, <2>1, <3>3, <3>4, PoolLists, Zenon
        DEF FramesAreListed, IsList
  <2>8. \A g \in Frames : pin_count'[g] = pins'[g]
    BY <1>2, <1>4, <2>1, <2>5, Zenon
  <2> QED BY <1>1, <2>4, <2>6, <2>7, <2>8, StorePageReturns, ZenonT(60)
<1>7. CASE ~ok
  <2>1. /\ page_id' = [page_id EXCEPT ![f] = id]
        /\ UnpinUnassignedPage(f)
        /\ UNCHANGED <<transaction, data, pool_pages, page_map, callerVars>>
    BY <1>2, <1>7, Zenon DEF StorePageAssign, FailToFetchPage
  <2>2. /\ FramesAreListed' /\ free_list' \in Seq(Frames)
        /\ pin_count' \in [Frames -> Nat] /\ pin_count'[f] = 0
        /\ \A g \in Frames \ {f} : pin_count'[g] = pin_count[g]
    BY <1>1, <1>2, <2>1, FreeFrame, Zenon
  <2>3. /\ page_id' \in [Frames -> PageIds]
        /\ \A g \in Frames \ {f} : page_id'[g] = page_id[g]
    BY <2>1, Zenon DEF Inv, TypeOK, PageTypes
  <2>4. TypeOK'
    <3>1. PageTypes'
      BY <1>1, <1>5, <2>1, <2>2, <2>3, ZenonT(60)
         DEF Inv, TypeOK, PageTypes, txnVars, storeVars, callerVars
    <3>2. PoolTypes'
      BY <1>1, <1>5, <2>1, <2>2, <2>3, ZenonT(60)
         DEF Inv, TypeOK, PoolTypes, txnVars, storeVars, callerVars
    <3>3. CallTypes'
      BY <1>1, <1>5, <2>1, <2>2, <2>3, ZenonT(60)
         DEF Inv, TypeOK, CallTypes, txnVars, storeVars, callerVars
    <3> QED BY <1>1, <1>5, <2>1, <2>2, <2>3, <3>1, <3>2, <3>3, SameTypes, ZenonT(60)
        DEF Inv, TypeOK, txnVars, storeVars, callerVars
  <2>5. PagesAreListed' /\ DirtyIffModified'
    BY <1>1, <2>1, Zenon DEF Inv, PagesAreListed, DirtyIffModified
  <2>6. \A g \in Frames : transaction[g] # NoTxn => page_id'[g] = page_id[g]
    BY <1>2, <2>3, Zenon
  <2>7. PageMapIsExact'
    <3> SUFFICES ASSUME NEW r \in Stores, NEW i \in PageIds, NEW g \in Frames
                 PROVE  page_map'[r][i] = g <=>
                          /\ transaction'[g] # NoTxn /\ StoreOf[transaction'[g]] = r
                          /\ page_id'[g] = i
      BY DEF PageMapIsExact, AssignedTo
    <3>1. page_map[r][i] = g <=>
            /\ transaction[g] # NoTxn /\ StoreOf[transaction[g]] = r
            /\ page_id[g] = i
      BY DEF Inv, PageMapIsExact, AssignedTo
    <3>2. page_map' = page_map /\ transaction' = transaction
      BY <2>1, Zenon
    <3> QED BY <2>6, <3>1, <3>2, Zenon
  <2>8. PinnedPagesAreAssigned'
    BY <2>1, Zenon DEF Inv, PinnedPagesAreAssigned, callerVars
  <2>9. CleanPagesMatchDisk'
    BY <1>1, <2>1, <2>6, Zenon DEF Inv, CleanPagesMatchDisk, callerVars
  <2>10. \A g \in Frames : pin_count'[g] = pins'[g]
    BY <1>2, <1>4, <2>1, <2>2, Zenon DEF callerVars
  <2> QED BY <1>1, <2>2, <2>4, <2>5, <2>7, <2>8, <2>9, <2>10, StorePageReturns,
      ZenonT(60)
<1> QED BY <1>6, <1>7, Zenon

\* Close unassigns a page, and closes the store if writing it fails.
LEMMA CloseUnassignPageInv ==
  ASSUME Inv, NEW t \in Txns, NEW ok, CloseUnassignPage(t, ok)
  PROVE  Inv'
<1>1. PICK f \in Frames : f = Head(pool_pages[t]) /\ transaction[f] = t /\ t # NoTxn
  BY FirstPage, Zenon DEF CloseUnassignPage
<1>2. /\ Running(t) /\ pc[t] = "unassign" /\ pin_count[f] = 1
      /\ UnassignPageFromStore(f, ok)
      /\ CloseAfterWrite(StoreOf[t], ok, calls)
      /\ loop_page' = [loop_page EXCEPT ![t] = f]
      /\ pc' = [pc EXCEPT ![t] = "unpin"]
      /\ UNCHANGED <<page_id, pin_count, data, allocated, free_list, lru_list,
                     live, is_closed, is_committed, cursor, callerVars,
                     request, failed>>
  BY <1>1, Zenon DEF CloseUnassignPage
<1>3. PinnedByLoop(f) /\ pins[f] = 0
  <2>1. PinnedByLoop(f)
    BY <1>1, <1>2, Zenon DEF PinnedByLoop
  <2> QED BY <1>2, <2>1 DEF Inv, TypeOK, CallerTypes, PinsAreAccounted
<1>4. /\ PagesAreListed' /\ PageMapIsExact' /\ DirtyIffModified'
      /\ PinnedPagesAreAssigned' /\ CleanPagesMatchDisk'
      /\ transaction' \in [Frames -> Txns \union {NoTxn}]
      /\ is_dirty' \in [Frames -> BOOLEAN]
      /\ pool_pages' \in [Txns -> Seq(Frames)]
      /\ page_map' \in [Stores -> [PageIds -> Frames \union {NoFrame}]]
      /\ disk' \in [Stores -> [PageIds -> Values]]
      /\ transaction'[f] = NoTxn
      /\ \A g \in Frames \ {f} : transaction'[g] = transaction[g]
      /\ \A s \in Stores, id \in PageIds :
           page_map[s][id] = NoFrame => page_map'[s][id] = NoFrame
  BY <1>1, <1>2, <1>3, UnassignFrame, Zenon DEF callerVars
<1>5. /\ calls' \in Seq(Txns \union Stores \union {"StorePage", "Pool"})
      /\ IsInjective(calls')
      /\ \A c \in Txns \union {"StorePage", "Pool"} :
           c \in Range(calls') <=> c \in Range(calls)
      /\ \A d \in {"StorePage", "Pool"} :
           d \in Range(calls') => calls'[Len(calls')] = d
      /\ \A r \in Stores : r \in Range(calls') => state'[r] = "kClosing"
      /\ \A r \in Stores : state'[r] = "kOpen" =>
           state[r] = "kOpen" /\ transactions'[r] = transactions[r]
      /\ state' \in [Stores -> {"kOpen", "kClosing", "kClosed"}]
      /\ transactions' \in [Stores -> Seq(UserTxns)]
      /\ rollback_queue' \in [Stores -> Seq(UserTxns)]
  <2>1. IsList(calls, CallNames)
    BY <1>2, InnermostCall, Zenon
  <2>2. /\ \A d \in {"StorePage", "Pool"} :
             d \in Range(calls) => calls[Len(calls)] = d
        /\ \A r \in Stores : r \in Range(calls) => state[r] = "kClosing"
    BY Zenon DEF Inv, CallsAreNested
  <2>3. StoreOf[t] \in Stores
    BY TxnAssumption, Zenon
  <2> QED BY <1>2, <2>1, <2>2, <2>3, CloseAfterWriteCalls, Zenon
<1>6. /\ pc' \in [Txns -> Pcs] /\ pc'[t] = "unpin"
      /\ loop_page' \in [Txns -> Frames \union {NoFrame}]
      /\ loop_page'[t] = f
      /\ \A u \in Txns \ {t} : pc'[u] = pc[u] /\ loop_page'[u] = loop_page[u]
  BY <1>2, Zenon DEF Inv, TypeOK, TxnTypes, Pcs
<1>7. TypeOK'
  <2>1. PageTypes'
    BY <1>2, <1>4, <1>5, <1>6, ZenonT(60) DEF Inv, TypeOK, PageTypes, callerVars
  <2>2. PoolTypes'
    BY <1>2, <1>4, <1>5, <1>6, ZenonT(60) DEF Inv, TypeOK, PoolTypes, callerVars
  <2>3. TxnTypes'
    BY <1>2, <1>4, <1>5, <1>6, ZenonT(60) DEF Inv, TypeOK, TxnTypes, callerVars
  <2>4. StoreTypes'
    BY <1>2, <1>4, <1>5, <1>6, ZenonT(60) DEF Inv, TypeOK, StoreTypes, callerVars
  <2>5. CallTypes'
    BY <1>2, <1>4, <1>5, <1>6, ZenonT(60) DEF Inv, TypeOK, CallTypes, callerVars
  <2> QED BY <1>2, <1>4, <1>5, <1>6, <2>1, <2>2, <2>3, <2>4, <2>5, SameTypes,
      ZenonT(60)
      DEF Inv, TypeOK, callerVars
<1>8. \A u \in Txns : pc[u] \in {"pin_commit", "write", "pin_close"} => FALSE
  <2>1. Head(calls) = t /\ \A u \in Txns : Head(<<u>>) = u
    BY <1>2 DEF Running
  <2> QED BY <1>2, <2>1, ZenonT(60) DEF Inv, CallsAreNested
<1>9. CallsAreNested'
  <2>1. \A u \in Txns : u \in Range(calls') <=> pc'[u] # "idle"
    <3>1. \A u \in Txns : u \in Range(calls) <=> pc[u] # "idle"
      BY Zenon DEF Inv, CallsAreNested
    <3> QED BY <1>2, <1>5, <1>6, <3>1, ZenonT(60)
  <2>2. \A u \in Txns : /\ pc'[u] \notin {"pin_commit", "write", "pin_close"}
                        /\ pc'[u] \in {"unassign", "unpin"} => is_closed'[u]
    <3>1. \A u \in Txns : pc[u] \in {"unassign", "unpin"} => is_closed[u]
      BY Zenon DEF Inv, CallsAreNested
    <3> QED BY <1>2, <1>6, <1>8, <3>1, Zenon
  <2>3. blank' = NoFrame
    BY <1>2, Zenon DEF Inv, CallsAreNested, Running, callerVars
  <2> QED BY <1>5, <2>1, <2>2, <2>3, Zenon DEF CallsAreNested
<1>10. f # NoFrame /\ request.page # f /\ \A u \in Txns : loop_page[u] # f
  BY <1>1, HeldByTransaction, ValueAssumption, Zenon
<1>11. HeldFramesAreUnassigned'
  <2>1. "StorePage" \in Range(calls') <=> "StorePage" \in Range(calls)
    BY <1>5, Zenon
  <2>2. request # NoRequest =>
          /\ request.page \in Frames /\ request.store \in Stores
          /\ request.id \in PageIds
    BY Zenon DEF Inv, TypeOK, CallTypes, Requests
  <2>3. /\ request' # NoRequest <=> "StorePage" \in Range(calls')
        /\ request' # NoRequest =>
             /\ request'.page \in allocated'
             /\ transaction'[request'.page] = NoTxn
             /\ page_map'[request'.store][request'.id] = NoFrame
    BY <1>2, <1>4, <1>10, <2>1, <2>2, ZenonT(60) DEF Inv, HeldFramesAreUnassigned
  <2>4. f \in allocated
    BY <1>1, UsedFrames, Zenon
  <2>5. ASSUME NEW u \in Txns
        PROVE  /\ loop_page'[u] # NoFrame <=> pc'[u] = "unpin"
               /\ loop_page'[u] # NoFrame =>
                    /\ loop_page'[u] \in allocated'
                    /\ transaction'[loop_page'[u]] = NoTxn
                    /\ loop_page'[u] # request'.page
                    /\ \A w \in Txns : loop_page'[w] = loop_page'[u] => w = u
    <3>1. CASE u = t
      BY <1>2, <1>4, <1>6, <1>10, <2>4, <3>1, Zenon
    <3>2. CASE u # t
      <4>1. /\ loop_page[u] # NoFrame <=> pc[u] = "unpin"
            /\ loop_page[u] # NoFrame =>
                 /\ loop_page[u] \in allocated
                 /\ loop_page[u] \in Frames
                 /\ transaction[loop_page[u]] = NoTxn
                 /\ loop_page[u] # request.page
                 /\ \A w \in Txns : loop_page[w] = loop_page[u] => w = u
        BY Zenon DEF Inv, TypeOK, TxnTypes, HeldFramesAreUnassigned
      <4> QED BY <1>2, <1>4, <1>6, <1>10, <3>2, <4>1, ZenonT(60)
    <3> QED BY <3>1, <3>2, Zenon
  <2> QED BY <2>3, <2>5, Zenon DEF HeldFramesAreUnassigned
<1>12. FramesAreListed'
  <2>1. f \in allocated
    BY <1>1, UsedFrames, Zenon
  <2>2. \A g \in allocated : pin_count[g] = 0 => transaction'[g] = transaction[g]
    <3>1. allocated \subseteq Frames
      BY Zenon DEF Inv, TypeOK, PoolTypes
    <3> QED BY <1>2, <1>4, <3>1
  <2>3. Range(free_list) =
          {g \in allocated : pin_count[g] = 0 /\ transaction'[g] = NoTxn}
    BY <2>2, Zenon DEF Inv, FramesAreListed
  <2>4. Range(lru_list) =
          {g \in allocated : pin_count[g] = 0 /\ transaction'[g] # NoTxn}
    BY <2>2, ZenonT(60) DEF Inv, FramesAreListed
  <2>5. \A g \in Frames \ allocated :
          pin_count[g] = 0 /\ transaction'[g] = NoTxn
    BY <1>4, <2>1, ZenonT(60) DEF Inv, FramesAreListed
  <2> QED BY <1>2, <2>3, <2>4, <2>5, ZenonT(60) DEF Inv, FramesAreListed
<1>13. PinsAreAccounted'
  <2> SUFFICES ASSUME NEW g \in Frames
               PROVE  pin_count'[g] =
                        pins'[g] + (IF PinnedByLoop(g)' THEN 1 ELSE 0)
    BY Zenon DEF PinsAreAccounted
  <2>1. pins'[g] = pins[g] /\ pins[g] \in Nat
    BY <1>2, Zenon DEF Inv, TypeOK, CallerTypes, callerVars
  <2>2. PinnedByLoop(g)' <=> PinnedByLoop(g)
    <3>1. CASE g = f
      <4>1. PinnedByLoop(f)'
        BY <1>6, Zenon DEF PinnedByLoop
      <4> QED BY <1>3, <3>1, <4>1, Zenon
    <3>2. CASE g # f
      <4>1. request' = request /\ transaction'[g] = transaction[g]
        BY <1>2, <1>4, <3>2, Zenon
      <4>2. \A u \in Txns : pc'[u] = "unpin" /\ loop_page'[u] = g <=>
                            pc[u] = "unpin" /\ loop_page[u] = g
        BY <1>2, <1>6, <3>2, Zenon
      <4>3. \A u \in Txns : /\ pc[u] \notin {"pin_commit", "pin_close"}
                            /\ pc'[u] \notin {"pin_commit", "pin_close"}
                            /\ pc'[u] \in {"write", "unassign", "unpin"} <=>
                               pc[u] \in {"write", "unassign", "unpin"}
        BY <1>2, <1>6, <1>8, Zenon
      <4> QED BY <4>1, <4>2, <4>3, ZenonT(30) DEF PinnedByLoop
    <3> QED BY <3>1, <3>2, Zenon
  <2>3. pin_count[g] = pins[g] + (IF PinnedByLoop(g) THEN 1 ELSE 0)
    BY Zenon DEF Inv, PinsAreAccounted
  <2> QED BY <1>2, <2>1, <2>2, <2>3, Zenon
<1>14. RunningTransactionsAreListed'
  <2>1. \A u \in UserTxns \intersect live :
          ~is_closed'[u] \/ u \in Range(calls') <=>
            ~is_closed[u] \/ u \in Range(calls)
    BY <1>2, <1>5, Zenon DEF UserTxns
  <2> QED BY <1>2, <1>5, <2>1, SameRunningTransactions, Zenon DEF Inv
<1> QED BY <1>4, <1>7, <1>9, <1>11, <1>12, <1>13, <1>14, ZenonT(60) DEF Inv

-----------------------------------------------------------------------------
(* Pinned pages are stable. *)

\* What a step may do to a frame that callers keep pinned.
StaysCached(f) ==
  /\ page_id'[f] = page_id[f]
  /\ StoreOf[transaction'[f]] = StoreOf[transaction[f]]
  /\ data'[f] # data[f] => is_dirty'[f]

\* Every step keeps the pages that callers have pinned cached.
LEMMA StepKeepsPinnedPages ==
  ASSUME Inv, Next, NEW f \in Frames, pins[f] > 0, pins'[f] > 0
  PROVE  StaysCached(f)
<1>1. CASE UNCHANGED <<page_id, transaction, data>>
  BY <1>1, Zenon DEF StaysCached
<1>2. ASSUME NEW t \in Txns, NEW g \in Frames, NEW v, Modify(t, g, v)
      PROVE  StaysCached(f)
  <2>1. /\ transaction[g] \in {t, InitTxn[StoreOf[t]]} /\ WillModifyPage(t, g)
        /\ data' = [data EXCEPT ![g] = v] /\ page_id' = page_id
    BY <1>2, Zenon DEF Modify
  <2>2. /\ transaction' = transaction \/ transaction' = [transaction EXCEPT ![g] = t]
        /\ is_dirty' = [is_dirty EXCEPT ![g] = TRUE]
    BY <2>1, Zenon DEF WillModifyPage, MovePage
  <2>3. StoreOf[transaction[g]] = StoreOf[t]
    BY <2>1, TxnAssumption, Zenon
  <2> QED BY <2>1, <2>2, <2>3, Zenon DEF StaysCached, Inv, TypeOK, PageTypes
<1>3. ASSUME NEW s \in Stores, NEW id \in PageIds, NEW w, NEW g \in Frames,
             NEW ok, StorePageMiss(s, id, w, g, ok)
      PROVE  StaysCached(f)
  <2>1. calls = <<>> /\ UNCHANGED <<page_id, data>>
    BY <1>3, Zenon DEF StorePageMiss, Idle
  <2>2. CASE transaction' = transaction
    BY <2>1, <2>2, Zenon DEF StaysCached
  <2>3. CASE AllocEvictedPage(g, ok)
    <3>1. g \in Range(lru_list)
      BY <2>3, PoolLists, PopFront, Zenon DEF AllocEvictedPage
    <3>2. pin_count[g] = 0
      BY <3>1, Zenon DEF Inv, FramesAreListed
    <3>3. pins[g] = 0
      BY <2>1, <3>2, NoCallRuns, Zenon
    <3>4. transaction' = [transaction EXCEPT ![g] = NoTxn]
      BY <2>3, Zenon DEF AllocEvictedPage, UnassignPageFromStore, UnassignPage
    <3> QED BY <2>1, <3>3, <3>4 DEF StaysCached, Inv
  <2> QED BY <1>3, <2>2, <2>3, ZenonT(30)
      DEF StorePageMiss, AllocFreePage, AllocNewPage
<1>4. ASSUME NEW ok, StorePageAssign(ok)
      PROVE  StaysCached(f)
  <2>1. pins[request.page] = 0 /\ request.page \in Frames
    BY <1>4, StorePageRuns, Zenon DEF StorePageAssign, Requests
  <2>2. f # request.page
    BY <2>1
  <2>3. \A g \in Frames \ {request.page} :
          /\ page_id'[g] = page_id[g] /\ transaction'[g] = transaction[g]
          /\ data'[g] = data[g]
    <3>1. CASE ok
      <4>1. AssignPageToStore(request.page, request.store, request.id,
                              request.writer = NoTxn)
        BY <1>4, <3>1, Zenon DEF StorePageAssign
      <4>2. /\ transaction' =
                 [transaction EXCEPT ![request.page] = InitTxn[request.store]]
            /\ page_id' = [page_id EXCEPT ![request.page] = request.id]
        BY <4>1, Zenon DEF AssignPageToStore, AssignPage
      <4>3. \A g \in Frames \ {request.page} : data'[g] = data[g]
        BY <4>1, ZenonT(30) DEF AssignPageToStore, Inv, TypeOK, PageTypes
      <4> QED BY <4>2, <4>3, Zenon DEF Inv, TypeOK, PageTypes
    <3>2. CASE ~ok
      <4>1. /\ page_id' = [page_id EXCEPT ![request.page] = request.id]
            /\ UNCHANGED <<transaction, data>>
        BY <1>4, <3>2, Zenon DEF StorePageAssign, FailToFetchPage
      <4> QED BY <4>1, Zenon DEF Inv, TypeOK, PageTypes
    <3> QED BY <3>1, <3>2, Zenon
  <2> QED BY <2>2, <2>3, Zenon DEF StaysCached
<1>5. ASSUME NEW t \in Txns, CommitPage(t)
      PROVE  StaysCached(f)
  <2>1. PICK g \in Frames : g = Head(pool_pages[t]) /\ transaction[g] = t
    BY <1>5, FirstPage, ZenonT(30) DEF CommitPage
  <2>2. /\ transaction' = [transaction EXCEPT ![g] = InitTxn[StoreOf[t]]]
        /\ UNCHANGED <<page_id, data>>
    BY <1>5, <2>1, Zenon DEF CommitPage, PageWasPersisted, MovePage
  <2>3. StoreOf[InitTxn[StoreOf[t]]] = StoreOf[t]
    BY TxnAssumption, Zenon
  <2> QED BY <2>1, <2>2, <2>3, ZenonT(60) DEF StaysCached, Inv, TypeOK, PageTypes
<1>6. ASSUME NEW t \in Txns, NEW ok, CloseUnassignPage(t, ok)
      PROVE  StaysCached(f)
  <2>1. PICK g \in Frames : g = Head(pool_pages[t]) /\ transaction[g] = t
    BY <1>6, FirstPage, Zenon DEF CloseUnassignPage
  <2>2. /\ pin_count[g] = 1 /\ pc[t] = "unassign"
        /\ transaction' = [transaction EXCEPT ![g] = NoTxn]
        /\ UNCHANGED <<page_id, data>>
    BY <1>6, <2>1, Zenon
       DEF CloseUnassignPage, UnassignPageFromStore, UnassignPage
  <2>3. PinnedByLoop(g)
    BY <2>1, <2>2, Zenon DEF PinnedByLoop
  <2>4. pins[g] = 0
    BY <2>2, <2>3, SMTT(30) DEF Inv, TypeOK, CallerTypes, PinsAreAccounted
  <2> QED BY <2>2, <2>4 DEF StaysCached, Inv
<1>7. CASE Call
  BY <1>1, <1>2, <1>3, <1>7, ZenonT(60)
     DEF Call, OtherCall, CreateTransaction, Commit, Rollback, Release,
         CloseStore, DestroyPool, StorePageHit, Unpin, pageVars
<1>8. CASE Step
  BY <1>1, <1>4, <1>5, <1>6, <1>8, ZenonT(60)
     DEF Step, TransactionStep, StoreStep, PinTransactionPage,
         PinTransactionPagesDone, CommitDone, CloseUnpinPage, TransactionClosed,
         CloseRollback, CloseRollbackInit, StoreClosed, DestroyPoolCloseStore,
         DestroyPoolDone, pageVars
<1>9. CASE Failure
  BY <1>1, <1>9, ZenonT(60) DEF Failure, UnassignPinnedPage, Fail, Stop, pageVars
<1> QED BY <1>7, <1>8, <1>9, Zenon DEF Next

-----------------------------------------------------------------------------
(* The initial states, and Next. *)

\* The pool just created, and stores just opened on any data files.
JustOpened ==
  /\ PageInit
  /\ allocated = {} /\ free_list = <<>> /\ lru_list = <<>>
  /\ page_map = [s \in Stores |-> [id \in PageIds |-> NoFrame]]
  /\ disk \in [Stores -> [PageIds -> Values]]
  /\ live = {t \in Txns : IsInit(t)}
  /\ is_closed = [t \in Txns |-> FALSE]
  /\ is_committed = [t \in Txns |-> FALSE]
  /\ pc = [t \in Txns |-> "idle"]
  /\ loop_page = [t \in Txns |-> NoFrame]
  /\ cursor = 1
  /\ state = [s \in Stores |-> "kOpen"]
  /\ transactions = [s \in Stores |-> <<>>]
  /\ rollback_queue = [s \in Stores |-> <<>>]
  /\ request = NoRequest
  /\ calls = <<>>
  /\ pins = [f \in Frames |-> 0]
  /\ blank = NoFrame
  /\ writer = NoTxn
  /\ failed = "none"

\* What Inv says of stores on which nothing has been done yet.
LEMMA JustOpenedInv == JustOpened => Inv
<1> SUFFICES ASSUME JustOpened PROVE Inv
  BY Zenon
<1> USE DEF JustOpened, PageInit
<1>1. /\ \A S : IsList(<<>>, S) /\ IsInjective(<<>>) /\ Range(<<>>) = {}
  BY EmptyList, Zenon DEF IsList
<1>2. \A s \in Stores, t \in Txns : pool_pages[t] = <<>> /\ transactions[s] = <<>>
  BY Zenon
<1>3. TypeOK
  BY ValueAssumption
     DEF TypeOK, PageTypes, PoolTypes, TxnTypes, StoreTypes, CallerTypes,
         CallTypes, Pcs, UserTxns
<1>4. CallsAreNested
  BY <1>1, ZenonT(60) DEF CallsAreNested
<1>5. HeldFramesAreUnassigned
  BY <1>1, Zenon DEF HeldFramesAreUnassigned
<1>6. FramesAreListed
  BY <1>1, Zenon DEF FramesAreListed
<1>7. PagesAreListed
  BY <1>1, <1>2, ValueAssumption, Zenon DEF PagesAreListed
<1>8. PageMapIsExact
  BY ValueAssumption, Zenon DEF PageMapIsExact, AssignedTo
<1>9. DirtyIffModified
  BY ValueAssumption, Zenon DEF DirtyIffModified, UserTxns
<1>10. PinsAreAccounted
  BY ValueAssumption DEF PinsAreAccounted, PinnedByLoop, NoRequest
<1>11. PinnedPagesAreAssigned /\ CleanPagesMatchDisk
  BY DEF PinnedPagesAreAssigned, CleanPagesMatchDisk
<1>12. RunningTransactionsAreListed
  <2>1. \A t \in Txns : t \in live => t \notin UserTxns
    BY Zenon DEF UserTxns
  <2> QED BY <1>1, <1>2, <2>1, ZenonT(60) DEF RunningTransactionsAreListed
<1> QED BY <1>3, <1>4, <1>5, <1>6, <1>7, <1>8, <1>9, <1>10, <1>11, <1>12, ZenonT(60)
    DEF Inv

\* The program starts with stores just opened.
LEMMA InitJustOpened == Init => JustOpened
<1>1. Init => disk \in [Stores -> [PageIds -> Values]]
  BY DEF Init, PoolInit
<1> QED BY <1>1, ZenonT(60) DEF Init, PoolInit, JustOpened

LEMMA InitInv == Init => Inv
BY InitJustOpened, JustOpenedInv, Zenon

\* Every step preserves Inv: one step for each action.
LEMMA NextInv == Inv /\ [Next]_vars => Inv'
<1> SUFFICES ASSUME Inv, [Next]_vars PROVE Inv'
  BY Zenon
<1>1. ASSUME NEW t \in Txns, CreateTransaction(t) PROVE Inv'
  BY <1>1, CreateTransactionInv, Zenon
<1>2. ASSUME NEW t \in Txns, NEW f \in Frames, NEW v \in Values, Modify(t, f, v)
      PROVE  Inv'
  BY <1>2, ModifyInv, Zenon
<1>3. CASE OtherCall
  <2>1. ASSUME NEW t \in Txns, Commit(t) \/ Rollback(t) \/ Release(t) PROVE Inv'
    BY <2>1, CommitInv, RollbackInv, ReleaseInv, ZenonT(60)
  <2>2. ASSUME NEW s \in Stores, CloseStore(s) PROVE Inv'
    BY <2>2, CloseStoreInv, Zenon
  <2>3. CASE DestroyPool
    BY <2>3, DestroyPoolInv, Zenon
  <2>4. ASSUME NEW s \in Stores, NEW id \in PageIds, StorePageHit(s, id)
        PROVE  Inv'
    BY <2>4, StorePageHitInv, Zenon
  <2>5. ASSUME NEW s \in Stores, NEW id \in PageIds,
               NEW w \in UserTxns \union {NoTxn}, NEW f \in Frames, NEW ok,
               StorePageMiss(s, id, w, f, ok)
        PROVE  Inv'
    BY <2>5, StorePageMissInv, Zenon
  <2>6. ASSUME NEW f \in Frames, NEW mode, Unpin(f, mode) PROVE Inv'
    BY <2>6, UnpinInv, Zenon
  <2> QED BY <1>3, <2>1, <2>2, <2>3, <2>4, <2>5, <2>6, ZenonT(60) DEF OtherCall
<1>4. CASE Call
  BY <1>1, <1>2, <1>3, <1>4, Zenon DEF Call
<1>5. ASSUME NEW t \in Txns, TransactionStep(t) PROVE Inv'
  <2>1. CASE PinTransactionPage(t)
    BY <2>1, PinTransactionPageInv, Zenon
  <2>2. CASE PinTransactionPagesDone(t)
    BY <2>2, PinTransactionPagesDoneInv, Zenon
  <2>3. CASE CommitPage(t)
    BY <2>3, CommitPageInv, Zenon
  <2>4. CASE CommitDone(t)
    BY <2>4, CommitDoneInv, Zenon
  <2>5. ASSUME NEW ok, CloseUnassignPage(t, ok) PROVE Inv'
    BY <2>5, CloseUnassignPageInv, Zenon
  <2>6. CASE CloseUnpinPage(t)
    BY <2>6, CloseUnpinPageInv, Zenon
  <2>7. CASE TransactionClosed(t)
    BY <2>7, TransactionClosedInv, Zenon
  <2> QED BY <1>5, <2>1, <2>2, <2>3, <2>4, <2>5, <2>6, <2>7, ZenonT(60)
      DEF TransactionStep
<1>6. ASSUME NEW s \in Stores, StoreStep(s) PROVE Inv'
  BY <1>6, CloseRollbackInv, CloseRollbackInitInv, StoreClosedInv,
     DestroyPoolCloseStoreInv, ZenonT(60)
     DEF StoreStep
<1>7. ASSUME NEW ok, StorePageAssign(ok) PROVE Inv'
  BY <1>7, StorePageAssignInv, Zenon
<1>8. CASE Step
  BY <1>5, <1>6, <1>7, <1>8, DestroyPoolDoneInv, ZenonT(60) DEF Step
<1>9. CASE Failure
  BY <1>9, FailureInv, Zenon
<1>10. CASE UNCHANGED vars
  <2>1. TypeOK'
    <3>1. CallTypes'
      BY <1>10, Zenon
         DEF Inv, TypeOK, CallTypes, vars, pageVars, poolVars, txnVars,
             storeVars, callerVars
    <3> QED BY <1>10, <3>1, SameTypes, SMTT(30)
        DEF Inv, TypeOK, vars, pageVars, poolVars, txnVars, storeVars,
            callerVars
  <2>2. RunningTransactionsAreListed'
    BY <1>10, SameRunningTransactions, Zenon DEF Inv, vars, txnVars, storeVars
  <2> QED BY <1>10, <2>1, <2>2, BystanderStep, ZenonT(60)
      DEF vars, txnVars, storeVars
<1> QED BY <1>4, <1>8, <1>9, <1>10, Zenon DEF Next

\* Inv is an invariant of the library, whatever I/O errors occur.
THEOREM Invariance == Spec => []Inv
<1>1. Init => Inv
  BY InitInv, Zenon
<1>2. Inv /\ [Next]_vars => Inv'
  BY NextInv, Zenon
<1> QED BY <1>1, <1>2, PTL DEF Spec

\* The variables have their types in every reachable state.
THEOREM TypeCorrectness == Spec => []TypeOK
<1>1. Inv => TypeOK
  BY Zenon DEF Inv
<1> QED BY <1>1, Invariance, PTL

\* PagePool's free list and LRU list hold exactly the unpinned frames.
THEOREM NoFrameIsLost == Spec => []FramesAreListed
<1>1. Inv => FramesAreListed
  BY Zenon DEF Inv
<1> QED BY <1>1, Invariance, PTL

\* Every frame is on the list of the transaction it is assigned to, once, and on
\* no other (Page::transaction_ and TransactionImpl::pool_pages_).
THEOREM PagesAreInTransactions == Spec => []PagesAreListed
<1>1. Inv => PagesAreListed
  BY Zenon DEF Inv
<1> QED BY <1>1, Invariance, PTL

\* page_map_ finds exactly the frames that cache a page, by store and page.
THEOREM PagesAreFound == Spec => []PageMapIsExact
<1>1. Inv => PageMapIsExact
  BY Zenon DEF Inv
<1> QED BY <1>1, Invariance, PTL

\* No path through Page::AddPin and Page::RemovePin leaks or drops a pin.
THEOREM NoPinIsLeaked == Spec => []PinsAreAccounted
<1>1. Inv => PinsAreAccounted
  BY Zenon DEF Inv
<1> QED BY <1>1, Invariance, PTL

\* A page that PagePool does not write back can be read from the data file.
THEOREM CleanPagesCanBeDropped == Spec => []CleanPagesMatchDisk
<1>1. Inv => CleanPagesMatchDisk
  BY Zenon DEF Inv
<1> QED BY <1>1, Invariance, PTL

\* StoreImpl::Close finds every running transaction on transactions_.
THEOREM NoTransactionIsForgotten == Spec => []RunningTransactionsAreListed
<1>1. Inv => RunningTransactionsAreListed
  BY Zenon DEF Inv
<1> QED BY <1>1, Invariance, PTL

-----------------------------------------------------------------------------
(* Pinned pages are stable. *)

\* No step of the library takes a page away from a caller that has it pinned,
\* or changes its buffer other than by a recorded modification.
THEOREM PinnedPagesStayCached == Spec => PinnedPagesAreStable
<1>1. Inv /\ Inv' /\ [Next]_vars =>
        [\A f \in Frames : pins[f] > 0 /\ pins'[f] > 0 =>
           /\ page_id'[f] = page_id[f]
           /\ transaction'[f] # NoTxn
           /\ StoreOf[transaction'[f]] = StoreOf[transaction[f]]
           /\ data'[f] # data[f] => is_dirty'[f]]_vars
  <2>1. Inv' => \A f \in Frames : pins'[f] > 0 => transaction'[f] # NoTxn
    BY Zenon DEF Inv, PinnedPagesAreAssigned
  <2> QED BY <2>1, StepKeepsPinnedPages, ZenonT(60) DEF StaysCached
<1> QED BY <1>1, Invariance, PTL DEF Spec, PinnedPagesAreStable

-----------------------------------------------------------------------------
(* The transactions that frames refer to. *)

\* The init transactions are no user transactions.
LEMMA InitTxns ==
  ASSUME NEW s \in Stores
  PROVE  InitTxn[s] \notin UserTxns /\ StoreOf[InitTxn[s]] = s
BY TxnAssumption, Zenon DEF UserTxns, IsInit

\* The transactions of an open store that may modify its pages are listed.
LEMMA RunningIsListed ==
  ASSUME Inv, NEW t \in UserTxns, t \in live, ~is_closed[t],
         state[StoreOf[t]] = "kOpen"
  PROVE  t \in Range(transactions[StoreOf[t]])
<1>1. StoreOf[t] \in Stores
  BY TxnAssumption, Zenon DEF UserTxns
<1> QED BY <1>1, Zenon DEF Inv, RunningTransactionsAreListed

\* Frames get no new owner, and open stores keep their transactions listed.
LEMMA SameOwners ==
  ASSUME OwnersAreListed,
         \A f \in Frames : transaction'[f] \in UserTxns =>
           transaction'[f] = transaction[f],
         \A s \in Stores : state'[s] = "kOpen" =>
           /\ state[s] = "kOpen"
           /\ \A t : t \in Range(transactions[s]) => t \in Range(transactions'[s])
  PROVE  OwnersAreListed'
<1> SUFFICES ASSUME NEW f \in Frames, transaction'[f] \in UserTxns,
                    state'[StoreOf[transaction'[f]]] = "kOpen"
             PROVE  transaction'[f] \in Range(transactions'[StoreOf[transaction'[f]]])
  BY Zenon DEF OwnersAreListed
<1>1. transaction'[f] = transaction[f] /\ StoreOf[transaction[f]] \in Stores
  BY TxnAssumption, Zenon DEF UserTxns
<1>2. transaction[f] \in Range(transactions[StoreOf[transaction[f]]])
  BY <1>1, Zenon DEF OwnersAreListed
<1> QED BY <1>1, <1>2, Zenon

\* A queue is only shortened, or filled with an open store's transactions.
LEMMA SameQueues ==
  ASSUME Inv, QueuesAreOwn,
         \A s \in Stores :
           \/ \A t : t \in Range(rollback_queue'[s]) => t \in Range(rollback_queue[s])
           \/ state[s] = "kOpen" /\ rollback_queue'[s] = transactions[s]
  PROVE  QueuesAreOwn'
<1> SUFFICES ASSUME NEW s \in Stores, NEW t \in Range(rollback_queue'[s])
             PROVE  StoreOf[t] = s
  BY Zenon DEF QueuesAreOwn
<1>1. CASE t \in Range(rollback_queue[s])
  BY <1>1, Zenon DEF QueuesAreOwn
<1>2. CASE state[s] = "kOpen" /\ rollback_queue'[s] = transactions[s]
  BY <1>2, Zenon DEF Inv, RunningTransactionsAreListed
<1> QED BY <1>1, <1>2, Zenon

\* No transaction of a store that stays open is closed while a caller is about
\* to modify a page.
LEMMA SameWriters ==
  ASSUME WritersAreRunning, UNCHANGED <<blank, writer, request>>,
         \A s \in Stores : state'[s] = "kOpen" => state[s] = "kOpen",
         \/ blank = NoFrame /\ request = NoRequest
         \/ \A t \in UserTxns :
              t \in live /\ ~is_closed[t] /\ state'[StoreOf[t]] = "kOpen" =>
                t \in live' /\ ~is_closed'[t]
  PROVE  WritersAreRunning'
<1>1. \A t \in UserTxns : StoreOf[t] \in Stores
  BY TxnAssumption, Zenon DEF UserTxns
<1> QED BY <1>1, ZenonT(60) DEF WritersAreRunning

\* The steps that neither assign a page nor ask for one.
LEMMA OwnersStep ==
  ASSUME Inv, OwnersInv, UNCHANGED <<blank, writer, request>>,
         \A f \in Frames : transaction'[f] \in UserTxns =>
           transaction'[f] = transaction[f],
         \A s \in Stores : state'[s] = "kOpen" =>
           /\ state[s] = "kOpen"
           /\ \A t : t \in Range(transactions[s]) => t \in Range(transactions'[s]),
         \A s \in Stores :
           \/ \A t : t \in Range(rollback_queue'[s]) => t \in Range(rollback_queue[s])
           \/ state[s] = "kOpen" /\ rollback_queue'[s] = transactions[s],
         \/ blank = NoFrame /\ request = NoRequest
         \/ \A t \in UserTxns :
              t \in live /\ ~is_closed[t] /\ state'[StoreOf[t]] = "kOpen" =>
                t \in live' /\ ~is_closed'[t]
  PROVE  OwnersInv'
<1>1. OwnersAreListed'
  BY SameOwners, Zenon DEF OwnersInv
<1>2. QueuesAreOwn'
  BY SameQueues, Zenon DEF OwnersInv
<1>3. WritersAreRunning'
  BY SameWriters, Zenon DEF OwnersInv
<1> QED BY <1>1, <1>2, <1>3, Zenon DEF OwnersInv

\* When the application can make a call, nobody is about to modify a page.
LEMMA IdleCaller ==
  ASSUME Inv, Idle
  PROVE  blank = NoFrame /\ request = NoRequest /\ Range(calls) = {}
BY NoCallRuns, EmptyList, Zenon DEF Idle

\* The calls that change neither a page's owner nor a store.
LEMMA CallOwners ==
  ASSUME Inv, OwnersInv
  PROVE  /\ \A t \in Txns : CreateTransaction(t) => OwnersInv'
         /\ \A t \in Txns : Commit(t) \/ Rollback(t) \/ Release(t) => OwnersInv'
         /\ \A s \in Stores, id \in PageIds : StorePageHit(s, id) => OwnersInv'
         /\ \A f \in Frames : \A mode : Unpin(f, mode) => OwnersInv'
         /\ DestroyPool => OwnersInv'
<1>1. ASSUME NEW t \in Txns, CreateTransaction(t) PROVE OwnersInv'
  <2> DEFINE s == StoreOf[t]
  <2>1. /\ Idle /\ s \in Stores /\ t \in UserTxns
        /\ UNCHANGED <<blank, writer, request, transaction, state, rollback_queue>>
        /\ transactions' = [transactions EXCEPT ![s] = Append(@, t)]
    BY <1>1, TxnAssumption, Zenon DEF CreateTransaction, pageVars, callerVars
  <2>2. /\ state[s] = "kOpen" /\ t \notin live
    BY <1>1, Zenon DEF CreateTransaction
  <2>3. IsList(transactions[s], UserTxns) /\ t \notin Range(transactions[s])
    BY <2>1, <2>2, Zenon
       DEF Inv, TypeOK, StoreTypes, IsList, RunningTransactionsAreListed
  <2>4. Range(Append(transactions[s], t)) = Range(transactions[s]) \union {t}
    BY <2>1, <2>3, PushBack
  <2> HIDE DEF s
  <2>5. \A r \in Stores : \A u : u \in Range(transactions[r]) => u \in Range(transactions'[r])
    BY <2>1, <2>4, Zenon DEF Inv, TypeOK, StoreTypes
  <2> QED BY <2>1, <2>5, IdleCaller, OwnersStep, ZenonT(60)
<1>2. ASSUME NEW t \in Txns, Commit(t) \/ Rollback(t) \/ Release(t)
      PROVE  OwnersInv'
  <2>1. /\ Idle
        /\ UNCHANGED <<blank, writer, request, transaction, state, transactions,
                       rollback_queue>>
    BY <1>2, ZenonT(60)
       DEF Commit, Rollback, Release, pageVars, storeVars, callerVars
  <2> QED BY <2>1, IdleCaller, OwnersStep, ZenonT(60)
<1>3. ASSUME NEW s \in Stores, NEW id \in PageIds, StorePageHit(s, id)
      PROVE  OwnersInv'
  <2>1. /\ Idle
        /\ UNCHANGED <<blank, writer, request, transaction, state, transactions,
                       rollback_queue>>
    BY <1>3, Zenon DEF StorePageHit, storeVars
  <2> QED BY <2>1, IdleCaller, OwnersStep, ZenonT(60)
<1>4. ASSUME NEW f \in Frames, NEW mode, Unpin(f, mode) PROVE OwnersInv'
  <2>1. /\ Idle
        /\ UNCHANGED <<blank, writer, request, transaction, state, transactions,
                       rollback_queue>>
    BY <1>4, Zenon DEF Unpin, storeVars
  <2> QED BY <2>1, IdleCaller, OwnersStep, ZenonT(60)
<1>5. CASE DestroyPool
  <2>1. /\ Idle
        /\ UNCHANGED <<blank, writer, request, transaction, state, transactions,
                       rollback_queue>>
    BY <1>5, Zenon DEF DestroyPool, pageVars, storeVars, callerVars
  <2> QED BY <2>1, IdleCaller, OwnersStep, ZenonT(60)
<1> QED BY <1>1, <1>2, <1>3, <1>4, <1>5, ZenonT(60)

\* The steps of Commit, Close and ~PoolImpl that leave the stores and the open
\* transactions alone, and the checks that fail.
LEMMA LoopOwners ==
  ASSUME Inv, OwnersInv
  PROVE  /\ \A t \in Txns : PinTransactionPage(t) => OwnersInv'
         /\ \A t \in Txns : PinTransactionPagesDone(t) => OwnersInv'
         /\ \A t \in Txns : CloseUnpinPage(t) => OwnersInv'
         /\ \A t \in Txns : CommitPage(t) => OwnersInv'
         /\ DestroyPoolDone => OwnersInv'
         /\ Failure => OwnersInv'
<1>1. ASSUME UNCHANGED <<blank, writer, request, live, is_closed, state,
                         transactions, rollback_queue>>,
             \A f \in Frames : transaction'[f] \in UserTxns =>
               transaction'[f] = transaction[f]
      PROVE  OwnersInv'
  BY <1>1, OwnersStep, ZenonT(60)
<1>2. ASSUME NEW t \in Txns, PinTransactionPage(t) PROVE OwnersInv'
  BY <1>1, <1>2, ZenonT(60) DEF PinTransactionPage, storeVars, callerVars
<1>3. ASSUME NEW t \in Txns, PinTransactionPagesDone(t) PROVE OwnersInv'
  BY <1>1, <1>3, ZenonT(60)
     DEF PinTransactionPagesDone, pageVars, storeVars, callerVars
<1>4. ASSUME NEW t \in Txns, CloseUnpinPage(t) PROVE OwnersInv'
  BY <1>1, <1>4, ZenonT(60) DEF CloseUnpinPage, storeVars, callerVars
<1>5. ASSUME NEW t \in Txns, CommitPage(t) PROVE OwnersInv'
  <2>1. PICK f \in Frames : f = Head(pool_pages[t]) /\ transaction[f] = t
    BY <1>5, FirstPage, Zenon DEF CommitPage
  <2>2. /\ transaction' = [transaction EXCEPT ![f] = InitTxn[StoreOf[t]]]
        /\ UNCHANGED <<txnVars, storeVars, callerVars, request>>
    BY <1>5, <2>1, ZenonT(60) DEF CommitPage, PageWasPersisted, MovePage
  <2>3. StoreOf[t] \in Stores
    BY TxnAssumption, Zenon
  <2>4. /\ transaction'[f] \notin UserTxns
        /\ \A g \in Frames \ {f} : transaction'[g] = transaction[g]
    BY <2>2, <2>3, InitTxns, ZenonT(60) DEF Inv, TypeOK, PageTypes
  <2>5. UNCHANGED <<blank, writer, request, live, is_closed, state, transactions,
                    rollback_queue>>
    BY <2>2, Zenon DEF txnVars, storeVars, callerVars
  <2> QED BY <1>1, <2>4, <2>5, ZenonT(60)
<1>6. CASE DestroyPoolDone
  BY <1>1, <1>6, ZenonT(60)
     DEF DestroyPoolDone, pageVars, txnVars, storeVars, callerVars
<1>7. CASE Failure
  <2>1. UNCHANGED <<pageVars, txnVars, storeVars, callerVars, request>>
    BY <1>7, ZenonT(60) DEF Failure, UnassignPinnedPage, Fail, Stop
  <2> QED BY <1>1, <2>1, ZenonT(60) DEF pageVars, txnVars, storeVars, callerVars
<1> QED BY <1>2, <1>3, <1>4, <1>5, <1>6, <1>7, ZenonT(60)

\* A store starts closing.
LEMMA BeginCloseOwners ==
  ASSUME Inv, OwnersInv, NEW s \in Stores, BeginClose(s), state[s] = "kOpen"
  PROVE  /\ \A r \in Stores : state'[r] = "kOpen" =>
              /\ state[r] = "kOpen"
              /\ \A t : t \in Range(transactions[r]) => t \in Range(transactions'[r])
         /\ \A r \in Stores :
              \/ \A t : t \in Range(rollback_queue'[r]) => t \in Range(rollback_queue[r])
              \/ state[r] = "kOpen" /\ rollback_queue'[r] = transactions[r]
<1>1. /\ state'[s] = "kClosing" /\ rollback_queue'[s] = transactions[s]
      /\ \A r \in Stores \ {s} :
           /\ state'[r] = state[r] /\ transactions'[r] = transactions[r]
           /\ rollback_queue'[r] = rollback_queue[r]
  BY DEF BeginClose, Inv, TypeOK, StoreTypes
<1>2. state'[s] # "kOpen"
  BY <1>1
<1> QED BY <1>1, <1>2, ZenonT(60)

\* UnassignPageFromStore closes the store if the write fails.
LEMMA CloseAfterWriteOwners ==
  ASSUME Inv, OwnersInv, NEW s \in Stores, NEW ok, NEW cs, CloseAfterWrite(s, ok, cs)
  PROVE  /\ \A r \in Stores : state'[r] = "kOpen" =>
              /\ state[r] = "kOpen"
              /\ \A t : t \in Range(transactions[r]) => t \in Range(transactions'[r])
         /\ \A r \in Stores :
              \/ \A t : t \in Range(rollback_queue'[r]) => t \in Range(rollback_queue[r])
              \/ state[r] = "kOpen" /\ rollback_queue'[r] = transactions[r]
<1>1. CASE ~ok /\ state[s] = "kOpen"
  BY <1>1, BeginCloseOwners, Zenon DEF CloseAfterWrite
<1>2. CASE ~(~ok /\ state[s] = "kOpen")
  <2>1. UNCHANGED <<state, transactions, rollback_queue>>
    BY <1>2, Zenon DEF CloseAfterWrite, storeVars
  <2> QED BY <2>1, Zenon
<1> QED BY <1>1, <1>2, Zenon

\* The steps of StoreImpl::Close.
LEMMA StoreOwners ==
  ASSUME Inv, OwnersInv, NEW s \in Stores
  PROVE  /\ CloseStore(s) \/ DestroyPoolCloseStore(s) => OwnersInv'
         /\ CloseRollback(s) => OwnersInv'
         /\ CloseRollbackInit(s) => OwnersInv'
         /\ StoreClosed(s) => OwnersInv'
<1>1. CASE CloseStore(s) \/ DestroyPoolCloseStore(s)
  <2>1. BeginClose(s) /\ state[s] = "kOpen"
    BY <1>1, Zenon DEF CloseStore, DestroyPoolCloseStore
  <2>2. UNCHANGED <<blank, writer, request, transaction, live, is_closed>>
    BY <1>1, ZenonT(60)
       DEF CloseStore, DestroyPoolCloseStore, pageVars, txnVars, callerVars
  <2> QED BY <2>1, <2>2, BeginCloseOwners, OwnersStep, ZenonT(60)
<1>2. CASE CloseRollback(s)
  <2> DEFINE t == Head(rollback_queue[s])
  <2>1. /\ UNCHANGED <<blank, writer, request, transaction, live, state, transactions>>
        /\ rollback_queue' = [rollback_queue EXCEPT ![s] = Tail(@)]
        /\ rollback_queue[s] # <<>> /\ Running(s)
        /\ is_closed' = is_closed \/ is_closed' = [is_closed EXCEPT ![t] = TRUE]
    BY <1>2, ZenonT(60) DEF CloseRollback, BeginTransactionClose, pageVars, callerVars
  <2>2. rollback_queue[s] \in Seq(UserTxns)
    BY Zenon DEF Inv, TypeOK, StoreTypes
  <2>3. /\ t \in Range(rollback_queue[s])
        /\ \A u : u \in Range(Tail(rollback_queue[s])) => u \in Range(rollback_queue[s])
    BY <2>1, <2>2, SMTT(30) DEF Range
  <2>4. StoreOf[t] = s
    BY <2>3, Zenon DEF OwnersInv, QueuesAreOwn
  <2>5. state[s] # "kOpen"
    <3>1. s \in Range(calls)
      BY <2>1, InnermostCall, Zenon
    <3>2. state[s] = "kClosing"
      BY <3>1, Zenon DEF Inv, CallsAreNested
    <3> QED BY <3>2
  <2> HIDE DEF t
  <2>6. \A u \in UserTxns : u # t => is_closed'[u] = is_closed[u]
    BY <2>1, Zenon DEF Inv, TypeOK, TxnTypes, UserTxns
  <2>7. \A u \in UserTxns :
          u \in live /\ ~is_closed[u] /\ state'[StoreOf[u]] = "kOpen" =>
            u \in live' /\ ~is_closed'[u]
    BY <2>1, <2>4, <2>5, <2>6, ZenonT(60)
  <2>8. \A r \in Stores : \A u :
          u \in Range(rollback_queue'[r]) => u \in Range(rollback_queue[r])
    BY <2>1, <2>3, Zenon DEF Inv, TypeOK, StoreTypes
  <2> QED BY <2>1, <2>7, <2>8, OwnersStep, ZenonT(60)
<1>3. CASE CloseRollbackInit(s)
  <2>1. /\ UNCHANGED <<blank, writer, request, transaction, live, state,
                       transactions, rollback_queue>>
        /\ is_closed' = [is_closed EXCEPT ![InitTxn[s]] = TRUE]
    BY <1>3, ZenonT(60)
       DEF CloseRollbackInit, BeginTransactionClose, pageVars, storeVars, callerVars
  <2>2. \A u \in UserTxns : is_closed'[u] = is_closed[u]
    BY <2>1, InitTxns, Zenon DEF Inv, TypeOK, TxnTypes, UserTxns
  <2> QED BY <2>1, <2>2, OwnersStep, ZenonT(60)
<1>4. CASE StoreClosed(s)
  <2>1. /\ UNCHANGED <<blank, writer, request, transaction, live, is_closed,
                       transactions, rollback_queue>>
        /\ state' = [state EXCEPT ![s] = "kClosed"]
    BY <1>4, ZenonT(60) DEF StoreClosed, pageVars, txnVars, callerVars
  <2>2. \A r \in Stores : state'[r] = "kOpen" => state[r] = "kOpen"
    BY <2>1 DEF Inv, TypeOK, StoreTypes
  <2> QED BY <2>1, <2>2, OwnersStep, ZenonT(60)
<1> QED BY <1>1, <1>2, <1>3, <1>4, Zenon

\* TransactionImpl::Commit and Close end, or unassign a page.
LEMMA TransactionOwners ==
  ASSUME Inv, OwnersInv, NEW t \in Txns
  PROVE  /\ CommitDone(t) => OwnersInv'
         /\ TransactionClosed(t) => OwnersInv'
         /\ \A ok : CloseUnassignPage(t, ok) => OwnersInv'
<1>1. CASE CommitDone(t)
  <2>1. /\ UNCHANGED <<blank, writer, request, transaction, state, transactions,
                       rollback_queue>>
        /\ pc[t] = "write"
    BY <1>1, ZenonT(60) DEF CommitDone, pageVars, storeVars, callerVars
  <2>2. calls = <<t>>
    BY <2>1, ZenonT(60) DEF Inv, CallsAreNested
  <2>3. Range(calls) = {t} /\ calls # <<>>
    <3>1. t \in CallNames
      BY Zenon DEF CallNames
    <3>2. calls # <<>>
      BY <2>2
    <3> QED BY <2>2, <3>1, <3>2, SingleCall, Zenon
  <2>4. blank = NoFrame /\ request = NoRequest
    BY <2>3, CallAssumption, ZenonT(60)
       DEF Inv, CallsAreNested, HeldFramesAreUnassigned
  <2> QED BY <2>1, <2>4, OwnersStep, ZenonT(60)
<1>2. CASE TransactionClosed(t)
  <2> DEFINE s == StoreOf[t]
  <2>1. /\ UNCHANGED <<blank, writer, request, transaction, live, is_closed,
                       state, rollback_queue>>
        /\ pool_pages[t] = <<>>
        /\ transactions' = IF state[s] = "kOpen"
                           THEN [transactions EXCEPT ![s] = Erase(@, t)]
                           ELSE transactions
    BY <1>2, ZenonT(60) DEF TransactionClosed, pageVars, callerVars
  <2>2. s \in Stores
    BY TxnAssumption, Zenon
  <2>3. \A f \in Frames : transaction[f] # t
    BY <2>1, EmptyList, Zenon DEF Inv, PagesAreListed
  <2>4. OwnersAreListed'
    <3> SUFFICES ASSUME NEW f \in Frames, transaction[f] \in UserTxns,
                        state[StoreOf[transaction[f]]] = "kOpen"
                 PROVE  transaction[f] \in Range(transactions'[StoreOf[transaction[f]]])
      BY <2>1, Zenon DEF OwnersAreListed
    <3> DEFINE u == transaction[f]
               r == StoreOf[u]
    <3>1. u # t /\ r \in Stores /\ u \in Range(transactions[r]) /\ state[r] = "kOpen"
      BY <2>3, TxnAssumption, Zenon DEF OwnersInv, OwnersAreListed, UserTxns
    <3> HIDE DEF u, r
    <3>2. CASE r = s
      <4>1. transactions'[r] = Erase(transactions[s], t)
        BY <2>1, <2>2, <3>1, <3>2, Zenon DEF Inv, TypeOK, StoreTypes
      <4>2. IsList(transactions[s], UserTxns)
        BY <2>2, <3>1, <3>2, Zenon
           DEF Inv, TypeOK, StoreTypes, IsList, RunningTransactionsAreListed
      <4>3. Range(Erase(transactions[s], t)) = Range(transactions[s]) \ {t}
        BY <4>2, EraseElement, Zenon
      <4>4. u \in Range(transactions'[r])
        BY <3>1, <3>2, <4>1, <4>3, Zenon
      <4> QED BY <4>4, Zenon DEF u, r
    <3>3. CASE r # s
      <4>1. transactions'[r] = transactions[r]
        BY <2>1, <2>2, <3>1, <3>3, Zenon DEF Inv, TypeOK, StoreTypes
      <4>2. u \in Range(transactions'[r])
        BY <3>1, <4>1, Zenon
      <4> QED BY <4>2, Zenon DEF u, r
    <3> QED BY <3>2, <3>3, Zenon
  <2>5. QueuesAreOwn'
    BY <2>1, SameQueues, Zenon DEF OwnersInv
  <2>6. WritersAreRunning'
    BY <2>1, SameWriters, Zenon DEF OwnersInv
  <2> QED BY <2>4, <2>5, <2>6, Zenon DEF OwnersInv
<1>3. ASSUME NEW ok, CloseUnassignPage(t, ok) PROVE OwnersInv'
  <2>1. PICK f \in Frames : f = Head(pool_pages[t]) /\ transaction[f] = t
    BY <1>3, FirstPage, Zenon DEF CloseUnassignPage
  <2>2. /\ transaction' = [transaction EXCEPT ![f] = NoTxn]
        /\ CloseAfterWrite(StoreOf[t], ok, calls)
        /\ UNCHANGED <<blank, writer, request, live, is_closed>>
    BY <1>3, <2>1, ZenonT(60)
       DEF CloseUnassignPage, UnassignPageFromStore, UnassignPage, callerVars
  <2>3. \A g \in Frames : transaction'[g] \in UserTxns =>
          transaction'[g] = transaction[g]
    BY <2>2, ValueAssumption, ZenonT(60) DEF Inv, TypeOK, PageTypes, UserTxns
  <2>4. StoreOf[t] \in Stores
    BY TxnAssumption, Zenon
  <2>5. /\ \A r \in Stores : state'[r] = "kOpen" =>
             /\ state[r] = "kOpen"
             /\ \A u : u \in Range(transactions[r]) => u \in Range(transactions'[r])
        /\ \A r \in Stores :
             \/ \A u : u \in Range(rollback_queue'[r]) => u \in Range(rollback_queue[r])
             \/ state[r] = "kOpen" /\ rollback_queue'[r] = transactions[r]
    BY <2>2, <2>4, CloseAfterWriteOwners, Zenon
  <2> QED BY <2>2, <2>3, <2>5, OwnersStep, ZenonT(60)
<1> QED BY <1>1, <1>2, <1>3, Zenon

\* PagePool::StorePage is asked for a page, for a transaction that is open.
LEMMA StorePageMissOwners ==
  ASSUME Inv, OwnersInv, NEW s \in Stores, NEW id \in PageIds,
         NEW w \in UserTxns \union {NoTxn}, NEW f \in Frames, NEW ok,
         StorePageMiss(s, id, w, f, ok)
  PROVE  OwnersInv'
<1>1. /\ w # NoTxn => w \in live /\ ~is_closed[w]
      /\ request' = [page |-> f, store |-> s, id |-> id, writer |-> w]
      /\ UNCHANGED <<blank, writer, live, is_closed>>
  BY Zenon DEF StorePageMiss, Idle, txnVars, callerVars
<1>2. blank = NoFrame /\ request'.writer = w
  <2>1. blank = NoFrame
    BY Zenon DEF StorePageMiss, Idle
  <2>2. request'.writer = w
    BY <1>1
  <2> QED BY <2>1, <2>2, Zenon
<1>3. WritersAreRunning'
  BY <1>1, <1>2, ValueAssumption, ZenonT(60) DEF WritersAreRunning, UserTxns
<1>4. CASE (AllocFreePage(f) \/ AllocNewPage(f)) /\ UNCHANGED storeVars
  <2>1. UNCHANGED <<transaction, state, transactions, rollback_queue>>
    BY <1>4, Zenon DEF AllocFreePage, AllocNewPage, storeVars
  <2>2. OwnersAreListed'
    BY <2>1, SameOwners, Zenon DEF OwnersInv
  <2>3. QueuesAreOwn'
    BY <2>1, SameQueues, Zenon DEF OwnersInv
  <2> QED BY <1>3, <2>2, <2>3, Zenon DEF OwnersInv
<1>5. CASE /\ AllocEvictedPage(f, ok)
           /\ CloseAfterWrite(StoreOf[transaction[f]], ok, <<"StorePage">>)
  <2>1. /\ f = Head(lru_list) /\ lru_list # <<>>
        /\ transaction' = [transaction EXCEPT ![f] = NoTxn]
    BY <1>5, ZenonT(60) DEF AllocEvictedPage, UnassignPageFromStore, UnassignPage
  <2>2. f \in Range(lru_list)
    BY <2>1, PoolLists, PopFront, ZenonT(60)
  <2>3. transaction[f] # NoTxn
    BY <2>2, ZenonT(60) DEF Inv, FramesAreListed
  <2>4. StoreOf[transaction[f]] \in Stores
    BY <2>3, TxnAssumption, ZenonT(60) DEF Inv, TypeOK, PageTypes
  <2>5. \A g \in Frames : transaction'[g] \in UserTxns =>
          transaction'[g] = transaction[g]
    BY <2>1, ValueAssumption, ZenonT(60) DEF Inv, TypeOK, PageTypes, UserTxns
  <2>6. /\ \A r \in Stores : state'[r] = "kOpen" =>
             /\ state[r] = "kOpen"
             /\ \A u : u \in Range(transactions[r]) => u \in Range(transactions'[r])
        /\ \A r \in Stores :
             \/ \A u : u \in Range(rollback_queue'[r]) => u \in Range(rollback_queue[r])
             \/ state[r] = "kOpen" /\ rollback_queue'[r] = transactions[r]
    BY <1>5, <2>4, CloseAfterWriteOwners, Zenon
  <2>7. OwnersAreListed'
    BY <2>5, <2>6, SameOwners, ZenonT(60) DEF OwnersInv
  <2>8. QueuesAreOwn'
    BY <2>6, SameQueues, ZenonT(60) DEF OwnersInv
  <2> QED BY <1>3, <2>7, <2>8, Zenon DEF OwnersInv
<1> QED BY <1>4, <1>5, ZenonT(60) DEF StorePageMiss

\* PagePool::StorePage returns the page, or an error.
LEMMA StorePageAssignOwners ==
  ASSUME Inv, OwnersInv, NEW ok, StorePageAssign(ok)
  PROVE  OwnersInv'
<1>1. /\ Running("StorePage") /\ request' = NoRequest
      /\ UNCHANGED <<live, is_closed, state, transactions, rollback_queue>>
  BY Zenon DEF StorePageAssign, txnVars, storeVars
<1>2. PICK f \in Frames, s \in Stores, w \in UserTxns \union {NoTxn} :
        /\ f = request.page /\ s = request.store /\ w = request.writer
        /\ transaction[f] = NoTxn /\ request # NoRequest
  <2>1. request \in Requests /\ transaction[request.page] = NoTxn /\ request # NoRequest
    BY <1>1, StorePageRuns, ZenonT(60)
  <2>2. /\ request.page \in Frames /\ request.store \in Stores
        /\ request.writer \in UserTxns \union {NoTxn}
    BY <2>1 DEF Requests
  <2> QED BY <2>1, <2>2, ZenonT(60)
<1>3. blank = NoFrame
  BY <1>1, ZenonT(60) DEF Running, Inv, CallsAreNested
<1>4. /\ transaction' = transaction \/ transaction' = [transaction EXCEPT ![f] = InitTxn[s]]
      /\ \/ blank' = NoFrame
         \/ writer' = w
  <2>1. CASE ok
    BY <1>2, <2>1, ZenonT(60) DEF StorePageAssign, AssignPageToStore, AssignPage
  <2>2. CASE ~ok
    BY <1>2, <1>3, <2>2, ZenonT(60) DEF StorePageAssign, callerVars
  <2> QED BY <2>1, <2>2, Zenon
<1>5. \A g \in Frames : transaction'[g] \in UserTxns =>
        transaction'[g] = transaction[g]
  BY <1>4, InitTxns, ZenonT(60) DEF Inv, TypeOK, PageTypes
<1>6. OwnersAreListed'
  BY <1>1, <1>5, SameOwners, Zenon DEF OwnersInv
<1>7. QueuesAreOwn'
  BY <1>1, SameQueues, Zenon DEF OwnersInv
<1>8. WritersAreRunning'
  BY <1>1, <1>2, <1>4, ZenonT(60) DEF OwnersInv, WritersAreRunning
<1> QED BY <1>6, <1>7, <1>8, Zenon DEF OwnersInv

\* A page is modified under transaction t, which is open if its store is.
LEMMA ModifyOwners ==
  ASSUME Inv, OwnersInv, NEW t \in Txns, NEW f \in Frames, NEW v, Modify(t, f, v)
  PROVE  OwnersInv'
<1>1. /\ t \in UserTxns /\ t \in live /\ calls = <<>> /\ blank' = NoFrame
      /\ IF blank = NoFrame THEN ~is_closed[t] ELSE writer = t
      /\ UNCHANGED <<live, is_closed, state, transactions, rollback_queue, request>>
  BY Zenon DEF Modify, txnVars, storeVars
<1>2. state[StoreOf[t]] = "kOpen" => ~is_closed[t]
  BY <1>1, ZenonT(60) DEF OwnersInv, WritersAreRunning
<1>3. state[StoreOf[t]] = "kOpen" => t \in Range(transactions[StoreOf[t]])
  BY <1>1, <1>2, RunningIsListed, Zenon
<1>4. /\ transaction'[f] = t
      /\ \A g \in Frames \ {f} : transaction'[g] = transaction[g]
  BY ZenonT(60) DEF Modify, WillModifyPage, MovePage, Inv, TypeOK, PageTypes
<1>5. OwnersAreListed'
  BY <1>1, <1>3, <1>4, ZenonT(60) DEF OwnersInv, OwnersAreListed
<1>6. QueuesAreOwn'
  BY <1>1, SameQueues, Zenon DEF OwnersInv
<1>7. WritersAreRunning'
  BY <1>1, NoCallRuns, ZenonT(60) DEF WritersAreRunning
<1> QED BY <1>5, <1>6, <1>7, Zenon DEF OwnersInv

\* Nothing is cached when the stores have just been opened.
LEMMA JustOpenedOwners == JustOpened => OwnersInv
<1> SUFFICES ASSUME JustOpened PROVE OwnersInv
  BY Zenon
<1>1. /\ transaction = [f \in Frames |-> NoTxn]
      /\ rollback_queue = [s \in Stores |-> <<>>]
      /\ blank = NoFrame /\ request = NoRequest
  BY Zenon DEF JustOpened, PageInit
<1>2. OwnersAreListed
  BY <1>1, ValueAssumption, ZenonT(60) DEF OwnersAreListed, UserTxns
<1>3. QueuesAreOwn
  BY <1>1, EmptyList, ZenonT(60) DEF QueuesAreOwn
<1>4. WritersAreRunning
  BY <1>1, Zenon DEF WritersAreRunning
<1> QED BY <1>2, <1>3, <1>4, Zenon DEF OwnersInv

LEMMA InitOwners == Init => OwnersInv
BY InitJustOpened, JustOpenedOwners, Zenon

\* Every step keeps the transactions that frames refer to listed.
LEMMA NextOwners == Inv /\ OwnersInv /\ [Next]_vars => OwnersInv'
<1> SUFFICES ASSUME Inv, OwnersInv, [Next]_vars PROVE OwnersInv'
  BY Zenon
<1>1. CASE UNCHANGED vars
  BY <1>1, OwnersStep, ZenonT(60)
     DEF vars, pageVars, txnVars, storeVars, callerVars
<1>2. ASSUME NEW t \in Txns, CreateTransaction(t) PROVE OwnersInv'
  BY <1>2, CallOwners, ZenonT(60)
<1>3. ASSUME NEW t \in Txns, NEW f \in Frames, NEW v, Modify(t, f, v)
      PROVE  OwnersInv'
  BY <1>3, ModifyOwners, Zenon
<1>4. CASE OtherCall
  <2>1. ASSUME NEW s \in Stores, NEW id \in PageIds,
               NEW w \in UserTxns \union {NoTxn}, NEW f \in Frames, NEW ok,
               StorePageMiss(s, id, w, f, ok)
        PROVE  OwnersInv'
    BY <2>1, StorePageMissOwners, ZenonT(60)
  <2>2. ASSUME NEW s \in Stores, CloseStore(s) PROVE OwnersInv'
    BY <2>2, StoreOwners, ZenonT(60)
  <2> QED BY <1>4, <2>1, <2>2, CallOwners, ZenonT(60) DEF OtherCall
<1>5. CASE Step
  <2>1. ASSUME NEW t \in Txns, TransactionStep(t) PROVE OwnersInv'
    BY <2>1, LoopOwners, TransactionOwners, ZenonT(60) DEF TransactionStep
  <2>2. ASSUME NEW s \in Stores, StoreStep(s) PROVE OwnersInv'
    BY <2>2, StoreOwners, ZenonT(60) DEF StoreStep
  <2>3. ASSUME NEW ok, StorePageAssign(ok) PROVE OwnersInv'
    BY <2>3, StorePageAssignOwners, Zenon
  <2> QED BY <1>5, <2>1, <2>2, <2>3, LoopOwners, ZenonT(60) DEF Step
<1>6. CASE Failure
  BY <1>6, LoopOwners, ZenonT(60)
<1> QED BY <1>1, <1>2, <1>3, <1>4, <1>5, <1>6, ZenonT(60) DEF Next, Call

\* The transactions that have modified an open store's cached pages are on the
\* store's list, and so have not been released: while the store is open,
\* ~TransactionImpl (transaction_impl.cc:54-57) leaves no Page::transaction_
\* that points at a deleted object, whatever I/O errors occur.
THEOREM OwnersAreNotReleased == Spec => []OwnersAreListed
<1>1. Init => Inv /\ OwnersInv
  BY InitInv, InitOwners, Zenon
<1>2. Inv /\ OwnersInv /\ [Next]_vars => (Inv /\ OwnersInv)'
  BY NextInv, NextOwners, Zenon
<1>3. OwnersInv => OwnersAreListed
  BY Zenon DEF OwnersInv
<1> QED BY <1>1, <1>2, <1>3, PTL DEF Spec
=============================================================================
