------------------------------ MODULE PagePool ------------------------------
(***************************************************************************)
(* The page pool (page_pool.h, page_pool.cc): which frames exist, which    *)
(* are free, which can be evicted and in what order, and which frame       *)
(* caches which page of which store; and the data files it reads and       *)
(* writes through StoreImpl::ReadPage and StoreImpl::WritePage.            *)
(***************************************************************************)
EXTENDS Page

CONSTANTS WritesCanFail,  \* may BlockAccessFile::Write return an error?
          ReadsCanFail    \* may BlockAccessFile::Read return an error?

ASSUME IoAssumption ==
  /\ WritesCanFail \in BOOLEAN
  /\ ReadsCanFail \in BOOLEAN

VARIABLES allocated,  \* the frames created so far: page_count_ of them
          free_list,  \* PagePool::free_list_
          lru_list,   \* PagePool::lru_list_, next victim first
          page_map,   \* PagePool::page_map_
          disk        \* the contents of the stores' data files

poolVars == <<allocated, free_list, lru_list, page_map, disk>>

WriteOutcomes == IF WritesCanFail THEN BOOLEAN ELSE {TRUE}

ReadOutcomes == IF ReadsCanFail THEN BOOLEAN ELSE {TRUE}

\* PagePool::pinned_pages(): page_count_ - free_list_.size() - lru_list_.size().
pinned_pages == Cardinality(allocated) - Len(free_list) - Len(lru_list)

\* Mutant: a pinned frame stays in the eviction queue.
PinStorePageStaysListed(f) ==
  /\ UNCHANGED lru_list
  /\ AddPin(f)

PinStorePage(f) ==
  /\ lru_list' = IF IsUnpinned(f) THEN Erase(lru_list, f) ELSE lru_list
  /\ AddPin(f)

\* Mutant: the frame is queued for eviction while pins remain.
UnpinStorePageTooEarly(f, mode) ==
  /\ RemovePin(f)
  /\ lru_list' = Append(lru_list, f)

\* The last pin puts the frame at the back of the eviction queue, or at its
\* front when the caller does not want the page cached.
UnpinStorePage(f, mode) ==
  /\ RemovePin(f)
  /\ lru_list' = IF pin_count[f] # 1 THEN lru_list
                 ELSE IF mode = "kCachePage" THEN Append(lru_list, f)
                 ELSE <<f>> \o lru_list

UnpinUnassignedPage(f) ==
  /\ RemovePin(f)
  /\ free_list' = IF pin_count[f] # 1 THEN free_list ELSE Append(free_list, f)

\* StoreImpl::WritePage, whose outcome is ok.  A failed write leaves the data
\* file's page as it was.
WritePage(f, ok) ==
  LET s == StoreOf[transaction[f]]
  IN  disk' = IF ok THEN [disk EXCEPT ![s][page_id[f]] = data[f]] ELSE disk

\* Mutant: the page's entry stays in page_map_.
UnassignPageStaysMapped(f, ok) ==
  /\ IF is_dirty[f] THEN WritePage(f, ok) ELSE UNCHANGED disk
  /\ UnassignPage(f)
  /\ UNCHANGED page_map

\* PagePool::UnassignPageFromStore up to its call of StoreImpl::Close, which
\* the caller's step makes when the write failed.
UnassignPageFromStore(f, ok) ==
  /\ page_map' = [page_map EXCEPT ![StoreOf[transaction[f]]][page_id[f]] = NoFrame]
  /\ IF is_dirty[f] THEN WritePage(f, ok) ELSE UNCHANGED disk
  /\ UnassignPage(f)

\* PagePool::AllocPage's first case: reuse a free frame.
AllocFreePage(f) ==
  /\ free_list # <<>>
  /\ f = Head(free_list)
  /\ free_list' = Tail(free_list)
  /\ AddPin(f)
  /\ UNCHANGED <<allocated, lru_list, page_map, disk,
                 transaction, is_dirty, pool_pages>>

\* Mutant: a new frame is not pinned.
AllocNewPageUnpinned(f) ==
  /\ free_list = <<>>
  /\ f \in Frames \ allocated
  /\ allocated' = allocated \union {f}
  /\ UNCHANGED <<pin_count, free_list, lru_list, page_map, disk,
                 transaction, is_dirty, pool_pages>>

\* Its second case: create a frame, which Page::Page pins once.
AllocNewPage(f) ==
  /\ free_list = <<>>
  /\ f \in Frames \ allocated
  /\ allocated' = allocated \union {f}
  /\ pin_count' = [pin_count EXCEPT ![f] = 1]
  /\ UNCHANGED <<free_list, lru_list, page_map, disk,
                 transaction, is_dirty, pool_pages>>

\* Its third case: evict the least recently used frame.
AllocEvictedPage(f, ok) ==
  /\ free_list = <<>> /\ allocated = Frames
  /\ lru_list # <<>>
  /\ f = Head(lru_list)
  /\ AddPin(f)
  /\ lru_list' = Tail(lru_list)
  /\ UnassignPageFromStore(f, ok)
  /\ UNCHANGED <<allocated, free_list>>

\* PagePool::AssignPageToStore when FetchStorePage succeeds.
\* fetch is the mode: kFetchPageData if TRUE, kIgnorePageData if FALSE.
AssignPageToStore(f, s, id, fetch) ==
  /\ AssignPage(InitTxn[s], f, id)
  /\ data' = [data EXCEPT ![f] = IF fetch THEN disk[s][id] ELSE Garbage]
  /\ page_map' = [page_map EXCEPT ![s][id] = f]


\* AssignPageToStore when the read fails: the frame is assigned and unassigned
\* again, which leaves only its page_id_ changed; then PagePool::StorePage
\* returns it to the free list.
FailToFetchPage(f, id) ==
  /\ page_id' = [page_id EXCEPT ![f] = id]
  /\ UnpinUnassignedPage(f)

PoolInit ==
  /\ allocated = {}
  /\ free_list = <<>>
  /\ lru_list = <<>>
  /\ page_map = [s \in Stores |-> [id \in PageIds |-> NoFrame]]
  /\ disk \in {[s \in Stores |-> [id \in PageIds |-> v]] : v \in Values \ {Garbage}}
=============================================================================
