----------------------------- MODULE StoreImpl -----------------------------
(***************************************************************************)
(* Stores, transactions and the page pool together (store_impl.cc,         *)
(* transaction_impl.cc, page_pool.cc, pool_impl.cc), driven by the code    *)
(* that pins, modifies and unpins pages (FreePageList, StoreImpl::         *)
(* Bootstrap and, through the API, the application).                       *)
(*                                                                         *)
(* The library is single-threaded but reenters itself: a page write that   *)
(* fails inside UnassignPageFromStore closes the store there and then, and *)
(* StoreImpl::Close rolls back transactions, which unassigns pages.  So a  *)
(* call is not one action.  calls is the call stack, innermost call first: *)
(* a transaction stands for its running Commit or Close, a store for its   *)
(* running Close, "StorePage" and "Pool" for PagePool::StorePage and       *)
(* PoolImpl::~PoolImpl.  pc[t] says where transaction t's loops stand.     *)
(* Only the innermost call takes steps, and a new call starts only when    *)
(* the stack is empty.                                                     *)
(*                                                                         *)
(* failed names the check that stopped the program, "none" if it runs.     *)
(***************************************************************************)
EXTENDS PagePool

CONSTANT MaxPins    \* bound: pins the callers may hold on one frame

ASSUME MaxPinsAssumption == MaxPins \in Nat

\* The call stack tells transactions, stores and functions apart.
ASSUME CallAssumption ==
  /\ Txns \intersect Stores = {}
  /\ {"StorePage", "Pool"} \intersect (Txns \union Stores) = {}

VARIABLES live,            \* the transaction objects that exist
          is_closed,       \* TransactionImpl::is_closed_
          is_committed,    \* TransactionImpl::is_committed_
          pc,              \* where a transaction's Commit or Close stands
          loop_page,       \* `page' in the loop of TransactionImpl::Close
          state,           \* StoreImpl::state_
          transactions,    \* StoreImpl::transactions_
          rollback_queue,  \* the local list of StoreImpl::Close
          cursor,          \* the iterator of PinTransactionPages
          request,         \* the arguments and `page' of PagePool::StorePage
          calls,           \* the call stack, innermost call first
          pins,            \* the pins held by the pool's callers
          blank,           \* the frame fetched with kIgnorePageData and not
                           \* yet passed to WillModifyPage
          writer,          \* the transaction it was fetched for
          failed           \* the check that failed

txnVars == <<live, is_closed, is_committed, pc, loop_page, cursor>>
storeVars == <<state, transactions, rollback_queue>>
callerVars == <<pins, blank, writer>>
vars == <<pageVars, poolVars, txnVars, storeVars, callerVars,
          request, calls, failed>>

UserTxns == {t \in Txns : ~IsInit(t)}

NoRequest == [page |-> NoFrame]

\* writer is the transaction for which a caller asks for kIgnorePageData, and
\* NoTxn in a request for kFetchPageData.
Requests == [page : Frames, store : Stores, id : PageIds,
             writer : UserTxns \union {NoTxn}]

\* No call is running and the caller is not between StorePage(kIgnorePageData)
\* and the WillModifyPage that follows it.
Idle == calls = <<>> /\ blank = NoFrame

Running(c) == calls # <<>> /\ Head(calls) = c

\* A check fails and the program stops.  What is left of it is the data files.
Stop(check) ==
  /\ failed' = check
  /\ UNCHANGED <<pageVars, allocated, free_list, lru_list, page_map, txnVars,
                 storeVars, callerVars, request, calls>>

Fail(check) == Stop(check) /\ UNCHANGED disk

-----------------------------------------------------------------------------
(* StoreImpl::Close up to its loop.  BeginClose changes what the statements
   before the loop change; the caller's step pushes the call. *)
BeginClose(s) ==
  /\ state' = [state EXCEPT ![s] = "kClosing"]
  /\ rollback_queue' = [rollback_queue EXCEPT ![s] = transactions[s]]
  /\ transactions' = [transactions EXCEPT ![s] = <<>>]

\* Mutant: the store is marked as closing, and Close does not go on.
CloseAfterWriteStops(s, ok, cs) ==
  /\ IF ~ok /\ state[s] = "kOpen" THEN BeginClose(s) ELSE UNCHANGED storeVars
  /\ calls' = cs

\* The call of StoreImpl::Close in UnassignPageFromStore, from the calls cs:
\* made if the write failed, and an early return unless the store is open.
CloseAfterWrite(s, ok, cs) ==
  IF ~ok /\ state[s] = "kOpen"
  THEN BeginClose(s) /\ calls' = <<s>> \o cs
  ELSE UNCHANGED storeVars /\ calls' = cs

\* What unassigning frame f needs: a dirty page is written to an open file.
FileIsOpenFor(f) == is_dirty[f] => state[StoreOf[transaction[f]]] # "kClosed"

-----------------------------------------------------------------------------
(* PagePool::StorePage *)

StorePageHit(s, id) ==
  LET f == page_map[s][id]
  IN  /\ Idle
      /\ state[s] = "kOpen"
      /\ f # NoFrame
      /\ pins[f] < MaxPins
      /\ PinStorePage(f)
      /\ pins' = [pins EXCEPT ![f] = @ + 1]
      /\ UNCHANGED <<transaction, page_id, is_dirty, data, pool_pages,
                     allocated, free_list, page_map, disk, txnVars, storeVars,
                     blank, writer, request, calls, failed>>

\* The page is not cached: AllocPage finds a frame for it.  A caller that asks
\* for kIgnorePageData has an open transaction to modify the page with.
StorePageMiss(s, id, w, f, ok) ==
  /\ Idle
  /\ state[s] = "kOpen"
  /\ page_map[s][id] = NoFrame
  /\ w # NoTxn => w \in live /\ ~is_closed[w] /\ StoreOf[w] = s
  /\ request' = [page |-> f, store |-> s, id |-> id, writer |-> w]
  /\ \/ (AllocFreePage(f) \/ AllocNewPage(f)) /\ ok /\ UNCHANGED storeVars
        /\ calls' = <<"StorePage">>
     \/ /\ ok \/ is_dirty[f]
        /\ FileIsOpenFor(f)
        /\ AllocEvictedPage(f, ok)
        /\ CloseAfterWrite(StoreOf[transaction[f]], ok, <<"StorePage">>)
  /\ UNCHANGED <<page_id, data, txnVars, callerVars, failed>>

\* The rest of StorePage, once AllocPage has returned request.page.
StorePageAssign(ok) ==
  /\ Running("StorePage")
  /\ LET f == request.page
         s == request.store
         fetch == request.writer = NoTxn
     IN  /\ fetch => state[s] # "kClosed"
         /\ IF ok
            THEN /\ AssignPageToStore(f, s, request.id, fetch)
                 /\ pins' = [pins EXCEPT ![f] = @ + 1]
                 /\ blank' = IF fetch THEN NoFrame ELSE f
                 /\ writer' = request.writer
                 /\ UNCHANGED <<pin_count, free_list>>
            ELSE /\ fetch
                 /\ FailToFetchPage(f, request.id)
                 /\ UNCHANGED <<transaction, data, pool_pages, page_map,
                                callerVars>>
  /\ request' = NoRequest
  /\ calls' = Tail(calls)
  /\ UNCHANGED <<is_dirty, allocated, lru_list, disk, txnVars, storeVars,
                 failed>>

-----------------------------------------------------------------------------
(* The callers' use of the pages they pinned. *)

\* ~PinnedPage, and direct calls of PagePool::UnpinStorePage.
Unpin(f, mode) ==
  /\ Idle
  /\ pins[f] > 0
  /\ UnpinStorePage(f, mode)
  /\ pins' = [pins EXCEPT ![f] = @ - 1]
  /\ UNCHANGED <<transaction, page_id, is_dirty, data, pool_pages, allocated,
                 free_list, page_map, disk, txnVars, storeVars, blank,
                 writer, request, calls, failed>>

\* WillModifyPage and the write to the buffer that follows it.  Callers modify
\* a page under one open transaction at a time (transaction_impl.h:155-157);
\* after kIgnorePageData they do so without looking at the transaction again
\* (store_impl.cc:125,145).
Modify(t, f, v) ==
  /\ calls = <<>>
  /\ t \in UserTxns \intersect live
  /\ IF blank = NoFrame THEN ~is_closed[t] ELSE blank = f /\ writer = t
  /\ pins[f] > 0
  /\ transaction[f] \in {t, InitTxn[StoreOf[t]]}
  /\ WillModifyPage(t, f)
  /\ data' = [data EXCEPT ![f] = v]
  /\ blank' = NoFrame
  /\ writer' = NoTxn
  /\ UNCHANGED <<page_id, pin_count, poolVars, txnVars, storeVars, pins,
                 request, calls, failed>>

-----------------------------------------------------------------------------
(* Transactions: TransactionImpl::Commit, Rollback, Close, Release. *)

\* StoreImpl::CreateTransaction, called on open stores.
CreateTransaction(t) ==
  LET s == StoreOf[t]
  IN  /\ Idle
      /\ t \in UserTxns \ live
      /\ state[s] = "kOpen"
      /\ live' = live \union {t}
      /\ is_closed' = [is_closed EXCEPT ![t] = FALSE]
      /\ is_committed' = [is_committed EXCEPT ![t] = FALSE]
      /\ transactions' = [transactions EXCEPT ![s] = Append(@, t)]
      /\ UNCHANGED <<pageVars, poolVars, pc, loop_page, cursor, state,
                     rollback_queue, callerVars, request, calls, failed>>

\* Mutant: a transaction that is over can be committed.
CommitAgain(t) ==
  /\ Idle
  /\ t \in UserTxns \intersect live
  /\ pc' = [pc EXCEPT ![t] = "pin_commit"]
  /\ cursor' = 1
  /\ calls' = <<t>>
  /\ UNCHANGED <<pageVars, poolVars, live, is_closed, is_committed, loop_page,
                 storeVars, callerVars, request, failed>>

\* TransactionImpl::Commit, up to PinTransactionPages.
Commit(t) ==
  /\ Idle
  /\ t \in UserTxns \intersect live
  /\ ~is_closed[t]
  /\ pc' = [pc EXCEPT ![t] = "pin_commit"]
  /\ cursor' = 1
  /\ calls' = <<t>>
  /\ UNCHANGED <<pageVars, poolVars, live, is_closed, is_committed, loop_page,
                 storeVars, callerVars, request, failed>>

\* TransactionImpl::Close, up to PinTransactionPages, called from the calls cs.
BeginTransactionClose(t, cs) ==
  /\ is_closed' = [is_closed EXCEPT ![t] = TRUE]
  /\ pc' = [pc EXCEPT ![t] = "pin_close"]
  /\ cursor' = 1
  /\ calls' = cs

\* TransactionImpl::Rollback on a running transaction.  The caller has released
\* its pins on the pages it modified (page.h:202-204).
Rollback(t) ==
  /\ Idle
  /\ t \in UserTxns \intersect live
  /\ ~is_closed[t]
  /\ \A f \in Frames : transaction[f] = t => pins[f] = 0
  /\ BeginTransactionClose(t, <<t>>)
  /\ UNCHANGED <<pageVars, poolVars, live, is_committed, loop_page, storeVars,
                 callerVars, request, failed>>

\* TransactionImpl::Release of a closed transaction.  (Releasing an open one
\* rolls it back first.)  Close() has emptied its page list, and WillModifyPage
\* may have put a page on it since (Modify): that page's transaction_ is left
\* pointing at the object that is gone.
Release(t) ==
  /\ Idle
  /\ t \in UserTxns \intersect live
  /\ is_closed[t]
  /\ live' = live \ {t}
  /\ UNCHANGED <<pageVars, poolVars, is_closed, is_committed, pc, loop_page,
                 cursor, storeVars, callerVars, request, calls, failed>>

\* One iteration of the loop in PagePool::PinTransactionPages.
PinTransactionPage(t) ==
  /\ Running(t)
  /\ pc[t] \in {"pin_commit", "pin_close"}
  /\ cursor <= Len(pool_pages[t])
  /\ PinStorePage(pool_pages[t][cursor])
  /\ cursor' = cursor + 1
  /\ UNCHANGED <<transaction, page_id, is_dirty, data, pool_pages, allocated,
                 free_list, page_map, disk, live, is_closed, is_committed, pc,
                 loop_page, storeVars, callerVars, request, calls, failed>>

\* PinTransactionPages returns.
PinTransactionPagesDone(t) ==
  /\ Running(t)
  /\ pc[t] \in {"pin_commit", "pin_close"}
  /\ cursor > Len(pool_pages[t])
  /\ pc' = [pc EXCEPT ![t] = IF @ = "pin_commit" THEN "write" ELSE "unassign"]
  /\ UNCHANGED <<pageVars, poolVars, live, is_closed, is_committed, loop_page,
                 cursor, storeVars, callerVars, request, calls, failed>>

\* Mutant: the page keeps the pin that PinTransactionPages gave it.
CommitPageLeaksPin(t) ==
  /\ Running(t)
  /\ pc[t] = "write"
  /\ pool_pages[t] # <<>>
  /\ LET f == Head(pool_pages[t])
     IN  /\ WritePage(f, TRUE)
         /\ PageWasPersisted(t, f)
  /\ UNCHANGED <<page_id, pin_count, lru_list, data, allocated, free_list,
                 page_map, txnVars, storeVars, callerVars, request, calls,
                 failed>>

\* Mutant: the page is marked as persisted without being written.
CommitPageUnwritten(t) ==
  /\ Running(t)
  /\ pc[t] = "write"
  /\ pool_pages[t] # <<>>
  /\ LET f == Head(pool_pages[t])
     IN  /\ PageWasPersisted(t, f)
         /\ UnpinStorePage(f, "kCachePage")
  /\ UNCHANGED <<page_id, data, disk, allocated, free_list, page_map, txnVars,
                 storeVars, callerVars, request, calls, failed>>

\* One iteration of the loop in TransactionImpl::Commit.
CommitPage(t) ==
  /\ Running(t)
  /\ pc[t] = "write"
  /\ pool_pages[t] # <<>>
  /\ LET f == Head(pool_pages[t])
     IN  /\ WritePage(f, TRUE)
         /\ PageWasPersisted(t, f)
         /\ UnpinStorePage(f, "kCachePage")
  /\ UNCHANGED <<page_id, data, allocated, free_list, page_map, txnVars,
                 storeVars, callerVars, request, calls, failed>>

\* The end of Commit: is_committed_ is set and Close() starts.
CommitDone(t) ==
  /\ Running(t)
  /\ pc[t] = "write"
  /\ pool_pages[t] = <<>>
  /\ is_committed' = [is_committed EXCEPT ![t] = TRUE]
  /\ BeginTransactionClose(t, calls)
  /\ UNCHANGED <<pageVars, poolVars, live, loop_page, storeVars, callerVars,
                 request, failed>>

\* The first half of an iteration of the loop in TransactionImpl::Close.
CloseUnassignPage(t, ok) ==
  /\ Running(t)
  /\ pc[t] = "unassign"
  /\ pool_pages[t] # <<>>
  /\ LET f == Head(pool_pages[t])
     IN  /\ ok \/ is_dirty[f]
         /\ FileIsOpenFor(f)
         /\ pin_count[f] = 1
         /\ UnassignPageFromStore(f, ok)
         /\ CloseAfterWrite(StoreOf[t], ok, calls)
         /\ loop_page' = [loop_page EXCEPT ![t] = f]
  /\ pc' = [pc EXCEPT ![t] = "unpin"]
  /\ UNCHANGED <<page_id, pin_count, data, allocated, free_list, lru_list,
                 live, is_closed, is_committed, cursor, callerVars, request,
                 failed>>

\* The second half: UnpinUnassignedPage.
CloseUnpinPage(t) ==
  /\ Running(t)
  /\ pc[t] = "unpin"
  /\ UnpinUnassignedPage(loop_page[t])
  /\ loop_page' = [loop_page EXCEPT ![t] = NoFrame]
  /\ pc' = [pc EXCEPT ![t] = "unassign"]
  /\ UNCHANGED <<transaction, page_id, is_dirty, data, pool_pages, allocated,
                 lru_list, page_map, disk, live, is_closed, is_committed,
                 cursor, storeVars, callerVars, request, calls, failed>>

\* Mutant: TransactionClosed leaves the transaction on the store's list.
TransactionClosedStaysListed(t) ==
  /\ Running(t)
  /\ pc[t] = "unassign"
  /\ pool_pages[t] = <<>>
  /\ pc' = [pc EXCEPT ![t] = "idle"]
  /\ calls' = Tail(calls)
  /\ UNCHANGED <<pageVars, poolVars, live, is_closed, is_committed, loop_page,
                 cursor, storeVars, callerVars, request, failed>>

\* The end of Close: StoreImpl::TransactionClosed takes the transaction off the
\* store's list unless the store is closing.
TransactionClosed(t) ==
  LET s == StoreOf[t]
  IN  /\ Running(t)
      /\ pc[t] = "unassign"
      /\ pool_pages[t] = <<>>
      /\ state[s] # "kClosed"
      /\ transactions' = IF state[s] = "kOpen"
                         THEN [transactions EXCEPT ![s] = Erase(@, t)]
                         ELSE transactions
      /\ pc' = [pc EXCEPT ![t] = "idle"]
      /\ calls' = Tail(calls)
      /\ UNCHANGED <<pageVars, poolVars, live, is_closed, is_committed,
                     loop_page, cursor, state, rollback_queue, callerVars,
                     request, failed>>

-----------------------------------------------------------------------------
(* Stores: StoreImpl::Close and PoolImpl::~PoolImpl. *)

\* The application closes a store on whose pages nobody holds a pin.
CloseStore(s) ==
  /\ Idle
  /\ state[s] = "kOpen"
  /\ \A f \in AssignedTo(s) : pins[f] = 0
  /\ BeginClose(s)
  /\ calls' = <<s>>
  /\ UNCHANGED <<pageVars, poolVars, txnVars, callerVars, request, failed>>

\* Mutant: the loop does not pop the transaction it rolls back.
CloseRollbackStaysQueued(s) ==
  /\ Running(s)
  /\ rollback_queue[s] # <<>>
  /\ LET t == Head(rollback_queue[s])
     IN  IF is_closed[t] THEN UNCHANGED <<is_closed, pc, cursor, calls>>
         ELSE BeginTransactionClose(t, <<t>> \o calls)
  /\ UNCHANGED <<pageVars, poolVars, live, is_committed, loop_page, storeVars,
                 callerVars, request, failed>>

\* One iteration of the loop in StoreImpl::Close.  Rolling back a transaction
\* that is already closed returns at once.
CloseRollback(s) ==
  /\ Running(s)
  /\ rollback_queue[s] # <<>>
  /\ LET t == Head(rollback_queue[s])
     IN  IF is_closed[t] THEN UNCHANGED <<is_closed, pc, cursor, calls>>
         ELSE BeginTransactionClose(t, <<t>> \o calls)
  /\ rollback_queue' = [rollback_queue EXCEPT ![s] = Tail(@)]
  /\ UNCHANGED <<pageVars, poolVars, live, is_committed, loop_page, state,
                 transactions, callerVars, request, failed>>

\* After the loop, the init transaction is rolled back.
CloseRollbackInit(s) ==
  /\ Running(s)
  /\ rollback_queue[s] = <<>>
  /\ ~is_closed[InitTxn[s]]
  /\ BeginTransactionClose(InitTxn[s], <<InitTxn[s]>> \o calls)
  /\ UNCHANGED <<pageVars, poolVars, live, is_committed, loop_page, storeVars,
                 callerVars, request, failed>>

\* Mutant: the store closes without rolling back its init transaction.
StoreClosedWithoutRollback(s) ==
  /\ Running(s)
  /\ rollback_queue[s] = <<>>
  /\ state' = [state EXCEPT ![s] = "kClosed"]
  /\ calls' = Tail(calls)
  /\ UNCHANGED <<pageVars, poolVars, txnVars, transactions, rollback_queue,
                 callerVars, request, failed>>

\* The end of StoreImpl::Close, with PoolImpl::StoreClosed.
StoreClosed(s) ==
  /\ Running(s)
  /\ rollback_queue[s] = <<>>
  /\ is_closed[InitTxn[s]]
  /\ state' = [state EXCEPT ![s] = "kClosed"]
  /\ calls' = Tail(calls)
  /\ UNCHANGED <<pageVars, poolVars, txnVars, transactions, rollback_queue,
                 callerVars, request, failed>>

\* PoolImpl::~PoolImpl, called when no caller holds a pin.
DestroyPool ==
  /\ Idle
  /\ \A f \in Frames : pins[f] = 0
  /\ allocated # {} \/ \E s \in Stores : state[s] # "kClosed"
  /\ calls' = <<"Pool">>
  /\ UNCHANGED <<pageVars, poolVars, txnVars, storeVars, callerVars, request,
                 failed>>

DestroyPoolCloseStore(s) ==
  /\ Running("Pool")
  /\ state[s] = "kOpen"
  /\ BeginClose(s)
  /\ calls' = <<s>> \o calls
  /\ UNCHANGED <<pageVars, poolVars, txnVars, callerVars, request, failed>>

\* PagePool::~PagePool frees the frames of the free list: all of them, by
\* pool_impl.cc:38, so that none is left in the LRU list.
DestroyPoolDone ==
  /\ Running("Pool")
  /\ \A s \in Stores : state[s] = "kClosed"
  /\ pinned_pages = 0 /\ Cardinality(allocated) = Len(free_list)
  /\ allocated' = allocated \ Range(free_list)
  /\ free_list' = <<>>
  /\ calls' = Tail(calls)
  /\ UNCHANGED <<pageVars, lru_list, page_map, disk, txnVars, storeVars,
                 callerVars, request, failed>>

-----------------------------------------------------------------------------
(* The checks that stop the program. *)

\* A read or a write of a file that StoreImpl::Close has closed: the libc VFS
\* has freed the file object, and the tests' BlockAccessFileWrapper checks it.
\* The page's transaction may have been released too by then, which nothing
\* checks: UnassignPageFromStore reads its store() first.
UseClosedFile ==
  \/ \E t \in Txns : /\ Running(t) /\ pc[t] = "unassign"
                     /\ pool_pages[t] # <<>>
                     /\ ~FileIsOpenFor(Head(pool_pages[t]))
  \/ /\ Running("StorePage")
     /\ request.writer = NoTxn /\ state[request.store] = "kClosed"
  \/ /\ Idle
     /\ free_list = <<>> /\ allocated = Frames /\ lru_list # <<>>
     /\ ~FileIsOpenFor(Head(lru_list))
     /\ \E s \in Stores, id \in PageIds :
          state[s] = "kOpen" /\ page_map[s][id] = NoFrame

\* page.h:207, BERRYDB_DCHECK_EQ(pin_count_, 1U): TransactionImpl::Close
\* unassigns a page that someone else has pinned.  UnassignPageFromStore has
\* written the page by then.
UnassignPinnedPage(ok) ==
  /\ \E t \in Txns :
       LET f == Head(pool_pages[t])
       IN  /\ Running(t) /\ pc[t] = "unassign"
           /\ pool_pages[t] # <<>>
           /\ ok \/ is_dirty[f]
           /\ FileIsOpenFor(f)
           /\ pin_count[f] # 1
           /\ IF is_dirty[f] THEN WritePage(f, ok) ELSE UNCHANGED disk
  /\ Stop("pin_count_is_1")

\* store_impl.cc:242, BERRYDB_ASSUME_NE(state_, State::kClosed).
TransactionOutlivesStore ==
  \E t \in Txns : /\ Running(t) /\ pc[t] = "unassign"
                  /\ pool_pages[t] = <<>>
                  /\ state[StoreOf[t]] = "kClosed"

\* transaction_impl.cc:148, BERRYDB_ASSUME_EQ(status, Status::kSuccess).
CommitWriteFails ==
  \E t \in Txns : /\ Running(t) /\ pc[t] = "write"
                  /\ pool_pages[t] # <<>>
                  /\ FALSE \in WriteOutcomes

\* pool_impl.cc:34 and 38: frames are pinned, or cached for a closed store.
PoolNotDrained ==
  /\ Running("Pool")
  /\ \A s \in Stores : state[s] = "kClosed"
  /\ pinned_pages # 0 \/ Cardinality(allocated) # Len(free_list)

Failure ==
  \/ UseClosedFile /\ Fail("file_is_open")
  \/ \E ok \in WriteOutcomes : UnassignPinnedPage(ok)
  \/ TransactionOutlivesStore /\ Fail("store_is_not_closed")
  \/ CommitWriteFails /\ Fail("commit_write_succeeds")
  \/ PoolNotDrained /\ Fail("pool_is_drained")

-----------------------------------------------------------------------------
\* A pool on which every store has just been opened, with no page cached.
Init ==
  /\ PageInit
  /\ PoolInit
  /\ live = {t \in Txns : IsInit(t)}
  /\ is_closed = [t \in Txns |-> FALSE]
  /\ is_committed = [t \in Txns |-> FALSE]
  /\ pc = [t \in Txns |-> "idle"]
  /\ loop_page = [t \in Txns |-> NoFrame]
  /\ cursor = 1
  /\ state = [s \in Stores |-> "kOpen"]
  /\ transactions = [s \in Stores |-> <<>>]
  /\ rollback_queue = [s \in Stores |-> <<>>]
  /\ request = NoRequest
  /\ calls = <<>>
  /\ pins = [f \in Frames |-> 0]
  /\ blank = NoFrame
  /\ writer = NoTxn
  /\ failed = "none"

TransactionStep(t) ==
  \/ PinTransactionPage(t)
  \/ PinTransactionPagesDone(t)
  \/ CommitPage(t)
  \/ CommitDone(t)
  \/ \E ok \in WriteOutcomes : CloseUnassignPage(t, ok)
  \/ CloseUnpinPage(t)
  \/ TransactionClosed(t)

StoreStep(s) ==
  \/ CloseRollback(s)
  \/ CloseRollbackInit(s)
  \/ StoreClosed(s)
  \/ DestroyPoolCloseStore(s)

\* What the pool's callers and the application do, other than to create
\* transactions and modify pages.
OtherCall ==
  \/ \E t \in Txns : Commit(t) \/ Rollback(t) \/ Release(t)
  \/ \E s \in Stores : CloseStore(s)
  \/ DestroyPool
  \/ \E s \in Stores, id \in PageIds : StorePageHit(s, id)
  \/ \E s \in Stores, id \in PageIds, w \in UserTxns \union {NoTxn},
        f \in Frames, ok \in WriteOutcomes : StorePageMiss(s, id, w, f, ok)
  \/ \E f \in Frames, mode \in {"kCachePage", "kDiscardPage"} : Unpin(f, mode)

Call ==
  \/ \E t \in Txns : CreateTransaction(t)
  \/ \E t \in Txns, f \in Frames, v \in Values \ {Garbage} : Modify(t, f, v)
  \/ OtherCall

\* What the library does to finish the calls on the stack.
Step ==
  \/ \E t \in Txns : TransactionStep(t)
  \/ \E s \in Stores : StoreStep(s)
  \/ \E ok \in ReadOutcomes : StorePageAssign(ok)
  \/ DestroyPoolDone

Next ==
  /\ failed = "none"
  /\ Call \/ Step \/ Failure

Spec == Init /\ [][Next]_vars

\* The thread that made a call keeps running it.  Nothing obliges a caller to
\* make a call.
FairSpec == Spec /\ WF_vars(failed = "none" /\ (Step \/ Failure))

-----------------------------------------------------------------------------
(* Properties *)

Pcs == {"idle", "pin_commit", "write", "pin_close", "unassign", "unpin"}

PageTypes ==
  /\ transaction \in [Frames -> Txns \union {NoTxn}]
  /\ page_id \in [Frames -> PageIds]
  /\ pin_count \in [Frames -> Nat]
  /\ is_dirty \in [Frames -> BOOLEAN]
  /\ data \in [Frames -> Values]
  /\ pool_pages \in [Txns -> Seq(Frames)]

PoolTypes ==
  /\ allocated \in SUBSET Frames
  /\ free_list \in Seq(Frames)
  /\ lru_list \in Seq(Frames)
  /\ page_map \in [Stores -> [PageIds -> Frames \union {NoFrame}]]
  /\ disk \in [Stores -> [PageIds -> Values]]

TxnTypes ==
  /\ live \in SUBSET Txns
  /\ is_closed \in [Txns -> BOOLEAN]
  /\ is_committed \in [Txns -> BOOLEAN]
  /\ pc \in [Txns -> Pcs]
  /\ loop_page \in [Txns -> Frames \union {NoFrame}]
  /\ cursor \in Nat \ {0}

StoreTypes ==
  /\ state \in [Stores -> {"kOpen", "kClosing", "kClosed"}]
  /\ transactions \in [Stores -> Seq(UserTxns)]
  /\ rollback_queue \in [Stores -> Seq(UserTxns)]

CallerTypes ==
  /\ pins \in [Frames -> Nat]
  /\ blank \in Frames \union {NoFrame}
  /\ writer \in UserTxns \union {NoTxn}

CallTypes ==
  /\ request \in Requests \union {NoRequest}
  /\ calls \in Seq(Txns \union Stores \union {"StorePage", "Pool"})
  /\ failed \in {"none", "file_is_open", "pin_count_is_1",
                 "store_is_not_closed", "commit_write_succeeds",
                 "pool_is_drained"}

\* The variables' types.
TypeOK == /\ PageTypes /\ PoolTypes /\ TxnTypes
          /\ StoreTypes /\ CallerTypes /\ CallTypes

\* The pool's two lists hold exactly the frames nobody has pinned, each frame
\* once: unassigned frames on the free list, assigned ones on the LRU list
\* (page_pool.h:313-348; "If the page is already pinned, it is not contained in
\* any list", page_pool.cc:163).  So a pinned frame is never handed out again,
\* and an unpinned one is never lost, on any path of PagePool and of the loops
\* of TransactionImpl::Commit and Close.
FramesAreListed ==
  /\ IsInjective(free_list)
  /\ IsInjective(lru_list)
  /\ Range(free_list) =
       {f \in allocated : pin_count[f] = 0 /\ transaction[f] = NoTxn}
  /\ Range(lru_list) =
       {f \in allocated : pin_count[f] = 0 /\ transaction[f] # NoTxn}
  /\ \A f \in Frames \ allocated :
       pin_count[f] = 0 /\ transaction[f] = NoTxn

\* Every transaction lists exactly the frames assigned to it, once each
\* (transaction_impl.h:282-292), so Close() visits all of them and
\* LinkedList::erase never meets a page of another list.
PagesAreListed ==
  \A t \in Txns : /\ IsInjective(pool_pages[t])
                  /\ Range(pool_pages[t]) = {f \in Frames : transaction[f] = t}

\* page_map_ maps a store's page to the one frame that caches it, and has no
\* entry for a page that no frame caches (the checks in PagePool::StorePage and
\* UnassignPageFromStore, page_pool.cc:67,191-192).
PageMapIsExact ==
  \A s \in Stores, id \in PageIds, f \in Frames :
    page_map[s][id] = f <=> f \in AssignedTo(s) /\ page_id[f] = id

\* A frame is dirty exactly while a non-init transaction owns it ("Pages owned
\* by an init transaction cannot be dirty", transaction_impl.h:196).
DirtyIffModified ==
  \A f \in Frames : is_dirty[f] <=> transaction[f] \in UserTxns

\* The pins the library's own loops hold on frame f: StorePage on the frame it
\* has allocated, Close on the page it has unassigned, and Commit and Close on
\* the pages of their transaction that PinTransactionPages has reached.
PinnedByLoop(f) ==
  \/ request.page = f
  \/ \E t \in Txns : pc[t] = "unpin" /\ loop_page[t] = f
  \/ \E t \in Txns :
       /\ transaction[f] = t
       /\ \/ pc[t] \in {"write", "unassign", "unpin"}
          \/ /\ pc[t] \in {"pin_commit", "pin_close"}
             /\ \E i \in DOMAIN pool_pages[t] :
                  i < cursor /\ pool_pages[t][i] = f

\* No pin is leaked and none is dropped: a frame's pin_count_ is the number of
\* pins its callers hold, plus one while a loop holds it.
PinsAreAccounted ==
  \A f \in Frames :
    pin_count[f] = pins[f] + (IF PinnedByLoop(f) THEN 1 ELSE 0)

\* Callers' pins keep a page assigned: no page is unassigned under a pin.
PinnedPagesAreAssigned ==
  \A f \in Frames : pins[f] > 0 => transaction[f] # NoTxn

\* A clean page's buffer equals the data file's page, so dropping it loses
\* nothing.  The exception is the window after kIgnorePageData that
\* PagePool::FetchStorePage describes (page_pool.cc:120-123).
CleanPagesMatchDisk ==
  \A f \in Frames :
    transaction[f] # NoTxn /\ ~is_dirty[f] /\ f # blank =>
      data[f] = disk[StoreOf[transaction[f]]][page_id[f]]

\* StoreImpl::transactions_ holds an open store's running transactions, once
\* each, so that StoreImpl::Close rolls back all of them.
RunningTransactionsAreListed ==
  \A s \in Stores :
    state[s] = "kOpen" =>
      /\ IsInjective(transactions[s])
      /\ Range(transactions[s]) =
           {t \in UserTxns \intersect live :
              StoreOf[t] = s /\ (~is_closed[t] \/ t \in Range(calls))}

\* How calls nest.  Nothing is on the stack twice; a transaction that commits
\* was called by the application, so the stack holds nothing else; a page list
\* is pinned by the innermost call; StorePage and ~PoolImpl are outermost.
CallsAreNested ==
  /\ IsInjective(calls)
  /\ \A t \in Txns :
       /\ t \in Range(calls) <=> pc[t] # "idle"
       /\ pc[t] \in {"pin_commit", "write"} =>
            calls = <<t>> /\ t \in UserTxns /\ ~is_closed[t]
       /\ pc[t] = "pin_close" => Head(calls) = t
       /\ pc[t] \in {"pin_close", "unassign", "unpin"} => is_closed[t]
  /\ \A s \in Stores : s \in Range(calls) => state[s] = "kClosing"
  /\ \A c \in {"StorePage", "Pool"} :
       c \in Range(calls) => calls[Len(calls)] = c
  /\ blank # NoFrame => calls = <<>>

\* The frames that are neither on a list nor assigned: the one StorePage has
\* allocated and those that Close has unassigned, one for each running Close.
HeldFramesAreUnassigned ==
  /\ request # NoRequest <=> "StorePage" \in Range(calls)
  /\ request # NoRequest =>
       /\ request.page \in allocated
       /\ transaction[request.page] = NoTxn
       /\ page_map[request.store][request.id] = NoFrame
  /\ \A t \in Txns :
       /\ loop_page[t] # NoFrame <=> pc[t] = "unpin"
       /\ loop_page[t] # NoFrame =>
            /\ loop_page[t] \in allocated
            /\ transaction[loop_page[t]] = NoTxn
            /\ loop_page[t] # request.page
            /\ \A u \in Txns : loop_page[u] = loop_page[t] => u = t

\* The inductive invariant from which the properties above are proved.
Inv ==
  /\ TypeOK
  /\ CallsAreNested
  /\ HeldFramesAreUnassigned
  /\ FramesAreListed
  /\ PagesAreListed
  /\ PageMapIsExact
  /\ DirtyIffModified
  /\ PinsAreAccounted
  /\ PinnedPagesAreAssigned
  /\ CleanPagesMatchDisk
  /\ RunningTransactionsAreListed

\* The transactions that have modified an open store's cached pages are on its
\* list: StoreImpl::Close rolls them back, and none of them has been released
\* (RunningTransactionsAreListed).  When a failed write has closed the store
\* under StorePage(kIgnorePageData), the page that it returns is modified under
\* a transaction that is over, and Release leaves it behind.
OwnersAreListed ==
  \A f \in Frames :
    LET t == transaction[f]
    IN  t \in UserTxns /\ state[StoreOf[t]] = "kOpen" =>
          t \in Range(transactions[StoreOf[t]])

\* If its store is open, so is the transaction for which a caller has asked for
\* a page with kIgnorePageData.
WritersAreRunning ==
  \A t \in UserTxns :
    /\ \/ blank # NoFrame /\ writer = t
       \/ request # NoRequest /\ request.writer = t
    /\ state[StoreOf[t]] = "kOpen"
    => t \in live /\ ~is_closed[t]

\* StoreImpl::Close rolls back the store's own transactions.
QueuesAreOwn ==
  \A s \in Stores : \A t \in Range(rollback_queue[s]) : StoreOf[t] = s

OwnersInv == OwnersAreListed /\ WritersAreRunning /\ QueuesAreOwn

\* Data files are only used while they are open: BlockAccessFileWrapper checks
\* it on every Read and Write ("BERRYDB_ASSUME(!is_closed_)",
\* src/test/block_access_file_wrapper.cc:21 and 28).
FilesAreOpenWhenUsed == failed # "file_is_open"

\* While callers keep a pin on a frame, it keeps caching the same page of the
\* same store, and its buffer changes only by a modification that leaves it
\* dirty (page.h:202-204).
PinnedPagesAreStable ==
  [][\A f \in Frames :
       pins[f] > 0 /\ pins'[f] > 0 =>
         /\ page_id'[f] = page_id[f]
         /\ transaction'[f] # NoTxn
         /\ StoreOf[transaction'[f]] = StoreOf[transaction[f]]
         /\ data'[f] # data[f] => is_dirty'[f]]_vars

\* Every call returns, or stops at a failed check: no loop of Close, Commit or
\* ~PoolImpl runs forever, nested calls included.
CallsReturn == calls # <<>> ~> calls = <<>> \/ failed # "none"

\* A store that starts closing is closed in the end, or a check fails.
ClosingStoresClose ==
  \A s \in Stores :
    state[s] = "kClosing" ~> state[s] = "kClosed" \/ failed # "none"
=============================================================================
