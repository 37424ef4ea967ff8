----------------------------- MODULE PoolTests -----------------------------
(***************************************************************************)
(* The tests of the page pool, of stores and of free page lists            *)
(* (page_pool_unittest.cc, store_impl_unittest.cc,                         *)
(* free_page_list_unittest.cc), as scripts for the model of that code.     *)
(*                                                                         *)
(* A test calls the library and waits for the call to return: its next     *)
(* step is taken when no call is running.  The tests of one instance of    *)
(* this module are the ones whose pool has as many pages as Frames.  Page  *)
(* contents are model values for the random buffers of the tests, and list *)
(* pages.  Page numbers and the entries per list page are scaled down.     *)
(***************************************************************************)
EXTENDS PooledFreePageList, TestScript

CONSTANTS TheTxn,    \* the tests' transaction object, one at a time
          Buffers    \* the tests' random buffers, and 0 for FillSpan(.., 0)

VARIABLES local,         \* the tests' variables of type Page*
          access_error   \* BlockAccessFileWrapper::access_error_ is kIoError

testVars == <<local, access_error>>

InTest == calls = <<>> /\ op = NoOp

\* The frame that the test's variable, the first argument of the step, holds.
Arg1 == local[Arg(1)]

-----------------------------------------------------------------------------
(* The calls that the other modules leave to their callers. *)

\* PagePool::AllocPage, also where it returns nullptr.
AllocPage ==
  /\ InTest /\ Now("AllocPage")
  /\ \/ \E f \in Frames :
          LET ok == ~(access_error /\ is_dirty[f])
          IN  /\ \/ (AllocFreePage(f) \/ AllocNewPage(f)) /\ UNCHANGED <<storeVars, calls>>
                 \/ AllocEvictedPage(f, ok) /\ CloseAfterWrite(TheStore, ok, <<>>)
              /\ local' = [local EXCEPT ![Arg(1)] = f]
              /\ UNCHANGED <<page_id, data, txnVars, callerVars, request, failed>>
     \/ /\ free_list = <<>> /\ allocated = Frames /\ lru_list = <<>>
        /\ local' = [local EXCEPT ![Arg(1)] = NoFrame]
        /\ UNCHANGED vars
  /\ UNCHANGED <<listVars, access_error>>

\* PagePool::AssignPageToStore.  The caller's pin is from now on a pin on a
\* store page.
Assign ==
  LET f == Arg1
      fetch == Arg(3) = "kFetchPageData"
  IN  /\ InTest /\ Now("AssignPageToStore")
      /\ IF fetch /\ access_error
         THEN /\ page_id' = [page_id EXCEPT ![f] = Arg(2)]
              /\ status' = "kIoError"
              /\ UNCHANGED <<transaction, data, pool_pages, page_map, pins>>
         ELSE /\ AssignPageToStore(f, TheStore, Arg(2), fetch)
              /\ status' = "kSuccess"
              /\ pins' = [pins EXCEPT ![f] = @ + 1]
      /\ UNCHANGED <<pin_count, is_dirty, allocated, free_list, lru_list, disk,
                     txnVars, storeVars, blank, writer, request, calls, failed,
                     head_page_id, tail_page_id, op, popped, used, testVars>>

\* TransactionImpl::WillModifyPage and PageWasPersisted.
ChangeOwner ==
  /\ InTest
  /\ \/ Now("WillModifyPage") /\ ~is_closed[TheTxn] /\ WillModifyPage(TheTxn, Arg1)
     \/ Now("PageWasPersisted") /\ PageWasPersisted(TheTxn, Arg1)
  /\ UNCHANGED <<page_id, pin_count, data, poolVars, txnVars, storeVars,
                 callerVars, request, calls, failed, listVars, testVars>>

\* The test fills a page's buffer, or StoreImpl::ReadPage does.
FillData ==
  /\ InTest
  /\ \/ Now("CopySpan") /\ data' = [data EXCEPT ![Arg1] = Arg(2)]
     \/ /\ Now("ReadPage") /\ ~access_error
        /\ data' = [data EXCEPT ![Arg1] = disk[TheStore][page_id[Arg1]]]
  /\ UNCHANGED <<transaction, page_id, pin_count, is_dirty, pool_pages,
                 poolVars, txnVars, storeVars, callerVars, request, calls,
                 failed, listVars, testVars>>

StoreWritePage ==
  /\ InTest /\ Now("WritePage")
  /\ WritePage(Arg1, ~access_error)
  /\ UNCHANGED <<pageVars, allocated, free_list, lru_list, page_map, txnVars,
                 storeVars, callerVars, request, calls, failed, listVars, testVars>>

\* PagePool::UnassignPageFromStore, with its call of StoreImpl::Close.
Unassign ==
  LET f == Arg1
      ok == ~(access_error /\ is_dirty[f])
  IN  /\ InTest /\ Now("UnassignPageFromStore")
      /\ UnassignPageFromStore(f, ok)
      /\ CloseAfterWrite(TheStore, ok, <<>>)
      /\ pins' = [pins EXCEPT ![f] = @ - 1]
      /\ UNCHANGED <<page_id, pin_count, data, allocated, free_list, lru_list,
                     txnVars, blank, writer, request, failed, listVars, testVars>>

UnpinUnassigned ==
  /\ InTest /\ Now("UnpinUnassignedPage")
  /\ UnpinUnassignedPage(Arg1)
  /\ UNCHANGED <<transaction, page_id, is_dirty, data, pool_pages, allocated,
                 lru_list, page_map, disk, txnVars, storeVars, callerVars,
                 request, calls, failed, listVars, testVars>>

PinPage ==
  /\ InTest /\ Now("PinStorePage")
  /\ PinStorePage(Arg1)
  /\ pins' = [pins EXCEPT ![Arg1] = @ + 1]
  /\ UNCHANGED <<transaction, page_id, is_dirty, data, pool_pages, allocated,
                 free_list, page_map, disk, txnVars, storeVars, blank, writer,
                 request, calls, failed, listVars, testVars>>

PoolCall ==
  \/ AllocPage \/ Assign \/ ChangeOwner \/ FillData \/ StoreWritePage
  \/ Unassign \/ UnpinUnassigned \/ PinPage

\* The calls that are actions of StoreImpl.
StoreCall ==
  /\ InTest
  /\ \/ Now("CreateTransaction") /\ CreateTransaction(TheTxn)
     \/ Now("Commit") /\ Commit(TheTxn)
     \/ Now("Rollback") /\ Rollback(TheTxn)
     \/ Now("ReleaseTransaction") /\ Release(TheTxn)
     \/ Now("UnpinStorePage") /\ Unpin(Arg1, "kCachePage")
     \/ Now("StorePage") /\ StorePageHit(TheStore, Arg(2))
     \/ Now("StorePage") /\ \E f \in Frames : StorePageMiss(TheStore, Arg(2), NoTxn, f, TRUE)
     \/ Now("Close") /\ CloseStore(TheStore)
     \/ Now("ReleasePool") /\ DestroyPool
  /\ UNCHANGED <<listVars, testVars>>

\* UniquePtr releases a store that the test has closed, and the fixture a pool
\* that has no pages.
ReleaseClosed ==
  /\ InTest /\ state[TheStore] = "kClosed"
  /\ Now("Close") \/ (Now("ReleasePool") /\ allocated = {})
  /\ UNCHANGED <<vars, listVars, testVars>>

FreePageListCall ==
  /\ InTest
  /\ \/ Now("Push") /\ Push(TheTxn, Arg(1))
     \/ Now("Pop") /\ (Pop(TheTxn) \/ PopEmpty)
  /\ UNCHANGED testVars

\* std::tie(status, page) after StorePage.
Bind ==
  /\ InTest /\ Now("tie")
  /\ local' = [local EXCEPT ![Arg(1)] = Frame(Arg(2))]
  /\ UNCHANGED <<vars, listVars, access_error>>

SetAccessError ==
  /\ InTest /\ Now("SetAccessError")
  /\ access_error' = TRUE
  /\ UNCHANGED <<vars, listVars, local>>

Expectation == InTest /\ Now("Expect") /\ UNCHANGED <<vars, listVars, testVars>>

\* The library runs the call that the test has made.  No test makes a call that
\* writes a page from within StoreImpl::Close after SetAccessError.
LibraryStep ==
  /\ \/ ListStep
     \/ /\ \/ \E t \in Txns : TransactionStep(t)
           \/ StoreStep(TheStore)
           \/ StorePageAssign(~access_error)
           \/ DestroyPoolDone
        /\ UNCHANGED listVars
  /\ UNCHANGED testVars

-----------------------------------------------------------------------------
\* What a test sees when it looks at k, of its variable x where k is a page's.
Sees(x, k) ==
  CASE k = "allocated_pages"   -> Cardinality(allocated)
    [] k = "unused_pages"      -> Len(free_list)
    [] k = "pinned_pages"      -> pinned_pages
    [] k = "is_null"           -> local[x] = NoFrame
    [] k = "is_page"           -> local[x] = local["page"]
    [] k = "is_dirty"          -> is_dirty[local[x]]
    [] k = "IsUnpinned"        -> IsUnpinned(local[x])
    [] k = "transaction"       -> transaction[local[x]]
    [] k = "page_id"           -> page_id[local[x]]
    [] k = "data"              -> data[local[x]]
    [] k = "AssignedPageCount" -> Cardinality(AssignedTo(TheStore))
    [] k = "IsClosed"          -> state[TheStore] = "kClosed"
    [] k = "TransactionIsClosed" -> is_closed[TheTxn]
    [] k = "status"            -> status
    [] k = "popped"            -> popped
    [] k = "head_page_id"      -> head_page_id
    [] k = "tail_page_id"      -> tail_page_id

\* The pages of the pool: allocated, unused and pinned.
Pool(a, u, p) ==
  Expect("page", [allocated_pages |-> a, unused_pages |-> u, pinned_pages |-> p])

TheInit == InitTxn[TheStore]

\* What the tests expect of a page that caches page id and was not modified.
CleanPage(x, id, unpinned) ==
  Expect(x, [is_dirty |-> FALSE, IsUnpinned |-> unpinned,
             transaction |-> TheInit, page_id |-> id])

\* ... and of a page that caches nothing.
UnassignedPage(x, unpinned) ==
  Expect(x, [is_dirty |-> FALSE, IsUnpinned |-> unpinned, transaction |-> NoTxn])

\* The end of a test: what its UniquePtrs and its fixture release.
TearDown == << <<"Close">>, <<"ReleasePool">> >>

\* PagePoolTest::WriteStorePage.
WriteStorePage(id, buffer) ==
  << <<"AllocPage", "p">>, Expect("p", [is_null |-> FALSE]),
     <<"CreateTransaction">>,
     <<"AssignPageToStore", "p", id, "kIgnorePageData">>,
     Expect("p", [status |-> "kSuccess"]),
     <<"WillModifyPage", "p">>, <<"CopySpan", "p", buffer>>,
     <<"WritePage", "p">>, <<"PageWasPersisted", "p">>, <<"Commit">>,
     <<"UnassignPageFromStore", "p">>, <<"UnpinUnassignedPage", "p">>,
     <<"ReleaseTransaction">> >>

WriteStorePages(n) ==
  ForEach(n, LAMBDA i : WriteStorePage(i - 1, Buffers[i]))

\* How several tests get a page that is assigned and clean.
AssignCleanPage(id) ==
  << <<"AllocPage", "page">>, Expect("page", [is_null |-> FALSE]),
     <<"AssignPageToStore", "page", id, "kIgnorePageData">>,
     Expect("page", [status |-> "kSuccess", transaction |-> TheInit,
                     AssignedPageCount |-> 1]),
     <<"CreateTransaction">>, <<"WillModifyPage", "page">>,
     <<"PageWasPersisted", "page">>, <<"Rollback">> >>

-----------------------------------------------------------------------------
(* page_pool_unittest.cc *)

Constructor == << Pool(0, 0, 0) >>

AllocPageState ==
  << <<"AllocPage", "page">>, Expect("page", [is_null |-> FALSE]), Pool(1, 0, 1),
     UnassignedPage("page", FALSE), <<"UnpinUnassignedPage", "page">> >>

AllocRespectsCapacity ==
  << <<"AllocPage", "page">>, Expect("page", [is_null |-> FALSE]), Pool(1, 0, 1),
     <<"AllocPage", "page2">>, Expect("page2", [is_null |-> TRUE]), Pool(1, 0, 1),
     <<"UnpinUnassignedPage", "page">>, Pool(1, 1, 0) >>

AllocUsesFreeList ==
  << <<"AllocPage", "page">>, Expect("page", [is_null |-> FALSE]),
     <<"UnpinUnassignedPage", "page">>, Pool(1, 1, 0),
     <<"AllocPage", "page2">>, Expect("page2", [is_page |-> TRUE]), Pool(1, 0, 1),
     <<"UnpinUnassignedPage", "page2">> >>

AllocUsesLruList ==
  AssignCleanPage(0) \o
  << <<"UnpinStorePage", "page">>, Pool(1, 0, 0),
     <<"AllocPage", "page2">>, Expect("page2", [is_page |-> TRUE]), Pool(1, 0, 1),
     Expect("page2", [transaction |-> NoTxn]),
     <<"UnpinUnassignedPage", "page2">>, <<"ReleaseTransaction">> >>

AllocPrefersFreeListToLruList ==
  AssignCleanPage(0) \o
  << <<"UnpinStorePage", "page">>, Pool(1, 0, 0),
     <<"AllocPage", "page2">>, Expect("page2", [is_page |-> FALSE]), Pool(2, 0, 1),
     Expect("page2", [transaction |-> NoTxn, AssignedPageCount |-> 1]),
     <<"UnpinUnassignedPage", "page2">>, <<"ReleaseTransaction">> >>

\* The tests of UnassignPageFromStore, up to that call.
ModifyPage ==
  << <<"AllocPage", "page">>, Expect("page", [is_null |-> FALSE]),
     <<"AssignPageToStore", "page", 0, "kIgnorePageData">>,
     Expect("page", [status |-> "kSuccess", transaction |-> TheInit]),
     <<"CreateTransaction">>, <<"WillModifyPage", "page">>,
     <<"CopySpan", "page", Buffers[0]>> >>

UnassignPageFromStoreState ==
  ModifyPage \o
  << <<"UnassignPageFromStore", "page">>, UnassignedPage("page", FALSE),
     Expect("page", [IsClosed |-> FALSE]),
     <<"UnpinUnassignedPage", "page">>, <<"Commit">>, <<"ReleaseTransaction">> >>

UnassignPageFromStoreIoError ==
  ModifyPage \o
  << <<"SetAccessError">>,
     <<"UnassignPageFromStore", "page">>, UnassignedPage("page", FALSE),
     Expect("page", [IsClosed |-> TRUE, TransactionIsClosed |-> TRUE]),
     <<"UnpinUnassignedPage", "page">>, <<"ReleaseTransaction">> >>

AssignPageToStoreSuccess ==
  WriteStorePages(4) \o
  ForEach(4, LAMBDA i :
    << <<"AllocPage", "page">>, Expect("page", [is_null |-> FALSE]),
       <<"AssignPageToStore", "page", i - 1, "kFetchPageData">>,
       Expect("page", [status |-> "kSuccess", data |-> Buffers[i]]),
       CleanPage("page", i - 1, FALSE),
       <<"UnpinStorePage", "page">> >>)

AssignPageToStoreIoError ==
  WriteStorePages(2) \o
  << <<"AllocPage", "page">>, Expect("page", [is_null |-> FALSE]),
     <<"AssignPageToStore", "page", 1, "kFetchPageData">>,
     Expect("page", [status |-> "kSuccess"]), <<"UnpinStorePage", "page">>,
     <<"SetAccessError">>,
     <<"AllocPage", "page">>, Expect("page", [is_null |-> FALSE]),
     <<"AssignPageToStore", "page", 1, "kFetchPageData">>,
     Expect("page", [status |-> "kIoError"]), UnassignedPage("page", FALSE),
     <<"UnpinUnassignedPage", "page">> >>

UnpinUnassignedPageState ==
  << <<"AllocPage", "page">>, Expect("page", [is_null |-> FALSE]), Pool(1, 0, 1),
     <<"UnpinUnassignedPage", "page">>, Pool(1, 1, 0),
     UnassignedPage("page", TRUE) >>

PinUnpinStorePage ==
  AssignCleanPage(42) \o
  << <<"PinStorePage", "page">>, CleanPage("page", 42, FALSE), Pool(1, 0, 1),
     <<"UnpinStorePage", "page">>, CleanPage("page", 42, FALSE), Pool(1, 0, 1),
     <<"UnpinStorePage", "page">>, CleanPage("page", 42, TRUE), Pool(1, 0, 0),
     <<"PinStorePage", "page">>, CleanPage("page", 42, FALSE), Pool(1, 0, 1),
     <<"UnpinStorePage", "page">>, <<"ReleaseTransaction">> >>

StorePageTest ==
  WriteStorePages(4) \o
  << <<"StorePage", "page", 2>>, <<"tie", "page", 2>>,
     Expect("page", [is_null |-> FALSE]), CleanPage("page", 2, FALSE),
     Expect("page", [data |-> Buffers[3]]),
     <<"StorePage", "page2", 2>>, <<"tie", "page2", 2>>,
     Expect("page2", [is_page |-> TRUE]), CleanPage("page2", 2, FALSE),
     Expect("page2", [data |-> Buffers[3]]), Pool(1, 0, 1),
     <<"UnpinStorePage", "page2">>, CleanPage("page", 2, FALSE), Pool(1, 0, 1),
     <<"UnassignPageFromStore", "page">>, <<"UnpinUnassignedPage", "page">>,
     UnassignedPage("page", TRUE), Pool(1, 1, 0),
     <<"SetAccessError">>,
     <<"StorePage", "page", 2>>, <<"tie", "page", 2>>,
     Expect("page", [is_null |-> TRUE]), Pool(1, 1, 0) >>

-----------------------------------------------------------------------------
(* store_impl_unittest.cc *)

StoreConstructor ==
  << Expect("page", [IsClosed |-> FALSE, allocated_pages |-> 0]), <<"Close">>,
     Expect("page", [IsClosed |-> TRUE, allocated_pages |-> 0]) >>

\* The two loops of WriteReadPage differ in whether they write the page first.
WriteReadPage ==
  LET Rest(i) ==
        << <<"CopySpan", "page", Buffers[0]>>, <<"PageWasPersisted", "page">>,
           <<"ReadPage", "page">>, Expect("page", [data |-> Buffers[i]]),
           <<"UnassignPageFromStore", "page">>,
           Expect("page", [IsUnpinned |-> FALSE]),
           <<"Rollback">>, <<"ReleaseTransaction">> >>
      Modified(i) ==
        << <<"AssignPageToStore", "page", i - 1, "kIgnorePageData">>,
           Expect("page", [status |-> "kSuccess"]),
           <<"CreateTransaction">>, <<"WillModifyPage", "page">> >>
      Write(i) ==
        << <<"CopySpan", "page", Buffers[i]>>, <<"WritePage", "page">>,
           Expect("page", [is_dirty |-> TRUE]) >>
  IN  << <<"AllocPage", "page">>, Expect("page", [is_null |-> FALSE]) >> \o
      ForEach(4, LAMBDA i : Modified(i) \o Write(i) \o Rest(i)) \o
      ForEach(4, LAMBDA i : Modified(i) \o Rest(i)) \o
      << <<"Close">>, Expect("page", [IsClosed |-> TRUE]),
         <<"UnpinUnassignedPage", "page">>, Expect("page", [IsUnpinned |-> TRUE]) >>

CloseUnassignsPages ==
  LET page == <<"page_0", "page_1", "page_2", "page_3">>
  IN  ForEach(4, LAMBDA i : << <<"AllocPage", page[i]>>,
                               Expect(page[i], [is_null |-> FALSE]) >>) \o
      << <<"CreateTransaction">> >> \o
      ForEach(4, LAMBDA i :
        << <<"AssignPageToStore", page[i], i - 1, "kIgnorePageData">>,
           Expect(page[i], [status |-> "kSuccess"]),
           <<"WillModifyPage", page[i]>>, <<"PageWasPersisted", page[i]>>,
           <<"UnpinStorePage", page[i]>>, Expect(page[i], [IsUnpinned |-> TRUE]) >>) \o
      << Pool(4, 0, 0), <<"Rollback">>, <<"Close">>, Pool(4, 4, 0),
         <<"ReleaseTransaction">> >>

-----------------------------------------------------------------------------
(* free_page_list_unittest.cc *)

kBasePage == 3
kEntriesPerPage == (PageSize - kFirstEntryOffset) \div kEntrySize

\* The pages of the PushPop test: two full list pages and a third one.
kPushedPages == 2 * (kEntriesPerPage + 1) + 1

PushPop ==
  << <<"CreateTransaction">> >> \o
  ForEach(kPushedPages, LAMBDA i :
    << <<"Push", kBasePage + i - 1>>, Expect("page", [status |-> "kSuccess"]) >>) \o
  ForEach(kPushedPages, LAMBDA i :
    << <<"Pop">>, Expect("page", [status |-> "kSuccess",
                                  popped |-> kBasePage + kPushedPages - i]) >>) \o
  << <<"Pop">>,
     Expect("page", [status |-> "kSuccess", popped |-> kInvalidPageId]) >>

\* The list's members.
ListIs(head, tail) ==
  Expect("page", [status |-> "kSuccess", head_page_id |-> head, tail_page_id |-> tail])

\* The test fetches page id, sees r, and evicts the page.
Inspect(x, id, r) ==
  << <<"StorePage", x, id>>, <<"tie", x, id>>, Expect(x, r) >>

Evict(x) ==
  << <<"UnassignPageFromStore", x>>, Expect(x, [is_dirty |-> FALSE]),
     <<"UnpinUnassignedPage", x>> >>

\* The entries of a list page that was pushed first.
PushedEntries(n) == [j \in 1..n |-> kBasePage + j]

\* The page that does not fit, which becomes the second list page.
kSecondPage == kBasePage + kEntriesPerPage + 1

\* The test then pushes the head page again, which no caller may do; the call
\* fails before it looks at the number, so another page will do.
CorruptListPage == [ListPage(kBasePage, <<>>) EXCEPT !.offset = 19]

PushState ==
  << <<"CreateTransaction">> >> \o
  ForEach(kEntriesPerPage + 1, LAMBDA i :
    << <<"Push", kBasePage + i - 1>>, ListIs(kBasePage, kBasePage) >> \o
    Inspect("list_head_page", kBasePage,
            [transaction |-> TheTxn, is_dirty |-> TRUE,
             data |-> ListPage(kInvalidPageId, PushedEntries(i - 1)),
             allocated_pages |-> 1, unused_pages |-> 0]) \o
    Evict("list_head_page")) \o
  << <<"Push", kSecondPage>>, ListIs(kSecondPage, kBasePage) >> \o
  Inspect("list_head_page", kSecondPage,
          [transaction |-> TheTxn, is_dirty |-> TRUE,
           data |-> ListPage(kBasePage, <<>>)]) \o
  Inspect("list_tail_page", kBasePage,
          [transaction |-> TheInit, is_dirty |-> FALSE,
           data |-> ListPage(kInvalidPageId, PushedEntries(kEntriesPerPage)),
           allocated_pages |-> 2, unused_pages |-> 0]) \o
  << <<"CopySpan", "list_head_page", CorruptListPage>> >> \o
  Evict("list_head_page") \o
  << <<"Push", kSecondPage + 1>>, Expect("page", [status |-> "kDataCorrupted"]) >> \o
  Inspect("list_head_page", kSecondPage,
          [transaction |-> TheInit, is_dirty |-> FALSE, data |-> CorruptListPage]) \o
  << <<"UnpinStorePage", "list_head_page">>, <<"UnpinStorePage", "list_tail_page">>,
     <<"Rollback">> >>

\* Some list page is cached and the other frame is free.
OnePageTouched == [allocated_pages |-> 2, unused_pages |-> 1]

PopState ==
  << <<"CreateTransaction">> >> \o
  ForEach(kEntriesPerPage + 2, LAMBDA i :
    << <<"Push", kBasePage + i - 1>>, Expect("page", [status |-> "kSuccess"]) >>) \o
  << ListIs(kSecondPage, kBasePage) >> \o
  Inspect("list_head_page", kSecondPage, [transaction |-> TheTxn, is_dirty |-> TRUE]) \o
  Inspect("list_tail_page", kBasePage, [transaction |-> TheTxn, is_dirty |-> TRUE]) \o
  Evict("list_head_page") \o Evict("list_tail_page") \o
  << Pool(2, 2, 0),
     <<"Pop">>, Expect("page", [popped |-> kSecondPage]), ListIs(kBasePage, kBasePage) >> \o
  Inspect("list_tail_page", kSecondPage, OnePageTouched) \o
  << Expect("list_head_page", [transaction |-> TheInit, is_dirty |-> FALSE]) >> \o
  Evict("list_tail_page") \o
  ForEach(kEntriesPerPage, LAMBDA i :
    << <<"Pop">>, Expect("page", [popped |-> kBasePage + kEntriesPerPage - (i - 1)]),
       ListIs(kBasePage, kBasePage) >> \o
    Inspect("list_head_page", kBasePage,
            [transaction |-> TheTxn, is_dirty |-> TRUE,
             data |-> ListPage(kInvalidPageId, PushedEntries(kEntriesPerPage - i))]) \o
    << Expect("page", OnePageTouched) >> \o
    Evict("list_head_page")) \o
  << <<"Pop">>, Expect("page", [popped |-> kBasePage]),
     ListIs(kInvalidPageId, kInvalidPageId) >> \o
  Inspect("list_head_page", kBasePage, [transaction |-> TheInit, is_dirty |-> FALSE]) \o
  << Expect("page", OnePageTouched) >> \o
  Evict("list_head_page") \o
  << <<"Pop">>, Expect("page", [popped |-> kInvalidPageId]),
     ListIs(kInvalidPageId, kInvalidPageId),
     Expect("page", [allocated_pages |-> 2, unused_pages |-> 2]), <<"Rollback">> >>

-----------------------------------------------------------------------------
\* The fixtures' SetUp and CreatePool: a pool of as many pages as the test asks
\* for, and a new store.
TestOn(capacity, test) == Cardinality(Frames) = capacity /\ script = test \o TearDown

SetUp ==
  /\ InitL
  /\ local = [x \in {"p", "page", "page2", "page_0", "page_1", "page_2", "page_3",
                     "list_head_page", "list_tail_page"} |-> NoFrame]
  /\ access_error = FALSE

PoolTestCases ==
  \/ TestOn(1, Constructor)
  \/ TestOn(1, AllocPageState)
  \/ TestOn(1, AllocRespectsCapacity)
  \/ TestOn(1, AllocUsesFreeList)
  \/ TestOn(1, AllocUsesLruList)
  \/ TestOn(2, AllocPrefersFreeListToLruList)
  \/ TestOn(1, UnassignPageFromStoreState)
  \/ TestOn(1, UnassignPageFromStoreIoError)
  \/ TestOn(1, AssignPageToStoreSuccess)
  \/ TestOn(1, AssignPageToStoreIoError)
  \/ TestOn(1, UnpinUnassignedPageState)
  \/ TestOn(1, PinUnpinStorePage)
  \/ TestOn(2, StorePageTest)
  \/ TestOn(1, StoreConstructor)
  \/ TestOn(2, WriteReadPage)
  \/ TestOn(4, CloseUnassignsPages)
  \/ TestOn(4, PushPop)
  \/ TestOn(3, PushState)
  \/ TestOn(3, PopState)

RunTest ==
  /\ \/ (PoolCall \/ StoreCall \/ ReleaseClosed \/ FreePageListCall) /\ Advance
     \/ (Bind \/ SetAccessError \/ Expectation) /\ Advance
     \/ LibraryStep /\ UNCHANGED script
  /\ UNCHANGED held

ExpectationHolds ==
  InTest /\ Now("Expect") => \A k \in DOMAIN Arg(2) : Sees(Arg(1), k) = Arg(2)[k]
=============================================================================
