------------------------ MODULE PooledFreePageList ------------------------
(***************************************************************************)
(* A free page list (free_page_list.cc) on top of the page pool: Push and  *)
(* Pop fetch, modify and unpin the list's pages one after the other, while *)
(* the pool evicts pages, reads fail and transactions end.                 *)
(*                                                                         *)
(* op is the running call, with the place it has reached; the frame that   *)
(* its PinnedPage holds is op.page.  The list is used by one transaction   *)
(* at a time, the "alloc_transaction" of free_page_manager.h, and by one   *)
(* store.  A page's content is the list page it holds.  Writes do not fail *)
(* here: what the pool does then is StoreImpl's subject.                   *)
(***************************************************************************)
EXTENDS StoreImpl

CONSTANTS TheStore,
          PageSize   \* the pool's page_size()

kInvalidPageId == 0
kFirstEntryOffset == 16
kEntrySize == 8

ASSUME PageSizeAssumption ==
  PageSize \in Nat /\ PageSize > kFirstEntryOffset /\ PageSize % kEntrySize = 0

VARIABLES head_page_id, tail_page_id,  \* the FreePageList's members
          op,                          \* the running call
          status,                      \* what the last call returned
          popped,                      \* the page number that it returned
          used,                        \* the pages that are not on the list
          held                         \* a frame that another caller has pinned

listVars == <<head_page_id, tail_page_id, op, status, popped, used>>

NoOp == [call |-> "none"]

\* A list page: NextPageId64, NextEntryOffset and the entries up to there.
ListPage(next, entries) ==
  [next |-> next, offset |-> kFirstEntryOffset + kEntrySize * Len(entries),
   entries |-> entries]

IsCorruptEntryOffset(offset) == offset >= PageSize \/ offset % kEntrySize # 0

-----------------------------------------------------------------------------
(* What calls of the pool do to the running call. *)

At(label) == op.call # "none" /\ op.at = label

GoTo(label) == op' = [op EXCEPT !.at = label]

\* PagePool::StorePage is called for page id.  w is the transaction when the
\* page's data is not needed (kIgnorePageData).  Without a frame to use, the
\* call returns kPoolFull.
StorePage(id, w, label) ==
  \/ /\ \/ StorePageHit(TheStore, id)
        \/ \E f \in Frames, ok \in WriteOutcomes : StorePageMiss(TheStore, id, w, f, ok)
     /\ GoTo(label)
     /\ UNCHANGED <<head_page_id, tail_page_id, status, popped, used>>
  \/ /\ Idle /\ page_map[TheStore][id] = NoFrame
     /\ free_list = <<>> /\ allocated = Frames /\ lru_list = <<>>
     /\ op' = NoOp
     /\ status' = "kPoolFull" /\ popped' = kInvalidPageId
     /\ UNCHANGED <<vars, head_page_id, tail_page_id, used>>

\* The frame that StorePage has returned for page id.
Frame(id) == page_map[TheStore][id]

\* The head page could not be read.  A page whose data is not needed can always
\* be had once there is a frame for it.
StorePageFailed ==
  /\ calls = <<>> /\ At("read")
  /\ Frame(head_page_id) = NoFrame
  /\ op' = NoOp
  /\ status' = "kIoError" /\ popped' = kInvalidPageId
  /\ UNCHANGED <<vars, head_page_id, tail_page_id, used>>

\* The call is over but for ~PinnedPage.
Finish(f, result) ==
  /\ op' = [op EXCEPT !.at = "unpin", !.page = f]
  /\ status' = result

\* Mutant: an error path forgets its pin.
UnpinForgotten ==
  /\ calls = <<>> /\ At("unpin")
  /\ IF status = "kSuccess" THEN Unpin(op.page, "kCachePage") ELSE UNCHANGED vars
  /\ op' = IF op.then = "new" THEN [op EXCEPT !.at = "new"] ELSE NoOp
  /\ UNCHANGED <<head_page_id, tail_page_id, status, popped, used>>

\* Mutant: with a full head page, Push starts over.
UnpinPageRetries ==
  /\ calls = <<>> /\ At("unpin")
  /\ Unpin(op.page, "kCachePage")
  /\ op' = IF op.then = "new" THEN [op EXCEPT !.at = "fetch"] ELSE NoOp
  /\ UNCHANGED <<head_page_id, tail_page_id, status, popped, used>>

\* ~PinnedPage, where the call returns or, in Push, leaves its first block.
UnpinPage ==
  /\ calls = <<>> /\ At("unpin")
  /\ Unpin(op.page, "kCachePage")
  /\ op' = IF op.then = "new" THEN [op EXCEPT !.at = "new"] ELSE NoOp
  /\ UNCHANGED <<head_page_id, tail_page_id, status, popped, used>>

-----------------------------------------------------------------------------
(* FreePageList::Pop *)

\* An empty list has nothing to give.
PopEmpty ==
  /\ Idle /\ op = NoOp /\ head_page_id = kInvalidPageId
  /\ status' = "kSuccess" /\ popped' = kInvalidPageId
  /\ UNCHANGED <<vars, head_page_id, tail_page_id, op, used>>

MayUseList(t) == Idle /\ op = NoOp /\ t \in live /\ ~IsInit(t) /\ ~is_closed[t]

Pop(t) ==
  /\ MayUseList(t) /\ head_page_id # kInvalidPageId
  /\ op' = [call |-> "Pop", txn |-> t, at |-> "fetch", page |-> NoFrame,
            then |-> "return"]
  /\ UNCHANGED <<vars, head_page_id, tail_page_id, status, popped, used>>

PopFetch == At("fetch") /\ op.call = "Pop" /\ StorePage(head_page_id, NoTxn, "read")

\* The head page is the last free page of the list, or of its head page.
PopPage ==
  LET f == Frame(head_page_id)
      next == data[f].next
  IN  /\ calls = <<>> /\ At("read") /\ op.call = "Pop" /\ f # NoFrame
      /\ data[f].offset = kFirstEntryOffset
      /\ popped' = head_page_id
      /\ used' = used \union {head_page_id}
      /\ head_page_id' = next
      /\ tail_page_id' = IF next = kInvalidPageId THEN kInvalidPageId
                         ELSE tail_page_id
      /\ Finish(f, "kSuccess")
      /\ UNCHANGED vars

\* The head page gives up its last entry, unless its offset is corrupt.
PopEntry ==
  LET f == Frame(head_page_id)
      n == Len(data[f].entries)
  IN  /\ calls = <<>> /\ At("read") /\ op.call = "Pop" /\ f # NoFrame
      /\ data[f].offset # kFirstEntryOffset
      /\ IF IsCorruptEntryOffset(data[f].offset - kEntrySize)
         THEN /\ Finish(f, "kDataCorrupted")
              /\ popped' = kInvalidPageId
              /\ UNCHANGED <<vars, used>>
         ELSE /\ popped' = data[f].entries[n]
              /\ used' = used \union {popped'}
              /\ Modify(op.txn, f, ListPage(data[f].next,
                                            SubSeq(data[f].entries, 1, n - 1)))
              /\ Finish(f, "kSuccess")
      /\ UNCHANGED <<head_page_id, tail_page_id>>

-----------------------------------------------------------------------------
(* FreePageList::Push *)

Push(t, id) ==
  /\ MayUseList(t) /\ id \in used
  /\ op' = [call |-> "Push", txn |-> t, id |-> id, page |-> NoFrame,
            at |-> IF head_page_id = kInvalidPageId THEN "new" ELSE "fetch",
            then |-> "return"]
  /\ UNCHANGED <<vars, head_page_id, tail_page_id, status, popped, used>>

PushFetch == At("fetch") /\ op.call = "Push" /\ StorePage(head_page_id, NoTxn, "read")

\* The head page takes another entry; its offset may be corrupt.
PushEntry ==
  LET f == Frame(head_page_id)
  IN  /\ calls = <<>> /\ At("read") /\ op.call = "Push" /\ f # NoFrame
      /\ data[f].offset < PageSize
      /\ IF IsCorruptEntryOffset(data[f].offset)
         THEN Finish(f, "kDataCorrupted") /\ UNCHANGED <<vars, used>>
         ELSE /\ Modify(op.txn, f, ListPage(data[f].next,
                                            Append(data[f].entries, op.id)))
              /\ used' = used \ {op.id}
              /\ Finish(f, "kSuccess")
      /\ UNCHANGED <<head_page_id, tail_page_id, popped>>

\* The head page is full: its pin goes before the new page is fetched.
PushHeadIsFull ==
  LET f == Frame(head_page_id)
  IN  /\ calls = <<>> /\ At("read") /\ op.call = "Push" /\ f # NoFrame
      /\ data[f].offset >= PageSize
      /\ op' = [op EXCEPT !.at = "unpin", !.page = f, !.then = "new"]
      /\ UNCHANGED <<vars, head_page_id, tail_page_id, status, popped, used>>

\* The page that is freed becomes the head page; its data is not read.
PushNew == At("new") /\ StorePage(op.id, op.txn, "build")

\* Mutant: the new head page does not point to the old one.
PushPageUnlinked ==
  LET f == Frame(op.id)
  IN  /\ calls = <<>> /\ At("build") /\ f # NoFrame
      /\ Modify(op.txn, f, ListPage(kInvalidPageId, <<>>))
      /\ tail_page_id' = IF head_page_id = kInvalidPageId THEN op.id ELSE tail_page_id
      /\ head_page_id' = op.id
      /\ used' = used \ {op.id}
      /\ op' = [op EXCEPT !.at = "unpin", !.page = f, !.then = "return"]
      /\ status' = "kSuccess"
      /\ UNCHANGED popped

PushPage ==
  LET f == Frame(op.id)
  IN  /\ calls = <<>> /\ At("build") /\ f # NoFrame
      /\ Modify(op.txn, f, ListPage(head_page_id, <<>>))
      /\ tail_page_id' = IF head_page_id = kInvalidPageId THEN op.id ELSE tail_page_id
      /\ head_page_id' = op.id
      /\ used' = used \ {op.id}
      /\ op' = [op EXCEPT !.at = "unpin", !.page = f, !.then = "return"]
      /\ status' = "kSuccess"
      /\ UNCHANGED popped

-----------------------------------------------------------------------------
InitL ==
  /\ Init
  /\ head_page_id = kInvalidPageId /\ tail_page_id = kInvalidPageId
  /\ op = NoOp
  /\ status = "kSuccess" /\ popped = kInvalidPageId
  /\ used = PageIds \ {kInvalidPageId}
  /\ held = NoFrame

ListStep ==
  \/ PopFetch \/ PopPage \/ PopEntry
  \/ PushFetch \/ PushEntry \/ PushHeadIsFull \/ PushNew \/ PushPage
  \/ StorePageFailed
  \/ UnpinPage

ListCall ==
  \/ \E t \in UserTxns : Pop(t)
  \/ \E t \in UserTxns, id \in PageIds : Push(t, id)
  \/ PopEmpty

\* What else happens between list calls: transactions come and go, and another
\* caller pins a cached page for a while.
TransactionCall ==
  \E t \in Txns : CreateTransaction(t) \/ Commit(t) \/ Rollback(t) \/ Release(t)

HoldPage(id) ==
  /\ held = NoFrame
  /\ StorePageHit(TheStore, id)
  /\ held' = Frame(id)

ReleasePage ==
  /\ held # NoFrame
  /\ Unpin(held, "kCachePage")
  /\ held' = NoFrame

OtherCallL ==
  /\ op = NoOp
  /\ \/ TransactionCall /\ UNCHANGED held
     \/ \E id \in PageIds : HoldPage(id)
     \/ ReleasePage

NextL ==
  \/ (ListCall \/ ListStep) /\ UNCHANGED held
  \/ OtherCallL /\ UNCHANGED listVars
  \/ Step /\ UNCHANGED <<listVars, held>>

\* The thread that made a call keeps running it.
SpecL ==
  /\ InitL /\ [][NextL]_<<vars, listVars, held>>
  /\ WF_<<vars, listVars, held>>((ListStep \/ (Step /\ UNCHANGED listVars)) /\ UNCHANGED held)

-----------------------------------------------------------------------------
(* Properties *)

PageContent(id) ==
  IF Frame(id) = NoFrame THEN disk[TheStore][id] ELSE data[Frame(id)]

\* The list's pages, from page id on.
ChainFrom[n \in Nat, id \in PageIds] ==
  IF n = 0 \/ id = kInvalidPageId THEN {}
  ELSE {id} \union ChainFrom[n - 1, PageContent(id).next]

ListPages == ChainFrom[Cardinality(PageIds), head_page_id]

\* The frame that the running call has pinned, or NoFrame.
PinnedByList ==
  IF op = NoOp \/ calls # <<>> THEN NoFrame
  ELSE CASE op.at = "unpin" -> op.page
         [] op.at = "read"  -> Frame(head_page_id)
         [] op.at = "build" -> Frame(op.id)
         [] OTHER           -> NoFrame

\* On every path, errors included, Push and Pop give back the pins they took,
\* and hold at most one at a time: the pool never runs out of frames because
\* of a list call that has returned.
PinsAreReturned ==
  \A f \in Frames :
    pins[f] = Cardinality({c \in {"list", "other"} :
                             f = IF c = "list" THEN PinnedByList ELSE held})

List == INSTANCE FreePageList WITH
  Pages <- PageIds \ {kInvalidPageId},
  StoreList <- "store", TxnLists <- {"transaction"},
  kGlobalMagic <- PageSize, kStoreMagic <- kInvalidPageId,
  head_page_id <- [l \in {"store", "transaction"} |->
                     IF l = "store" THEN kInvalidPageId ELSE head_page_id],
  tail_page_id <- [l \in {"store", "transaction"} |->
                     IF l = "store" THEN kInvalidPageId ELSE tail_page_id],
  was_merged <- [l \in {"store", "transaction"} |-> FALSE],
  next_page_id <- [id \in PageIds \ {kInvalidPageId} |->
                     IF id \in ListPages THEN PageContent(id).next
                     ELSE kInvalidPageId],
  entries <- [id \in PageIds \ {kInvalidPageId} |->
                IF id \in ListPages THEN PageContent(id).entries ELSE <<>>],
  used <- used,
  free <- [l \in {"store", "transaction"} |->
             IF l = "store" THEN {} ELSE PageIds \ (used \union {kInvalidPageId})],
  status <- IF status = "kPoolFull" THEN "kIoError" ELSE status

\* On any pool, however small, and whatever is evicted, read back or rolled
\* back between its steps, the list is the list of FreePageList: each call
\* takes effect at once or, when a page cannot be fetched, not at all.
IsFreePageList == List!Spec

\* Every list call returns.
ListCallsReturn == op # NoOp ~> op = NoOp
=============================================================================
