-------------------------------- MODULE Page --------------------------------
(***************************************************************************)
(* The page pool's control blocks (page.h, page.cc) and the page lists     *)
(* that transactions keep over them (transaction_impl.h).                  *)
(*                                                                         *)
(* A frame is one Page object.  A control block says which transaction the *)
(* frame is assigned to, which store page it caches, how many pins it has  *)
(* and whether its buffer differs from the data file.  Every transaction   *)
(* lists the frames assigned to it; a store's init transaction lists the   *)
(* frames that no running transaction has modified.                        *)
(*                                                                         *)
(* The build is the one with checks on: an unassigned frame's transaction_ *)
(* is nullptr (page.h:216-218).                                            *)
(***************************************************************************)
EXTENDS Lists

CONSTANTS Frames,    \* the Page objects the pool may create
          Stores,
          Txns,      \* transaction objects, the stores' init transactions included
          StoreOf,   \* TransactionImpl::store_
          InitTxn,   \* StoreImpl::init_transaction_
          PageIds,   \* page numbers in a store's data file
          Values,    \* page contents
          Garbage,   \* the content of a buffer that was never filled
          NoFrame,   \* nullptr
          NoTxn      \* nullptr

ASSUME TxnAssumption ==
  /\ StoreOf \in [Txns -> Stores]
  /\ InitTxn \in [Stores -> Txns]
  /\ \A s \in Stores : StoreOf[InitTxn[s]] = s

\* page_capacity_ is a size_t.
ASSUME FrameAssumption == IsFiniteSet(Frames)

ASSUME ValueAssumption ==
  /\ NoFrame \notin Frames
  /\ NoTxn \notin Txns
  /\ 0 \in PageIds
  /\ Garbage \in Values

\* TransactionImpl::IsInit().
IsInit(t) == t = InitTxn[StoreOf[t]]

VARIABLES transaction,  \* Page::transaction_
          page_id,      \* Page::page_id_
          pin_count,    \* Page::pin_count_
          is_dirty,     \* Page::is_dirty_
          data,         \* the page buffer
          pool_pages    \* TransactionImpl::pool_pages_

pageVars == <<transaction, page_id, pin_count, is_dirty, data, pool_pages>>

IsUnpinned(f) == pin_count[f] = 0

\* The frames that cache a page of store s.
AssignedTo(s) ==
  {f \in Frames : transaction[f] # NoTxn /\ StoreOf[transaction[f]] = s}

AddPin(f) == pin_count' = [pin_count EXCEPT ![f] = @ + 1]

RemovePin(f) == pin_count' = [pin_count EXCEPT ![f] = @ - 1]

\* TransactionImpl::AssignPage and Page::WillCacheStoreData.
AssignPage(t, f, id) ==
  /\ transaction' = [transaction EXCEPT ![f] = t]
  /\ page_id' = [page_id EXCEPT ![f] = id]
  /\ pool_pages' = [pool_pages EXCEPT ![t] = Append(@, f)]

\* Mutant: DoesNotCacheStoreData leaves the dirty bit set.
UnassignPageKeepsDirty(f) ==
  /\ pool_pages' = [pool_pages EXCEPT ![transaction[f]] = Erase(@, f)]
  /\ transaction' = [transaction EXCEPT ![f] = NoTxn]
  /\ UNCHANGED is_dirty

\* TransactionImpl::UnassignPage and UnassignPersistedPage, with
\* Page::DoesNotCacheStoreData.
UnassignPage(f) ==
  /\ pool_pages' = [pool_pages EXCEPT ![transaction[f]] = Erase(@, f)]
  /\ transaction' = [transaction EXCEPT ![f] = NoTxn]
  /\ is_dirty' = [is_dirty EXCEPT ![f] = FALSE]

\* Page::ReassignToTransaction and Page::SetDirty, with the list moves that
\* TransactionImpl makes around them.
MovePage(f, from, to, dirty) ==
  /\ pool_pages' = [pool_pages EXCEPT ![from] = Erase(@, f),
                                      ![to] = Append(@, f)]
  /\ transaction' = [transaction EXCEPT ![f] = to]
  /\ is_dirty' = [is_dirty EXCEPT ![f] = dirty]

\* Mutant: the first modification does not call Page::SetDirty.
WillModifyPageStaysClean(t, f) ==
  IF transaction[f] = t
  THEN UNCHANGED <<is_dirty, transaction, pool_pages>>
  ELSE MovePage(f, transaction[f], t, FALSE)

\* TransactionImpl::WillModifyPage: the first modification moves the frame
\* from the init transaction's list to this transaction's.
WillModifyPage(t, f) ==
  IF transaction[f] = t
  THEN /\ is_dirty' = [is_dirty EXCEPT ![f] = TRUE]
       /\ UNCHANGED <<transaction, pool_pages>>
  ELSE MovePage(f, transaction[f], t, TRUE)

\* Mutant: the frame is reassigned but stays on the transaction's list.
PageWasPersistedStaysListed(t, f) ==
  /\ transaction' = [transaction EXCEPT ![f] = InitTxn[StoreOf[t]]]
  /\ is_dirty' = [is_dirty EXCEPT ![f] = FALSE]
  /\ UNCHANGED pool_pages

\* TransactionImpl::PageWasPersisted, called on non-init transactions only.
PageWasPersisted(t, f) == MovePage(f, t, InitTxn[StoreOf[t]], FALSE)

\* No frame has been created; page_id_ and the buffer are uninitialized.
PageInit ==
  /\ transaction = [f \in Frames |-> NoTxn]
  /\ page_id = [f \in Frames |-> 0]
  /\ pin_count = [f \in Frames |-> 0]
  /\ is_dirty = [f \in Frames |-> FALSE]
  /\ data = [f \in Frames |-> Garbage]
  /\ pool_pages = [t \in Txns |-> <<>>]
=============================================================================
