-------------------------------- MODULE Api --------------------------------
(***************************************************************************)
(* The public API (pool.h, store.h, transaction.h and src/api): pools,     *)
(* stores and transactions are heap objects that the application creates,  *)
(* calls and releases in any order, while a failed write may close a store *)
(* under it.  OpenStore is here with its pages (Bootstrap); its files are  *)
(* StoreFiles' subject.                                                    *)
(*                                                                         *)
(* op is the API call that is running; what it does inside the library are *)
(* StoreImpl's actions.  A transaction's object exists while it is in      *)
(* live.  Before a store is created and after it is released, its state is *)
(* "kClosed" and so is its init transaction.                               *)
(***************************************************************************)
EXTENDS StoreImpl

VARIABLES objects,   \* the PoolImpl and StoreImpl objects on the heap
          handles,   \* the objects that the application can call
          op,        \* the API call that is running
          status,    \* what the last API call returned
          broken     \* the stores that a failed write has closed

apiVars == <<objects, handles, op, status, broken>>

NoOp == [call |-> "none"]

ThePool == "Pool"

\* The application can make a call.
Ready == Idle /\ op = NoOp

Begin(call, object) == op' = [call |-> call, object |-> object]

\* The call returns at once.
Answer(s) == status' = s /\ UNCHANGED <<vars, objects, handles, op>>

-----------------------------------------------------------------------------
(* Pool::Create, Pool::~Pool and Pool::OpenStore *)

PoolCreate ==
  /\ Ready /\ ThePool \notin objects
  /\ objects' = objects \union {ThePool}
  /\ handles' = handles \union {ThePool}
  /\ status' = "kSuccess"
  /\ UNCHANGED <<vars, op>>

PoolDestroy ==
  /\ Ready /\ ThePool \in handles
  /\ \A f \in Frames : pins[f] = 0
  /\ calls' = <<"Pool">>
  /\ Begin("Release", ThePool)
  /\ UNCHANGED <<pageVars, poolVars, txnVars, storeVars, callerVars, request,
                 failed, objects, handles, status>>

\* A store that a failed write has closed may be referred to by frames for ever.
MayOpen(s) == Ready /\ ThePool \in handles /\ s \notin objects \union broken

\* A file cannot be opened.
OpenStoreFails(s) == MayOpen(s) /\ Answer("kIoError")

\* The store has its pages already.
OpenStore(s) ==
  /\ MayOpen(s)
  /\ objects' = objects \union {s}
  /\ handles' = handles \union {s}
  /\ state' = [state EXCEPT ![s] = "kOpen"]
  /\ is_closed' = [is_closed EXCEPT ![InitTxn[s]] = FALSE]
  /\ status' = "kSuccess"
  /\ UNCHANGED <<pageVars, poolVars, live, is_committed, pc, loop_page, cursor,
                 transactions, rollback_queue, callerVars, request, calls,
                 failed, op>>

\* The store is new: Bootstrap starts its transaction t.
OpenNewStore(s, t) ==
  /\ MayOpen(s)
  /\ t \in UserTxns \ live /\ StoreOf[t] = s
  /\ objects' = objects \union {s}
  /\ state' = [state EXCEPT ![s] = "kOpen"]
  /\ live' = live \union {t}
  /\ is_closed' = [is_closed EXCEPT ![InitTxn[s]] = FALSE, ![t] = FALSE]
  /\ is_committed' = [is_committed EXCEPT ![t] = FALSE]
  /\ transactions' = [transactions EXCEPT ![s] = <<t>>]
  /\ op' = [call |-> "OpenStore", object |-> s, txn |-> t, at |-> "fetch", page |-> 0]
  /\ UNCHANGED <<pageVars, poolVars, pc, loop_page, cursor, rollback_queue,
                 callerVars, request, calls, failed, handles, status>>

-----------------------------------------------------------------------------
(* StoreImpl::Bootstrap, which builds page 0 and then page 1, and the end of *)
(* PoolImpl::OpenStore.                                                      *)

At(label) == calls = <<>> /\ op.call = "OpenStore" /\ op.at = label

GoTo(label) == op' = [op EXCEPT !.at = label]

Frame == page_map[op.object][op.page]

\* StorePage finds a frame, or there is none and the transaction is released.
BootstrapFetch ==
  /\ At("fetch")
  /\ \/ /\ \E f \in Frames, ok \in WriteOutcomes :
             StorePageMiss(op.object, op.page, op.txn, f, ok)
        /\ GoTo("modify")
     \/ /\ free_list = <<>> /\ allocated = Frames /\ lru_list = <<>>
        /\ Rollback(op.txn)
        /\ GoTo("release")
  /\ UNCHANGED <<objects, handles, status>>

BootstrapModify(v) ==
  /\ At("modify")
  /\ Modify(op.txn, Frame, v)
  /\ GoTo("unpin")
  /\ UNCHANGED <<objects, handles, status>>

BootstrapUnpin ==
  /\ At("unpin")
  /\ Unpin(Frame, "kCachePage")
  /\ op' = IF op.page = 0 THEN [op EXCEPT !.at = "fetch", !.page = 1]
           ELSE [op EXCEPT !.at = "commit"]
  /\ UNCHANGED <<objects, handles, status>>

\* Mutant: the status of the commit is not looked at.
BootstrapCommitUnchecked ==
  /\ At("commit")
  /\ IF is_closed[op.txn]
     THEN /\ handles' = handles \union {op.object}
          /\ op' = NoOp /\ status' = "kSuccess"
          /\ UNCHANGED vars
     ELSE Commit(op.txn) /\ GoTo("release") /\ UNCHANGED <<handles, status>>
  /\ UNCHANGED objects

\* A failed write may have closed the transaction with its store.  It is not
\* released then.
BootstrapCommit ==
  /\ At("commit")
  /\ IF is_closed[op.txn] THEN GoTo("fail") /\ UNCHANGED vars
     ELSE Commit(op.txn) /\ GoTo("release")
  /\ UNCHANGED <<objects, handles, status>>

\* The transaction is released, committed or not.
BootstrapRelease ==
  /\ At("release")
  /\ Release(op.txn)
  /\ IF is_committed[op.txn]
     THEN /\ handles' = handles \union {op.object}
          /\ op' = NoOp /\ status' = "kSuccess"
     ELSE GoTo("fail") /\ UNCHANGED <<handles, status>>
  /\ UNCHANGED objects

\* Mutant: the store stays open.
OpenStoreAbandonOpen ==
  /\ At("fail")
  /\ op' = NoOp /\ status' = "kIoError"
  /\ UNCHANGED <<vars, objects, handles>>

\* Initialize failed: the store is closed, and never released.
OpenStoreAbandon ==
  /\ At("fail")
  /\ IF state[op.object] = "kOpen"
     THEN CloseStore(op.object) /\ UNCHANGED <<op, status>>
     ELSE op' = NoOp /\ status' = "kIoError" /\ UNCHANGED vars
  /\ UNCHANGED <<objects, handles>>

-----------------------------------------------------------------------------
(* Store and Transaction *)

StoreCreateTransaction(t) ==
  /\ Ready /\ StoreOf[t] \in handles
  /\ CreateTransaction(t)
  /\ handles' = handles \union {t}
  /\ status' = "kSuccess"
  /\ UNCHANGED <<objects, op>>

StoreClose(s) ==
  /\ Ready /\ s \in handles
  /\ \/ CloseStore(s) /\ Begin("Close", s) /\ UNCHANGED <<objects, handles, status>>
     \/ state[s] = "kClosed" /\ Answer("kAlreadyClosed")


StoreRelease(s) ==
  /\ Ready /\ s \in handles
  /\ \/ /\ CloseStore(s) /\ Begin("Release", s)
        /\ UNCHANGED <<objects, handles, status>>
     \/ /\ state[s] = "kClosed"
        /\ handles' = handles \ {s} /\ objects' = objects \ {s}
        /\ status' = "kSuccess"
        /\ UNCHANGED <<vars, op>>

TransactionCommit(t) ==
  /\ Ready /\ t \in handles
  /\ \/ Commit(t) /\ Begin("Commit", t) /\ UNCHANGED <<objects, handles, status>>
     \/ is_closed[t] /\ Answer("kAlreadyClosed")

TransactionRollback(t) ==
  /\ Ready /\ t \in handles
  /\ \/ Rollback(t) /\ Begin("Rollback", t) /\ UNCHANGED <<objects, handles, status>>
     \/ is_closed[t] /\ Answer("kAlreadyClosed")

\* Get, Put, Delete, CreateSpace and CreateCatalog, which return no object.
TransactionAccess(t) ==
  /\ Ready /\ t \in handles
  /\ Answer(IF is_closed[t] THEN "kAlreadyClosed" ELSE "kIoError")

TransactionRelease(t) ==
  /\ Ready /\ t \in handles
  /\ \/ Rollback(t) /\ Begin("Release", t) /\ UNCHANGED <<handles, status>>
     \/ /\ Release(t)
        /\ handles' = handles \ {t}
        /\ status' = "kSuccess"
        /\ UNCHANGED op
  /\ UNCHANGED objects

\* The call returns; a destructor is followed by the release of the memory.
Return ==
  /\ calls = <<>> /\ op.call \in {"Close", "Commit", "Rollback", "Release"}
  /\ IF op.call = "Release"
     THEN handles' = handles \ {op.object} /\ objects' = objects \ {op.object}
     ELSE UNCHANGED <<handles, objects>>
  /\ IF op.call = "Release" /\ op.object \in Txns THEN Release(op.object)
     ELSE UNCHANGED vars
  /\ op' = NoOp
  /\ status' = "kSuccess"

-----------------------------------------------------------------------------
\* An application that has just opened its stores.
InitA ==
  /\ Init
  /\ objects = Stores \union {ThePool}
  /\ handles = Stores \union {ThePool}
  /\ op = NoOp
  /\ status = "kSuccess"
  /\ broken = {}

OpenStoreStep ==
  \/ BootstrapFetch
  \/ \E v \in Values \ {Garbage} : BootstrapModify(v)
  \/ BootstrapUnpin
  \/ BootstrapCommit
  \/ BootstrapRelease
  \/ OpenStoreAbandon

ApiCall ==
  \/ PoolCreate
  \/ PoolDestroy
  \/ \E s \in Stores : \/ OpenStoreFails(s) \/ OpenStore(s)
                       \/ StoreClose(s) \/ StoreRelease(s)
  \/ \E s \in Stores, t \in Txns : OpenNewStore(s, t)
  \/ \E t \in UserTxns : \/ StoreCreateTransaction(t)
                         \/ TransactionCommit(t) \/ TransactionRollback(t)
                         \/ TransactionAccess(t) \/ TransactionRelease(t)

\* Code inside the library that uses the pages of an open store, under a
\* transaction of the application.
PageCall ==
  \/ \E s \in handles \intersect Stores, id \in PageIds :
       \/ StorePageHit(s, id)
       \/ \E w \in (handles \intersect Txns) \union {NoTxn}, f \in Frames,
             ok \in WriteOutcomes : StorePageMiss(s, id, w, f, ok)
  \/ \E f \in Frames : Unpin(f, "kCachePage")
  \/ \E t \in handles \intersect Txns, f \in Frames, v \in Values \ {Garbage} :
       Modify(t, f, v)

\* The stores that this step closes from inside another call.
ClosedByWrite ==
  {s \in Stores : /\ state[s] = "kOpen" /\ state'[s] = "kClosing"
                  /\ Len(calls') > 1 /\ calls'[2] # ThePool}

NextA ==
  /\ failed = "none"
  /\ \/ ApiCall
     \/ OpenStoreStep
     \/ Return
     \/ op = NoOp /\ PageCall /\ UNCHANGED <<objects, handles, op, status>>
     \/ (Step \/ Failure) /\ UNCHANGED <<objects, handles, op, status>>
  /\ broken' = broken \union ClosedByWrite

SpecA == InitA /\ [][NextA]_<<vars, apiVars>>

-----------------------------------------------------------------------------
(* Properties *)


\* A transaction that is over keeps its outcome until it is released, whatever
\* the application calls and whatever becomes of its store: IsCommitted and
\* IsRolledBack (transaction.h:94-98) do not change their minds.
OutcomesAreFinal ==
  [][\A t \in live \intersect live' \intersect UserTxns :
       is_closed[t] => is_closed'[t] /\ is_committed'[t] = is_committed[t]]_vars

\* OpenStore returns open stores only, although a failed write may close the
\* store while Bootstrap is building it.
OpenedStoresAreOpen ==
  [][\A s \in Stores : s \in handles' \ handles => state'[s] = "kOpen"]_<<vars, apiVars>>

\* Only a failed OpenStore leaks: what no handle reaches is a closed store
\* without pages, and perhaps its closed Bootstrap transaction.
LeaksAreClosed ==
  Ready =>
    /\ \A s \in objects \ handles :
         s \in Stores /\ state[s] = "kClosed" /\ (AssignedTo(s) # {} => s \in broken)
    /\ \A t \in UserTxns \intersect (live \ handles) :
         is_closed[t] /\ StoreOf[t] \in objects \ handles


\* A closed store owns no frame ("Rollback the init transaction to get the
\* store's pages released", store_impl.cc:196), even if another store's writes
\* fail.
ClosedStoresOwnNoPages ==
  \A s \in Stores \ broken : state[s] = "kClosed" => AssignedTo(s) = {}
=============================================================================
