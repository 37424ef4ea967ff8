-------------------------- MODULE DurabilityProofs --------------------------
(***************************************************************************)
(* What StoreImpl does to the data files, with crashes: Inv survives them, *)
(* committed modifications are durable, and the pool implements PageStore. *)
(***************************************************************************)
EXTENDS Durability, StoreImplProofs

-----------------------------------------------------------------------------
(* Inv, with crashes. *)

\* A crash leaves stores that are just opened.
LEMMA CrashJustOpens ==
  ASSUME Inv, Crash
  PROVE  JustOpened'
BY DEF Crash, JustOpened, PageInit, Inv, TypeOK, PoolTypes

LEMMA CrashInv ==
  ASSUME Inv, Crash
  PROVE  Inv'
<1>1. JustOpened'
  BY CrashJustOpens, Zenon
<1>2. JustOpened' => Inv'
  BY JustOpenedInv, PTL
<1> QED BY <1>1, <1>2, Zenon

\* Every step preserves Inv: the history changes nothing.
LEMMA NextHInv == Inv /\ [NextH]_<<vars, last>> => Inv'
<1> SUFFICES ASSUME Inv, [NextH]_<<vars, last>> PROVE Inv'
  BY Zenon
<1>1. CASE Crash
  BY <1>1, CrashInv, Zenon
<1>2. CASE [Next]_vars
  BY <1>2, NextInv, Zenon
<1>3. NextH => Crash \/ Next
  BY Zenon DEF NextH, Next, Call
<1> QED BY <1>1, <1>2, <1>3, Zenon

\* Inv is an invariant of the library, whatever crashes and I/O errors occur.
THEOREM InvarianceWithCrashes == SpecH => []Inv
<1>1. InitH => Inv
  BY InitInv, Zenon DEF InitH
<1>2. Inv /\ [NextH]_<<vars, last>> => Inv'
  BY NextHInv, Zenon
<1> QED BY <1>1, <1>2, PTL DEF SpecH

-----------------------------------------------------------------------------
(* Transactions and stores that close. *)

\* A step that closes stores properly, queueing their transactions, and takes
\* no open transaction off a queue, leaves no open transaction behind.
LEMMA ClosingStep ==
  ASSUME Inv, OpenTransactionsAreClosed, live' \subseteq live,
         \A t \in Txns : is_closed[t] => is_closed'[t],
         \A s \in Stores : state[s] = "kOpen" /\ state'[s] # "kOpen" =>
           s \in Range(calls') /\ rollback_queue'[s] = transactions[s],
         \A s \in Stores, t \in UserTxns :
           /\ s \in Range(calls) /\ t \in Range(rollback_queue[s])
           /\ ~is_closed'[t]
           => s \in Range(calls') /\ t \in Range(rollback_queue'[s]),
         \A t \in UserTxns : pc'[t] \in {"pin_commit", "write"} =>
           state'[StoreOf[t]] = "kOpen"
  PROVE  OpenTransactionsAreClosed'
<1> SUFFICES ASSUME NEW t \in UserTxns, t \in live', ~is_closed'[t],
                    state'[StoreOf[t]] # "kOpen"
             PROVE  /\ StoreOf[t] \in Range(calls')
                    /\ t \in Range(rollback_queue'[StoreOf[t]])
  BY Zenon DEF OpenTransactionsAreClosed
<1>1. t \in Txns /\ StoreOf[t] \in Stores
  BY TxnAssumption, Zenon DEF UserTxns
<1>2. t \in live /\ ~is_closed[t]
  BY <1>1, Zenon
<1>3. CASE state[StoreOf[t]] = "kOpen"
  <2>1. t \in Range(transactions[StoreOf[t]])
    BY <1>1, <1>2, <1>3, Zenon DEF Inv, RunningTransactionsAreListed
  <2> QED BY <1>1, <1>3, <2>1, Zenon
<1>4. CASE state[StoreOf[t]] # "kOpen"
  BY <1>1, <1>2, <1>4, Zenon DEF OpenTransactionsAreClosed
<1> QED BY <1>3, <1>4, Zenon

\* What a modification by a running transaction looks like.
LEMMA RunningWrite ==
  ASSUME HistoryTypes, NEW s \in Stores, NEW id \in PageIds,
         last[s][id].fate = "running"
  PROVE  /\ last[s][id] \in Writes /\ last[s][id] # NoWrite
         /\ last[s][id].txn \in UserTxns /\ last[s][id].txn \in Txns
         /\ StoreOf[last[s][id].txn] = s
<1>1. last[s][id] \in Writes \union {NoWrite}
  BY Zenon DEF HistoryTypes
<1>2. NoWrite.fate # "running"
  BY DEF NoWrite
<1>3. last[s][id] \in Writes /\ last[s][id] # NoWrite
  BY <1>1, <1>2, Zenon
<1>4. last[s][id].txn \in UserTxns
  BY <1>3, Zenon DEF Writes
<1> QED BY <1>3, <1>4, Zenon DEF HistoryTypes, UserTxns

\* A step that changes no page and no outcome leaves the modifications where
\* they are, if no closed transaction and no closed store is open again.
LEMMA SameWrites ==
  ASSUME DurabilityInv,
         UNCHANGED <<transaction, page_id, data, disk, is_committed, last>>,
         \A t \in Txns : is_closed[t] => is_closed'[t],
         \A s \in Stores : state'[s] = "kOpen" => state[s] = "kOpen"
  PROVE  /\ HistoryTypes' /\ OwnersAreLast'
         /\ RunningWritesAreKept' /\ CommittedWritesAreDurable'
<1>1. HistoryTypes' /\ OwnersAreLast'
  <2>1. HistoryTypes'
    BY DEF DurabilityInv, HistoryTypes
  <2>2. OwnersAreLast'
    BY DEF DurabilityInv, OwnersAreLast
  <2> QED BY <2>1, <2>2, Zenon
<1>2. \A s \in Stores, id \in PageIds :
        last[s][id].fate = "running" => last[s][id].txn \in Txns
  BY RunningWrite, Zenon DEF DurabilityInv
<1>3. RunningWritesAreKept'
  BY <1>2, ZenonT(60) DEF DurabilityInv, RunningWritesAreKept
<1>4. CommittedWritesAreDurable'
  <2> SUFFICES ASSUME NEW s \in Stores, NEW id \in PageIds,
                      Fate(last[s][id])' = "committed"
               PROVE  disk[s][id] = last[s][id].value
    BY Zenon DEF CommittedWritesAreDurable
  <2>1. Fate(last[s][id]) = "committed"
    BY Zenon DEF Fate
  <2> QED BY <2>1, Zenon DEF DurabilityInv, CommittedWritesAreDurable
<1> QED BY <1>1, <1>3, <1>4, Zenon

\* Such a step keeps the history in order if the caller's state stays too.
LEMMA SamePages ==
  ASSUME DurabilityInv, OpenTransactionsAreClosed',
         UNCHANGED <<transaction, page_id, data, disk, is_committed,
                     blank, writer, request, last>>,
         \A t \in Txns : is_closed[t] => is_closed'[t],
         \A s \in Stores : state'[s] = "kOpen" => state[s] = "kOpen"
  PROVE  DurabilityInv'
<1>1. CommittedAreClosed'
  BY Zenon DEF DurabilityInv, CommittedAreClosed, UserTxns
<1> QED BY <1>1, SameWrites, Zenon DEF DurabilityInv

\* The same for a step that closes nothing either, and returns from no
\* StoreImpl::Close.
LEMMA QuietStep ==
  ASSUME Inv, DurabilityInv,
         UNCHANGED <<transaction, page_id, data, disk, live, is_closed,
                     is_committed, state, rollback_queue, blank, writer,
                     request, last>>,
         \A s \in Stores : s \in Range(calls) => s \in Range(calls'),
         \A t \in UserTxns : pc'[t] \in {"pin_commit", "write"} =>
           pc[t] \in {"pin_commit", "write"} \/ state[StoreOf[t]] = "kOpen"
  PROVE  DurabilityInv'
<1>1. \A t \in UserTxns : pc'[t] \in {"pin_commit", "write"} =>
        state'[StoreOf[t]] = "kOpen"
  BY Zenon DEF DurabilityInv, OpenTransactionsAreClosed
<1>2. \A r \in Stores : state[r] = "kOpen" /\ state'[r] # "kOpen" =>
        r \in Range(calls') /\ rollback_queue'[r] = transactions[r]
  BY Zenon
<1>3. \A r \in Stores, u \in UserTxns :
        r \in Range(calls) /\ u \in Range(rollback_queue[r]) /\ ~is_closed'[u] =>
          r \in Range(calls') /\ u \in Range(rollback_queue'[r])
  BY Zenon
<1>4. /\ live' \subseteq live
      /\ \A t \in Txns : is_closed[t] => is_closed'[t]
      /\ \A r \in Stores : state'[r] = "kOpen" => state[r] = "kOpen"
  BY Zenon
<1>5. OpenTransactionsAreClosed'
  BY <1>1, <1>2, <1>3, <1>4, ClosingStep, Zenon DEF DurabilityInv
<1> QED BY <1>4, <1>5, SamePages, Zenon

\* The steps that neither close nor write anything.
LEMMA QuietSteps ==
  ASSUME Inv, DurabilityInv, UNCHANGED last
  PROVE  /\ \A t \in Txns : Commit(t) => DurabilityInv'
         /\ \A t \in Txns : PinTransactionPage(t) => DurabilityInv'
         /\ \A t \in Txns : PinTransactionPagesDone(t) => DurabilityInv'
         /\ \A t \in Txns : CloseUnpinPage(t) => DurabilityInv'
         /\ \A t \in Txns : TransactionClosed(t) => DurabilityInv'
         /\ \A s \in Stores, id \in PageIds : StorePageHit(s, id) => DurabilityInv'
         /\ \A f \in Frames : \A mode : Unpin(f, mode) => DurabilityInv'
         /\ DestroyPool => DurabilityInv'
         /\ DestroyPoolDone => DurabilityInv'
         /\ \A check : Fail(check) => DurabilityInv'
<1>1. ASSUME NEW t \in Txns, Commit(t) PROVE DurabilityInv'
  <2>1. /\ t \in UserTxns /\ state[StoreOf[t]] = "kOpen"
        /\ calls = <<>> /\ Range(calls) = {}
    <3>1. t \in UserTxns /\ t \in live /\ ~is_closed[t] /\ calls = <<>>
      BY <1>1, Zenon DEF Commit, Idle
    <3>2. Range(calls) = {}
      BY <3>1, EmptyList, Zenon
    <3> QED BY <3>1, <3>2, Zenon DEF DurabilityInv, OpenTransactionsAreClosed
  <2>2. \A u \in UserTxns : u # t => pc'[u] = pc[u]
    BY <1>1 DEF Commit, Inv, TypeOK, TxnTypes, UserTxns
  <2> QED BY <1>1, <2>1, <2>2, QuietStep, ZenonT(30)
      DEF Commit, pageVars, poolVars, storeVars, callerVars
<1>2. ASSUME NEW t \in Txns, PinTransactionPage(t) PROVE DurabilityInv'
  BY <1>2, QuietStep, Zenon DEF PinTransactionPage, storeVars, callerVars
<1>3. ASSUME NEW t \in Txns, PinTransactionPagesDone(t) PROVE DurabilityInv'
  <2>1. \A u \in UserTxns : pc'[u] \in {"pin_commit", "write"} =>
          pc[u] \in {"pin_commit", "write"}
    BY <1>3 DEF PinTransactionPagesDone, Inv, TypeOK, TxnTypes, UserTxns
  <2> QED BY <1>3, <2>1, QuietStep, ZenonT(60)
      DEF PinTransactionPagesDone, pageVars, poolVars, storeVars, callerVars
<1>4. ASSUME NEW t \in Txns, CloseUnpinPage(t) PROVE DurabilityInv'
  <2>1. \A u \in UserTxns : pc'[u] \in {"pin_commit", "write"} =>
          pc[u] \in {"pin_commit", "write"}
    BY <1>4 DEF CloseUnpinPage, Inv, TypeOK, TxnTypes, UserTxns
  <2> QED BY <1>4, <2>1, QuietStep, ZenonT(60) DEF CloseUnpinPage, storeVars, callerVars
<1>5. ASSUME NEW t \in Txns, TransactionClosed(t) PROVE DurabilityInv'
  <2>1. \A u \in UserTxns : pc'[u] \in {"pin_commit", "write"} =>
          pc[u] \in {"pin_commit", "write"}
    BY <1>5 DEF TransactionClosed, Inv, TypeOK, TxnTypes, UserTxns
  <2>2. /\ Range(calls') = Range(calls) \ {t} /\ t \notin Stores
    BY <1>5, InnermostCall, CallAssumption, Zenon DEF TransactionClosed
  <2> QED BY <1>5, <2>1, <2>2, QuietStep, ZenonT(60)
      DEF TransactionClosed, pageVars, poolVars, callerVars
<1>6. ASSUME NEW s \in Stores, NEW id \in PageIds, StorePageHit(s, id)
      PROVE  DurabilityInv'
  BY <1>6, QuietStep, Zenon DEF StorePageHit, txnVars, storeVars
<1>7. ASSUME NEW f \in Frames, NEW mode, Unpin(f, mode) PROVE DurabilityInv'
  BY <1>7, QuietStep, Zenon DEF Unpin, txnVars, storeVars
<1>8. CASE DestroyPool
  <2>1. Range(calls) = {}
    BY <1>8, EmptyList, Zenon DEF DestroyPool, Idle
  <2> QED BY <1>8, <2>1, QuietStep, Zenon
      DEF DestroyPool, pageVars, poolVars, txnVars, storeVars, callerVars
<1>9. CASE DestroyPoolDone
  <2>1. /\ Range(calls') = Range(calls) \ {"Pool"} /\ "Pool" \notin Stores
    BY <1>9, InnermostCall, CallAssumption, Zenon DEF DestroyPoolDone
  <2> QED BY <1>9, <2>1, QuietStep, Zenon
      DEF DestroyPoolDone, pageVars, txnVars, storeVars, callerVars
<1>10. ASSUME NEW check, Fail(check) PROVE DurabilityInv'
  BY <1>10, QuietStep, Zenon
     DEF Fail, Stop, pageVars, txnVars, storeVars, callerVars
<1> QED BY <1>1, <1>2, <1>3, <1>4, <1>5, <1>6, <1>7, <1>8, <1>9, <1>10, ZenonT(60)

\* A call that is pushed is on the stack, above the ones that were there.
LEMMA PushedCall ==
  ASSUME NEW cs \in Seq(CallNames), NEW c
  PROVE  Range(<<c>> \o cs) = Range(cs) \union {c}
<1>1. /\ Len(<<c>> \o cs) = Len(cs) + 1 /\ Len(cs) \in Nat
      /\ (<<c>> \o cs)[1] = c
      /\ \A i \in 1 .. Len(cs) : (<<c>> \o cs)[i + 1] = cs[i]
      /\ DOMAIN (<<c>> \o cs) = 1 .. Len(cs) + 1 /\ DOMAIN cs = 1 .. Len(cs)
  OBVIOUS
<1>2. \A i \in 1 .. Len(cs) + 1 : i = 1 \/ (i - 1 \in 1 .. Len(cs) /\ i = (i - 1) + 1)
  BY <1>1
<1>3. ASSUME NEW e PROVE e \in Range(<<c>> \o cs) <=> e \in Range(cs) \union {c}
  <2>1. e \in Range(<<c>> \o cs) <=> \E i \in 1 .. Len(cs) + 1 : (<<c>> \o cs)[i] = e
    BY <1>1, Zenon DEF Range
  <2>2. e \in Range(cs) <=> \E i \in 1 .. Len(cs) : cs[i] = e
    BY <1>1, Zenon DEF Range
  <2>3. ASSUME NEW i \in 1 .. Len(cs) + 1, (<<c>> \o cs)[i] = e
        PROVE  e \in Range(cs) \union {c}
    BY <1>1, <1>2, <2>2, <2>3, ZenonT(60)
  <2>4. 1 \in 1 .. Len(cs) + 1 /\ \A i \in 1 .. Len(cs) : i + 1 \in 1 .. Len(cs) + 1
    BY <1>1
  <2> QED BY <1>1, <2>1, <2>2, <2>3, <2>4, Zenon
<1> QED BY <1>3, Zenon

\* StoreImpl::Close starts: the transactions it has to roll back are queued.
LEMMA BeginCloseStep ==
  ASSUME Inv, OpenTransactionsAreClosed, NEW s \in Stores, BeginClose(s),
         state[s] = "kOpen", UNCHANGED <<live, is_closed>>,
         s \in Range(calls'),
         \A r \in Stores : r \in Range(calls) => r \in Range(calls'),
         \A t \in UserTxns : pc'[t] \notin {"pin_commit", "write"}
  PROVE  /\ OpenTransactionsAreClosed' /\ state'[s] # "kOpen"
         /\ \A r \in Stores : state'[r] = "kOpen" => state[r] = "kOpen"
<1>1. /\ state'[s] = "kClosing" /\ rollback_queue'[s] = transactions[s]
      /\ \A r \in Stores \ {s} : /\ state'[r] = state[r]
                                 /\ rollback_queue'[r] = rollback_queue[r]
  BY DEF BeginClose, Inv, TypeOK, StoreTypes
<1>2. s \notin Range(calls)
  BY Zenon DEF Inv, CallsAreNested
<1>3. \A r \in Stores : state[r] = "kOpen" /\ state'[r] # "kOpen" =>
        r \in Range(calls') /\ rollback_queue'[r] = transactions[r]
  BY <1>1, Zenon
<1>4. \A r \in Stores, u \in UserTxns :
        r \in Range(calls) /\ u \in Range(rollback_queue[r]) /\ ~is_closed'[u] =>
          r \in Range(calls') /\ u \in Range(rollback_queue'[r])
  BY <1>1, <1>2, Zenon
<1>5. OpenTransactionsAreClosed'
  BY <1>3, <1>4, ClosingStep, Zenon
<1> QED BY <1>1, <1>5, Zenon

\* A rollback starts, which closes a transaction.
LEMMA BeginRollbackStep ==
  ASSUME Inv, DurabilityInv, NEW t \in Txns, NEW cs,
         BeginTransactionClose(t, cs),
         UNCHANGED <<pageVars, poolVars, live, is_committed, state, callerVars,
                     request, last>>,
         \A r \in Stores : r \in Range(calls) => r \in Range(cs),
         \A r \in Stores, u \in UserTxns \ {t} :
           u \in Range(rollback_queue[r]) => u \in Range(rollback_queue'[r])
  PROVE  DurabilityInv'
<1>1. /\ is_closed'[t] = TRUE /\ pc'[t] = "pin_close" /\ calls' = cs
      /\ \A u \in Txns \ {t} : is_closed'[u] = is_closed[u] /\ pc'[u] = pc[u]
  BY DEF BeginTransactionClose, Inv, TypeOK, TxnTypes
<1>2. \A u \in UserTxns : u \in Txns
  BY Zenon DEF UserTxns
<1>3. \A u \in UserTxns : pc'[u] \in {"pin_commit", "write"} =>
        state'[StoreOf[u]] = "kOpen"
  BY <1>1, <1>2 DEF DurabilityInv, OpenTransactionsAreClosed
<1>4. /\ live' \subseteq live
      /\ \A u \in Txns : is_closed[u] => is_closed'[u]
      /\ \A r \in Stores : state'[r] = "kOpen" => state[r] = "kOpen"
      /\ \A r \in Stores : state[r] = "kOpen" /\ state'[r] # "kOpen" =>
           r \in Range(calls') /\ rollback_queue'[r] = transactions[r]
  BY <1>1, Zenon
<1>5. \A r \in Stores, u \in UserTxns :
        r \in Range(calls) /\ u \in Range(rollback_queue[r]) /\ ~is_closed'[u] =>
          r \in Range(calls') /\ u \in Range(rollback_queue'[r])
  BY <1>1, Zenon
<1>6. OpenTransactionsAreClosed'
  BY <1>3, <1>4, <1>5, ClosingStep, ZenonT(60) DEF DurabilityInv
<1> QED BY <1>4, <1>6, SamePages, ZenonT(60) DEF pageVars, poolVars, callerVars

\* The application closes a store, or ~PoolImpl does.
LEMMA CloseHistory ==
  ASSUME Inv, DurabilityInv, UNCHANGED last, NEW s \in Stores,
         CloseStore(s) \/ DestroyPoolCloseStore(s)
  PROVE  DurabilityInv'
<1>1. /\ state[s] = "kOpen" /\ BeginClose(s)
      /\ UNCHANGED <<pageVars, poolVars, txnVars, callerVars, request>>
  BY Zenon DEF CloseStore, DestroyPoolCloseStore
<1>2. /\ s \in Range(calls')
      /\ \A r \in Stores : r \in Range(calls) => r \in Range(calls')
  <2>1. CASE CloseStore(s)
    <3>1. s \in CallNames
      BY Zenon DEF CallNames
    <3> QED BY <2>1, <3>1, EmptyList, SingleCall, Zenon DEF CloseStore, Idle
  <2>2. CASE DestroyPoolCloseStore(s)
    <3>1. calls \in Seq(CallNames)
      BY Zenon DEF Inv, TypeOK, CallTypes, CallNames
    <3> QED BY <2>2, <3>1, PushedCall, Zenon DEF DestroyPoolCloseStore
  <2> QED BY <2>1, <2>2, Zenon
<1>3. \A t \in UserTxns : pc[t] \notin {"pin_commit", "write"}
  <2> SUFFICES ASSUME NEW t \in UserTxns, pc[t] \in {"pin_commit", "write"}
               PROVE  FALSE
    BY Zenon
  <2>1. t \in Txns /\ t \in CallNames
    BY Zenon DEF UserTxns, CallNames
  <2>2. calls = <<t>>
    BY <2>1, ZenonT(60) DEF Inv, CallsAreNested
  <2>3. calls # <<>> /\ Head(calls) = t
    BY <2>2
  <2> QED BY <2>1, <2>3, CallAssumption, Zenon
      DEF CloseStore, DestroyPoolCloseStore, Idle, Running
<1>4. /\ OpenTransactionsAreClosed'
      /\ \A r \in Stores : state'[r] = "kOpen" => state[r] = "kOpen"
  BY <1>1, <1>2, <1>3, BeginCloseStep, Zenon DEF DurabilityInv, txnVars
<1> QED BY <1>1, <1>4, SamePages, Zenon
    DEF pageVars, poolVars, txnVars, callerVars

\* A transaction is rolled back by the application, or by the loop of
\* StoreImpl::Close.
LEMMA RollbackHistory ==
  ASSUME Inv, DurabilityInv, UNCHANGED last
  PROVE  /\ \A t \in Txns : Rollback(t) => DurabilityInv'
         /\ \A s \in Stores : CloseRollback(s) => DurabilityInv'
         /\ \A s \in Stores : CloseRollbackInit(s) => DurabilityInv'
<1>1. calls \in Seq(CallNames)
  BY Zenon DEF Inv, TypeOK, CallTypes, CallNames
<1>2. ASSUME NEW t \in Txns, Rollback(t) PROVE DurabilityInv'
  <2>1. Range(calls) = {}
    BY <1>2, EmptyList, Zenon DEF Rollback, Idle
  <2> QED BY <1>2, <2>1, BeginRollbackStep, Zenon DEF Rollback, storeVars
<1>3. ASSUME NEW s \in Stores, CloseRollback(s) PROVE DurabilityInv'
  <2> DEFINE t == Head(rollback_queue[s])
  <2>1. rollback_queue[s] \in Seq(UserTxns) /\ rollback_queue[s] # <<>>
    BY <1>3, Zenon DEF CloseRollback, Inv, TypeOK, StoreTypes
  <2>2. /\ t \in UserTxns
        /\ \A u \in Range(rollback_queue[s]) : u = t \/ u \in Range(Tail(rollback_queue[s]))
    <3>1. /\ t \in UserTxns /\ t = rollback_queue[s][1]
          /\ DOMAIN rollback_queue[s] = 1 .. Len(rollback_queue[s])
          /\ DOMAIN Tail(rollback_queue[s]) = 1 .. Len(rollback_queue[s]) - 1
          /\ \A i \in 1 .. Len(rollback_queue[s]) - 1 :
               Tail(rollback_queue[s])[i] = rollback_queue[s][i + 1]
      BY <2>1
    <3>2. \A i \in 1 .. Len(rollback_queue[s]) :
            i = 1 \/ (i - 1 \in 1 .. Len(rollback_queue[s]) - 1 /\ (i - 1) + 1 = i)
      BY <2>1
    <3>3. ASSUME NEW i \in 1 .. Len(rollback_queue[s]), i # 1
          PROVE  rollback_queue[s][i] \in Range(Tail(rollback_queue[s]))
      <4>1. Tail(rollback_queue[s])[i - 1] = rollback_queue[s][i]
        BY <3>1, <3>2, <3>3, Zenon
      <4> QED BY <3>1, <3>2, <3>3, <4>1, Zenon DEF Range
    <3> QED BY <3>1, <3>3, Zenon DEF Range
  <2>3. t \in Txns
    BY <2>2, Zenon DEF UserTxns
  <2>4. /\ rollback_queue'[s] = Tail(rollback_queue[s])
        /\ \A r \in Stores \ {s} : rollback_queue'[r] = rollback_queue[r]
    BY <1>3, Zenon DEF CloseRollback, Inv, TypeOK, StoreTypes
  <2>5. /\ IF is_closed[t] THEN UNCHANGED <<is_closed, pc, cursor, calls>>
           ELSE BeginTransactionClose(t, <<t>> \o calls)
        /\ UNCHANGED <<pageVars, poolVars, live, is_committed, state,
                       callerVars, request>>
    BY <1>3, Zenon DEF CloseRollback
  <2> HIDE DEF t
  <2>6. CASE is_closed[t]
    <3>1. \A r \in Stores, u \in UserTxns :
            r \in Range(calls) /\ u \in Range(rollback_queue[r]) /\ ~is_closed'[u] =>
              r \in Range(calls') /\ u \in Range(rollback_queue'[r])
      BY <2>2, <2>4, <2>5, <2>6, ZenonT(60)
    <3>2. OpenTransactionsAreClosed'
      BY <2>5, <2>6, <3>1, ClosingStep, ZenonT(60)
         DEF DurabilityInv, OpenTransactionsAreClosed
    <3> QED BY <2>5, <2>6, <3>2, SamePages, Zenon
        DEF pageVars, poolVars, callerVars
  <2>7. CASE ~is_closed[t]
    <3>1. BeginTransactionClose(t, <<t>> \o calls)
      BY <2>5, <2>7, Zenon
    <3>2. \A r \in Stores : r \in Range(calls) => r \in Range(<<t>> \o calls)
      BY <1>1, PushedCall, Zenon
    <3>3. \A r \in Stores, u \in UserTxns \ {t} :
            u \in Range(rollback_queue[r]) => u \in Range(rollback_queue'[r])
      BY <2>2, <2>4, Zenon
    <3> QED BY <2>3, <2>5, <3>1, <3>2, <3>3, BeginRollbackStep, ZenonT(60)
  <2> QED BY <2>6, <2>7, Zenon
<1>4. ASSUME NEW s \in Stores, CloseRollbackInit(s) PROVE DurabilityInv'
  <2>1. InitTxn[s] \in Txns
    BY TxnAssumption, Zenon
  <2>2. \A r \in Stores : r \in Range(calls) => r \in Range(<<InitTxn[s]>> \o calls)
    BY <1>1, PushedCall, Zenon
  <2> QED BY <1>4, <2>1, <2>2, BeginRollbackStep, ZenonT(60)
      DEF CloseRollbackInit, storeVars
<1> QED BY <1>2, <1>3, <1>4, Zenon

\* A transaction's object is deleted, and the end of StoreImpl::Close.
LEMMA EndHistory ==
  ASSUME Inv, DurabilityInv, UNCHANGED last
  PROVE  /\ \A t \in Txns : Release(t) => DurabilityInv'
         /\ \A s \in Stores : StoreClosed(s) => DurabilityInv'
<1>1. \A u \in UserTxns : pc[u] \in {"pin_commit", "write"} =>
        state[StoreOf[u]] = "kOpen"
  BY Zenon DEF DurabilityInv, OpenTransactionsAreClosed
<1>2. ASSUME NEW t \in Txns, Release(t) PROVE DurabilityInv'
  <2>1. live' = live \ {t} /\ UNCHANGED <<is_closed, state, calls, rollback_queue, pc>>
    BY <1>2, Zenon DEF Release, storeVars
  <2>2. OpenTransactionsAreClosed'
    BY <1>1, <2>1, ClosingStep, Zenon DEF DurabilityInv
  <2> QED BY <1>2, <2>1, <2>2, SamePages, ZenonT(60)
      DEF Release, pageVars, poolVars, callerVars
<1>3. ASSUME NEW s \in Stores, StoreClosed(s) PROVE DurabilityInv'
  <2>1. /\ s \in Range(calls) /\ Range(calls') = Range(calls) \ {s}
        /\ Range(rollback_queue[s]) = {}
    BY <1>3, InnermostCall, EmptyList, ZenonT(60) DEF StoreClosed
  <2>2. /\ state[s] = "kClosing" /\ state'[s] = "kClosed"
        /\ \A r \in Stores \ {s} : state'[r] = state[r]
    BY <1>3, <2>1, SMTT(30) DEF StoreClosed, Inv, CallsAreNested, TypeOK, StoreTypes
  <2>3. UNCHANGED <<live, is_closed, rollback_queue, pc>>
    BY <1>3, Zenon DEF StoreClosed, txnVars
  <2>4. \A u \in UserTxns : StoreOf[u] \in Stores
    BY TxnAssumption, Zenon DEF UserTxns
  <2>5. \A r \in Stores : state'[r] = "kOpen" <=> state[r] = "kOpen"
    BY <2>2
  <2>6. OpenTransactionsAreClosed'
    BY <1>1, <2>1, <2>3, <2>4, <2>5, ClosingStep, ZenonT(60) DEF DurabilityInv
  <2> QED BY <1>3, <2>3, <2>5, <2>6, SamePages, ZenonT(60)
      DEF StoreClosed, pageVars, poolVars, txnVars, callerVars
<1> QED BY <1>2, <1>3, Zenon

-----------------------------------------------------------------------------
(* Transactions that commit, and objects that are created anew. *)

\* The end of TransactionImpl::Commit: everything the transaction was the last
\* to write has been written to the data file.
LEMMA CommitDoneHistory ==
  ASSUME Inv, DurabilityInv, UNCHANGED last, NEW t \in Txns, CommitDone(t)
  PROVE  DurabilityInv'
<1>1. /\ pc[t] = "write" /\ pool_pages[t] = <<>> /\ calls # <<>> /\ calls' = calls
      /\ UNCHANGED <<pageVars, poolVars, live, storeVars, callerVars, request>>
  BY Zenon DEF CommitDone, BeginTransactionClose, Running
<1>2. /\ is_committed'[t] = TRUE /\ is_closed'[t] = TRUE /\ pc'[t] = "pin_close"
      /\ \A u \in Txns \ {t} : /\ is_committed'[u] = is_committed[u]
                               /\ is_closed'[u] = is_closed[u] /\ pc'[u] = pc[u]
  BY DEF CommitDone, BeginTransactionClose, Inv, TypeOK, TxnTypes
<1>3. calls = <<t>> /\ t \in UserTxns /\ ~is_closed[t] /\ blank = NoFrame
  BY <1>1, ZenonT(60) DEF Inv, CallsAreNested
<1>4. request = NoRequest
  <2>1. t \in CallNames
    BY Zenon DEF CallNames
  <2>2. Range(calls) = {t}
    BY <1>3, <2>1, SingleCall, Zenon
  <2> QED BY <2>2, CallAssumption, ZenonT(60) DEF Inv, HeldFramesAreUnassigned
<1>5. \A f \in Frames : transaction[f] # t
  BY <1>1, EmptyList, Zenon DEF Inv, PagesAreListed
<1>6. \A u \in UserTxns : u \in Txns
  BY Zenon DEF UserTxns
<1>7. state[StoreOf[t]] = "kOpen"
  BY <1>1, <1>3, ZenonT(60) DEF DurabilityInv, OpenTransactionsAreClosed
<1>8. HistoryTypes'
  BY DEF DurabilityInv, HistoryTypes
<1>9. OwnersAreLast'
  BY <1>1, <1>2, <1>5, <1>6, ZenonT(60) DEF DurabilityInv, OwnersAreLast, pageVars
<1>10. \A s \in Stores, id \in PageIds : last[s][id].fate = "running" =>
         last[s][id].txn \in Txns /\ StoreOf[last[s][id].txn] = s
  BY RunningWrite, Zenon DEF DurabilityInv
<1>11. RunningWritesAreKept'
  BY <1>1, <1>2, <1>10, ZenonT(60)
     DEF DurabilityInv, RunningWritesAreKept, pageVars, poolVars, storeVars
<1>12. CommittedAreClosed'
  BY <1>1, <1>2, <1>3, <1>4, <1>6, ZenonT(60)
     DEF DurabilityInv, CommittedAreClosed, callerVars
<1>13. OpenTransactionsAreClosed'
  <2>1. \A u \in UserTxns : pc'[u] \in {"pin_commit", "write"} =>
          state'[StoreOf[u]] = "kOpen"
    BY <1>1, <1>2, <1>6, SMTT(30) DEF DurabilityInv, OpenTransactionsAreClosed, storeVars
  <2>2. UNCHANGED <<live, state, rollback_queue, calls>>
    BY <1>1, Zenon DEF storeVars
  <2> QED BY <1>2, <2>1, <2>2, ClosingStep, ZenonT(60) DEF DurabilityInv
<1>14. CommittedWritesAreDurable'
  <2> SUFFICES ASSUME NEW s \in Stores, NEW id \in PageIds,
                      Fate(last[s][id])' = "committed"
               PROVE  disk[s][id] = last[s][id].value
    BY <1>1, Zenon DEF CommittedWritesAreDurable, poolVars
  <2>1. CASE last[s][id].fate = "running" /\ last[s][id].txn = t
    <3>1. state[s] = "kOpen"
      BY <1>7, <1>10, <2>1, Zenon
    <3> QED BY <1>3, <1>5, <2>1, <3>1, ZenonT(60)
        DEF DurabilityInv, RunningWritesAreKept
  <2>2. CASE ~(last[s][id].fate = "running" /\ last[s][id].txn = t)
    <3>1. Fate(last[s][id]) = "committed"
      BY <1>2, <1>10, <2>2, Zenon DEF Fate
    <3> QED BY <3>1, Zenon DEF DurabilityInv, CommittedWritesAreDurable
  <2> QED BY <2>1, <2>2, Zenon
<1> QED BY <1>8, <1>9, <1>11, <1>12, <1>13, <1>14, ZenonT(60) DEF DurabilityInv

\* Settling a modification fixes what became of it.
LEMMA SettledWrite ==
  ASSUME NEW w \in Writes \union {NoWrite}
  PROVE  /\ Settled(w) \in Writes \union {NoWrite}
         /\ Settled(w) # NoWrite => w # NoWrite /\ Settled(w).txn = w.txn
         /\ Settled(w).fate # "running"
         /\ Settled(w).fate = "committed" =>
              Fate(w) = "committed" /\ Settled(w).value = w.value
<1>1. CASE w = NoWrite
  <2>1. w.fate # "running" /\ w.fate # "committed"
    BY <1>1 DEF NoWrite
  <2>2. Settled(w) = w
    BY <1>1, <2>1, Zenon DEF Settled, Fate
  <2> QED BY <1>1, <2>1, <2>2, Zenon
<1>2. CASE w # NoWrite
  <2>1. w \in Writes
    BY <1>2, Zenon
  <2>2. Fate(w) \in {"running", "committed", "rolled back", "crashed"}
    BY <2>1, Zenon DEF Writes, Fate
  <2>3. ASSUME NEW x \in {"committed", "rolled back", "crashed"}
        PROVE  /\ [w EXCEPT !.fate = x] \in Writes
               /\ [w EXCEPT !.fate = x].txn = w.txn
               /\ [w EXCEPT !.fate = x].value = w.value
               /\ [w EXCEPT !.fate = x].fate = x
    BY <2>1, Zenon DEF Writes
  <2>4. CASE Fate(w) = "running"
    <3>1. Settled(w) = [w EXCEPT !.fate = "crashed"]
      BY <1>2, <2>4, Zenon DEF Settled
    <3> QED BY <1>2, <2>3, <3>1, Zenon
  <2>5. CASE Fate(w) # "running"
    <3>1. Settled(w) = [w EXCEPT !.fate = Fate(w)]
      BY <1>2, <2>5, Zenon DEF Settled
    <3> DEFINE x == Fate(w)
    <3>2. x \in {"committed", "rolled back", "crashed"}
      BY <2>2, <2>5, Zenon
    <3> HIDE DEF x
    <3>3. Settled(w) = [w EXCEPT !.fate = x]
      BY <3>1, Zenon DEF x
    <3>4. /\ Settled(w) \in Writes /\ Settled(w).txn = w.txn
          /\ Settled(w).value = w.value /\ Settled(w).fate = x
      BY <2>3, <3>2, <3>3, Zenon
    <3>5. x # "running"
      BY <3>2, Zenon
    <3> QED BY <1>2, <3>4, <3>5, Zenon DEF x
  <2> QED BY <2>4, <2>5, Zenon
<1> QED BY <1>1, <1>2, Zenon

\* A step that settles some modifications, and keeps the others.
LEMMA SettlingStep ==
  ASSUME HistoryTypes,
         last' = [s \in Stores |-> [id \in PageIds |-> last'[s][id]]],
         \A s \in Stores, id \in PageIds :
           last'[s][id] = last[s][id] \/ last'[s][id] = Settled(last[s][id])
  PROVE  HistoryTypes'
<1>1. \A s \in Stores, id \in PageIds : last[s][id] \in Writes \union {NoWrite}
  BY Zenon DEF HistoryTypes
<1>2. \A s \in Stores, id \in PageIds :
        /\ last'[s][id] \in Writes \union {NoWrite}
        /\ last'[s][id] # NoWrite =>
             last[s][id] # NoWrite /\ last'[s][id].txn = last[s][id].txn
  BY <1>1, SettledWrite, ZenonT(60)
<1>3. last' \in [Stores -> [PageIds -> Writes \union {NoWrite}]]
  <2>1. \A s \in Stores : [id \in PageIds |-> last'[s][id]] \in [PageIds -> Writes \union {NoWrite}]
    BY <1>2, Zenon
  <2> DEFINE F == [PageIds -> Writes \union {NoWrite}]
             row(s) == [id \in PageIds |-> last'[s][id]]
  <2>2. last' = [s \in Stores |-> row(s)] /\ \A s \in Stores : row(s) \in F
    BY <2>1, Zenon
  <2> HIDE DEF F, row
  <2>3. last' \in [Stores -> F]
    BY <2>2, Zenon
  <2> QED BY <2>3, Zenon DEF F
<1>4. \A s \in Stores, id \in PageIds :
        last'[s][id] # NoWrite => StoreOf[last'[s][id].txn] = s
  <2>1. \A s \in Stores, id \in PageIds :
          last[s][id] # NoWrite => StoreOf[last[s][id].txn] = s
    BY Zenon DEF HistoryTypes
  <2> QED BY <1>2, <2>1, ZenonT(30)
<1>5. (Writes \union {NoWrite})' = Writes \union {NoWrite}
  BY DEF Writes, NoWrite, UserTxns, IsInit
<1> QED BY <1>3, <1>4, <1>5, Zenon DEF HistoryTypes

\* StoreImpl::CreateTransaction.
LEMMA CreateHistory ==
  ASSUME Inv, OwnersAreListed, DurabilityInv,
         NEW t \in Txns, CreateTransaction(t), ForgetTxn(t)
  PROVE  DurabilityInv'
<1>1. /\ t \in UserTxns /\ t \notin live /\ calls = <<>> /\ blank = NoFrame
      /\ state[StoreOf[t]] = "kOpen" /\ live' = live \union {t}
      /\ UNCHANGED <<pageVars, poolVars, pc, state, rollback_queue, callerVars,
                     request, calls>>
  BY Zenon DEF CreateTransaction, Idle
<1>2. /\ is_committed'[t] = FALSE /\ is_closed'[t] = FALSE
      /\ \A u \in Txns \ {t} : /\ is_committed'[u] = is_committed[u]
                               /\ is_closed'[u] = is_closed[u]
  BY DEF CreateTransaction, Inv, TypeOK, TxnTypes
<1>3. request = NoRequest
  BY <1>1, NoCallRuns, Zenon
<1>4. \A f \in Frames : transaction[f] # t
  <2>1. StoreOf[t] \in Stores
    BY TxnAssumption, Zenon
  <2>2. t \notin Range(transactions[StoreOf[t]])
    BY <1>1, <2>1, Zenon DEF Inv, RunningTransactionsAreListed
  <2> QED BY <1>1, <2>2, Zenon DEF OwnersAreListed
<1>5. \A u \in UserTxns : u \in Txns
  BY Zenon DEF UserTxns
<1>6. \A s \in Stores, id \in PageIds :
        \/ /\ last[s][id] # NoWrite /\ last[s][id].txn = t
           /\ last'[s][id] = Settled(last[s][id])
        \/ /\ last[s][id] = NoWrite \/ last[s][id].txn # t
           /\ last'[s][id] = last[s][id]
  BY Zenon DEF ForgetTxn
<1>7. last' = [s \in Stores |-> [id \in PageIds |-> last'[s][id]]]
  BY DEF ForgetTxn
<1>8. HistoryTypes'
  BY <1>6, <1>7, SettlingStep, Zenon DEF DurabilityInv
<1>9. \A s \in Stores, id \in PageIds : last[s][id] \in Writes \union {NoWrite}
  BY Zenon DEF DurabilityInv, HistoryTypes
<1>10. \A s \in Stores, id \in PageIds : last[s][id].fate = "running" =>
         last[s][id].txn \in Txns /\ last[s][id] # NoWrite
  BY RunningWrite, Zenon DEF DurabilityInv
<1>11. OwnersAreLast'
  <2> SUFFICES ASSUME NEW f \in Frames, transaction[f] \in UserTxns
               PROVE  /\ ~is_committed'[transaction[f]]
                      /\ last'[StoreOf[transaction[f]]][page_id[f]] =
                           [fate |-> "running", txn |-> transaction[f],
                            value |-> data[f]]
    BY <1>1, Zenon DEF OwnersAreLast, pageVars
  <2> DEFINE u == transaction[f]
             w == last[StoreOf[u]][page_id[f]]
  <2>1. /\ ~is_committed[u] /\ u # t
        /\ w = [fate |-> "running", txn |-> u, value |-> data[f]]
    BY <1>4, Zenon DEF DurabilityInv, OwnersAreLast
  <2>2. w.txn = u
    BY <2>1
  <2>3. StoreOf[u] \in Stores /\ page_id[f] \in PageIds
    BY <1>5, TxnAssumption, Zenon DEF Inv, TypeOK, PageTypes
  <2>4. last'[StoreOf[u]][page_id[f]] = w
    BY <1>6, <2>1, <2>2, <2>3, Zenon
  <2> QED BY <1>1, <1>2, <1>5, <2>1, <2>4, Zenon
<1>12. RunningWritesAreKept'
  <2> SUFFICES ASSUME NEW s \in Stores, NEW id \in PageIds,
                      last'[s][id].fate = "running", state[s] = "kOpen",
                      ~is_closed'[last'[s][id].txn]
               PROVE  \/ disk[s][id] = last'[s][id].value
                      \/ \E f \in Frames : /\ transaction[f] = last'[s][id].txn
                                           /\ page_id[f] = id
    BY <1>1, ZenonT(60) DEF RunningWritesAreKept, pageVars, poolVars
  <2>1. Settled(last[s][id]).fate # "running"
    BY <1>9, SettledWrite, Zenon
  <2>2. last'[s][id] = last[s][id] /\ (last[s][id] = NoWrite \/ last[s][id].txn # t)
    BY <1>6, <2>1, Zenon
  <2>3. last[s][id].txn # t /\ last[s][id].txn \in Txns
    BY <1>10, <2>2, Zenon
  <2> QED BY <1>2, <2>2, <2>3, ZenonT(60) DEF DurabilityInv, RunningWritesAreKept
<1>13. OpenTransactionsAreClosed'
  BY <1>1, <1>2, <1>5, ZenonT(60) DEF DurabilityInv, OpenTransactionsAreClosed
<1>14. CommittedAreClosed'
  BY <1>1, <1>2, <1>3, <1>5, ZenonT(60)
     DEF DurabilityInv, CommittedAreClosed, callerVars
<1>15. CommittedWritesAreDurable'
  <2> SUFFICES ASSUME NEW s \in Stores, NEW id \in PageIds,
                      Fate(last[s][id])' = "committed"
               PROVE  disk[s][id] = last'[s][id].value
    BY <1>1, Zenon DEF CommittedWritesAreDurable, poolVars
  <2>1. Fate(last[s][id]) = "committed" /\ last'[s][id].value = last[s][id].value
    <3>1. CASE last'[s][id] = last[s][id] /\ (last[s][id] = NoWrite \/ last[s][id].txn # t)
      BY <1>2, <1>10, <3>1, Zenon DEF Fate
    <3>2. CASE last'[s][id] = Settled(last[s][id])
      <4>1. Settled(last[s][id]).fate # "running"
        BY <1>9, SettledWrite, Zenon
      <4>2. Settled(last[s][id]).fate = "committed"
        BY <3>2, <4>1, Zenon DEF Fate
      <4> QED BY <1>9, <3>2, <4>2, SettledWrite, Zenon
    <3> QED BY <1>6, <3>1, <3>2, Zenon
  <2> QED BY <2>1, Zenon DEF DurabilityInv, CommittedWritesAreDurable
<1> QED BY <1>8, <1>11, <1>12, <1>13, <1>14, <1>15, Zenon DEF DurabilityInv

\* A crash settles every modification.
LEMMA CrashHistory ==
  ASSUME DurabilityInv, Crash,
         last' = [s \in Stores |-> [id \in PageIds |-> Settled(last[s][id])]]
  PROVE  DurabilityInv'
<1>1. \A s \in Stores, id \in PageIds :
        /\ last[s][id] \in Writes \union {NoWrite}
        /\ last'[s][id] = Settled(last[s][id])
  BY Zenon DEF DurabilityInv, HistoryTypes
<1>2. \A s \in Stores, id \in PageIds : last'[s][id].fate # "running"
  BY <1>1, SettledWrite, Zenon
<1>3. HistoryTypes'
  <2>1. last' = [s \in Stores |-> [id \in PageIds |-> last'[s][id]]]
    OBVIOUS
  <2> QED BY <1>1, <2>1, SettlingStep, Zenon DEF DurabilityInv
<1>4. OwnersAreLast'
  BY ValueAssumption, Zenon DEF Crash, OwnersAreLast, UserTxns
<1>5. RunningWritesAreKept'
  BY <1>2, Zenon DEF RunningWritesAreKept
<1>6. OpenTransactionsAreClosed'
  <2>1. \A t \in UserTxns : t \in Txns /\ StoreOf[t] \in Stores /\ t \notin live'
    BY TxnAssumption, Zenon DEF Crash, UserTxns
  <2>2. \A t \in Txns : pc'[t] = "idle"
    BY Zenon DEF Crash
  <2> QED BY <2>1, <2>2 DEF OpenTransactionsAreClosed
<1>7. CommittedAreClosed'
  <2>1. /\ \A t \in UserTxns : ~is_committed'[t]
        /\ blank' = NoFrame /\ request' = NoRequest
    BY Zenon DEF Crash, UserTxns
  <2> QED BY <2>1, Zenon DEF CommittedAreClosed
<1>8. CommittedWritesAreDurable'
  <2> SUFFICES ASSUME NEW s \in Stores, NEW id \in PageIds,
                      Fate(last[s][id])' = "committed"
               PROVE  disk[s][id] = last'[s][id].value
    BY Zenon DEF CommittedWritesAreDurable, Crash
  <2>1. Settled(last[s][id]).fate = "committed"
    BY <1>1, <1>2, Zenon DEF Fate
  <2>2. Fate(last[s][id]) = "committed" /\ last'[s][id].value = last[s][id].value
    BY <1>1, <2>1, SettledWrite, ZenonT(60)
  <2> QED BY <2>2, Zenon DEF DurabilityInv, CommittedWritesAreDurable
<1> QED BY <1>3, <1>4, <1>5, <1>6, <1>7, <1>8, ZenonT(60) DEF DurabilityInv

-----------------------------------------------------------------------------
(* Pages that transactions modify, and that leave them. *)

\* A modified page is written.  Frame f leaves the transaction that owns it, if
\* any does, and the store is closed if the write fails; or the frame stays,
\* because the program stops.
LEMMA PageLeaves ==
  ASSUME Inv, DurabilityInv, NEW f \in Frames, NEW ok, transaction[f] # NoTxn,
         transaction'[f] \notin UserTxns \/ transaction'[f] = transaction[f],
         \A g \in Frames \ {f} : transaction'[g] = transaction[g],
         UNCHANGED <<page_id, data, last, is_committed, live, is_closed>>,
         IF is_dirty[f] THEN WritePage(f, ok) ELSE UNCHANGED disk,
         ~ok => \/ state'[StoreOf[transaction[f]]] # "kOpen"
                \/ transaction'[f] = transaction[f],
         \A r \in Stores : state'[r] = "kOpen" => state[r] = "kOpen"
  PROVE  /\ HistoryTypes' /\ OwnersAreLast'
         /\ RunningWritesAreKept' /\ CommittedWritesAreDurable'
<1> DEFINE t == transaction[f]
           s == StoreOf[t]
           id == page_id[f]
<1>1. t \in Txns /\ s \in Stores /\ id \in PageIds
  <2>1. t \in Txns /\ id \in PageIds
    BY Zenon DEF Inv, TypeOK, PageTypes
  <2> QED BY <2>1, TxnAssumption, ZenonT(60)
<1>2. is_dirty[f] => /\ t \in UserTxns /\ ~is_committed[t]
                     /\ last[s][id] = [fate |-> "running", txn |-> t, value |-> data[f]]
  <2>1. is_dirty[f] => t \in UserTxns
    BY ZenonT(60) DEF Inv, DirtyIffModified
  <2> QED BY <2>1, Zenon DEF DurabilityInv, OwnersAreLast
<1>3. is_dirty[f] => /\ last[s][id].fate = "running" /\ last[s][id].txn = t
                     /\ last[s][id].value = data[f]
  BY <1>2
<1>4. /\ \A r \in Stores, i \in PageIds : r # s \/ i # id => disk'[r][i] = disk[r][i]
      /\ disk'[s][id] = IF is_dirty[f] /\ ok THEN data[f] ELSE disk[s][id]
  <2>1. CASE is_dirty[f] /\ ok
    <3>1. disk' = [disk EXCEPT ![s][id] = data[f]]
      BY <2>1, Zenon DEF WritePage
    <3> HIDE DEF s, id
    <3> QED BY <1>1, <2>1, <3>1, SMTT(30) DEF Inv, TypeOK, PoolTypes
  <2>2. CASE ~(is_dirty[f] /\ ok)
    BY <2>2, ZenonT(60) DEF WritePage
  <2> QED BY <2>1, <2>2, ZenonT(60)
<1>5. HistoryTypes'
  BY DEF DurabilityInv, HistoryTypes
<1>6. OwnersAreLast'
  <2> SUFFICES ASSUME NEW g \in Frames, transaction'[g] \in UserTxns
               PROVE  /\ transaction[g] = transaction'[g]
                      /\ ~is_committed[transaction[g]]
                      /\ last[StoreOf[transaction[g]]][page_id[g]] =
                           [fate |-> "running", txn |-> transaction[g],
                            value |-> data[g]]
    BY Zenon DEF OwnersAreLast
  <2>1. transaction[g] = transaction'[g]
    BY Zenon
  <2> QED BY <2>1, Zenon DEF DurabilityInv, OwnersAreLast
<1>7. RunningWritesAreKept'
  <2> SUFFICES ASSUME NEW r \in Stores, NEW i \in PageIds,
                      last[r][i].fate = "running", state'[r] = "kOpen",
                      ~is_closed[last[r][i].txn]
               PROVE  \/ disk'[r][i] = last[r][i].value
                      \/ \E g \in Frames : /\ transaction'[g] = last[r][i].txn
                                           /\ page_id[g] = i
    BY ZenonT(30) DEF RunningWritesAreKept
  <2>1. \/ disk[r][i] = last[r][i].value
        \/ \E g \in Frames : transaction[g] = last[r][i].txn /\ page_id[g] = i
    BY Zenon DEF DurabilityInv, RunningWritesAreKept
  <2>2. last[r][i].txn \in UserTxns /\ StoreOf[last[r][i].txn] = r
    BY RunningWrite, Zenon DEF DurabilityInv
  <2>3. CASE disk[r][i] = last[r][i].value
    BY <1>3, <1>4, <2>3, Zenon
  <2>4. ASSUME NEW g \in Frames, transaction[g] = last[r][i].txn, page_id[g] = i
        PROVE  \/ disk'[r][i] = last[r][i].value
               \/ transaction'[g] = last[r][i].txn
    <3>1. CASE g = f /\ transaction'[f] # transaction[f]
      <4>1. r = s /\ i = id /\ t \in UserTxns
        BY <2>2, <2>4, <3>1, ZenonT(60)
      <4>2. is_dirty[f] /\ ok
        BY <3>1, <4>1, ZenonT(60) DEF Inv, DirtyIffModified
      <4> QED BY <1>3, <1>4, <4>1, <4>2, ZenonT(60)
    <3>2. CASE g # f \/ transaction'[f] = transaction[f]
      BY <2>4, <3>2, ZenonT(60)
    <3> QED BY <3>1, <3>2, Zenon
  <2> QED BY <2>1, <2>3, <2>4, ZenonT(60)
<1>8. CommittedWritesAreDurable'
  <2> SUFFICES ASSUME NEW r \in Stores, NEW i \in PageIds,
                      Fate(last[r][i])' = "committed"
               PROVE  disk'[r][i] = last[r][i].value
    BY Zenon DEF CommittedWritesAreDurable
  <2>1. Fate(last[r][i]) = "committed"
    BY ZenonT(60) DEF Fate
  <2>2. ~(r = s /\ i = id /\ is_dirty[f])
    BY <1>2, <1>3, <2>1, SMTT(30) DEF Fate
  <2>3. disk'[r][i] = disk[r][i]
    BY <1>4, <2>2, Zenon
  <2> QED BY <2>1, <2>3, ZenonT(60) DEF DurabilityInv, CommittedWritesAreDurable
<1> QED BY <1>5, <1>6, <1>7, <1>8, ZenonT(60)

\* UnassignPageFromStore closes the store if the write fails.
LEMMA CloseAfterWriteStep ==
  ASSUME Inv, OpenTransactionsAreClosed, NEW s \in Stores, NEW ok,
         NEW cs \in Seq(CallNames), CloseAfterWrite(s, ok, cs),
         UNCHANGED <<live, is_closed>>,
         \A r \in Stores : r \in Range(calls) => r \in Range(cs),
         \A t \in UserTxns : pc'[t] \notin {"pin_commit", "write"}
  PROVE  /\ OpenTransactionsAreClosed' /\ (~ok => state'[s] # "kOpen")
         /\ \A r \in Stores : state'[r] = "kOpen" => state[r] = "kOpen"
<1>1. CASE ~ok /\ state[s] = "kOpen"
  <2>1. BeginClose(s) /\ calls' = <<s>> \o cs
    BY <1>1, Zenon DEF CloseAfterWrite
  <2>2. Range(calls') = Range(cs) \union {s}
    BY <2>1, PushedCall, Zenon
  <2> QED BY <1>1, <2>1, <2>2, BeginCloseStep, ZenonT(60)
<1>2. CASE ~(~ok /\ state[s] = "kOpen")
  <2>1. UNCHANGED <<state, transactions, rollback_queue>> /\ calls' = cs
    BY <1>2, Zenon DEF CloseAfterWrite, storeVars
  <2>2. OpenTransactionsAreClosed'
    BY <2>1, ClosingStep, Zenon
  <2> QED BY <1>2, <2>1, <2>2, ZenonT(60)
<1> QED BY <1>1, <1>2, Zenon

\* TransactionImpl::Commit writes a page.
LEMMA CommitPageHistory ==
  ASSUME Inv, DurabilityInv, UNCHANGED last, NEW t \in Txns, CommitPage(t)
  PROVE  DurabilityInv'
<1>1. PICK f \in Frames : f = Head(pool_pages[t]) /\ transaction[f] = t /\ t # NoTxn
  BY FirstPage, Zenon DEF CommitPage
<1>2. /\ pc[t] = "write" /\ WritePage(f, TRUE)
      /\ transaction' = [transaction EXCEPT ![f] = InitTxn[StoreOf[t]]]
      /\ UNCHANGED <<page_id, data, txnVars, storeVars, callerVars, request, calls>>
  BY <1>1, ZenonT(60) DEF CommitPage, PageWasPersisted, MovePage
<1>3. t \in UserTxns /\ StoreOf[t] \in Stores
  BY <1>2, TxnAssumption, ZenonT(60) DEF Inv, CallsAreNested
<1>4. is_dirty[f]
  BY <1>1, <1>3, ZenonT(60) DEF Inv, DirtyIffModified
<1>5. /\ transaction'[f] \notin UserTxns
      /\ \A g \in Frames \ {f} : transaction'[g] = transaction[g]
  BY <1>2, <1>3, InitTxns, ZenonT(60) DEF Inv, TypeOK, PageTypes
<1>6. UNCHANGED <<live, is_committed, is_closed, state, rollback_queue, pc>>
  BY <1>2, Zenon DEF txnVars, storeVars
<1>7. /\ HistoryTypes' /\ OwnersAreLast'
      /\ RunningWritesAreKept' /\ CommittedWritesAreDurable'
  BY <1>1, <1>2, <1>4, <1>5, <1>6, PageLeaves, ZenonT(60)
<1>8. OpenTransactionsAreClosed'
  BY <1>2, <1>6, ZenonT(60) DEF DurabilityInv, OpenTransactionsAreClosed
<1>9. CommittedAreClosed'
  BY <1>2, <1>6, ZenonT(60) DEF DurabilityInv, CommittedAreClosed, callerVars
<1> QED BY <1>7, <1>8, <1>9, ZenonT(60) DEF DurabilityInv

\* TransactionImpl::Close unassigns a page.
LEMMA CloseUnassignPageHistory ==
  ASSUME Inv, DurabilityInv, UNCHANGED last, NEW t \in Txns, NEW ok,
         CloseUnassignPage(t, ok)
  PROVE  DurabilityInv'
<1>1. PICK f \in Frames : f = Head(pool_pages[t]) /\ transaction[f] = t /\ t # NoTxn
  BY FirstPage, Zenon DEF CloseUnassignPage
<1>2. /\ Running(t) /\ pc[t] = "unassign"
      /\ IF is_dirty[f] THEN WritePage(f, ok) ELSE UNCHANGED disk
      /\ transaction' = [transaction EXCEPT ![f] = NoTxn]
      /\ CloseAfterWrite(StoreOf[t], ok, calls)
      /\ pc' = [pc EXCEPT ![t] = "unpin"]
      /\ UNCHANGED <<page_id, data, live, is_closed, is_committed, callerVars,
                     request>>
  BY <1>1, Zenon DEF CloseUnassignPage, UnassignPageFromStore, UnassignPage
<1>3. StoreOf[t] \in Stores /\ calls \in Seq(CallNames)
  BY TxnAssumption, ZenonT(60) DEF Inv, TypeOK, CallTypes, CallNames
<1>4. /\ transaction'[f] \notin UserTxns
      /\ \A g \in Frames \ {f} : transaction'[g] = transaction[g]
  BY <1>2, ValueAssumption, ZenonT(60) DEF Inv, TypeOK, PageTypes, UserTxns
<1>5. \A u \in UserTxns : pc'[u] \notin {"pin_commit", "write"}
  <2> SUFFICES ASSUME NEW u \in UserTxns, pc'[u] \in {"pin_commit", "write"}
               PROVE  FALSE
    BY ZenonT(60)
  <2>1. u \in Txns /\ u # t /\ pc[u] \in {"pin_commit", "write"}
    BY <1>2, SMTT(30) DEF Inv, TypeOK, TxnTypes, UserTxns
  <2>2. calls = <<u>>
    BY <2>1, ZenonT(60) DEF Inv, CallsAreNested
  <2>3. Head(calls) = u
    BY <2>2
  <2> QED BY <1>2, <2>1, <2>3, ZenonT(60) DEF Running
<1>6. /\ OpenTransactionsAreClosed' /\ (~ok => state'[StoreOf[t]] # "kOpen")
      /\ \A r \in Stores : state'[r] = "kOpen" => state[r] = "kOpen"
  BY <1>2, <1>3, <1>5, CloseAfterWriteStep, ZenonT(60) DEF DurabilityInv
<1>7. /\ HistoryTypes' /\ OwnersAreLast'
      /\ RunningWritesAreKept' /\ CommittedWritesAreDurable'
  BY <1>1, <1>2, <1>4, <1>6, PageLeaves, ZenonT(60)
<1>8. CommittedAreClosed'
  BY <1>2, Zenon DEF DurabilityInv, CommittedAreClosed, callerVars
<1> QED BY <1>6, <1>7, <1>8, ZenonT(60) DEF DurabilityInv

\* The check of pin_count_ fails after the page was written.
LEMMA UnassignPinnedPageHistory ==
  ASSUME Inv, DurabilityInv, UNCHANGED last, NEW ok, UnassignPinnedPage(ok)
  PROVE  DurabilityInv'
<1>1. PICK t \in Txns :
        LET f == Head(pool_pages[t])
        IN  /\ pool_pages[t] # <<>>
            /\ IF is_dirty[f] THEN WritePage(f, ok) ELSE UNCHANGED disk
  BY Zenon DEF UnassignPinnedPage
<1>2. PICK f \in Frames : f = Head(pool_pages[t]) /\ transaction[f] = t /\ t # NoTxn
  BY <1>1, FirstPage, Zenon
<1>3. IF is_dirty[f] THEN WritePage(f, ok) ELSE UNCHANGED disk
  BY <1>1, <1>2, Zenon
<1>4. UNCHANGED <<transaction, page_id, data, live, is_closed, is_committed, pc,
                  state, rollback_queue, blank, writer, request, calls>>
  BY Zenon DEF UnassignPinnedPage, Stop, pageVars, txnVars, storeVars, callerVars
<1>5. transaction[f] # NoTxn
  BY <1>2, Zenon
<1>6. /\ HistoryTypes' /\ OwnersAreLast'
      /\ RunningWritesAreKept' /\ CommittedWritesAreDurable'
  BY <1>3, <1>4, <1>5, PageLeaves, ZenonT(60)
<1>7. OpenTransactionsAreClosed'
  BY <1>4, ZenonT(60) DEF DurabilityInv, OpenTransactionsAreClosed
<1>8. CommittedAreClosed'
  BY <1>4, ZenonT(60) DEF DurabilityInv, CommittedAreClosed
<1> QED BY <1>6, <1>7, <1>8, ZenonT(60) DEF DurabilityInv

\* PagePool::StorePage does not find the page, and may evict another one.
LEMMA StorePageMissHistory ==
  ASSUME Inv, DurabilityInv, UNCHANGED last, NEW s \in Stores, NEW id \in PageIds,
         NEW w \in UserTxns \union {NoTxn}, NEW f \in Frames, NEW ok,
         StorePageMiss(s, id, w, f, ok)
  PROVE  DurabilityInv'
<1>1. /\ calls = <<>> /\ blank = NoFrame
      /\ w # NoTxn => ~is_closed[w]
      /\ request' = [page |-> f, store |-> s, id |-> id, writer |-> w]
      /\ UNCHANGED <<page_id, data, txnVars, callerVars>>
  BY Zenon DEF StorePageMiss, Idle
<1>2. UNCHANGED <<live, is_committed, is_closed, pc, blank, writer>>
  BY <1>1, Zenon DEF txnVars, callerVars
<1>3. CommittedAreClosed'
  <2>1. request'.writer = w
    BY <1>1
  <2>2. w # NoTxn => ~is_committed[w]
    BY <1>1, ZenonT(60) DEF DurabilityInv, CommittedAreClosed
  <2> QED BY <1>1, <1>2, <2>1, <2>2, ZenonT(60) DEF DurabilityInv, CommittedAreClosed
<1>4. /\ \A t \in UserTxns : pc'[t] \notin {"pin_commit", "write"}
      /\ Range(calls) = {} /\ <<"StorePage">> \in Seq(CallNames)
  <2>1. \A t \in UserTxns : pc'[t] = "idle"
    BY <1>1, <1>2, NoCallRuns, ZenonT(60) DEF UserTxns
  <2>2. "StorePage" \in CallNames
    BY Zenon DEF CallNames
  <2> QED BY <1>1, <2>1, <2>2, EmptyList, SingleCall, SMTT(30) DEF IsList
<1>5. CASE /\ AllocFreePage(f) \/ AllocNewPage(f)
           /\ UNCHANGED storeVars /\ calls' = <<"StorePage">>
  <2>1. UNCHANGED <<transaction, disk, state, rollback_queue>>
    BY <1>5, Zenon DEF AllocFreePage, AllocNewPage, storeVars
  <2>2. OpenTransactionsAreClosed'
    BY <1>2, <1>4, <2>1, ClosingStep, ZenonT(60) DEF DurabilityInv
  <2>3. /\ HistoryTypes' /\ OwnersAreLast'
        /\ RunningWritesAreKept' /\ CommittedWritesAreDurable'
    BY <1>1, <1>2, <2>1, SameWrites, ZenonT(60)
  <2> QED BY <1>3, <2>2, <2>3, ZenonT(60) DEF DurabilityInv
<1>6. CASE /\ AllocEvictedPage(f, ok)
           /\ CloseAfterWrite(StoreOf[transaction[f]], ok, <<"StorePage">>)
  <2>1. /\ f = Head(lru_list) /\ lru_list # <<>>
        /\ IF is_dirty[f] THEN WritePage(f, ok) ELSE UNCHANGED disk
        /\ transaction' = [transaction EXCEPT ![f] = NoTxn]
    BY <1>6, ZenonT(60) DEF AllocEvictedPage, UnassignPageFromStore, UnassignPage
  <2>2. f \in Range(lru_list)
    BY <2>1, PoolLists, PopFront, ZenonT(60)
  <2>3. transaction[f] # NoTxn
    BY <2>2, ZenonT(60) DEF Inv, FramesAreListed
  <2>4. StoreOf[transaction[f]] \in Stores
    BY <2>3, TxnAssumption, ZenonT(60) DEF Inv, TypeOK, PageTypes
  <2>5. /\ transaction'[f] \notin UserTxns
        /\ \A g \in Frames \ {f} : transaction'[g] = transaction[g]
    BY <2>1, ValueAssumption, ZenonT(60) DEF Inv, TypeOK, PageTypes, UserTxns
  <2>6. /\ OpenTransactionsAreClosed'
        /\ ~ok => state'[StoreOf[transaction[f]]] # "kOpen"
        /\ \A r \in Stores : state'[r] = "kOpen" => state[r] = "kOpen"
    <3>1. /\ OpenTransactionsAreClosed /\ UNCHANGED <<live, is_closed>>
          /\ \A r \in Stores : r \in Range(calls) => r \in Range(<<"StorePage">>)
      BY <1>2, <1>4, ZenonT(60) DEF DurabilityInv
    <3>2. ASSUME NEW r \in Stores, CloseAfterWrite(r, ok, <<"StorePage">>)
          PROVE  /\ OpenTransactionsAreClosed' /\ (~ok => state'[r] # "kOpen")
                 /\ \A q \in Stores : state'[q] = "kOpen" => state[q] = "kOpen"
      BY <1>4, <3>1, <3>2, CloseAfterWriteStep, ZenonT(60)
    <3> QED BY <1>6, <2>4, <3>2, ZenonT(60)
  <2>7. /\ HistoryTypes' /\ OwnersAreLast'
        /\ RunningWritesAreKept' /\ CommittedWritesAreDurable'
    BY <1>1, <1>2, <2>1, <2>3, <2>5, <2>6, PageLeaves, ZenonT(60)
  <2> QED BY <1>3, <2>6, <2>7, ZenonT(60) DEF DurabilityInv
<1> QED BY <1>5, <1>6, ZenonT(60) DEF StorePageMiss

\* PagePool::StorePage assigns the frame that AllocPage has found, or fails to
\* read the page.
LEMMA StorePageAssignHistory ==
  ASSUME Inv, DurabilityInv, UNCHANGED last, NEW ok, StorePageAssign(ok)
  PROVE  DurabilityInv'
<1>1. /\ Running("StorePage") /\ request' = NoRequest
      /\ UNCHANGED <<disk, txnVars, storeVars>>
  BY Zenon DEF StorePageAssign
<1>2. PICK f \in Frames, s \in Stores, id \in PageIds, w \in UserTxns \union {NoTxn} :
        /\ f = request.page /\ s = request.store
        /\ id = request.id /\ w = request.writer
        /\ transaction[f] = NoTxn
  BY <1>1, StorePageRuns, ZenonT(60) DEF Requests
<1>3. /\ blank = NoFrame /\ request # NoRequest
      /\ \A t \in UserTxns : pc[t] = "idle"
      /\ \A r \in Stores : r \notin Range(calls)
  <2>1. "StorePage" \in CallNames /\ calls = <<"StorePage">>
    BY <1>1, OutermostCall, Zenon DEF CallNames
  <2>2. Range(calls) = {"StorePage"}
    BY <2>1, SingleCall, ZenonT(60)
  <2> QED BY <1>1, <2>2, StorePageRuns, CallAssumption, Zenon DEF UserTxns
<1>4. UNCHANGED <<live, is_committed, is_closed, pc, state, rollback_queue>>
  BY <1>1, Zenon DEF txnVars, storeVars
<1>5. /\ transaction'[f] \notin UserTxns
      /\ \A g \in Frames \ {f} : /\ transaction'[g] = transaction[g]
                                 /\ page_id'[g] = page_id[g] /\ data'[g] = data[g]
      /\ \/ blank' = NoFrame
         \/ w # NoTxn /\ writer' = w
  <2>1. CASE ok
    <3>1. /\ transaction' = [transaction EXCEPT ![f] = InitTxn[s]]
          /\ page_id' = [page_id EXCEPT ![f] = id]
          /\ data' = [data EXCEPT ![f] = IF w = NoTxn THEN disk[s][id] ELSE Garbage]
          /\ blank' = (IF w = NoTxn THEN NoFrame ELSE f) /\ writer' = w
      BY <1>2, <2>1, ZenonT(60) DEF StorePageAssign, AssignPageToStore, AssignPage
    <3>2. transaction'[f] \notin UserTxns
      BY <3>1, InitTxns, ZenonT(60) DEF Inv, TypeOK, PageTypes
    <3> QED BY <3>1, <3>2, ZenonT(60) DEF Inv, TypeOK, PageTypes
  <2>2. CASE ~ok
    <3>1. /\ page_id' = [page_id EXCEPT ![f] = id]
          /\ UNCHANGED <<transaction, data, blank>>
      BY <1>2, <2>2, ZenonT(60) DEF StorePageAssign, FailToFetchPage, callerVars
    <3> QED BY <1>2, <1>3, <3>1, ValueAssumption, ZenonT(60)
        DEF Inv, TypeOK, PageTypes, UserTxns
  <2> QED BY <2>1, <2>2, ZenonT(60)
<1>6. HistoryTypes'
  BY DEF DurabilityInv, HistoryTypes
<1>7. OwnersAreLast'
  <2> SUFFICES ASSUME NEW g \in Frames, transaction'[g] \in UserTxns
               PROVE  /\ transaction[g] = transaction'[g]
                      /\ page_id[g] = page_id'[g] /\ data[g] = data'[g]
                      /\ ~is_committed[transaction[g]]
                      /\ last[StoreOf[transaction[g]]][page_id[g]] =
                           [fate |-> "running", txn |-> transaction[g],
                            value |-> data[g]]
    BY <1>4, Zenon DEF OwnersAreLast
  <2>1. g # f
    BY <1>5, Zenon
  <2> QED BY <1>5, <2>1, ZenonT(60) DEF DurabilityInv, OwnersAreLast
<1>8. RunningWritesAreKept'
  <2> SUFFICES ASSUME NEW r \in Stores, NEW i \in PageIds,
                      last[r][i].fate = "running", state[r] = "kOpen",
                      ~is_closed[last[r][i].txn]
               PROVE  \/ disk[r][i] = last[r][i].value
                      \/ \E g \in Frames : /\ transaction'[g] = last[r][i].txn
                                           /\ page_id'[g] = i
    BY <1>1, <1>4, ZenonT(60) DEF RunningWritesAreKept
  <2>1. \/ disk[r][i] = last[r][i].value
        \/ \E g \in Frames : transaction[g] = last[r][i].txn /\ page_id[g] = i
    BY Zenon DEF DurabilityInv, RunningWritesAreKept
  <2>2. last[r][i].txn \in Txns
    BY RunningWrite, Zenon DEF DurabilityInv
  <2> QED BY <1>2, <1>5, <2>1, <2>2, ValueAssumption, ZenonT(60)
<1>9. CommittedWritesAreDurable'
  <2> SUFFICES ASSUME NEW r \in Stores, NEW i \in PageIds,
                      Fate(last[r][i])' = "committed"
               PROVE  disk[r][i] = last[r][i].value
    BY <1>1, Zenon DEF CommittedWritesAreDurable
  <2>1. Fate(last[r][i]) = "committed"
    BY <1>4, Zenon DEF Fate
  <2> QED BY <2>1, Zenon DEF DurabilityInv, CommittedWritesAreDurable
<1>10. OpenTransactionsAreClosed'
  <2>1. \A t \in UserTxns : pc'[t] \notin {"pin_commit", "write"}
    BY <1>3, <1>4, SMTT(30)
  <2> QED BY <1>3, <1>4, <2>1, ClosingStep, ZenonT(60) DEF DurabilityInv
<1>11. CommittedAreClosed'
  <2>1. w # NoTxn => w \in UserTxns /\ ~is_committed[w]
    BY <1>2, <1>3, ZenonT(60) DEF DurabilityInv, CommittedAreClosed
  <2> QED BY <1>1, <1>4, <1>5, <2>1, ZenonT(60) DEF DurabilityInv, CommittedAreClosed
<1> QED BY <1>6, <1>7, <1>8, <1>9, <1>10, <1>11, ZenonT(60) DEF DurabilityInv

\* A caller modifies a page under transaction t.
LEMMA ModifyHistory ==
  ASSUME Inv, DurabilityInv, NEW t \in Txns, NEW f \in Frames, NEW v \in Values,
         Modify(t, f, v), RecordModify(t, f, v)
  PROVE  DurabilityInv'
<1> DEFINE s == StoreOf[t]
           id == page_id[f]
           w == [fate |-> "running", txn |-> t, value |-> v]
<1>1. /\ t \in UserTxns /\ t \in live /\ calls = <<>>
      /\ IF blank = NoFrame THEN ~is_closed[t] ELSE writer = t
      /\ transaction[f] \in {t, InitTxn[s]}
      /\ data' = [data EXCEPT ![f] = v]
      /\ blank' = NoFrame
      /\ UNCHANGED <<page_id, poolVars, txnVars, storeVars, request, calls>>
  BY Zenon DEF Modify
<1>2. s \in Stores /\ id \in PageIds
  BY TxnAssumption, ZenonT(60) DEF Inv, TypeOK, PageTypes
<1>3. transaction[f] # NoTxn /\ StoreOf[transaction[f]] = s
  BY <1>1, <1>2, InitTxns, TxnAssumption, ValueAssumption, SMTT(30)
<1>4. /\ transaction'[f] = t /\ data'[f] = v
      /\ \A g \in Frames \ {f} : transaction'[g] = transaction[g] /\ data'[g] = data[g]
  BY <1>1, ZenonT(60) DEF Modify, WillModifyPage, MovePage, Inv, TypeOK, PageTypes
<1>5. ~is_committed[t]
  BY <1>1, Zenon DEF DurabilityInv, CommittedAreClosed
<1>6. UNCHANGED <<live, is_closed, is_committed, pc, state, rollback_queue, disk>>
  BY <1>1, Zenon DEF txnVars, storeVars, poolVars
<1>7. last' = [last EXCEPT ![s][id] = w]
  BY Zenon DEF RecordModify
<1>8. w \in Writes /\ w.txn = t /\ w.fate = "running" /\ w # NoWrite
  BY <1>1 DEF Writes, NoWrite
<1>9. /\ last \in [Stores -> [PageIds -> Writes \union {NoWrite}]]
      /\ \A r \in Stores, i \in PageIds :
           last[r][i] # NoWrite => StoreOf[last[r][i].txn] = r
  BY Zenon DEF DurabilityInv, HistoryTypes
<1>10. \A g \in Frames \ {f} :
         transaction[g] # NoTxn => StoreOf[transaction[g]] # s \/ page_id[g] # id
  BY <1>3, OneFramePerPage, Zenon
<1>11. s = StoreOf[t] /\ id = page_id[f]
  BY Zenon
<1>12. w = [fate |-> "running", txn |-> t, value |-> v]
  BY Zenon
<1> HIDE DEF s, id, w
<1>13. /\ last' \in [Stores -> [PageIds -> Writes \union {NoWrite}]]
       /\ last'[s][id] = w
       /\ \A r \in Stores, i \in PageIds : r # s \/ i # id => last'[r][i] = last[r][i]
  <2> DEFINE W == Writes \union {NoWrite}
  <2>1. last \in [Stores -> [PageIds -> W]] /\ w \in W
    BY <1>8, <1>9, Zenon
  <2> HIDE DEF W
  <2>2. /\ last' \in [Stores -> [PageIds -> W]]
        /\ last'[s][id] = w
        /\ \A r \in Stores, i \in PageIds : r # s \/ i # id => last'[r][i] = last[r][i]
    BY <1>2, <1>7, <2>1, SMTT(30)
  <2> QED BY <2>2, Zenon DEF W
<1>14. HistoryTypes'
  <2>1. \A r \in Stores, i \in PageIds :
          last'[r][i] # NoWrite => StoreOf[last'[r][i].txn] = r
    <3> TAKE r \in Stores, i \in PageIds
    <3>1. CASE r = s /\ i = id
      BY <1>8, <1>11, <1>13, <3>1, ZenonT(60)
    <3>2. CASE r # s \/ i # id
      <4>1. last'[r][i] = last[r][i]
        BY <1>13, <3>2, ZenonT(60)
      <4>2. last[r][i] # NoWrite => StoreOf[last[r][i].txn] = r
        BY <1>9, ZenonT(60)
      <4> QED BY <4>1, <4>2, Zenon
    <3> QED BY <3>1, <3>2, ZenonT(60)
  <2>2. (Writes \union {NoWrite})' = Writes \union {NoWrite}
    BY DEF Writes, NoWrite, UserTxns, IsInit
  <2> QED BY <1>13, <2>1, <2>2, Zenon DEF HistoryTypes
<1>15. OwnersAreLast'
  <2> SUFFICES ASSUME NEW g \in Frames, transaction'[g] \in UserTxns
               PROVE  /\ ~is_committed[transaction'[g]]
                      /\ last'[StoreOf[transaction'[g]]][page_id[g]] =
                           [fate |-> "running", txn |-> transaction'[g],
                            value |-> data'[g]]
    BY <1>1, <1>6, ZenonT(60) DEF OwnersAreLast
  <2>1. CASE g = f
    BY <1>1, <1>4, <1>5, <1>11, <1>12, <1>13, <2>1, ZenonT(60)
  <2>2. CASE g # f
    <3>1. transaction'[g] = transaction[g] /\ data'[g] = data[g]
      BY <1>4, <2>2, Zenon
    <3>2. transaction[g] \in Txns /\ transaction[g] # NoTxn
      BY <3>1, ValueAssumption, Zenon DEF UserTxns
    <3>3. StoreOf[transaction[g]] \in Stores /\ page_id[g] \in PageIds
      BY <3>2, TxnAssumption, ZenonT(60) DEF Inv, TypeOK, PageTypes
    <3>4. last'[StoreOf[transaction[g]]][page_id[g]] =
            last[StoreOf[transaction[g]]][page_id[g]]
      BY <1>10, <1>13, <2>2, <3>2, <3>3, ZenonT(60)
    <3> QED BY <3>1, <3>4, Zenon DEF DurabilityInv, OwnersAreLast
  <2> QED BY <2>1, <2>2, ZenonT(60)
<1>16. RunningWritesAreKept'
  <2> SUFFICES ASSUME NEW r \in Stores, NEW i \in PageIds,
                      last'[r][i].fate = "running", state[r] = "kOpen",
                      ~is_closed[last'[r][i].txn]
               PROVE  \/ disk[r][i] = last'[r][i].value
                      \/ \E g \in Frames : /\ transaction'[g] = last'[r][i].txn
                                           /\ page_id[g] = i
    BY <1>1, <1>6, Zenon DEF RunningWritesAreKept
  <2>1. CASE r = s /\ i = id
    BY <1>4, <1>8, <1>11, <1>13, <2>1, ZenonT(60)
  <2>2. CASE r # s \/ i # id
    <3>1. last'[r][i] = last[r][i]
      BY <1>13, <2>2, ZenonT(60)
    <3>2. \/ disk[r][i] = last[r][i].value
          \/ \E g \in Frames : transaction[g] = last[r][i].txn /\ page_id[g] = i
      BY <3>1, ZenonT(60) DEF DurabilityInv, RunningWritesAreKept
    <3>3. StoreOf[last[r][i].txn] = r
      BY <3>1, RunningWrite, Zenon DEF DurabilityInv
    <3>4. \A g \in Frames : transaction[g] = last[r][i].txn /\ page_id[g] = i => g # f
      BY <1>3, <1>11, <2>2, <3>3, ZenonT(60)
    <3> QED BY <1>4, <3>1, <3>2, <3>4, ZenonT(60)
  <2> QED BY <2>1, <2>2, Zenon
<1>17. OpenTransactionsAreClosed'
  BY <1>1, <1>6, ZenonT(60) DEF DurabilityInv, OpenTransactionsAreClosed
<1>18. CommittedAreClosed'
  BY <1>1, <1>6, ZenonT(60) DEF DurabilityInv, CommittedAreClosed
<1>19. CommittedWritesAreDurable'
  <2> SUFFICES ASSUME NEW r \in Stores, NEW i \in PageIds,
                      Fate(last[r][i])' = "committed"
               PROVE  disk[r][i] = last'[r][i].value
    BY <1>6, ZenonT(60) DEF CommittedWritesAreDurable
  <2>1. ~(r = s /\ i = id)
    BY <1>5, <1>6, <1>8, <1>13, SMTT(30) DEF Fate
  <2>2. last'[r][i] = last[r][i]
    BY <1>13, <2>1, Zenon
  <2>3. Fate(last[r][i]) = "committed"
    BY <1>6, <2>2, Zenon DEF Fate
  <2> QED BY <2>2, <2>3, Zenon DEF DurabilityInv, CommittedWritesAreDurable
<1> QED BY <1>14, <1>15, <1>16, <1>17, <1>18, <1>19, ZenonT(60) DEF DurabilityInv

-----------------------------------------------------------------------------
(* Committed modifications are durable. *)

\* After a crash, no frame refers to a transaction.
LEMMA CrashOwners == Inv /\ Crash => OwnersInv'
<1> SUFFICES ASSUME Inv, Crash PROVE OwnersInv'
  BY Zenon
<1>1. JustOpened'
  BY CrashJustOpens, Zenon
<1>2. JustOpened' => OwnersInv'
  BY JustOpenedOwners, PTL
<1> QED BY <1>1, <1>2, Zenon

\* Every step keeps the transactions that frames refer to listed.
LEMMA NextHOwners == Inv /\ OwnersInv /\ [NextH]_<<vars, last>> => OwnersInv'
<1> SUFFICES ASSUME Inv, OwnersInv, [NextH]_<<vars, last>> PROVE OwnersInv'
  BY Zenon
<1>1. NextH => Crash \/ Next
  BY Zenon DEF NextH, Next, Call
<1> QED BY <1>1, CrashOwners, NextOwners, Zenon

\* Nothing has been written when the program starts.
LEMMA InitDurability == InitH => DurabilityInv
<1> SUFFICES ASSUME InitH PROVE DurabilityInv
  BY Zenon
<1>1. /\ transaction = [f \in Frames |-> NoTxn] /\ pc = [t \in Txns |-> "idle"]
      /\ live = {t \in Txns : IsInit(t)} /\ is_committed = [t \in Txns |-> FALSE]
      /\ blank = NoFrame /\ request = NoRequest
      /\ last = [s \in Stores |-> [id \in PageIds |-> NoWrite]]
  BY Zenon DEF InitH, Init, PageInit
<1>2. \A s \in Stores, id \in PageIds :
        last[s][id] = NoWrite /\ last[s][id].fate = "none"
  BY <1>1 DEF NoWrite
<1>3. HistoryTypes
  <2> DEFINE W == Writes \union {NoWrite}
  <2>1. NoWrite \in W
    BY Zenon
  <2> HIDE DEF W
  <2>2. last \in [Stores -> [PageIds -> W]]
    BY <1>1, <2>1, Zenon
  <2> QED BY <1>2, <2>2, ZenonT(60) DEF HistoryTypes, W
<1>4. OwnersAreLast
  BY <1>1, ValueAssumption, ZenonT(60) DEF OwnersAreLast, UserTxns
<1>5. RunningWritesAreKept
  BY <1>2 DEF RunningWritesAreKept
<1>6. OpenTransactionsAreClosed
  <2>1. \A t \in UserTxns : t \notin live /\ pc[t] = "idle"
    BY <1>1, Zenon DEF UserTxns
  <2> QED BY <2>1 DEF OpenTransactionsAreClosed
<1>7. CommittedAreClosed
  BY <1>1, Zenon DEF CommittedAreClosed, UserTxns
<1>8. CommittedWritesAreDurable
  BY <1>2 DEF CommittedWritesAreDurable, Fate
<1> QED BY <1>3, <1>4, <1>5, <1>6, <1>7, <1>8, ZenonT(60) DEF DurabilityInv

\* Every step, and every crash, keeps the durability invariant.
LEMMA NextDurability ==
  Inv /\ OwnersInv /\ DurabilityInv /\ [NextH]_<<vars, last>> => DurabilityInv'
<1> SUFFICES ASSUME Inv, OwnersInv, DurabilityInv, [NextH]_<<vars, last>>
             PROVE  DurabilityInv'
  BY Zenon
<1>1. CASE UNCHANGED <<vars, last>>
  BY <1>1, QuietStep, ZenonT(60)
     DEF vars, pageVars, poolVars, txnVars, storeVars, callerVars
<1>2. ASSUME NEW t \in Txns, CreateTransaction(t), ForgetTxn(t)
      PROVE  DurabilityInv'
  BY <1>2, CreateHistory, Zenon DEF OwnersInv
<1>3. ASSUME NEW t \in Txns, NEW f \in Frames, NEW v \in Values \ {Garbage},
             Modify(t, f, v), RecordModify(t, f, v)
      PROVE  DurabilityInv'
  BY <1>3, ModifyHistory, Zenon
<1>4. ASSUME OtherCall, UNCHANGED last PROVE DurabilityInv'
  <2>1. ASSUME NEW t \in Txns, Commit(t) \/ Rollback(t) \/ Release(t)
        PROVE  DurabilityInv'
    BY <1>4, <2>1, QuietSteps, RollbackHistory, EndHistory, ZenonT(60)
  <2>2. ASSUME NEW s \in Stores, CloseStore(s) PROVE DurabilityInv'
    BY <1>4, <2>2, CloseHistory, ZenonT(60)
  <2>3. CASE DestroyPool
    BY <1>4, <2>3, QuietSteps, ZenonT(60)
  <2>4. ASSUME NEW s \in Stores, NEW id \in PageIds, StorePageHit(s, id)
        PROVE  DurabilityInv'
    BY <1>4, <2>4, QuietSteps, ZenonT(60)
  <2>5. ASSUME NEW s \in Stores, NEW id \in PageIds,
               NEW w \in UserTxns \union {NoTxn}, NEW f \in Frames, NEW ok,
               StorePageMiss(s, id, w, f, ok)
        PROVE  DurabilityInv'
    BY <1>4, <2>5, StorePageMissHistory, ZenonT(60)
  <2>6. ASSUME NEW f \in Frames, NEW mode, Unpin(f, mode) PROVE DurabilityInv'
    BY <1>4, <2>6, QuietSteps, Zenon
  <2> QED BY <1>4, <2>1, <2>2, <2>3, <2>4, <2>5, <2>6, ZenonT(60) DEF OtherCall
<1>5. ASSUME Step, UNCHANGED last PROVE DurabilityInv'
  <2>1. ASSUME NEW t \in Txns, TransactionStep(t) PROVE DurabilityInv'
    <3>1. ASSUME NEW ok, CloseUnassignPage(t, ok) PROVE DurabilityInv'
      BY <1>5, <3>1, CloseUnassignPageHistory, ZenonT(60)
    <3>2. CASE CommitPage(t) \/ CommitDone(t)
      BY <1>5, <3>2, CommitPageHistory, CommitDoneHistory, ZenonT(60)
    <3> QED BY <1>5, <2>1, <3>1, <3>2, QuietSteps, ZenonT(60) DEF TransactionStep
  <2>2. ASSUME NEW s \in Stores, StoreStep(s) PROVE DurabilityInv'
    <3>1. CASE DestroyPoolCloseStore(s)
      BY <1>5, <3>1, CloseHistory, Zenon
    <3> QED BY <1>5, <2>2, <3>1, RollbackHistory, EndHistory, ZenonT(60) DEF StoreStep
  <2>3. ASSUME NEW ok, StorePageAssign(ok) PROVE DurabilityInv'
    BY <1>5, <2>3, StorePageAssignHistory, Zenon
  <2>4. CASE DestroyPoolDone
    BY <1>5, <2>4, QuietSteps, Zenon
  <2> QED BY <1>5, <2>1, <2>2, <2>3, <2>4, ZenonT(60) DEF Step
<1>6. ASSUME Failure, UNCHANGED last PROVE DurabilityInv'
  <2>1. ASSUME NEW ok, UnassignPinnedPage(ok) PROVE DurabilityInv'
    BY <1>6, <2>1, UnassignPinnedPageHistory, Zenon
  <2> QED BY <1>6, <2>1, QuietSteps, Zenon DEF Failure
<1>7. ASSUME Crash,
             last' = [s \in Stores |-> [id \in PageIds |-> Settled(last[s][id])]]
      PROVE  DurabilityInv'
  BY <1>7, CrashHistory, Zenon
<1> QED BY <1>1, <1>2, <1>3, <1>4, <1>5, <1>6, <1>7, ZenonT(60) DEF NextH

\* What a transaction was the last to write to a page is in the store's data
\* file once TransactionImpl::Commit has set is_committed_, and stays there
\* until another transaction modifies the page, whatever fails or crashes
\* ("Writes Put()s and Deletes() in this transaction to durable storage",
\* transaction.h:41).
THEOREM CommitsAreDurable == SpecH => []CommittedWritesAreDurable
<1>1. InitH => Inv /\ OwnersInv /\ DurabilityInv
  BY InitInv, InitOwners, InitDurability, Zenon DEF InitH
<1>2. Inv /\ OwnersInv /\ DurabilityInv /\ [NextH]_<<vars, last>> =>
        (Inv /\ OwnersInv /\ DurabilityInv)'
  BY NextHInv, NextHOwners, NextDurability, Zenon
<1>3. DurabilityInv => CommittedWritesAreDurable
  BY Zenon DEF DurabilityInv
<1> QED BY <1>1, <1>2, <1>3, PTL DEF SpecH

-----------------------------------------------------------------------------
(* The pool implements PageStore. *)

\* No page of a store looks different after the step.
LEMMA SameCache ==
  ASSUME \A s \in Stores, id \in PageIds :
           /\ PageContent(s, id)' = PageContent(s, id)
           /\ PageOwner(s, id)' = PageOwner(s, id)
  PROVE  UNCHANGED <<Contents, Owners>>
BY Zenon DEF Contents, Owners

\* One page of a store may look different.
LEMMA OnePage ==
  ASSUME NEW s \in Stores, NEW id \in PageIds, NEW v, NEW t,
         PageContent(s, id)' = v, PageOwner(s, id)' = t,
         \A r \in Stores, i \in PageIds : r # s \/ i # id =>
           /\ PageContent(r, i)' = PageContent(r, i)
           /\ PageOwner(r, i)' = PageOwner(r, i)
  PROVE  Cache!Become(s, id, v, t)
<1>1. Contents' = [Contents EXCEPT ![s][id] = v]
  <2>1. Contents' = [r \in Stores |-> [i \in PageIds |-> PageContent(r, i)']]
    BY DEF Contents
  <2>2. ASSUME NEW r \in Stores, NEW i \in PageIds
        PROVE  PageContent(r, i)' = [Contents EXCEPT ![s][id] = v][r][i]
    BY Zenon DEF Contents
  <2> QED BY <2>1, <2>2, ZenonT(60) DEF Contents
<1>2. Owners' = [Owners EXCEPT ![s][id] = t]
  <2>1. Owners' = [r \in Stores |-> [i \in PageIds |-> PageOwner(r, i)']]
    BY DEF Owners
  <2>2. ASSUME NEW r \in Stores, NEW i \in PageIds
        PROVE  PageOwner(r, i)' = [Owners EXCEPT ![s][id] = t][r][i]
    BY Zenon DEF Owners
  <2> QED BY <2>1, <2>2, ZenonT(60) DEF Owners
<1> QED BY <1>1, <1>2, ZenonT(60) DEF Cache!Become

\* The page that an assigned frame caches.
LEMMA CachedPage ==
  ASSUME Inv, NEW f \in Frames, transaction[f] # NoTxn
  PROVE  \E s \in Stores, id \in PageIds :
           /\ s = StoreOf[transaction[f]] /\ id = page_id[f]
           /\ page_map[s][id] = f
           /\ \A r \in Stores, i \in PageIds : r # s \/ i # id => page_map[r][i] # f
           /\ PageContent(s, id) = data[f] /\ Contents[s][id] = data[f]
           /\ Owners[s][id] =
                IF transaction[f] \in UserTxns THEN transaction[f] ELSE NoTxn
<1>1. PICK s \in Stores, id \in PageIds :
        s = StoreOf[transaction[f]] /\ id = page_id[f]
  BY TxnAssumption, ZenonT(60) DEF Inv, TypeOK, PageTypes
<1>2. \A r \in Stores, i \in PageIds : page_map[r][i] = f <=> r = s /\ i = id
  BY <1>1 DEF Inv, PageMapIsExact, AssignedTo
<1>3. page_map[s][id] = f /\ f # NoFrame
  BY <1>2, ValueAssumption, Zenon
<1>4. PageContent(s, id) = data[f] /\ PageOwner(s, id) =
        IF transaction[f] \in UserTxns THEN transaction[f] ELSE NoTxn
  BY <1>3, Zenon DEF PageContent, PageOwner
<1>5. /\ Contents[s][id] = PageContent(s, id)
      /\ Owners[s][id] = PageOwner(s, id)
  BY Zenon DEF Contents, Owners
<1>6. \A r \in Stores, i \in PageIds : r # s \/ i # id => page_map[r][i] # f
  BY <1>2, ZenonT(60)
<1> QED BY <1>1, <1>3, <1>4, <1>5, <1>6, ZenonT(60)

\* A page that is not in a frame.
LEMMA UncachedPage ==
  ASSUME NEW s \in Stores, NEW id \in PageIds, page_map[s][id] = NoFrame
  PROVE  /\ PageContent(s, id) = disk[s][id] /\ Contents[s][id] = disk[s][id]
         /\ PageOwner(s, id) = NoTxn /\ Owners[s][id] = NoTxn
BY Zenon DEF PageContent, PageOwner, Contents, Owners

\* WillModifyPage and the write to the buffer modify the page.
LEMMA ModifyIsModifyPage ==
  ASSUME Inv, NEW t \in Txns, NEW f \in Frames, NEW v \in Values, Modify(t, f, v)
  PROVE  Cache!CacheNext
<1>1. /\ t \in UserTxns /\ transaction[f] \in {t, InitTxn[StoreOf[t]]}
      /\ data' = [data EXCEPT ![f] = v]
      /\ UNCHANGED <<page_id, page_map, disk>>
  BY Zenon DEF Modify, poolVars
<1>2. /\ StoreOf[InitTxn[StoreOf[t]]] = StoreOf[t]
      /\ InitTxn[StoreOf[t]] \in Txns /\ InitTxn[StoreOf[t]] \notin UserTxns
  <2>1. StoreOf[t] \in Stores
    BY TxnAssumption, Zenon
  <2> QED BY <2>1, TxnAssumption, InitTxns, ZenonT(60)
<1>3. transaction[f] # NoTxn /\ StoreOf[transaction[f]] = StoreOf[t]
  BY <1>1, <1>2, ValueAssumption, ZenonT(60)
<1>4. PICK s \in Stores, id \in PageIds :
        /\ s = StoreOf[transaction[f]] /\ id = page_id[f] /\ page_map[s][id] = f
        /\ \A r \in Stores, i \in PageIds : r # s \/ i # id => page_map[r][i] # f
        /\ Owners[s][id] =
             IF transaction[f] \in UserTxns THEN transaction[f] ELSE NoTxn
  BY <1>3, CachedPage, SMTT(30)
<1>5. /\ transaction'[f] = t /\ data'[f] = v
      /\ \A g \in Frames \ {f} : transaction'[g] = transaction[g] /\ data'[g] = data[g]
  BY <1>1, ZenonT(60) DEF Modify, WillModifyPage, MovePage, Inv, TypeOK, PageTypes
<1>6. PageContent(s, id)' = v /\ PageOwner(s, id)' = t
  BY <1>1, <1>4, <1>5, ValueAssumption, ZenonT(60) DEF PageContent, PageOwner
<1>7. \A r \in Stores, i \in PageIds : r # s \/ i # id =>
        /\ PageContent(r, i)' = PageContent(r, i)
        /\ PageOwner(r, i)' = PageOwner(r, i)
  <2> SUFFICES ASSUME NEW r \in Stores, NEW i \in PageIds, r # s \/ i # id
               PROVE  /\ PageContent(r, i)' = PageContent(r, i)
                      /\ PageOwner(r, i)' = PageOwner(r, i)
    BY Zenon
  <2>1. page_map[r][i] # f /\ page_map[r][i] \in Frames \union {NoFrame}
    BY <1>4, ZenonT(60) DEF Inv, TypeOK, PoolTypes
  <2> QED BY <1>1, <1>5, <2>1, ZenonT(60) DEF PageContent, PageOwner
<1>8. Cache!Become(s, id, v, t)
  BY <1>6, <1>7, OnePage, ZenonT(60)
<1>9. Owners[s][id] \in {NoTxn, t} /\ s = StoreOf[t]
  BY <1>1, <1>2, <1>3, <1>4, ZenonT(60)
<1>10. Cache!ModifyPage(t, id, v)
  BY <1>1, <1>8, <1>9, Zenon DEF Cache!ModifyPage
<1> QED BY <1>10, Zenon DEF Cache!CacheNext

\* TransactionImpl::Commit writes the page back.
LEMMA CommitPageIsWriteBack ==
  ASSUME Inv, NEW t \in Txns, CommitPage(t)
  PROVE  Cache!CacheNext
<1>1. PICK f \in Frames : f = Head(pool_pages[t]) /\ transaction[f] = t /\ t # NoTxn
  BY FirstPage, ZenonT(60) DEF CommitPage
<1>2. PICK s \in Stores, id \in PageIds :
        /\ s = StoreOf[transaction[f]] /\ id = page_id[f] /\ page_map[s][id] = f
        /\ \A r \in Stores, i \in PageIds : r # s \/ i # id => page_map[r][i] # f
        /\ Contents[s][id] = data[f]
        /\ Owners[s][id] =
             IF transaction[f] \in UserTxns THEN transaction[f] ELSE NoTxn
  BY <1>1, CachedPage, SMTT(30)
<1>3. /\ pc[t] = "write" /\ WritePage(f, TRUE)
      /\ transaction' = [transaction EXCEPT ![f] = InitTxn[StoreOf[t]]]
      /\ UNCHANGED <<page_id, data, page_map>>
  BY <1>1, ZenonT(60) DEF CommitPage, PageWasPersisted, MovePage
<1>4. t \in UserTxns
  BY <1>3, ZenonT(60) DEF Inv, CallsAreNested
<1>5. /\ transaction'[f] = InitTxn[s] /\ transaction'[f] \notin UserTxns
      /\ \A g \in Frames \ {f} : transaction'[g] = transaction[g]
  BY <1>1, <1>2, <1>3, InitTxns, ZenonT(60) DEF Inv, TypeOK, PageTypes
<1>6. /\ disk' = [disk EXCEPT ![s][id] = data[f]]
      /\ \A r \in Stores, i \in PageIds : r # s \/ i # id => disk'[r][i] = disk[r][i]
  <2>1. disk' = [disk EXCEPT ![s][id] = data[f]]
    BY <1>2, <1>3, Zenon DEF WritePage
  <2> QED BY <2>1, SMTT(30) DEF Inv, TypeOK, PoolTypes
<1>7. PageContent(s, id)' = data[f] /\ PageOwner(s, id)' = NoTxn
  BY <1>2, <1>3, <1>5, ValueAssumption, ZenonT(60) DEF PageContent, PageOwner
<1>8. \A r \in Stores, i \in PageIds : r # s \/ i # id =>
        /\ PageContent(r, i)' = PageContent(r, i)
        /\ PageOwner(r, i)' = PageOwner(r, i)
  <2> SUFFICES ASSUME NEW r \in Stores, NEW i \in PageIds, r # s \/ i # id
               PROVE  /\ PageContent(r, i)' = PageContent(r, i)
                      /\ PageOwner(r, i)' = PageOwner(r, i)
    BY Zenon
  <2>1. page_map[r][i] # f /\ page_map[r][i] \in Frames \union {NoFrame}
    BY <1>2, ZenonT(60) DEF Inv, TypeOK, PoolTypes
  <2> QED BY <1>3, <1>5, <1>6, <2>1, ZenonT(30) DEF PageContent, PageOwner
<1>9. Cache!Become(s, id, data[f], NoTxn)
  BY <1>7, <1>8, OnePage, ZenonT(60)
<1>10. Owners[s][id] # NoTxn
  BY <1>1, <1>2, <1>4, ZenonT(60)
<1>11. Cache!WriteBack(s, id)
  BY <1>2, <1>6, <1>9, <1>10, ZenonT(60) DEF Cache!WriteBack
<1> QED BY <1>11, Zenon DEF Cache!CacheNext

\* UnassignPageFromStore writes a modified page back, or loses it if the write
\* fails; other pages have the content that is in the data file.
LEMMA UnassignIsWriteBack ==
  ASSUME Inv, NEW f \in Frames, transaction[f] # NoTxn, blank = NoFrame,
         NEW ok \in WriteOutcomes, UnassignPageFromStore(f, ok),
         UNCHANGED <<page_id, data>>
  PROVE  Cache!CacheNext
<1>1. PICK s \in Stores, id \in PageIds :
        /\ s = StoreOf[transaction[f]] /\ id = page_id[f] /\ page_map[s][id] = f
        /\ \A r \in Stores, i \in PageIds : r # s \/ i # id => page_map[r][i] # f
        /\ PageContent(s, id) = data[f] /\ Contents[s][id] = data[f]
        /\ Owners[s][id] =
             IF transaction[f] \in UserTxns THEN transaction[f] ELSE NoTxn
  BY CachedPage
<1>2. /\ page_map' = [page_map EXCEPT ![s][id] = NoFrame]
      /\ disk' = IF is_dirty[f] /\ ok THEN [disk EXCEPT ![s][id] = data[f]] ELSE disk
      /\ transaction' = [transaction EXCEPT ![f] = NoTxn]
  BY <1>1, ZenonT(60) DEF UnassignPageFromStore, UnassignPage, WritePage
<1>3. \A g \in Frames \ {f} : transaction'[g] = transaction[g]
  BY <1>2, ZenonT(60) DEF Inv, TypeOK, PageTypes
<1>4. /\ page_map'[s][id] = NoFrame
      /\ disk'[s][id] = IF is_dirty[f] /\ ok THEN data[f] ELSE disk[s][id]
      /\ \A r \in Stores, i \in PageIds : r # s \/ i # id =>
           page_map'[r][i] = page_map[r][i] /\ disk'[r][i] = disk[r][i]
  <2>1. /\ page_map \in [Stores -> [PageIds -> Frames \union {NoFrame}]]
        /\ disk \in [Stores -> [PageIds -> Values]]
    BY ZenonT(60) DEF Inv, TypeOK, PoolTypes
  <2>2. CASE is_dirty[f] /\ ok
    <3>1. disk' = [disk EXCEPT ![s][id] = data[f]]
      BY <1>2, <2>2, ZenonT(60)
    <3> QED BY <1>2, <2>1, <2>2, <3>1, SMTT(30)
  <2>3. CASE ~(is_dirty[f] /\ ok)
    <3>1. disk' = disk
      BY <1>2, <2>3, Zenon
    <3> QED BY <1>2, <2>1, <2>3, <3>1, SMTT(30)
  <2> QED BY <2>2, <2>3, ZenonT(60)
<1>5. PageContent(s, id)' = disk'[s][id] /\ PageOwner(s, id)' = NoTxn
  BY <1>4, ZenonT(60) DEF PageContent, PageOwner
<1>6. \A r \in Stores, i \in PageIds : r # s \/ i # id =>
        /\ PageContent(r, i)' = PageContent(r, i)
        /\ PageOwner(r, i)' = PageOwner(r, i)
  <2> SUFFICES ASSUME NEW r \in Stores, NEW i \in PageIds, r # s \/ i # id
               PROVE  /\ PageContent(r, i)' = PageContent(r, i)
                      /\ PageOwner(r, i)' = PageOwner(r, i)
    BY Zenon
  <2>1. page_map[r][i] \in Frames \union {NoFrame}
    BY Zenon DEF Inv, TypeOK, PoolTypes
  <2>2. /\ page_map[r][i] # f
        /\ page_map'[r][i] = page_map[r][i] /\ disk'[r][i] = disk[r][i]
    BY <1>1, <1>4, ZenonT(60)
  <2> QED BY <1>3, <2>1, <2>2, ZenonT(60) DEF PageContent, PageOwner
<1>7. Cache!Become(s, id, disk'[s][id], NoTxn)
  BY <1>5, <1>6, OnePage, ZenonT(60)
<1>8. CASE is_dirty[f]
  <2>1. Owners[s][id] # NoTxn
    BY <1>1, <1>8, ZenonT(60) DEF Inv, DirtyIffModified
  <2>2. CASE ok
    <3>1. disk' = [disk EXCEPT ![s][id] = Contents[s][id]] /\ disk'[s][id] = Contents[s][id]
      BY <1>1, <1>2, <1>4, <1>8, <2>2, ZenonT(60)
    <3>2. Cache!WriteBack(s, id)
      BY <1>7, <2>1, <3>1, ZenonT(60) DEF Cache!WriteBack
    <3> QED BY <3>2, ZenonT(60) DEF Cache!CacheNext
  <2>3. CASE ~ok
    <3>1. WritesCanFail /\ disk' = disk
      BY <1>2, <2>3, ZenonT(60) DEF WriteOutcomes
    <3>2. Cache!LosePage(s, id)
      BY <1>7, <2>1, <3>1, ZenonT(60) DEF Cache!LosePage
    <3> QED BY <3>2, ZenonT(60) DEF Cache!CacheNext
  <2> QED BY <2>2, <2>3, ZenonT(60)
<1>9. CASE ~is_dirty[f]
  <2>1. disk' = disk /\ f # blank
    BY <1>2, <1>9, ValueAssumption, ZenonT(60)
  <2>2. data[f] = disk[s][id]
    BY <1>1, <1>9, <2>1, ZenonT(60) DEF Inv, CleanPagesMatchDisk
  <2>3. PageOwner(s, id) = NoTxn
    <3>1. transaction[f] \notin UserTxns
      BY <1>9, ZenonT(60) DEF Inv, DirtyIffModified
    <3> QED BY <1>1, <3>1, ZenonT(60) DEF Owners
  <2>4. \A r \in Stores, i \in PageIds : /\ PageContent(r, i)' = PageContent(r, i)
                                         /\ PageOwner(r, i)' = PageOwner(r, i)
    BY <1>1, <1>5, <1>6, <2>1, <2>2, <2>3, ZenonT(60)
  <2>5. UNCHANGED <<Contents, Owners>>
    BY <2>4, SameCache, ZenonT(60)
  <2> QED BY <2>1, <2>5, ZenonT(60) DEF Cache!CacheNext, Cache!cacheVars
<1> QED BY <1>8, <1>9, ZenonT(60)

\* PagePool::StorePage reads the page from the data file, or leaves it blank.
LEMMA AssignIsBlankPage ==
  ASSUME Inv, NEW ok, StorePageAssign(ok)
  PROVE  Cache!CacheNext
<1>1. Running("StorePage") /\ UNCHANGED disk
  BY Zenon DEF StorePageAssign
<1>2. PICK f \in Frames, s \in Stores, id \in PageIds, w \in UserTxns \union {NoTxn} :
        /\ f = request.page /\ s = request.store
        /\ id = request.id /\ w = request.writer
        /\ transaction[f] = NoTxn /\ page_map[s][id] = NoFrame
  <2>1. /\ request \in Requests /\ transaction[request.page] = NoTxn
        /\ page_map[request.store][request.id] = NoFrame
    BY <1>1, StorePageRuns, ZenonT(60)
  <2>2. /\ request.page \in Frames /\ request.store \in Stores
        /\ request.id \in PageIds /\ request.writer \in UserTxns \union {NoTxn}
    BY <2>1 DEF Requests
  <2> QED BY <2>1, <2>2, ZenonT(60)
<1>3. CASE ok
  <2>1. /\ transaction' = [transaction EXCEPT ![f] = InitTxn[s]]
        /\ data' = [data EXCEPT ![f] = IF w = NoTxn THEN disk[s][id] ELSE Garbage]
        /\ page_map' = [page_map EXCEPT ![s][id] = f]
    BY <1>2, <1>3, ZenonT(60) DEF StorePageAssign, AssignPageToStore, AssignPage
  <2>2. /\ transaction'[f] = InitTxn[s] /\ transaction'[f] \notin UserTxns
        /\ data'[f] = IF w = NoTxn THEN disk[s][id] ELSE Garbage
        /\ \A g \in Frames \ {f} : transaction'[g] = transaction[g] /\ data'[g] = data[g]
    BY <2>1, InitTxns, ZenonT(60) DEF Inv, TypeOK, PageTypes
  <2>3. /\ page_map'[s][id] = f
        /\ \A r \in Stores, i \in PageIds : r # s \/ i # id =>
             page_map'[r][i] = page_map[r][i]
    BY <2>1, SMTT(30) DEF Inv, TypeOK, PoolTypes
  <2>4. /\ PageContent(s, id)' = data'[f] /\ PageOwner(s, id)' = NoTxn
        /\ PageContent(s, id) = disk[s][id] /\ PageOwner(s, id) = NoTxn
        /\ Owners[s][id] = NoTxn
    <3>1. PageContent(s, id)' = data'[f] /\ PageOwner(s, id)' = NoTxn
      BY <2>2, <2>3, ValueAssumption, ZenonT(60) DEF PageContent, PageOwner
    <3> QED BY <1>2, <3>1, UncachedPage, ZenonT(60)
  <2>5. \A r \in Stores, i \in PageIds : r # s \/ i # id =>
          /\ PageContent(r, i)' = PageContent(r, i)
          /\ PageOwner(r, i)' = PageOwner(r, i)
    <3> SUFFICES ASSUME NEW r \in Stores, NEW i \in PageIds, r # s \/ i # id
                 PROVE  /\ PageContent(r, i)' = PageContent(r, i)
                        /\ PageOwner(r, i)' = PageOwner(r, i)
      BY Zenon
    <3>1. page_map[r][i] # f
      BY <1>2, SMTT(30) DEF Inv, PageMapIsExact, AssignedTo
    <3>2. page_map[r][i] \in Frames \union {NoFrame}
      BY ZenonT(60) DEF Inv, TypeOK, PoolTypes
    <3> QED BY <1>1, <2>2, <2>3, <3>1, <3>2, ZenonT(60) DEF PageContent, PageOwner
  <2>6. CASE w = NoTxn
    <3>1. \A r \in Stores, i \in PageIds : /\ PageContent(r, i)' = PageContent(r, i)
                                           /\ PageOwner(r, i)' = PageOwner(r, i)
      BY <2>2, <2>4, <2>5, <2>6, ZenonT(60)
    <3> QED BY <1>1, <3>1, SameCache, ZenonT(60) DEF Cache!CacheNext, Cache!cacheVars
  <2>7. CASE w # NoTxn
    <3>1. PageContent(s, id)' = Garbage /\ PageOwner(s, id)' = NoTxn
      BY <2>2, <2>4, <2>7, ZenonT(60)
    <3>2. Cache!Become(s, id, Garbage, NoTxn)
      BY <2>5, <3>1, OnePage, ZenonT(60)
    <3>3. Cache!BlankPage(s, id)
      BY <1>1, <2>4, <3>2, ZenonT(60) DEF Cache!BlankPage
    <3> QED BY <3>3, ZenonT(60) DEF Cache!CacheNext
  <2> QED BY <2>6, <2>7, ZenonT(60)
<1>4. CASE ~ok
  <2>1. UNCHANGED <<transaction, data, page_map>>
    BY <1>4, Zenon DEF StorePageAssign
  <2>2. UNCHANGED <<Contents, Owners>>
    BY <1>1, <2>1, ZenonT(60) DEF Contents, Owners, PageContent, PageOwner
  <2> QED BY <1>1, <2>2, ZenonT(60) DEF Cache!CacheNext, Cache!cacheVars
<1> QED BY <1>3, <1>4, ZenonT(60)

\* A step that neither moves nor modifies a page.
LEMMA CacheStutters ==
  ASSUME UNCHANGED <<transaction, data, page_map, disk>>
  PROVE  Cache!CacheNext
<1>1. UNCHANGED <<Contents, Owners>>
  BY Zenon DEF Contents, Owners, PageContent, PageOwner
<1> QED BY <1>1, ZenonT(60) DEF Cache!CacheNext, Cache!cacheVars

\* The check of pin_count_ fails after the page was written.
LEMMA UnassignPinnedPageIsWrite ==
  ASSUME Inv, NEW ok, UnassignPinnedPage(ok)
  PROVE  Cache!CacheNext
<1>1. PICK t \in Txns :
        LET f == Head(pool_pages[t])
        IN  /\ pool_pages[t] # <<>>
            /\ IF is_dirty[f] THEN WritePage(f, ok) ELSE UNCHANGED disk
  BY Zenon DEF UnassignPinnedPage
<1>2. PICK f \in Frames : f = Head(pool_pages[t]) /\ transaction[f] = t /\ t # NoTxn
  BY <1>1, FirstPage, Zenon
<1>3. UNCHANGED <<transaction, page_id, data, page_map>>
  BY Zenon DEF UnassignPinnedPage, Stop, pageVars
<1>4. PICK s \in Stores, id \in PageIds :
        /\ s = StoreOf[transaction[f]] /\ id = page_id[f] /\ page_map[s][id] = f
        /\ Contents[s][id] = data[f]
        /\ Owners[s][id] =
             IF transaction[f] \in UserTxns THEN transaction[f] ELSE NoTxn
  BY <1>2, CachedPage, SMTT(30)
<1>5. \/ disk' = disk
      \/ is_dirty[f] /\ disk' = [disk EXCEPT ![s][id] = Contents[s][id]]
  BY <1>1, <1>2, <1>4, ZenonT(60) DEF WritePage
<1>6. CASE disk' = disk
  BY <1>3, <1>6, CacheStutters, ZenonT(60)
<1>7. CASE is_dirty[f] /\ disk' = [disk EXCEPT ![s][id] = Contents[s][id]]
  <2>1. Owners[s][id] # NoTxn
    BY <1>2, <1>4, <1>7, ZenonT(60) DEF Inv, DirtyIffModified
  <2>2. /\ page_map[s][id] # NoFrame
        /\ \A r \in Stores, i \in PageIds : r # s \/ i # id =>
             disk'[r][i] = disk[r][i]
    <3>1. disk \in [Stores -> [PageIds -> Values]]
      BY ZenonT(60) DEF Inv, TypeOK, PoolTypes
    <3> QED BY <1>4, <1>7, <3>1, ValueAssumption, SMTT(30)
  <2>3. ASSUME NEW r \in Stores, NEW i \in PageIds
        PROVE  /\ PageContent(r, i)' = PageContent(r, i)
               /\ PageOwner(r, i)' = PageOwner(r, i)
    <3>1. page_map[r][i] # NoFrame \/ disk'[r][i] = disk[r][i]
      BY <2>2, Zenon
    <3>2. PageContent(r, i)' = PageContent(r, i)
      BY <1>3, <3>1, ZenonT(60) DEF PageContent
    <3>3. PageOwner(r, i)' = PageOwner(r, i)
      BY <1>3, ZenonT(60) DEF PageOwner
    <3> QED BY <3>2, <3>3, Zenon
  <2>4. UNCHANGED <<Contents, Owners>>
    BY <2>3, SameCache, ZenonT(60)
  <2>5. Cache!StopAfterWrite(s, id)
    BY <1>7, <2>1, <2>4, ZenonT(60) DEF Cache!StopAfterWrite
  <2> QED BY <2>5, ZenonT(60) DEF Cache!CacheNext
<1> QED BY <1>5, <1>6, <1>7, ZenonT(60)

\* Every step of the pool is a step of the cache.
LEMMA NextIsCacheStep ==
  Inv /\ [NextH]_<<vars, last>> => [Cache!CacheNext]_Cache!cacheVars
<1> SUFFICES ASSUME Inv, [NextH]_<<vars, last>> PROVE Cache!CacheNext
  BY Zenon
<1>1. CASE UNCHANGED <<vars, last>>
  BY <1>1, CacheStutters, ZenonT(60) DEF vars, pageVars, poolVars
<1>2. CASE Crash
  <2>1. /\ page_map' = [s \in Stores |-> [id \in PageIds |-> NoFrame]]
        /\ UNCHANGED disk /\ disk \in [Stores -> [PageIds -> Values]]
    BY <1>2, ZenonT(60) DEF Crash, Inv, TypeOK, PoolTypes
  <2>2. Contents' = disk
    BY <2>1, SMTT(30) DEF Contents, PageContent
  <2>3. Owners' = [s \in Stores |-> [id \in PageIds |-> NoTxn]]
    BY <2>1 DEF Owners, PageOwner
  <2>4. Cache!LoseCache
    BY <2>1, <2>2, <2>3, ZenonT(60) DEF Cache!LoseCache
  <2> QED BY <2>4, ZenonT(60) DEF Cache!CacheNext
<1>3. ASSUME NEW t \in Txns, CreateTransaction(t) PROVE Cache!CacheNext
  BY <1>3, CacheStutters, ZenonT(60) DEF CreateTransaction, pageVars, poolVars
<1>4. ASSUME NEW t \in Txns, NEW f \in Frames, NEW v \in Values \ {Garbage},
             Modify(t, f, v)
      PROVE  Cache!CacheNext
  BY <1>4, ModifyIsModifyPage, ZenonT(60)
<1>5. CASE OtherCall
  <2>1. ASSUME NEW t \in Txns, Commit(t) \/ Rollback(t) \/ Release(t)
        PROVE  Cache!CacheNext
    BY <2>1, CacheStutters, ZenonT(60) DEF Commit, Rollback, Release, pageVars, poolVars
  <2>2. ASSUME NEW s \in Stores, CloseStore(s) PROVE Cache!CacheNext
    BY <2>2, CacheStutters, ZenonT(60) DEF CloseStore, pageVars, poolVars
  <2>3. CASE DestroyPool
    BY <2>3, CacheStutters, ZenonT(60) DEF DestroyPool, pageVars, poolVars
  <2>4. ASSUME NEW s \in Stores, NEW id \in PageIds, StorePageHit(s, id)
        PROVE  Cache!CacheNext
    BY <2>4, CacheStutters, ZenonT(60) DEF StorePageHit
  <2>5. ASSUME NEW s \in Stores, NEW id \in PageIds,
               NEW w \in UserTxns \union {NoTxn}, NEW f \in Frames,
               NEW ok \in WriteOutcomes, StorePageMiss(s, id, w, f, ok)
        PROVE  Cache!CacheNext
    <3>1. blank = NoFrame /\ UNCHANGED <<page_id, data>>
      BY <2>5, Zenon DEF StorePageMiss, Idle
    <3>2. CASE AllocFreePage(f) \/ AllocNewPage(f)
      BY <3>1, <3>2, CacheStutters, ZenonT(60) DEF AllocFreePage, AllocNewPage
    <3>3. CASE AllocEvictedPage(f, ok)
      <4>1. f \in Range(lru_list) /\ UnassignPageFromStore(f, ok)
        BY <3>3, PoolLists, PopFront, ZenonT(60) DEF AllocEvictedPage
      <4>2. transaction[f] # NoTxn
        BY <4>1, ZenonT(60) DEF Inv, FramesAreListed
      <4> QED BY <3>1, <4>1, <4>2, UnassignIsWriteBack, ZenonT(60)
    <3> QED BY <2>5, <3>2, <3>3, ZenonT(60) DEF StorePageMiss
  <2>6. ASSUME NEW f \in Frames, NEW mode, Unpin(f, mode) PROVE Cache!CacheNext
    BY <2>6, CacheStutters, ZenonT(60) DEF Unpin
  <2> QED BY <1>5, <2>1, <2>2, <2>3, <2>4, <2>5, <2>6, ZenonT(60) DEF OtherCall
<1>6. CASE Step
  <2>1. ASSUME NEW t \in Txns, TransactionStep(t) PROVE Cache!CacheNext
    <3>1. CASE CommitPage(t)
      BY <3>1, CommitPageIsWriteBack, ZenonT(60)
    <3>2. ASSUME NEW ok \in WriteOutcomes, CloseUnassignPage(t, ok)
          PROVE  Cache!CacheNext
      <4>1. PICK f \in Frames : f = Head(pool_pages[t]) /\ transaction[f] = t /\ t # NoTxn
        BY <3>2, FirstPage, ZenonT(60) DEF CloseUnassignPage
      <4>2. UnassignPageFromStore(f, ok) /\ UNCHANGED <<page_id, data>>
        BY <3>2, <4>1, ZenonT(60) DEF CloseUnassignPage
      <4>3. blank = NoFrame
        BY <3>2, ZenonT(60) DEF CloseUnassignPage, Running, Inv, CallsAreNested
      <4> QED BY <4>1, <4>2, <4>3, UnassignIsWriteBack, ZenonT(60)
    <3>3. CASE PinTransactionPage(t) \/ PinTransactionPagesDone(t) \/ CommitDone(t)
      BY <3>3, CacheStutters, ZenonT(60)
         DEF PinTransactionPage, PinTransactionPagesDone, CommitDone, pageVars, poolVars
    <3>4. CASE CloseUnpinPage(t) \/ TransactionClosed(t)
      BY <3>4, CacheStutters, ZenonT(60)
         DEF CloseUnpinPage, TransactionClosed, pageVars, poolVars
    <3> QED BY <2>1, <3>1, <3>2, <3>3, <3>4, ZenonT(60) DEF TransactionStep
  <2>2. ASSUME NEW s \in Stores, StoreStep(s) PROVE Cache!CacheNext
    BY <2>2, CacheStutters, ZenonT(60)
       DEF StoreStep, CloseRollback, CloseRollbackInit, StoreClosed,
           DestroyPoolCloseStore, pageVars, poolVars
  <2>3. ASSUME NEW ok, StorePageAssign(ok) PROVE Cache!CacheNext
    BY <2>3, AssignIsBlankPage, ZenonT(60)
  <2>4. CASE DestroyPoolDone
    BY <2>4, CacheStutters, ZenonT(60) DEF DestroyPoolDone, pageVars
  <2> QED BY <1>6, <2>1, <2>2, <2>3, <2>4, ZenonT(60) DEF Step
<1>7. CASE Failure
  <2>1. ASSUME NEW ok, UnassignPinnedPage(ok) PROVE Cache!CacheNext
    BY <2>1, UnassignPinnedPageIsWrite, ZenonT(60)
  <2>2. ASSUME NEW check, Fail(check) PROVE Cache!CacheNext
    BY <2>2, CacheStutters, ZenonT(60) DEF Fail, Stop, pageVars
  <2> QED BY <1>7, <2>1, <2>2, ZenonT(60) DEF Failure
<1> QED BY <1>1, <1>2, <1>3, <1>4, <1>5, <1>6, <1>7, ZenonT(60) DEF NextH

\* The page pool, with its frames, pins, lists and reentrant calls, implements
\* a write-back cache of the stores' pages (PageStore): fetching, eviction,
\* commit, rollback and closing change no content that readers see, and a page
\* stops being modified only when it is written, or when the write fails.
THEOREM PoolIsPageStore == SpecH => IsPageStore
<1>1. InitH => Cache!CacheInit
  <2> SUFFICES ASSUME InitH PROVE Cache!CacheInit
    BY Zenon
  <2>1. /\ page_map = [s \in Stores |-> [id \in PageIds |-> NoFrame]]
        /\ disk \in [Stores -> [PageIds -> Values]]
    BY InitInv, ZenonT(60) DEF InitH, Init, PoolInit, Inv, TypeOK, PoolTypes
  <2>2. Contents = disk
    BY <2>1 DEF Contents, PageContent
  <2>3. Owners = [s \in Stores |-> [id \in PageIds |-> NoTxn]]
    BY <2>1 DEF Owners, PageOwner
  <2> QED BY <2>1, <2>2, <2>3, ZenonT(60) DEF Cache!CacheInit
<1>2. Inv /\ [NextH]_<<vars, last>> => [Cache!CacheNext]_Cache!cacheVars
  BY NextIsCacheStep, Zenon
<1> QED BY <1>1, <1>2, InvarianceWithCrashes, PTL
    DEF SpecH, IsPageStore, Cache!CacheSpec
=============================================================================
