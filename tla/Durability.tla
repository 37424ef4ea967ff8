----------------------------- MODULE Durability -----------------------------
(***************************************************************************)
(* StoreImpl with a history of who last modified each page, to say what    *)
(* commit and rollback do to the data files, and the refinement of         *)
(* PageStore.                                                              *)
(***************************************************************************)
EXTENDS StoreImpl

VARIABLE last   \* last[s][id]: the last modification of the page

NoWrite == [fate |-> "none"]

\* What became of a modification: its transaction is running, was committed or
\* was rolled back, unless an earlier step has settled the matter.
Fate(w) ==
  IF w.fate # "running" THEN w.fate
  ELSE IF is_committed[w.txn] THEN "committed"
  ELSE IF is_closed[w.txn] THEN "rolled back"
  ELSE "running"

RecordModify(t, f, v) ==
  last' = [last EXCEPT ![StoreOf[t]][page_id[f]] =
             [fate |-> "running", txn |-> t, value |-> v]]

\* Modification w when its transaction's object goes away.
Settled(w) ==
  CASE w = NoWrite -> w
    [] Fate(w) = "running" -> [w EXCEPT !.fate = "crashed"]
    [] OTHER -> [w EXCEPT !.fate = Fate(w)]

\* A transaction object that is created anew has modified nothing.
ForgetTxn(t) ==
  last' = [s \in Stores |-> [id \in PageIds |->
             LET w == last[s][id]
             IN  IF w # NoWrite /\ w.txn = t THEN Settled(w) ELSE w]]

\* The process dies, of its own accord or because a check failed, and another
\* one opens the stores again.  Only the data files are left of what it did:
\* Initialize does not read the log (store_impl.cc:97).
Crash ==
  /\ transaction' = [f \in Frames |-> NoTxn]
  /\ page_id' = [f \in Frames |-> 0]
  /\ pin_count' = [f \in Frames |-> 0]
  /\ is_dirty' = [f \in Frames |-> FALSE]
  /\ data' = [f \in Frames |-> Garbage]
  /\ pool_pages' = [t \in Txns |-> <<>>]
  /\ allocated' = {} /\ free_list' = <<>> /\ lru_list' = <<>>
  /\ page_map' = [s \in Stores |-> [id \in PageIds |-> NoFrame]]
  /\ live' = {t \in Txns : IsInit(t)}
  /\ is_closed' = [t \in Txns |-> FALSE]
  /\ is_committed' = [t \in Txns |-> FALSE]
  /\ pc' = [t \in Txns |-> "idle"]
  /\ loop_page' = [t \in Txns |-> NoFrame]
  /\ cursor' = 1
  /\ state' = [s \in Stores |-> "kOpen"]
  /\ transactions' = [s \in Stores |-> <<>>]
  /\ rollback_queue' = [s \in Stores |-> <<>>]
  /\ request' = NoRequest /\ calls' = <<>>
  /\ pins' = [f \in Frames |-> 0]
  /\ blank' = NoFrame /\ writer' = NoTxn
  /\ failed' = "none"
  /\ UNCHANGED disk

InitH == Init /\ last = [s \in Stores |-> [id \in PageIds |-> NoWrite]]

NextH ==
  \/ /\ failed = "none"
     /\ \/ \E t \in Txns : CreateTransaction(t) /\ ForgetTxn(t)
        \/ \E t \in Txns, f \in Frames, v \in Values \ {Garbage} :
             Modify(t, f, v) /\ RecordModify(t, f, v)
        \/ (OtherCall \/ Step \/ Failure) /\ UNCHANGED last
  \/ /\ Crash
     /\ last' = [s \in Stores |-> [id \in PageIds |-> Settled(last[s][id])]]

SpecH == InitH /\ [][NextH]_<<vars, last>>

\* A committed transaction's modifications are in the data file, until another
\* transaction modifies the page, whatever crashes: "Writes Put()s and
\* Deletes() in this transaction to durable storage" (transaction.h:41).  It
\* holds when writes fail too: Commit stops at a check that fails.
CommittedWritesAreDurable ==
  \A s \in Stores, id \in PageIds :
    LET w == last[s][id]
    IN  Fate(w) = "committed" => disk[s][id] = w.value

-----------------------------------------------------------------------------
(* The inductive invariant behind CommittedWritesAreDurable. *)

Writes == [fate : {"running", "committed", "rolled back", "crashed"},
           txn : UserTxns, value : Values]

HistoryTypes ==
  /\ last \in [Stores -> [PageIds -> Writes \union {NoWrite}]]
  /\ \A s \in Stores, id \in PageIds :
       last[s][id] # NoWrite => StoreOf[last[s][id].txn] = s

\* A transaction that owns a frame has not been committed, and was the last to
\* modify the frame's page.
OwnersAreLast ==
  \A f \in Frames :
    LET t == transaction[f]
    IN  t \in UserTxns =>
          /\ ~is_committed[t]
          /\ last[StoreOf[t]][page_id[f]] =
               [fate |-> "running", txn |-> t, value |-> data[f]]

\* What an open transaction was the last to write is in a frame that it owns or
\* in the data file, unless a failed write has closed the store.
RunningWritesAreKept ==
  \A s \in Stores, id \in PageIds :
    LET w == last[s][id]
    IN  w.fate = "running" /\ state[s] = "kOpen" /\ ~is_closed[w.txn] =>
          \/ disk[s][id] = w.value
          \/ \E f \in Frames : transaction[f] = w.txn /\ page_id[f] = id

\* An open transaction's store is open, or is being closed and will roll the
\* transaction back; a transaction that commits has an open store.
OpenTransactionsAreClosed ==
  \A t \in UserTxns :
    LET s == StoreOf[t]
    IN  /\ t \in live /\ ~is_closed[t] =>
             \/ state[s] = "kOpen"
             \/ s \in Range(calls) /\ t \in Range(rollback_queue[s])
        /\ pc[t] \in {"pin_commit", "write"} => state[s] = "kOpen"

\* Committed transactions are closed, and nobody is about to modify a page for
\* one of them.
CommittedAreClosed ==
  /\ \A t \in UserTxns : is_committed[t] => is_closed[t]
  /\ blank # NoFrame => writer \in UserTxns /\ ~is_committed[writer]
  /\ request # NoRequest /\ request.writer # NoTxn =>
       ~is_committed[request.writer]

DurabilityInv ==
  /\ HistoryTypes
  /\ OwnersAreLast
  /\ RunningWritesAreKept
  /\ OpenTransactionsAreClosed
  /\ CommittedAreClosed
  /\ CommittedWritesAreDurable

-----------------------------------------------------------------------------
(* The pool implements a write-back cache of the stores' pages. *)

PageContent(s, id) ==
  IF page_map[s][id] = NoFrame THEN disk[s][id] ELSE data[page_map[s][id]]

PageOwner(s, id) ==
  LET f == page_map[s][id]
  IN  IF f # NoFrame /\ transaction[f] \in UserTxns THEN transaction[f]
      ELSE NoTxn

Contents == [s \in Stores |-> [id \in PageIds |-> PageContent(s, id)]]

Owners == [s \in Stores |-> [id \in PageIds |-> PageOwner(s, id)]]

Cache == INSTANCE PageStore WITH
  content <- Contents, durable <- disk, owner <- Owners

\* Readers see the last modification of a page whatever the pool does with its
\* frame: fetching, eviction, commit, rollback and closing change no content,
\* and a page stops being modified only when it is written (or when the write
\* fails, and then it falls back to the data file's version).
IsPageStore == Cache!CacheSpec
=============================================================================
