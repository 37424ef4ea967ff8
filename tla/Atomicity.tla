----------------------------- MODULE Atomicity -----------------------------
(***************************************************************************)
(* Durability with what each modification replaced, to say what is left in *)
(* the data files of a transaction that was not committed.                 *)
(***************************************************************************)
EXTENDS Durability

VARIABLE base   \* base[s][id]: the page in the data file before the
                \* transaction of last[s][id] modified it

InitA == InitH /\ base = disk

\* A transaction that modifies a page again does not move its base.
NextA ==
  /\ NextH
  /\ base' = [s \in Stores |-> [id \in PageIds |->
                LET w == last'[s][id]
                IN  IF /\ w # last[s][id] /\ w.fate = "running"
                       /\ \/ Fate(last[s][id]) # "running"
                          \/ last[s][id].txn # w.txn
                    THEN disk[s][id] ELSE base[s][id]]]

SpecA == InitA /\ [][NextA]_<<vars, last, base>>

\* The pages of store s that transaction t was the last to modify, and that met
\* this fate.
LastWrites(s, t, fate) ==
  {id \in PageIds : last[s][id] # NoWrite /\ last[s][id].txn = t
                                          /\ Fate(last[s][id]) = fate}

\* A transaction is "an atomic and durable (once committed) unit of database
\* operations" (transaction.h:20): rolling it back "discards the Put()s and
\* Deletes() in this transaction" (transaction.h:49), and a crash leaves all of
\* its modifications in the data file or none.
TransactionsAreAtomic ==
  \A s \in Stores, t \in Txns :
    /\ \A id \in LastWrites(s, t, "rolled back") : disk[s][id] = base[s][id]
    /\ LET W == LastWrites(s, t, "crashed")
       IN  \/ \A id \in W : disk[s][id] = base[s][id]
           \/ \A id \in W : disk[s][id] = last[s][id].value
=============================================================================
