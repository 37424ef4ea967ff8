----------------------------- MODULE PageStore -----------------------------
(***************************************************************************)
(* What the page pool promises the code that works on store pages, with    *)
(* frames, pins, lists and the call stack left out: a store is an array of *)
(* pages behind a write-back cache.  A page has the content its readers    *)
(* see, the version in the data file, and at most one transaction whose    *)
(* modifications the two differ by.                                        *)
(***************************************************************************)
CONSTANTS Stores, Txns, StoreOf, PageIds, Values, Garbage, NoTxn,
          WritesCanFail

VARIABLES content,  \* what a reader of the page sees
          durable,  \* the page in the data file
          owner     \* the transaction whose modifications are not yet durable

cacheVars == <<content, durable, owner>>

\* Page s/id gets content v and is owned by t.
Become(s, id, v, t) ==
  /\ content' = [content EXCEPT ![s][id] = v]
  /\ owner' = [owner EXCEPT ![s][id] = t]

\* Transaction t modifies the page.
ModifyPage(t, id, v) ==
  /\ owner[StoreOf[t]][id] \in {NoTxn, t}
  /\ Become(StoreOf[t], id, v, t)
  /\ UNCHANGED durable

\* A caller asks for an unmodified page without its content.
BlankPage(s, id) ==
  /\ owner[s][id] = NoTxn
  /\ Become(s, id, Garbage, NoTxn)
  /\ UNCHANGED durable

\* The page is written back: by a commit, an eviction or a rollback.
WriteBack(s, id) ==
  /\ owner[s][id] # NoTxn
  /\ durable' = [durable EXCEPT ![s][id] = content[s][id]]
  /\ Become(s, id, content[s][id], NoTxn)

\* The write fails, and the page falls back to its version in the data file.
LosePage(s, id) ==
  /\ WritesCanFail
  /\ owner[s][id] # NoTxn
  /\ Become(s, id, durable[s][id], NoTxn)
  /\ UNCHANGED durable

\* The page is written back and the program stops before it notes that.
StopAfterWrite(s, id) ==
  /\ owner[s][id] # NoTxn
  /\ durable' = [durable EXCEPT ![s][id] = content[s][id]]
  /\ UNCHANGED <<content, owner>>

\* The cache is lost: all pages fall back to their versions in the data files.
LoseCache ==
  /\ content' = durable
  /\ owner' = [s \in Stores |-> [id \in PageIds |-> NoTxn]]
  /\ UNCHANGED durable

CacheInit ==
  /\ durable \in [Stores -> [PageIds -> Values]]
  /\ content = durable
  /\ owner = [s \in Stores |-> [id \in PageIds |-> NoTxn]]

\* Most of what the pool does, moving pages between frames, changes nothing.
CacheNext ==
  \/ UNCHANGED cacheVars
  \/ \E t \in Txns, id \in PageIds, v \in Values : ModifyPage(t, id, v)
  \/ \E s \in Stores, id \in PageIds :
       \/ BlankPage(s, id)
       \/ WriteBack(s, id) \/ LosePage(s, id) \/ StopAfterWrite(s, id)
  \/ LoseCache

CacheSpec == CacheInit /\ [][CacheNext]_cacheVars
=============================================================================
