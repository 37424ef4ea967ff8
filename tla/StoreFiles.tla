----------------------------- MODULE StoreFiles -----------------------------
(***************************************************************************)
(* Opening, creating and closing stores: PoolImpl::OpenStore, StoreImpl's  *)
(* Create, Initialize, Bootstrap, Close and Release, and the files of      *)
(* libc_vfs.cc behind them.                                                *)
(*                                                                         *)
(* Every pool is in a process of its own, so the calls of different pools  *)
(* interleave, and a process may crash between any two file operations.    *)
(* What a pool does with pages is StoreImpl's business; here a page that   *)
(* Bootstrap modified is pending until it is written, and StorePage may    *)
(* fail (a failing eviction, which closes the store, is StoreImpl's too).  *)
(* A page is what its first six 64-bit words say.                          *)
(***************************************************************************)
EXTENDS StoreHeader, FiniteSets

CONSTANTS Pools, Paths,
          Stores,    \* the StoreImpl instances
          PoolOf,    \* the pool of each of them
          DataPage,  \* a page written by the application
          MaxPages,  \* the size of the largest data file, in pages
          CanFail    \* file operations and StorePage may report an I/O error

None == "none"

ZeroPage == <<0, 0, 0, 0, 0, 0>>

\* The pages of data files.
Contents == {ZeroPage, DataPage} \union {Serialize(NewHeader(n)) : n \in 0..MaxPages}

ASSUME StoreAssumption ==
  /\ PoolOf \in [Stores -> Pools]
  /\ MaxPages \in Nat /\ MaxPages >= 2
  /\ CanFail \in BOOLEAN
  /\ Paths # {} /\ None \notin Stores
  /\ DataPage # ZeroPage
  /\ \A n \in 0..MaxPages : DataPage # Serialize(NewHeader(n))

VARIABLES
  files,       \* the data files that exist, with their pages
  log_files,   \* the paths whose log file exists
  pc,          \* where the pool's OpenStore call is, or "idle"
  opening,     \* the store that the call is for, or None
  options,     \* the StoreOptions the store was opened with
  path,        \* the store's path
  state,       \* StoreImpl::state_, or "none" when the store does not exist
  handles,     \* the file objects that the store or its OpenStore call holds
  header,      \* StoreImpl::header_
  pending,     \* the pages that Bootstrap has modified and not yet written
  stores,      \* PoolImpl::stores_
  created      \* the paths at which the creation of a store has succeeded

diskVars == <<files, log_files>>
callVars == <<pc, opening>>
storeVars == <<options, path, state, handles, header, pending, stores>>
vars == <<diskVars, callVars, storeVars, created>>

\* error_if_exists requires create_if_missing.
StoreOptions == {o \in [create_if_missing : BOOLEAN, error_if_exists : BOOLEAN] :
                   o.error_if_exists => o.create_if_missing}

-----------------------------------------------------------------------------
(* libc_vfs.cc *)

Exists(f) == f \in DOMAIN files

WithFile(f) == [g \in DOMAIN files \union {f} |-> IF Exists(g) THEN files[g] ELSE <<>>]

\* Mutant: an existing file is truncated ("wb+" for "ab+").
OpenLibcFileTruncates(f, o) ==
  /\ o.error_if_exists => ~Exists(f)
  /\ o.create_if_missing \/ Exists(f)
  /\ files' = [g \in DOMAIN files \union {f} |-> IF g = f THEN <<>> ELSE files[g]]

\* Mutant: the file is opened without the exclusive flag ("wb+x").
OpenLibcFileShares(f, o) ==
  /\ o.create_if_missing \/ Exists(f)
  /\ files' = WithFile(f)

\* OpenLibcFile succeeds.
OpenLibcFile(f, o) ==
  /\ o.error_if_exists => ~Exists(f)
  /\ o.create_if_missing \/ Exists(f)
  /\ files' = WithFile(f)

\* It fails: for a reason that the options give it, or for an I/O error, perhaps
\* after it has created the file.
OpenLibcFileFails(f, o) ==
  \/ /\ CanFail \/ IF Exists(f) THEN o.error_if_exists ELSE ~o.create_if_missing
     /\ UNCHANGED files
  \/ CanFail /\ o.create_if_missing /\ files' = WithFile(f)

\* Mutant: the offset is one page too far.
WrittenBehind(old, id, page) ==
  [i \in 1..(IF id + 1 < Len(old) THEN Len(old) ELSE id + 2) |->
     IF i = id + 2 THEN page ELSE IF i <= Len(old) THEN old[i] ELSE ZeroPage]

\* WriteLibcFile: a write behind the end of the file leaves a hole.
Written(old, id, page) ==
  [i \in 1..(IF id < Len(old) THEN Len(old) ELSE id + 1) |->
     IF i = id + 1 THEN page ELSE IF i <= Len(old) THEN old[i] ELSE ZeroPage]

WriteLibcFile(s, id, page) ==
  files' = [files EXCEPT ![path[s]] = Written(@, id, page)]

-----------------------------------------------------------------------------
(* PoolImpl::OpenStore *)

GoTo(p, label) == pc' = [pc EXCEPT ![p] = label]

\* The call returns, with an error when the store does not exist.
Return(p) == GoTo(p, "idle") /\ opening' = [opening EXCEPT ![p] = None]

OpenDataFile(p, s, f, o) ==
  /\ pc[p] = "idle" /\ PoolOf[s] = p /\ state[s] = "none"
  /\ \/ /\ OpenLibcFile(f, o)
        /\ GoTo(p, "lock")
        /\ opening' = [opening EXCEPT ![p] = s]
        /\ options' = [options EXCEPT ![s] = o]
        /\ path' = [path EXCEPT ![s] = f]
        /\ handles' = [handles EXCEPT ![s] = {"data"}]
        /\ header' = [header EXCEPT ![s] = NewHeader(Len(files'[f]))]
     \/ /\ OpenLibcFileFails(f, o)
        /\ UNCHANGED <<callVars, options, path, handles, header>>
  /\ UNCHANGED <<log_files, state, pending, stores, created>>

\* The data file is closed again and the call fails.
AbandonDataFile(p) ==
  /\ handles' = [handles EXCEPT ![opening[p]] = {}]
  /\ Return(p)

\* BlockAccessFile::Lock always succeeds in libc_vfs.cc; other Vfs classes may
\* report an error.
LockDataFile(p) ==
  /\ pc[p] = "lock"
  /\ \/ GoTo(p, "log") /\ UNCHANGED <<handles, opening>>
     \/ CanFail /\ AbandonDataFile(p)
  /\ UNCHANGED <<diskVars, options, path, state, header, pending, stores, created>>

\* Mutant: an error leaves the data file open.
OpenLogFileLeaks(p) ==
  /\ pc[p] = "log"
  /\ \/ /\ log_files' = log_files \union {path[opening[p]]}
        /\ handles' = [handles EXCEPT ![opening[p]] = {"data", "log"}]
        /\ GoTo(p, "create") /\ UNCHANGED opening
     \/ /\ CanFail /\ Return(p)
        /\ log_files' \in {log_files, log_files \union {path[opening[p]]}}
        /\ UNCHANGED handles
  /\ UNCHANGED <<files, options, path, state, header, pending, stores, created>>

\* It may fail after it has created the file.
OpenLogFile(p) ==
  /\ pc[p] = "log"
  /\ \/ /\ log_files' = log_files \union {path[opening[p]]}
        /\ handles' = [handles EXCEPT ![opening[p]] = {"data", "log"}]
        /\ GoTo(p, "create") /\ UNCHANGED opening
     \/ /\ CanFail /\ AbandonDataFile(p)
        /\ log_files' \in {log_files, log_files \union {path[opening[p]]}}
  /\ UNCHANGED <<files, options, path, state, header, pending, stores, created>>

\* StoreImpl::Create and StoreCreated, and the test in StoreImpl::Initialize.
CreateStore(p) ==
  LET s == opening[p]
  IN  /\ pc[p] = "create"
      /\ state' = [state EXCEPT ![s] = "kOpen"]
      /\ stores' = [stores EXCEPT ![p] = @ \union {s}]
      /\ IF options[s].create_if_missing /\ header[s].page_count < 3
         THEN GoTo(p, "header") /\ UNCHANGED opening
         ELSE Return(p)
      /\ UNCHANGED <<diskVars, options, path, handles, header, pending, created>>

-----------------------------------------------------------------------------
(* StoreImpl::Bootstrap.  Its transaction's pages are written in the order   *)
(* in which they were modified.                                              *)

BootstrapHeader(p) ==
  LET s == opening[p]
  IN  /\ pc[p] = "header"
      /\ \/ /\ pending' = [pending EXCEPT ![s] = {0}]
            /\ header' = [header EXCEPT ![s] = NewHeader(2)]
            /\ GoTo(p, "catalog")
         \/ CanFail /\ GoTo(p, "fail") /\ UNCHANGED <<pending, header>>
      /\ UNCHANGED <<diskVars, opening, options, path, state, handles, stores,
                     created>>

WriteHeader(s) == WriteLibcFile(s, 0, Serialize(header[s]))

\* StorePage(1) may evict the header page, which is then written.  When it
\* fails, the rollback of the transaction writes the header page, or fails to.
BootstrapCatalog(p) ==
  LET s == opening[p]
  IN  /\ pc[p] = "catalog"
      /\ \/ /\ pending' = [pending EXCEPT ![s] = @ \union {1}]
            /\ GoTo(p, "commit") /\ UNCHANGED files
         \/ /\ pending' = [pending EXCEPT ![s] = {1}]
            /\ GoTo(p, "commit") /\ WriteHeader(s)
         \/ /\ pending' = [pending EXCEPT ![s] = {}]
            /\ CanFail /\ GoTo(p, "fail")
            /\ WriteHeader(s) \/ UNCHANGED files
      /\ UNCHANGED <<log_files, opening, options, path, state, handles, header,
                     stores, created>>

\* Mutant: the commit skips the header page.
CommitPageSkipsHeader(p) ==
  LET s == opening[p]
  IN  /\ pc[p] = "commit" /\ pending[s] # {}
      /\ pending' = [pending EXCEPT ![s] = {}]
      /\ WriteLibcFile(s, 1, ZeroPage)
      /\ UNCHANGED <<log_files, callVars, options, path, state, handles, header,
                     stores, created>>

CommitPage(p) ==
  LET s == opening[p]
  IN  /\ pc[p] = "commit" /\ pending[s] # {}
      /\ IF 0 \in pending[s]
         THEN WriteHeader(s) /\ pending' = [pending EXCEPT ![s] = @ \ {0}]
         ELSE WriteLibcFile(s, 1, ZeroPage) /\ pending' = [pending EXCEPT ![s] = {}]
      /\ UNCHANGED <<log_files, callVars, options, path, state, handles, header,
                     stores, created>>

CommitDone(p) ==
  /\ pc[p] = "commit" /\ pending[opening[p]] = {}
  /\ created' = created \union {path[opening[p]]}
  /\ Return(p)
  /\ UNCHANGED <<diskVars, storeVars>>

-----------------------------------------------------------------------------
(* Closing stores *)

\* Mutant: the store stays registered with its pool.
CloseStoreStaysRegistered(s, next_state) ==
  /\ state' = [state EXCEPT ![s] = next_state]
  /\ handles' = [handles EXCEPT ![s] = {}]
  /\ UNCHANGED stores

\* StoreImpl::Close and PoolImpl::StoreClosed.
CloseStore(s, next_state) ==
  /\ state' = [state EXCEPT ![s] = next_state]
  /\ handles' = [handles EXCEPT ![s] = {}]
  /\ stores' = [stores EXCEPT ![PoolOf[s]] = @ \ {s}]

\* Initialize failed: OpenStore closes the store and forgets it.
FailToOpen(p) ==
  /\ pc[p] = "fail"
  /\ CloseStore(opening[p], "none")
  /\ Return(p)
  /\ UNCHANGED <<diskVars, options, path, header, pending, created>>

\* The application may use the store: it exists and OpenStore has returned.
InUse(s) == state[s] = "kOpen" /\ opening[PoolOf[s]] # s

Close(s) ==
  /\ InUse(s) /\ pc[PoolOf[s]] = "idle"
  /\ CloseStore(s, "kClosed")
  /\ UNCHANGED <<diskVars, callVars, options, path, header, pending, created>>

\* Store::Release, which closes the store when it is open.
Release(s) ==
  /\ pc[PoolOf[s]] = "idle"
  /\ \/ /\ InUse(s)
        /\ CloseStore(s, "none")
     \/ /\ state[s] = "kClosed"
        /\ state' = [state EXCEPT ![s] = "none"]
        /\ UNCHANGED <<handles, stores>>
  /\ UNCHANGED <<diskVars, callVars, options, path, header, pending, created>>

\* A transaction of the application writes a page behind the root catalog.
WritePage(s, id) ==
  /\ InUse(s) /\ pc[PoolOf[s]] = "idle"
  /\ WriteLibcFile(s, id, DataPage)
  /\ UNCHANGED <<log_files, callVars, storeVars, created>>

\* The pool's process dies, and the operating system closes its files.
Crash(p) ==
  LET mine == {s \in Stores : PoolOf[s] = p}
  IN  /\ state' = [s \in Stores |-> IF s \in mine THEN "none" ELSE state[s]]
      /\ handles' = [s \in Stores |-> IF s \in mine THEN {} ELSE handles[s]]
      /\ pending' = [s \in Stores |-> IF s \in mine THEN {} ELSE pending[s]]
      /\ stores' = [stores EXCEPT ![p] = {}]
      /\ Return(p)
      /\ UNCHANGED <<diskVars, options, path, header, created>>

-----------------------------------------------------------------------------
Init ==
  /\ files = [f \in {} |-> <<>>] /\ log_files = {}
  /\ pc = [p \in Pools |-> "idle"]
  /\ opening = [p \in Pools |-> None]
  /\ options = [s \in Stores |-> CHOOSE o \in StoreOptions : TRUE]
  /\ path = [s \in Stores |-> CHOOSE f \in Paths : TRUE]
  /\ state = [s \in Stores |-> "none"]
  /\ handles = [s \in Stores |-> {}]
  /\ header = [s \in Stores |-> NewHeader(0)]
  /\ pending = [s \in Stores |-> {}]
  /\ stores = [p \in Pools |-> {}]
  /\ created = {}

OpenStore(p) ==
  \/ \E s \in Stores, f \in Paths, o \in StoreOptions : OpenDataFile(p, s, f, o)
  \/ LockDataFile(p)
  \/ OpenLogFile(p)
  \/ CreateStore(p)
  \/ BootstrapHeader(p)
  \/ BootstrapCatalog(p)
  \/ CommitPage(p)
  \/ CommitDone(p)
  \/ FailToOpen(p)

Next ==
  \/ \E p \in Pools : OpenStore(p) \/ Crash(p)
  \/ \E s \in Stores : Close(s) \/ Release(s)
  \/ \E s \in Stores, id \in 2..(MaxPages - 1) : WritePage(s, id)

Spec == Init /\ [][Next]_vars

-----------------------------------------------------------------------------
(* Properties *)

\* The data files' types.
FilesTypeOK ==
  /\ DOMAIN files \subseteq Paths
  /\ files \in [DOMAIN files -> Seq(Contents)]
  /\ \A f \in DOMAIN files : Len(files[f]) <= MaxPages

\* The variables' types.
TypeOK ==
  /\ FilesTypeOK
  /\ log_files \subseteq Paths
  /\ pc \in [Pools -> {"idle", "lock", "log", "create", "header", "catalog",
                       "commit", "fail"}]
  /\ opening \in [Pools -> Stores \union {None}]
  /\ options \in [Stores -> StoreOptions]
  /\ path \in [Stores -> Paths]
  /\ state \in [Stores -> {"none", "kOpen", "kClosed"}]
  /\ handles \in [Stores -> SUBSET {"data", "log"}]
  /\ header \in [Stores -> {NewHeader(n) : n \in 0..MaxPages}]
  /\ pending \in [Stores -> SUBSET {0, 1}]
  /\ stores \in [Pools -> SUBSET Stores]
  /\ created \subseteq Paths

\* An open store has its two files open, and no file stays open that no open
\* store or OpenStore call would close: the error paths close what they opened.
HandlesAreOwned ==
  \A s \in Stores :
    IF state[s] = "kOpen" THEN handles[s] = {"data", "log"}
    ELSE handles[s] # {} => opening[PoolOf[s]] = s

\* PoolImpl::stores_, which the pool's destructor closes, is the set of stores
\* of the pool that are open.
OpenStoresAreRegistered ==
  \A p \in Pools : stores[p] = {s \in Stores : PoolOf[s] = p /\ state[s] = "kOpen"}

\* Of the stores that were opened with error_if_exists, no two have the same
\* file, however the calls of two processes interleave.
ExclusiveStoresAreAlone ==
  \A s, t \in Stores :
    /\ handles[s] # {} /\ options[s].error_if_exists
    /\ handles[t] # {} /\ options[t].error_if_exists
    /\ path[s] = path[t]
    => s = t

\* A created store has a header that counts its two pages, and a second page,
\* whatever other processes do at the same time and whenever they crash.
CreatedStoresAreComplete ==
  \A f \in created :
    /\ Len(files[f]) >= 2
    /\ files[f][1] = Serialize(NewHeader(2))

\* No call shortens or removes a data file or changes a page that the
\* application wrote, not even one that fails half-way or a crash.
OpensKeepData ==
  [][\A f \in DOMAIN files :
       /\ f \in DOMAIN files'
       /\ Len(files'[f]) >= Len(files[f])
       /\ \A i \in 1..Len(files[f]) :
            files[f][i] = DataPage => files'[f][i] = DataPage]_vars

-----------------------------------------------------------------------------
(* The inductive invariant *)

\* An OpenStore call works on a store of its pool, which is created half-way and
\* has the files that the call has opened so far.
CallsOwnTheirStore ==
  \A p \in Pools :
    LET s == opening[p]
    IN  IF pc[p] = "idle" THEN s = None
        ELSE /\ s \in Stores /\ PoolOf[s] = p
             /\ state[s] = IF pc[p] \in {"lock", "log", "create"} THEN "none" ELSE "kOpen"
             /\ handles[s] = IF pc[p] \in {"lock", "log"} THEN {"data"} ELSE {"data", "log"}

\* Data files are not removed while they are open, nor later.
OpenFilesExist == \A s \in Stores : handles[s] # {} => path[s] \in DOMAIN files

HeaderIsWritten(f) == Len(files[f]) >= 1 /\ files[f][1] = Serialize(NewHeader(2))

\* Bootstrap's commit finds in the data file what is not pending any more.
BootstrapIsOrdered ==
  \A p \in Pools :
    LET s == opening[p]
    IN  /\ pc[p] = "catalog" => pending[s] = {0}
        /\ pc[p] \in {"catalog", "commit"} => header[s] = NewHeader(2)
        /\ pc[p] = "commit" =>
             /\ 0 \notin pending[s] => HeaderIsWritten(path[s])
             /\ 1 \notin pending[s] => Len(files[path[s]]) >= 2

\* The application's pages come behind Bootstrap's.
FirstPagesAreReserved ==
  \A f \in DOMAIN files : \A i \in 1..Len(files[f]) :
    i <= 2 => files[f][i] # DataPage

\* The inductive invariant: how OpenStore, Bootstrap, Close and crashes keep the
\* pools' stores, their handles and the data files in step.
Inv ==
  /\ TypeOK
  /\ CallsOwnTheirStore
  /\ HandlesAreOwned
  /\ OpenStoresAreRegistered
  /\ OpenFilesExist
  /\ ExclusiveStoresAreAlone
  /\ BootstrapIsOrdered
  /\ created \subseteq DOMAIN files
  /\ CreatedStoresAreComplete
  /\ FirstPagesAreReserved
=============================================================================
