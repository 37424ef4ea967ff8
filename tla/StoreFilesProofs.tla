-------------------------- MODULE StoreFilesProofs --------------------------
(***************************************************************************)
(* Proofs about StoreFiles: for any numbers of processes, stores and       *)
(* paths, however the calls of OpenStore interleave and crash.             *)
(***************************************************************************)
EXTENDS StoreFiles, TLAPS

-----------------------------------------------------------------------------
(* Data files *)

\* What no step does to the data files: remove or shorten one, overwrite the
\* header of a created store by something else, or change a page of the
\* application.
FilesAreKept ==
  /\ FilesTypeOK' /\ FirstPagesAreReserved'
  /\ DOMAIN files \subseteq DOMAIN files'
  /\ \A f \in DOMAIN files :
       /\ Len(files'[f]) >= Len(files[f])
       /\ HeaderIsWritten(f) => HeaderIsWritten(f)'
       /\ \A i \in 1..Len(files[f]) :
            files[f][i] = DataPage => files'[f][i] = DataPage

\* Steps that write nothing.
LEMMA SameFiles ==
  ASSUME FilesTypeOK, FirstPagesAreReserved, UNCHANGED files
  PROVE  FilesAreKept
<1>1. FilesTypeOK' /\ FirstPagesAreReserved'
  BY Zenon DEF FilesTypeOK, FirstPagesAreReserved
<1>2. \A f \in DOMAIN files : Len(files[f]) \in Nat
  BY DEF FilesTypeOK
<1> QED BY <1>1, <1>2 DEF FilesAreKept, HeaderIsWritten

\* OpenLibcFile creates a file that is missing, and leaves one that exists alone.
LEMMA OpenedFiles ==
  ASSUME FilesTypeOK, FirstPagesAreReserved, NEW f \in Paths, files' = WithFile(f)
  PROVE  FilesAreKept /\ f \in DOMAIN files'
<1>1. /\ DOMAIN files' = DOMAIN files \union {f}
      /\ \A g \in DOMAIN files : files'[g] = files[g]
      /\ f \notin DOMAIN files => files'[f] = <<>>
  BY Zenon DEF WithFile, Exists
<1>2. <<>> \in Seq(Contents) /\ Len(<<>>) = 0
  OBVIOUS
<1>3. \A g \in DOMAIN files : Len(files[g]) \in Nat
  BY DEF FilesTypeOK
<1>4. \A g \in DOMAIN files' : files'[g] \in Seq(Contents) /\ Len(files'[g]) <= MaxPages
  <2>1. files'[f] \in Seq(Contents) /\ Len(files'[f]) <= MaxPages
    <3>1. CASE f \in DOMAIN files
      BY <1>1, <3>1, Zenon DEF FilesTypeOK
    <3>2. CASE f \notin DOMAIN files
      BY <1>1, <1>2, <3>2, StoreAssumption
    <3> QED BY <3>1, <3>2, Zenon
  <2> QED BY <1>1, <2>1, Zenon DEF FilesTypeOK
<1>5. FilesTypeOK'
  <2>1. files' = [g \in DOMAIN files' |-> files'[g]]
    BY Zenon DEF WithFile
  <2> QED BY <1>1, <1>4, <2>1, Zenon DEF FilesTypeOK
<1>6. FirstPagesAreReserved'
  BY <1>1, <1>2 DEF FirstPagesAreReserved
<1> QED BY <1>1, <1>3, <1>5, <1>6 DEF FilesAreKept, HeaderIsWritten

\* WriteLibcFile writes one page, keeps the others and fills a hole with zeros, when
\* Bootstrap writes the header or the root catalog, and when the application writes a
\* page behind them.
LEMMA WrittenFiles ==
  ASSUME FilesTypeOK, FirstPagesAreReserved, NEW s \in Stores,
         NEW f \in DOMAIN files, f = path[s], NEW id \in 0..(MaxPages - 1), NEW page \in Contents,
         id = 0 => page = Serialize(NewHeader(2)),
         id < 2 => page # DataPage,
         id > 1 => page = DataPage,
         WriteLibcFile(s, id, page)
  PROVE  /\ FilesAreKept /\ Len(files'[f]) >= id + 1
         /\ id = 0 => HeaderIsWritten(f)'
<1> DEFINE w == Written(files[f], id, page)
<1>1. /\ DOMAIN files' = DOMAIN files
      /\ files' = [files EXCEPT ![f] = w]
      /\ files'[f] = w
      /\ \A g \in DOMAIN files \ {f} : files'[g] = files[g]
  BY Zenon DEF WriteLibcFile, FilesTypeOK
<1>2. files[f] \in Seq(Contents) /\ Len(files[f]) <= MaxPages /\ Len(files[f]) \in Nat
  BY DEF FilesTypeOK
<1>3. /\ w \in Seq(Contents) /\ Len(w) <= MaxPages /\ Len(w) \in Nat
      /\ Len(w) >= Len(files[f]) /\ Len(w) >= id + 1
      /\ w[id + 1] = page
      /\ \A i \in 1..Len(files[f]) : i # id + 1 => w[i] = files[f][i]
      /\ \A i \in 1..Len(w) : i > Len(files[f]) /\ i # id + 1 => w[i] = ZeroPage
  <2> DEFINE n == IF id < Len(files[f]) THEN Len(files[f]) ELSE id + 1
  <2>1. /\ n \in Nat /\ n <= MaxPages /\ n >= Len(files[f]) /\ n >= id + 1
        /\ id + 1 \in 1..n
    BY <1>2, StoreAssumption
  <2>2. w = [i \in 1..n |-> IF i = id + 1 THEN page
                            ELSE IF i <= Len(files[f]) THEN files[f][i] ELSE ZeroPage]
    BY Zenon DEF Written
  <2> HIDE DEF w
  <2>3. w \in [1..n -> Contents]
    BY <1>2, <2>2 DEF Contents
  <2>4. \A i \in 1..n : w[i] = IF i = id + 1 THEN page
                               ELSE IF i <= Len(files[f]) THEN files[f][i] ELSE ZeroPage
    BY <2>2, Zenon
  <2> HIDE DEF n
  <2>5. w \in Seq(Contents) /\ Len(w) = n
    BY <2>1, <2>3
  <2> QED BY <1>2, <2>1, <2>4, <2>5
<1> HIDE DEF w
<1>4. FilesTypeOK'
  BY <1>1, <1>3, Zenon DEF FilesTypeOK
<1>5. \A i \in 1..Len(w) : i <= 2 => w[i] # DataPage
  <2> SUFFICES ASSUME NEW i \in 1..Len(w), i <= 2
               PROVE  w[i] # DataPage
    BY Zenon
  <2>1. CASE i = id + 1
    BY <1>3, <2>1
  <2>2. CASE i # id + 1 /\ i > Len(files[f])
    BY <1>3, <2>2, StoreAssumption, Zenon
  <2>3. CASE i # id + 1 /\ i <= Len(files[f])
    BY <1>2, <1>3, <2>3 DEF FirstPagesAreReserved
  <2> QED BY <1>2, <2>1, <2>2, <2>3
<1>6. FirstPagesAreReserved'
  BY <1>1, <1>5, Zenon DEF FirstPagesAreReserved
<1>7. HeaderIsWritten(f) \/ id = 0 => HeaderIsWritten(f)'
  <2>1. CASE id = 0
    BY <1>1, <1>3, <2>1 DEF HeaderIsWritten
  <2>2. CASE id # 0 /\ HeaderIsWritten(f)
    BY <1>1, <1>2, <1>3, <2>2 DEF HeaderIsWritten
  <2> QED BY <2>1, <2>2, Zenon
<1>8. \A i \in 1..Len(files[f]) : files[f][i] = DataPage => w[i] = DataPage
  <2> SUFFICES ASSUME NEW i \in 1..Len(files[f]), files[f][i] = DataPage
               PROVE  w[i] = DataPage
    BY Zenon
  <2>1. i > 2
    BY DEF FirstPagesAreReserved
  <2> QED BY <1>3, <2>1
<1>9. \A g \in DOMAIN files \ {f} :
        /\ Len(files'[g]) >= Len(files[g])
        /\ HeaderIsWritten(g) => HeaderIsWritten(g)'
        /\ \A i \in 1..Len(files[g]) :
             files[g][i] = DataPage => files'[g][i] = DataPage
  <2>1. \A g \in DOMAIN files : Len(files[g]) \in Nat
    BY DEF FilesTypeOK
  <2> QED BY <1>1, <2>1 DEF HeaderIsWritten
<1>10. \A g \in DOMAIN files :
         /\ Len(files'[g]) >= Len(files[g])
         /\ HeaderIsWritten(g) => HeaderIsWritten(g)'
         /\ \A i \in 1..Len(files[g]) :
              files[g][i] = DataPage => files'[g][i] = DataPage
  <2>1. Len(files'[f]) >= Len(files[f])
    BY <1>1, <1>3, Zenon
  <2> QED BY <1>1, <1>7, <1>8, <1>9, <2>1, Zenon
<1>11. Len(files'[f]) >= id + 1
  BY <1>1, <1>3, Zenon
<1>12. DOMAIN files \subseteq DOMAIN files'
  BY <1>1, Zenon
<1> QED BY <1>4, <1>6, <1>7, <1>10, <1>11, <1>12, Zenon DEF FilesAreKept

-----------------------------------------------------------------------------
(* Pools.  Every step but a write is one pool's, and concerns the stores of   *)
(* that pool only.                                                            *)

\* What CallsOwnTheirStore says of one pool.
CallOwnsItsStore(p) ==
  LET s == opening[p]
  IN  IF pc[p] = "idle" THEN s = None
      ELSE /\ s \in Stores /\ PoolOf[s] = p
           /\ state[s] = IF pc[p] \in {"lock", "log", "create"} THEN "none" ELSE "kOpen"
           /\ handles[s] = IF pc[p] \in {"lock", "log"} THEN {"data"} ELSE {"data", "log"}

\* What BootstrapIsOrdered says of one pool.
BootstrapOfIsOrdered(p) ==
  LET s == opening[p]
  IN  /\ pc[p] = "catalog" => pending[s] = {0}
      /\ pc[p] \in {"catalog", "commit"} => header[s] = NewHeader(2)
      /\ pc[p] = "commit" =>
           /\ 0 \notin pending[s] => HeaderIsWritten(path[s])
           /\ 1 \notin pending[s] => Len(files[path[s]]) >= 2

\* What HandlesAreOwned says of one store.
HandleIsOwned(s) ==
  IF state[s] = "kOpen" THEN handles[s] = {"data", "log"}
  ELSE handles[s] # {} => opening[PoolOf[s]] = s

\* What the invariant says of one pool, other than about data files.
PoolInv(p) ==
  /\ CallOwnsItsStore(p)
  /\ BootstrapOfIsOrdered(p)
  /\ stores[p] = {s \in Stores : PoolOf[s] = p /\ state[s] = "kOpen"}
  /\ \A s \in Stores : PoolOf[s] = p => HandleIsOwned(s)

\* The step changes nothing of other pools.
OnlyConcerns(p) ==
  /\ \A q \in Pools \ {p} : /\ pc'[q] = pc[q] /\ opening'[q] = opening[q]
                            /\ stores'[q] = stores[q]
  /\ \A s \in Stores : PoolOf[s] # p =>
       /\ state'[s] = state[s] /\ handles'[s] = handles[s] /\ header'[s] = header[s]
       /\ pending'[s] = pending[s] /\ path'[s] = path[s] /\ options'[s] = options[s]

\* The invariant, pool by pool.
LEMMA PoolsInv ==
  ASSUME Inv, NEW p \in Pools
  PROVE  PoolInv(p)
<1>1. CallOwnsItsStore(p)
  BY Zenon DEF Inv, CallsOwnTheirStore, CallOwnsItsStore
<1>2. BootstrapOfIsOrdered(p)
  BY Zenon DEF Inv, BootstrapIsOrdered, BootstrapOfIsOrdered
<1>3. stores[p] = {s \in Stores : PoolOf[s] = p /\ state[s] = "kOpen"}
  BY Zenon DEF Inv, OpenStoresAreRegistered
<1>4. \A s \in Stores : HandleIsOwned(s)
  BY Zenon DEF Inv, HandlesAreOwned, HandleIsOwned
<1> QED BY <1>1, <1>2, <1>3, <1>4, Zenon DEF PoolInv

\* A pool keeps its part of the invariant through the steps of other pools.
LEMMA OtherPool ==
  ASSUME Inv, NEW p \in Pools, NEW q \in Pools \ {p}, OnlyConcerns(p), FilesAreKept
  PROVE  PoolInv(q)'
<1>1. PoolInv(q)
  BY PoolsInv, Zenon
<1>2. /\ pc'[q] = pc[q] /\ opening'[q] = opening[q] /\ stores'[q] = stores[q]
      /\ \A s \in Stores : PoolOf[s] = q =>
           /\ state'[s] = state[s] /\ handles'[s] = handles[s] /\ header'[s] = header[s]
           /\ pending'[s] = pending[s] /\ path'[s] = path[s] /\ options'[s] = options[s]
  BY Zenon DEF OnlyConcerns
<1>3. CallOwnsItsStore(q)'
  BY <1>1, <1>2 DEF PoolInv, CallOwnsItsStore
<1>4. BootstrapOfIsOrdered(q)'
  <2>1. CASE pc[q] \notin {"catalog", "commit"}
    BY <1>2, <2>1, Zenon DEF BootstrapOfIsOrdered
  <2>2. CASE pc[q] \in {"catalog", "commit"}
    <3> DEFINE s == opening[q]
               f == path[s]
    <3>1. s \in Stores /\ PoolOf[s] = q /\ handles[s] # {}
      BY <1>1, <2>2, Zenon DEF PoolInv, CallOwnsItsStore
    <3>2. f \in DOMAIN files
      BY <3>1, Zenon DEF Inv, OpenFilesExist
    <3>3. /\ opening'[q] = s /\ path'[s] = f
          /\ pending'[s] = pending[s] /\ header'[s] = header[s]
      BY <1>2, <3>1, Zenon
    <3>4. /\ Len(files[f]) \in Nat /\ Len(files'[f]) \in Nat
          /\ Len(files'[f]) >= Len(files[f])
      BY <3>2 DEF Inv, TypeOK, FilesTypeOK, FilesAreKept
    <3>5. HeaderIsWritten(f) => Len(files'[f]) >= 1 /\ files'[f][1] = Serialize(NewHeader(2))
      BY <3>2, Zenon DEF FilesAreKept, HeaderIsWritten
    <3>6. /\ pc[q] = "catalog" => pending[s] = {0}
          /\ header[s] = NewHeader(2)
          /\ pc[q] = "commit" => /\ 0 \notin pending[s] => HeaderIsWritten(f)
                                 /\ 1 \notin pending[s] => Len(files[f]) >= 2
      BY <1>1, <2>2, Zenon DEF PoolInv, BootstrapOfIsOrdered
    <3>7. 1 \notin pending[s] /\ pc[q] = "commit" => Len(files'[f]) >= 2
      BY <3>4, <3>6
    <3> HIDE DEF s, f
    <3> QED BY <1>2, <3>3, <3>5, <3>6, <3>7, Zenon
        DEF BootstrapOfIsOrdered, HeaderIsWritten
  <2> QED BY <2>1, <2>2, Zenon
<1>5. stores'[q] = {s \in Stores : PoolOf[s] = q /\ state'[s] = "kOpen"}
  BY <1>1, <1>2, Zenon DEF PoolInv
<1>6. \A s \in Stores : PoolOf[s] = q => HandleIsOwned(s)'
  BY <1>1, <1>2 DEF PoolInv, HandleIsOwned
<1> QED BY <1>3, <1>4, <1>5, <1>6, Zenon DEF PoolInv

\* A step of pool p need only be looked at for p.
LEMMA PoolStep ==
  ASSUME Inv, NEW p \in Pools, OnlyConcerns(p), FilesAreKept, PoolInv(p)'
  PROVE  CallsOwnTheirStore' /\ HandlesAreOwned' /\ OpenStoresAreRegistered'
         /\ BootstrapIsOrdered'
<1>1. \A q \in Pools : PoolInv(q)'
  BY OtherPool, Zenon
<1>2. \A s \in Stores : PoolOf[s] \in Pools
  BY StoreAssumption, Zenon
<1>3. CallsOwnTheirStore'
  BY <1>1, Zenon DEF PoolInv, CallsOwnTheirStore, CallOwnsItsStore
<1>4. HandlesAreOwned'
  BY <1>1, <1>2, Zenon DEF PoolInv, HandlesAreOwned, HandleIsOwned
<1>5. OpenStoresAreRegistered'
  BY <1>1, Zenon DEF PoolInv, OpenStoresAreRegistered
<1>6. BootstrapIsOrdered'
  BY <1>1, Zenon DEF PoolInv, BootstrapIsOrdered, BootstrapOfIsOrdered
<1> QED BY <1>3, <1>4, <1>5, <1>6, Zenon

\* Steps that open no data file.
LEMMA SameOpenFiles ==
  ASSUME Inv, FilesAreKept, UNCHANGED <<path, options>>,
         \A s \in Stores : handles'[s] # {} => handles[s] # {}
  PROVE  OpenFilesExist' /\ ExclusiveStoresAreAlone'
<1>1. OpenFilesExist'
  BY Zenon DEF Inv, OpenFilesExist, FilesAreKept
<1>2. ExclusiveStoresAreAlone'
  BY Zenon DEF Inv, ExclusiveStoresAreAlone
<1> QED BY <1>1, <1>2, Zenon

\* A created store stays complete.
LEMMA CreatedStoresStay ==
  ASSUME Inv, FilesAreKept, NEW f \in created
  PROVE  /\ f \in DOMAIN files' /\ Len(files'[f]) >= 2
         /\ files'[f][1] = Serialize(NewHeader(2))
<1>1. f \in DOMAIN files /\ Len(files[f]) >= 2 /\ files[f][1] = Serialize(NewHeader(2))
  BY Zenon DEF Inv, CreatedStoresAreComplete
<1>2. Len(files[f]) \in Nat /\ f \in DOMAIN files' /\ Len(files'[f]) \in Nat
  BY <1>1 DEF Inv, TypeOK, FilesTypeOK, FilesAreKept
<1>3. HeaderIsWritten(f)
  BY <1>1, <1>2 DEF HeaderIsWritten
<1>4. Len(files'[f]) >= Len(files[f]) /\ HeaderIsWritten(f)'
  BY <1>1, <1>3, Zenon DEF FilesAreKept
<1> QED BY <1>1, <1>2, <1>4 DEF HeaderIsWritten

-----------------------------------------------------------------------------
(* The steps *)

\* What is left to show of a step of pool p that creates no store.
LEMMA StepKeepsInv ==
  ASSUME Inv, NEW p \in Pools, OnlyConcerns(p), FilesAreKept, PoolInv(p)', TypeOK',
         UNCHANGED created, OpenFilesExist', ExclusiveStoresAreAlone'
  PROVE  Inv'
<1>1. CallsOwnTheirStore' /\ HandlesAreOwned' /\ OpenStoresAreRegistered'
      /\ BootstrapIsOrdered'
  BY PoolStep, Zenon
<1>2. (created \subseteq DOMAIN files)'
  BY CreatedStoresStay, Zenon
<1>3. CreatedStoresAreComplete'
  BY CreatedStoresStay, Zenon DEF CreatedStoresAreComplete
<1> QED BY <1>1, <1>2, <1>3, Zenon DEF Inv, FilesAreKept

\* Steps that write no file.
LEMMA FilesStay ==
  ASSUME Inv, UNCHANGED files
  PROVE  FilesAreKept
BY SameFiles, Zenon DEF Inv, TypeOK

\* A pool whose call has returned, or is before Bootstrap's first page.
LEMMA NoBootstrap ==
  ASSUME NEW p \in Pools, pc'[p] \notin {"catalog", "commit"}
  PROVE  BootstrapOfIsOrdered(p)'
BY Zenon DEF BootstrapOfIsOrdered

\* The store that a call is for.
LEMMA StoreOfCall ==
  ASSUME Inv, NEW p \in Pools, pc[p] # "idle"
  PROVE  LET s == opening[p]
         IN  /\ s \in Stores /\ PoolOf[s] = p /\ s # None
             /\ handles[s] # {} /\ path[s] \in DOMAIN files /\ path[s] \in Paths
             /\ state[s] = IF pc[p] \in {"lock", "log", "create"} THEN "none" ELSE "kOpen"
             /\ handles[s] = IF pc[p] \in {"lock", "log"} THEN {"data"} ELSE {"data", "log"}
<1> DEFINE s == opening[p]
<1>1. /\ s \in Stores /\ PoolOf[s] = p
      /\ state[s] = IF pc[p] \in {"lock", "log", "create"} THEN "none" ELSE "kOpen"
      /\ handles[s] = IF pc[p] \in {"lock", "log"} THEN {"data"} ELSE {"data", "log"}
  BY PoolsInv, Zenon DEF PoolInv, CallOwnsItsStore
<1>2. handles[s] # {}
  BY <1>1, Zenon
<1>3. path[s] \in DOMAIN files /\ path[s] \in Paths /\ s # None
  BY <1>1, <1>2, StoreAssumption, Zenon DEF Inv, TypeOK, OpenFilesExist
<1> QED BY <1>1, <1>2, <1>3, Zenon

\* A step of a call, which concerns the call's store only: the call goes on or
\* returns.
LEMMA CallGoesOn ==
  ASSUME Inv, NEW p \in Pools, pc[p] # "idle", NEW s \in Stores, s = opening[p],
         BootstrapOfIsOrdered(p)',
         \A t \in Stores \ {s} : state'[t] = state[t] /\ handles'[t] = handles[t],
         stores'[p] = IF state'[s] = "kOpen" THEN stores[p] \union {s}
                      ELSE stores[p] \ {s},
         \/ /\ pc'[p] # "idle" /\ opening'[p] = s
            /\ state'[s] = IF pc'[p] \in {"lock", "log", "create"} THEN "none" ELSE "kOpen"
            /\ handles'[s] = IF pc'[p] \in {"lock", "log"} THEN {"data"} ELSE {"data", "log"}
         \/ /\ pc'[p] = "idle" /\ opening'[p] = None
            /\ handles'[s] = IF state'[s] = "kOpen" THEN {"data", "log"} ELSE {}
  PROVE  PoolInv(p)'
<1>1. PoolInv(p) /\ PoolOf[s] = p
  BY PoolsInv, StoreOfCall, Zenon
<1>2. CallOwnsItsStore(p)'
  BY <1>1, Zenon DEF CallOwnsItsStore
<1>3. stores'[p] = {t \in Stores : PoolOf[t] = p /\ state'[t] = "kOpen"}
  BY <1>1, Zenon DEF PoolInv
<1>4. HandleIsOwned(s)'
  BY <1>1, Zenon DEF HandleIsOwned
<1>5. \A t \in Stores \ {s} : PoolOf[t] = p => HandleIsOwned(t)'
  BY <1>1 DEF PoolInv, HandleIsOwned
<1> QED BY <1>2, <1>3, <1>4, <1>5, Zenon DEF PoolInv

\* PoolImpl::OpenStore opens the data file.
LEMMA OpenDataFileKeepsInv ==
  ASSUME Inv, NEW p \in Pools, NEW s \in Stores, NEW f \in Paths, NEW o \in StoreOptions,
         OpenDataFile(p, s, f, o)
  PROVE  Inv' /\ FilesAreKept
<1> USE DEF OpenDataFile, GoTo, callVars
<1>0. PoolInv(p) /\ TypeOK /\ FilesTypeOK /\ FirstPagesAreReserved
  BY PoolsInv, Zenon DEF Inv, TypeOK
<1>1. CASE files' = WithFile(f) \/ UNCHANGED files
  <2>1. FilesAreKept /\ FilesTypeOK'
    BY <1>0, <1>1, OpenedFiles, SameFiles, Zenon DEF FilesAreKept
  <2>2. CASE UNCHANGED <<callVars, options, path, handles, header>>
    <3>1. OnlyConcerns(p)
      BY <2>2, Zenon DEF OnlyConcerns
    <3>2. TypeOK'
      BY <1>0, <2>1, <2>2, Zenon DEF TypeOK
    <3>3. PoolInv(p)'
      BY <1>0, <2>2, NoBootstrap, Zenon
         DEF PoolInv, CallOwnsItsStore, HandleIsOwned
    <3>4. OpenFilesExist' /\ ExclusiveStoresAreAlone'
      BY <2>1, <2>2, SameOpenFiles, Zenon
    <3> QED BY <2>1, <3>1, <3>2, <3>3, <3>4, StepKeepsInv, Zenon
  <2>3. CASE /\ OpenLibcFile(f, o)
             /\ pc' = [pc EXCEPT ![p] = "lock"]
             /\ opening' = [opening EXCEPT ![p] = s]
             /\ options' = [options EXCEPT ![s] = o]
             /\ path' = [path EXCEPT ![s] = f]
             /\ handles' = [handles EXCEPT ![s] = {"data"}]
             /\ header' = [header EXCEPT ![s] = NewHeader(Len(files'[f]))]
    <3>1. f \in DOMAIN files' /\ (o.error_if_exists => f \notin DOMAIN files)
      BY <1>0, <2>3, OpenedFiles, Zenon DEF OpenLibcFile, Exists
    <3>2. Len(files'[f]) \in 0..MaxPages
      BY <2>1, <3>1, StoreAssumption DEF FilesTypeOK
    <3>3. OnlyConcerns(p)
      BY <1>0, <2>3, Zenon DEF OnlyConcerns, TypeOK
    <3>4. TypeOK'
      <4>1. header' \in [Stores -> {NewHeader(n) : n \in 0..MaxPages}]
        BY <1>0, <2>3, <3>2, Zenon DEF TypeOK
      <4> QED BY <1>0, <2>1, <2>3, <4>1, Zenon DEF TypeOK
    <3>5. PoolInv(p)'
      <4>1. /\ pc'[p] = "lock" /\ opening'[p] = s /\ handles'[s] = {"data"}
            /\ \A t \in Stores \ {s} : handles'[t] = handles[t]
        BY <1>0, <2>3, Zenon DEF TypeOK
      <4>2. opening[p] = None /\ None \notin Stores
        BY <1>0, StoreAssumption, Zenon DEF PoolInv, CallOwnsItsStore
      <4>3. CallOwnsItsStore(p)' /\ BootstrapOfIsOrdered(p)'
        BY <4>1, NoBootstrap, Zenon DEF CallOwnsItsStore
      <4>4. \A t \in Stores : PoolOf[t] = p => HandleIsOwned(t)'
        BY <1>0, <4>1, <4>2 DEF PoolInv, HandleIsOwned
      <4> QED BY <1>0, <4>3, <4>4, Zenon DEF PoolInv
    <3>6. /\ path'[s] = f /\ options'[s] = o
          /\ \A t \in Stores \ {s} : /\ path'[t] = path[t] /\ handles'[t] = handles[t]
                                     /\ options'[t] = options[t]
      BY <1>0, <2>3, Zenon DEF TypeOK
    <3>7. OpenFilesExist'
      BY <2>1, <3>1, <3>6, Zenon DEF OpenFilesExist, Inv, FilesAreKept
    <3>8. ExclusiveStoresAreAlone'
      BY <3>1, <3>6 DEF ExclusiveStoresAreAlone, OpenFilesExist, Inv
    <3> QED BY <2>1, <3>3, <3>4, <3>5, <3>7, <3>8, StepKeepsInv, Zenon
  <2> QED BY <2>2, <2>3, Zenon
<1> QED BY <1>1, Zenon DEF OpenLibcFile, OpenLibcFileFails

\* OpenStore locks the data file or opens the log file, or abandons the call.
LEMMA FileStep ==
  ASSUME Inv, NEW p \in Pools, pc[p] # "idle", NEW s \in Stores, s = opening[p],
         FilesAreKept, TypeOK', OnlyConcerns(p), BootstrapOfIsOrdered(p)',
         UNCHANGED <<state, stores, path, options, created>>, state[s] = "none",
         \A t \in Stores \ {s} : handles'[t] = handles[t],
         \/ pc'[p] = "log" /\ opening'[p] = s /\ handles'[s] = {"data"}
         \/ pc'[p] = "create" /\ opening'[p] = s /\ handles'[s] = {"data", "log"}
         \/ pc'[p] = "idle" /\ opening'[p] = None /\ handles'[s] = {}
  PROVE  Inv'
<1>1. PoolInv(p) /\ handles[s] # {}
  BY PoolsInv, StoreOfCall, Zenon
<1>2. stores'[p] = stores[p] \ {s}
  BY <1>1, Zenon DEF PoolInv
<1>3. \/ /\ pc'[p] # "idle" /\ opening'[p] = s
         /\ state'[s] = IF pc'[p] \in {"lock", "log", "create"} THEN "none" ELSE "kOpen"
         /\ handles'[s] = IF pc'[p] \in {"lock", "log"} THEN {"data"} ELSE {"data", "log"}
      \/ /\ pc'[p] = "idle" /\ opening'[p] = None
         /\ handles'[s] = IF state'[s] = "kOpen" THEN {"data", "log"} ELSE {}
  BY Zenon
<1>4. state'[s] # "kOpen" /\ \A t \in Stores \ {s} : state'[t] = state[t]
  BY Zenon
<1>5. PoolInv(p)'
  BY <1>2, <1>3, <1>4, CallGoesOn, Zenon
<1>6. OpenFilesExist' /\ ExclusiveStoresAreAlone'
  BY <1>1, SameOpenFiles, Zenon
<1> QED BY <1>5, <1>6, StepKeepsInv, Zenon

\* The steps of OpenStore between the two files and Bootstrap.
LEMMA CallStepKeepsInv ==
  ASSUME Inv, NEW p \in Pools, LockDataFile(p) \/ OpenLogFile(p) \/ CreateStore(p)
  PROVE  Inv' /\ FilesAreKept
<1> DEFINE s == opening[p]
<1>0. PoolInv(p) /\ TypeOK /\ FilesTypeOK
  BY PoolsInv, Zenon DEF Inv, TypeOK
<1>1. pc[p] # "idle"
  BY Zenon DEF LockDataFile, OpenLogFile, CreateStore
<1>2. /\ s \in Stores /\ PoolOf[s] = p /\ s # None /\ handles[s] # {}
      /\ path[s] \in Paths
      /\ state[s] = IF pc[p] \in {"lock", "log", "create"} THEN "none" ELSE "kOpen"
      /\ handles[s] = IF pc[p] \in {"lock", "log"} THEN {"data"} ELSE {"data", "log"}
  BY <1>1, StoreOfCall, Zenon
<1>3. /\ UNCHANGED <<files, options, path, header, pending, created>>
      /\ pc'[p] \notin {"catalog", "commit"}
  BY <1>0
     DEF LockDataFile, OpenLogFile, CreateStore, AbandonDataFile, Return, GoTo,
         diskVars, TypeOK
<1>4. FilesAreKept /\ BootstrapOfIsOrdered(p)'
  BY <1>3, FilesStay, NoBootstrap, Zenon
<1>5. FilesTypeOK'
  BY <1>4, Zenon DEF FilesAreKept
<1>6. CASE LockDataFile(p)
  <2> USE DEF LockDataFile, AbandonDataFile, Return, GoTo, diskVars
  <2>1. TypeOK'
    BY <1>0, <1>2, <1>5, <1>6, Zenon DEF TypeOK
  <2>2. OnlyConcerns(p)
    BY <1>0, <1>2, <1>6, ZenonT(60) DEF OnlyConcerns, TypeOK
  <2>3. /\ UNCHANGED <<state, stores>> /\ state[s] = "none"
        /\ \A t \in Stores \ {s} : handles'[t] = handles[t]
    BY <1>0, <1>2, <1>6, Zenon DEF TypeOK
  <2>4. \/ pc'[p] = "log" /\ opening'[p] = s /\ handles'[s] = {"data"}
        \/ pc'[p] = "idle" /\ opening'[p] = None /\ handles'[s] = {}
    BY <1>0, <1>2, <1>6, ZenonT(60) DEF TypeOK
  <2> QED BY <1>1, <1>2, <1>3, <1>4, <2>1, <2>2, <2>3, <2>4, FileStep, Zenon
<1>7. CASE OpenLogFile(p)
  <2> USE DEF OpenLogFile, AbandonDataFile, Return, GoTo
  <2>1. TypeOK'
    BY <1>0, <1>2, <1>5, <1>7 DEF TypeOK
  <2>2. OnlyConcerns(p)
    BY <1>0, <1>2, <1>7, ZenonT(60) DEF OnlyConcerns, TypeOK
  <2>3. /\ UNCHANGED <<state, stores>> /\ state[s] = "none"
        /\ \A t \in Stores \ {s} : handles'[t] = handles[t]
    BY <1>0, <1>2, <1>7, ZenonT(60) DEF TypeOK
  <2>4. \/ pc'[p] = "create" /\ opening'[p] = s /\ handles'[s] = {"data", "log"}
        \/ pc'[p] = "idle" /\ opening'[p] = None /\ handles'[s] = {}
    BY <1>0, <1>2, <1>7 DEF TypeOK
  <2> QED BY <1>1, <1>2, <1>3, <1>4, <2>1, <2>2, <2>3, <2>4, FileStep, Zenon
<1>8. CASE CreateStore(p)
  <2> USE DEF CreateStore, Return, GoTo, diskVars
  <2>1. TypeOK'
    BY <1>0, <1>2, <1>5, <1>8 DEF TypeOK
  <2>2. OnlyConcerns(p)
    BY <1>0, <1>2, <1>8 DEF OnlyConcerns, TypeOK
  <2>3. PoolInv(p)'
    <3>1. \A t \in Stores \ {s} : state'[t] = state[t] /\ handles'[t] = handles[t]
      BY <1>0, <1>2, <1>8, Zenon DEF TypeOK
    <3>2. stores'[p] = IF state'[s] = "kOpen" THEN stores[p] \union {s}
                       ELSE stores[p] \ {s}
      BY <1>0, <1>2, <1>8, Zenon DEF TypeOK, PoolInv
    <3>3. \/ /\ pc'[p] # "idle" /\ opening'[p] = s
             /\ state'[s] = IF pc'[p] \in {"lock", "log", "create"} THEN "none" ELSE "kOpen"
             /\ handles'[s] = IF pc'[p] \in {"lock", "log"} THEN {"data"} ELSE {"data", "log"}
          \/ /\ pc'[p] = "idle" /\ opening'[p] = None
             /\ handles'[s] = IF state'[s] = "kOpen" THEN {"data", "log"} ELSE {}
      BY <1>0, <1>2, <1>8 DEF TypeOK
    <3> QED BY <1>1, <1>2, <1>4, <3>1, <3>2, <3>3, CallGoesOn, Zenon
  <2>4. \A t \in Stores : handles'[t] # {} => handles[t] # {}
    BY <1>8, Zenon
  <2> QED BY <1>3, <1>4, <2>1, <2>2, <2>3, <2>4, SameOpenFiles, StepKeepsInv,
      Zenon
<1> QED BY <1>6, <1>7, <1>8, Zenon

\* A step of a Bootstrap call, which changes the header, the pending pages and the
\* data file, but neither the store's state nor its handles.
LEMMA BootstrapGoesOn ==
  ASSUME Inv, NEW p \in Pools, pc[p] \in {"header", "catalog", "commit"},
         NEW label \in {"catalog", "commit", "fail"}, pc' = [pc EXCEPT ![p] = label],
         BootstrapOfIsOrdered(p)', FilesAreKept,
         NEW h \in {NewHeader(n) : n \in 0..MaxPages},
         header' = [header EXCEPT ![opening[p]] = h],
         NEW ids \in SUBSET {0, 1}, pending' = [pending EXCEPT ![opening[p]] = ids],
         UNCHANGED <<log_files, opening, options, path, state, handles, stores, created>>
  PROVE  Inv'
<1> DEFINE s == opening[p]
<1>1. TypeOK /\ PoolInv(p)
  BY PoolsInv, Zenon DEF Inv
<1>2. /\ s \in Stores /\ PoolOf[s] = p
      /\ state[s] = "kOpen" /\ handles[s] = {"data", "log"}
  BY StoreOfCall, Zenon
<1>3. FilesTypeOK'
  BY Zenon DEF FilesAreKept
<1>4. TypeOK'
  BY <1>1, <1>2, <1>3, Zenon DEF TypeOK
<1>5. OnlyConcerns(p)
  BY <1>1, <1>2, Zenon DEF OnlyConcerns, TypeOK
<1>6. pc'[p] = label
  BY <1>1, Zenon DEF TypeOK
<1>7. stores'[p] = stores[p] \union {s}
  BY <1>1, <1>2, Zenon DEF PoolInv
<1>8. PoolInv(p)'
  BY <1>2, <1>6, <1>7, CallGoesOn, Zenon
<1>9. OpenFilesExist' /\ ExclusiveStoresAreAlone'
  BY SameOpenFiles, Zenon
<1> QED BY <1>4, <1>5, <1>8, <1>9, StepKeepsInv, Zenon

\* Bootstrap writes the header page.
LEMMA HeaderWrite ==
  ASSUME Inv, NEW s \in Stores, NEW f, f = path[s], f \in DOMAIN files,
         header[s] = NewHeader(2), WriteHeader(s)
  PROVE  FilesAreKept /\ HeaderIsWritten(f)'
<1>1. FilesTypeOK /\ FirstPagesAreReserved
  BY Zenon DEF Inv, TypeOK
<1>2. 0 \in 0..(MaxPages - 1) /\ 2 \in 0..MaxPages
  BY StoreAssumption
<1> DEFINE page == Serialize(NewHeader(2))
<1>3. page \in Contents /\ page # DataPage
  BY <1>2, StoreAssumption, Zenon DEF Contents
<1>4. WriteLibcFile(s, 0, page)
  BY Zenon DEF WriteHeader
<1> HIDE DEF page
<1>5. page = Serialize(NewHeader(2))
  BY Zenon DEF page
<1> QED BY <1>1, <1>2, <1>3, <1>4, <1>5, WrittenFiles

\* Bootstrap or its rollback writes the root catalog page.
LEMMA CatalogWrite ==
  ASSUME Inv, NEW s \in Stores, NEW f, f = path[s], f \in DOMAIN files,
         WriteLibcFile(s, 1, ZeroPage)
  PROVE  FilesAreKept /\ Len(files'[f]) >= 2
<1>1. FilesTypeOK /\ FirstPagesAreReserved
  BY Zenon DEF Inv, TypeOK
<1>2. 1 \in 0..(MaxPages - 1)
  BY StoreAssumption
<1>3. ZeroPage \in Contents /\ ZeroPage # DataPage
  BY StoreAssumption, Zenon DEF Contents
<1>4. FilesAreKept /\ Len(files'[f]) >= 1 + 1
  BY <1>1, <1>2, <1>3, WrittenFiles
<1> QED BY <1>4

\* StoreImpl::Bootstrap, up to the end of its commit.
LEMMA BootstrapStepKeepsInv ==
  ASSUME Inv, NEW p \in Pools, BootstrapHeader(p) \/ BootstrapCatalog(p) \/ CommitPage(p)
  PROVE  Inv' /\ FilesAreKept
<1> DEFINE s == opening[p]
           f == path[s]
           header_on_disk == /\ Len(files'[f]) >= 1
                             /\ files'[f][1] = Serialize(NewHeader(2))
<1>0. TypeOK /\ BootstrapOfIsOrdered(p)
  BY PoolsInv, Zenon DEF Inv, PoolInv
<1>1. pc[p] \in {"header", "catalog", "commit"}
  BY Zenon DEF BootstrapHeader, BootstrapCatalog, CommitPage
<1>2. s \in Stores /\ f \in DOMAIN files
  BY <1>1, StoreOfCall, Zenon
<1>3. /\ NewHeader(2) \in {NewHeader(n) : n \in 0..MaxPages}
      /\ header[s] \in {NewHeader(n) : n \in 0..MaxPages}
      /\ pending[s] \in SUBSET {0, 1}
      /\ header = [header EXCEPT ![s] = header[s]]
      /\ pending = [pending EXCEPT ![s] = pending[s]]
      /\ pc = [pc EXCEPT ![p] = pc[p]]
  BY <1>0, <1>2, StoreAssumption DEF TypeOK
<1>4. CASE BootstrapHeader(p)
  <2>1. FilesAreKept
    BY <1>4, FilesStay, Zenon DEF BootstrapHeader, diskVars
  <2>2. CASE /\ pending' = [pending EXCEPT ![s] = {0}]
             /\ header' = [header EXCEPT ![s] = NewHeader(2)]
             /\ GoTo(p, "catalog")
    <3>1. pc'[p] = "catalog" /\ opening' = opening /\ pending'[s] = {0}
          /\ header'[s] = NewHeader(2)
      BY <1>0, <1>2, <1>4, <2>2, Zenon DEF TypeOK, GoTo, BootstrapHeader
    <3>2. BootstrapOfIsOrdered(p)'
      BY <3>1, Zenon DEF BootstrapOfIsOrdered
    <3> QED BY <1>1, <1>3, <1>4, <2>1, <2>2, <3>2, BootstrapGoesOn, Zenon
        DEF BootstrapHeader, GoTo, diskVars
  <2>3. CASE GoTo(p, "fail") /\ UNCHANGED <<pending, header>>
    <3>1. BootstrapOfIsOrdered(p)'
      BY <1>0, <2>3, NoBootstrap, Zenon DEF TypeOK, GoTo
    <3> QED BY <1>1, <1>3, <1>4, <2>1, <2>3, <3>1, BootstrapGoesOn, Zenon
        DEF BootstrapHeader, GoTo, diskVars
  <2> QED BY <1>4, <2>2, <2>3, Zenon DEF BootstrapHeader
<1>5. CASE BootstrapCatalog(p)
  <2>1. header[s] = NewHeader(2) /\ pending[s] = {0}
    BY <1>0, <1>5, Zenon DEF BootstrapCatalog, BootstrapOfIsOrdered
  <2>2. FilesAreKept
    BY <1>2, <1>5, <2>1, HeaderWrite, FilesStay, Zenon DEF BootstrapCatalog
  <2>3. PICK ids \in SUBSET {0, 1}, label \in {"commit", "fail"} :
          /\ pending' = [pending EXCEPT ![s] = ids]
          /\ pc' = [pc EXCEPT ![p] = label]
          /\ label = "commit" => 1 \in ids /\ (0 \in ids \/ WriteHeader(s))
    BY <1>2, <1>5, <2>1, Zenon DEF BootstrapCatalog, GoTo
  <2>4. /\ pc'[p] = label /\ pending'[s] = ids
        /\ opening' = opening /\ path' = path /\ header' = header
    BY <1>0, <1>2, <1>5, <2>3, Zenon DEF TypeOK, BootstrapCatalog
  <2>5. WriteHeader(s) => header_on_disk
    BY <1>2, <2>1, HeaderWrite, Zenon DEF HeaderIsWritten
  <2>6. BootstrapOfIsOrdered(p)'
    BY <2>1, <2>3, <2>4, <2>5, Zenon DEF BootstrapOfIsOrdered, HeaderIsWritten
  <2>7. /\ header' = [header EXCEPT ![s] = header[s]]
        /\ UNCHANGED <<log_files, opening, options, path, state, handles, stores, created>>
    BY <1>3, <1>5, Zenon DEF BootstrapCatalog
  <2> QED BY <1>1, <1>3, <2>2, <2>3, <2>6, <2>7, BootstrapGoesOn, Zenon
<1>6. CASE CommitPage(p)
  <2>1. /\ header[s] = NewHeader(2)
        /\ 0 \notin pending[s] => HeaderIsWritten(f)
        /\ 1 \notin pending[s] => Len(files[f]) >= 2
    BY <1>0, <1>6, Zenon DEF CommitPage, BootstrapOfIsOrdered
  <2>2. /\ pc' = pc /\ pc[p] = "commit" /\ opening' = opening /\ path' = path
        /\ header' = header
    BY <1>6, Zenon DEF CommitPage, callVars
  <2>3. /\ pc' = [pc EXCEPT ![p] = "commit"]
        /\ header' = [header EXCEPT ![s] = header[s]]
        /\ UNCHANGED <<log_files, opening, options, path, state, handles, stores, created>>
    BY <1>3, <1>6, <2>2, Zenon DEF CommitPage, callVars
  <2>4. CASE 0 \in pending[s]
    <3>1. WriteHeader(s) /\ pending' = [pending EXCEPT ![s] = @ \ {0}]
      BY <1>6, <2>4, Zenon DEF CommitPage
    <3>2. FilesAreKept /\ header_on_disk
      BY <1>2, <2>1, <3>1, HeaderWrite, Zenon DEF HeaderIsWritten
    <3>3. Len(files[f]) \in Nat /\ Len(files'[f]) \in Nat
      BY <1>0, <1>2, <3>2 DEF TypeOK, FilesTypeOK, FilesAreKept
    <3>4. 1 \notin pending[s] => Len(files'[f]) >= 2
      BY <1>2, <2>1, <3>2, <3>3 DEF FilesAreKept
    <3>5. pending'[s] = pending[s] \ {0}
      BY <1>0, <1>2, <3>1, Zenon DEF TypeOK
    <3>6. BootstrapOfIsOrdered(p)'
      BY <2>1, <2>2, <3>2, <3>4, <3>5, Zenon
         DEF BootstrapOfIsOrdered, HeaderIsWritten
    <3>7. pending[s] \ {0} \in SUBSET {0, 1}
      BY <1>3, Zenon
    <3> QED BY <1>1, <1>3, <2>3, <3>1, <3>2, <3>6, <3>7, BootstrapGoesOn, Zenon
  <2>5. CASE 0 \notin pending[s]
    <3>1. WriteLibcFile(s, 1, ZeroPage) /\ pending' = [pending EXCEPT ![s] = {}]
      BY <1>6, <2>5, Zenon DEF CommitPage
    <3>2. FilesAreKept /\ Len(files'[f]) >= 2
      BY <1>2, <3>1, CatalogWrite, Zenon
    <3>3. header_on_disk
      BY <1>2, <2>1, <2>5, <3>2, Zenon DEF FilesAreKept, HeaderIsWritten
    <3>4. pending'[s] = {}
      BY <1>0, <1>2, <3>1, Zenon DEF TypeOK
    <3>5. BootstrapOfIsOrdered(p)'
      BY <2>1, <2>2, <3>2, <3>3, <3>4, Zenon
         DEF BootstrapOfIsOrdered, HeaderIsWritten
    <3> QED BY <1>1, <1>3, <2>3, <3>1, <3>2, <3>5, BootstrapGoesOn, Zenon
  <2> QED BY <2>4, <2>5, Zenon
<1> QED BY <1>4, <1>5, <1>6, Zenon

\* StoreImpl::Bootstrap's commit ends, and the store is created.
LEMMA CommitDoneKeepsInv ==
  ASSUME Inv, NEW p \in Pools, CommitDone(p)
  PROVE  Inv' /\ FilesAreKept
<1> DEFINE s == opening[p]
           f == path[s]
<1>0. TypeOK /\ PoolInv(p) /\ BootstrapOfIsOrdered(p)
  BY PoolsInv, Zenon DEF Inv, PoolInv
<1>1. /\ s \in Stores /\ f \in DOMAIN files /\ f \in Paths /\ PoolOf[s] = p
      /\ state[s] = "kOpen" /\ handles[s] = {"data", "log"}
  BY StoreOfCall, Zenon DEF CommitDone
<1>2. /\ pc' = [pc EXCEPT ![p] = "idle"] /\ opening' = [opening EXCEPT ![p] = None]
      /\ created' = created \union {f}
      /\ UNCHANGED <<files, log_files, options, path, state, handles, header, pending,
                     stores>>
  BY Zenon DEF CommitDone, Return, GoTo, diskVars, storeVars
<1>3. pc'[p] = "idle" /\ opening'[p] = None
  BY <1>0, <1>2, Zenon DEF TypeOK
<1>4. FilesAreKept /\ FilesTypeOK' /\ FirstPagesAreReserved'
  BY <1>2, FilesStay, Zenon DEF FilesAreKept
<1>5. TypeOK'
  BY <1>0, <1>1, <1>2, <1>4, Zenon DEF TypeOK
<1>6. OnlyConcerns(p)
  BY <1>0, <1>2, Zenon DEF OnlyConcerns, TypeOK
<1>7. PoolInv(p)'
  <2>1. BootstrapOfIsOrdered(p)'
    BY <1>3, NoBootstrap, Zenon
  <2>2. stores'[p] = stores[p] \union {s}
    BY <1>0, <1>1, <1>2, Zenon DEF PoolInv
  <2>3. pc[p] # "idle"
    BY Zenon DEF CommitDone
  <2> QED BY <1>1, <1>2, <1>3, <2>1, <2>2, <2>3, CallGoesOn, Zenon
<1>8. Len(files[f]) >= 2 /\ files[f][1] = Serialize(NewHeader(2))
  BY <1>0, Zenon DEF CommitDone, BootstrapOfIsOrdered, HeaderIsWritten
<1>9. CreatedStoresAreComplete' /\ (created \subseteq DOMAIN files)'
  BY <1>1, <1>2, <1>8, Zenon DEF Inv, CreatedStoresAreComplete
<1>10. OpenFilesExist' /\ ExclusiveStoresAreAlone'
  BY <1>2, <1>4, SameOpenFiles, Zenon
<1> QED BY <1>4, <1>5, <1>6, <1>7, <1>9, <1>10, PoolStep, Zenon DEF Inv

\* OpenStore closes the store whose Bootstrap failed.
LEMMA FailToOpenKeepsInv ==
  ASSUME Inv, NEW p \in Pools, FailToOpen(p)
  PROVE  Inv' /\ FilesAreKept
<1> DEFINE s == opening[p]
<1>0. TypeOK /\ PoolInv(p) /\ pc[p] # "idle"
  BY PoolsInv, Zenon DEF Inv, FailToOpen
<1>1. s \in Stores /\ PoolOf[s] = p
  BY <1>0, StoreOfCall, Zenon
<1>2. /\ pc' = [pc EXCEPT ![p] = "idle"] /\ opening' = [opening EXCEPT ![p] = None]
      /\ state' = [state EXCEPT ![s] = "none"]
      /\ handles' = [handles EXCEPT ![s] = {}]
      /\ stores' = [stores EXCEPT ![p] = @ \ {s}]
      /\ UNCHANGED <<files, log_files, options, path, header, pending, created>>
  BY <1>1, Zenon DEF FailToOpen, CloseStore, Return, GoTo, diskVars
<1>3. /\ pc'[p] = "idle" /\ opening'[p] = None
      /\ state'[s] = "none" /\ handles'[s] = {} /\ stores'[p] = stores[p] \ {s}
      /\ \A t \in Stores \ {s} : state'[t] = state[t] /\ handles'[t] = handles[t]
  BY <1>0, <1>1, <1>2, Zenon DEF TypeOK
<1>4. FilesAreKept /\ FilesTypeOK' /\ BootstrapOfIsOrdered(p)'
  BY <1>2, <1>3, FilesStay, NoBootstrap, Zenon DEF FilesAreKept
<1>5. TypeOK'
  BY <1>0, <1>1, <1>2, <1>4, Zenon DEF TypeOK
<1>6. OnlyConcerns(p)
  BY <1>0, <1>1, <1>2, Zenon DEF OnlyConcerns, TypeOK
<1>7. PoolInv(p)'
  BY <1>0, <1>1, <1>3, <1>4, CallGoesOn, Zenon
<1>8. OpenFilesExist' /\ ExclusiveStoresAreAlone'
  BY <1>2, <1>3, <1>4, SameOpenFiles, Zenon
<1> QED BY <1>2, <1>4, <1>5, <1>6, <1>7, <1>8, StepKeepsInv, Zenon

\* StoreImpl::Close and Release: a store is closed, or a closed one released.
LEMMA ClosingKeepsInv ==
  ASSUME Inv, NEW s \in Stores, Close(s) \/ Release(s)
  PROVE  Inv' /\ FilesAreKept
<1> DEFINE p == PoolOf[s]
<1>0. p \in Pools
  BY StoreAssumption, Zenon
<1>1. TypeOK /\ PoolInv(p) /\ pc[p] = "idle"
  BY <1>0, PoolsInv, Zenon DEF Inv, Close, Release
<1>2. PICK next_state \in {"none", "kClosed"} :
        /\ state' = [state EXCEPT ![s] = next_state]
        /\ \/ /\ handles' = [handles EXCEPT ![s] = {}]
              /\ stores' = [stores EXCEPT ![p] = @ \ {s}]
           \/ state[s] = "kClosed" /\ UNCHANGED <<handles, stores>>
  BY Zenon DEF Close, Release, CloseStore
<1>3. UNCHANGED <<files, log_files, pc, opening, options, path, header, pending, created>>
  BY Zenon DEF Close, Release, diskVars, callVars
<1>4. /\ state'[s] = next_state
      /\ handles'[s] = {} /\ stores'[p] = stores[p] \ {s}
      /\ \A t \in Stores \ {s} : state'[t] = state[t] /\ handles'[t] = handles[t]
  <2>1. opening[p] = None /\ None \notin Stores
    BY <1>1, StoreAssumption, Zenon DEF PoolInv, CallOwnsItsStore
  <2>2. state[s] = "kClosed" => handles[s] = {} /\ s \notin stores[p]
    BY <1>1, <2>1, Zenon DEF PoolInv, HandleIsOwned
  <2> QED BY <1>0, <1>1, <1>2, <2>2 DEF TypeOK
<1>5. FilesAreKept /\ FilesTypeOK' /\ BootstrapOfIsOrdered(p)'
  BY <1>0, <1>1, <1>3, FilesStay, NoBootstrap, Zenon DEF FilesAreKept
<1>6. TypeOK'
  BY <1>0, <1>1, <1>2, <1>3, <1>5 DEF TypeOK
<1>7. OnlyConcerns(p)
  BY <1>0, <1>1, <1>2, <1>3, Zenon DEF OnlyConcerns, TypeOK
<1>8. PoolInv(p)'
  <2>1. CallOwnsItsStore(p)'
    BY <1>1, <1>3, Zenon DEF PoolInv, CallOwnsItsStore
  <2>2. stores'[p] = {t \in Stores : PoolOf[t] = p /\ state'[t] = "kOpen"}
    BY <1>1, <1>4, Zenon DEF PoolInv
  <2>3. HandleIsOwned(s)'
    BY <1>4, Zenon DEF HandleIsOwned
  <2>4. \A t \in Stores \ {s} : PoolOf[t] = p => HandleIsOwned(t)'
    BY <1>1, <1>3, <1>4, ZenonT(60) DEF PoolInv, HandleIsOwned
  <2> QED BY <1>5, <2>1, <2>2, <2>3, <2>4, Zenon DEF PoolInv
<1>9. OpenFilesExist' /\ ExclusiveStoresAreAlone'
  BY <1>3, <1>4, <1>5, SameOpenFiles, Zenon
<1> QED BY <1>0, <1>3, <1>5, <1>6, <1>7, <1>8, <1>9, StepKeepsInv, Zenon

\* The application writes a page of its own.
LEMMA WritePageKeepsInv ==
  ASSUME Inv, NEW s \in Stores, NEW id \in 2..(MaxPages - 1), WritePage(s, id)
  PROVE  Inv' /\ FilesAreKept
<1> DEFINE p == PoolOf[s]
           f == path[s]
<1>0. p \in Pools
  BY StoreAssumption, Zenon
<1>1. TypeOK /\ FilesTypeOK /\ FirstPagesAreReserved /\ PoolInv(p) /\ pc[p] = "idle"
  BY <1>0, PoolsInv, Zenon DEF Inv, TypeOK, WritePage
<1>2. handles[s] = {"data", "log"}
  BY <1>1, Zenon DEF WritePage, InUse, PoolInv, HandleIsOwned
<1>3. f \in DOMAIN files
  BY <1>2, Zenon DEF Inv, OpenFilesExist
<1>4. id \in 0..(MaxPages - 1) /\ id # 0 /\ ~(id < 2) /\ DataPage \in Contents
  BY StoreAssumption DEF Contents
<1>5. FilesAreKept
  BY <1>1, <1>3, <1>4, WrittenFiles, Zenon DEF WritePage
<1>6. UNCHANGED <<log_files, pc, opening, options, path, state, handles, header, pending,
                  stores, created>>
  BY Zenon DEF WritePage, callVars, storeVars
<1>7. FilesTypeOK' /\ BootstrapOfIsOrdered(p)'
  BY <1>0, <1>1, <1>5, <1>6, NoBootstrap, Zenon DEF FilesAreKept
<1>8. TypeOK' /\ OnlyConcerns(p)
  BY <1>1, <1>6, <1>7, Zenon DEF TypeOK, OnlyConcerns
<1>9. PoolInv(p)'
  BY <1>1, <1>6, <1>7, Zenon DEF PoolInv, CallOwnsItsStore, HandleIsOwned
<1>10. OpenFilesExist' /\ ExclusiveStoresAreAlone'
  BY <1>5, <1>6, SameOpenFiles, Zenon
<1> QED BY <1>0, <1>5, <1>6, <1>8, <1>9, <1>10, StepKeepsInv, Zenon

\* A process dies.
LEMMA CrashKeepsInv ==
  ASSUME Inv, NEW p \in Pools, Crash(p)
  PROVE  Inv' /\ FilesAreKept
<1>1. TypeOK /\ PoolInv(p)
  BY PoolsInv, Zenon DEF Inv
<1>2. UNCHANGED <<files, log_files, options, path, header, created>>
  BY Zenon DEF Crash, diskVars
<1>3. /\ \A s \in Stores :
           IF PoolOf[s] = p THEN state'[s] = "none" /\ handles'[s] = {} /\ pending'[s] = {}
           ELSE state'[s] = state[s] /\ handles'[s] = handles[s] /\ pending'[s] = pending[s]
      /\ pc'[p] = "idle" /\ opening'[p] = None /\ stores'[p] = {}
  BY <1>1, Zenon DEF Crash, Return, GoTo, TypeOK
<1>4. FilesAreKept /\ FilesTypeOK' /\ BootstrapOfIsOrdered(p)'
  BY <1>2, <1>3, FilesStay, NoBootstrap, Zenon DEF FilesAreKept
<1>5. TypeOK'
  BY <1>1, <1>2, <1>4, Zenon DEF TypeOK, Crash, Return, GoTo
<1>6. OnlyConcerns(p)
  BY <1>1, <1>2, <1>3, Zenon DEF OnlyConcerns, TypeOK, Crash, Return, GoTo
<1>7. PoolInv(p)'
  BY <1>3, <1>4, Zenon DEF PoolInv, CallOwnsItsStore, HandleIsOwned
<1>8. OpenFilesExist' /\ ExclusiveStoresAreAlone'
  BY <1>2, <1>3, <1>4, SameOpenFiles, Zenon
<1> QED BY <1>2, <1>4, <1>5, <1>6, <1>7, <1>8, StepKeepsInv, Zenon

-----------------------------------------------------------------------------
(* Theorems *)

\* Before the first call, no data file exists and no store is open.
LEMMA InitInv ==
  ASSUME Init
  PROVE  Inv
<1> USE DEF Init
<1>1. (CHOOSE f \in Paths : TRUE) \in Paths
  BY StoreAssumption, Zenon
<1>2. (CHOOSE o \in StoreOptions : TRUE) \in StoreOptions
  <2>1. [create_if_missing |-> TRUE, error_if_exists |-> FALSE] \in StoreOptions
    BY Zenon DEF StoreOptions
  <2> QED BY <2>1, Zenon
<1>3. NewHeader(0) \in {NewHeader(n) : n \in 0..MaxPages}
  BY StoreAssumption
<1>4. FilesTypeOK /\ FirstPagesAreReserved /\ DOMAIN files = {}
  BY Zenon DEF FilesTypeOK, FirstPagesAreReserved
<1>5. TypeOK
  BY <1>1, <1>2, <1>3, <1>4, Zenon DEF TypeOK
<1>6. CallsOwnTheirStore /\ BootstrapIsOrdered
  BY Zenon DEF CallsOwnTheirStore, BootstrapIsOrdered
<1>7. HandlesAreOwned /\ OpenStoresAreRegistered /\ OpenFilesExist
      /\ ExclusiveStoresAreAlone /\ CreatedStoresAreComplete
  BY Zenon
     DEF HandlesAreOwned, OpenStoresAreRegistered, OpenFilesExist,
         ExclusiveStoresAreAlone, CreatedStoresAreComplete
<1> QED BY <1>4, <1>5, <1>6, <1>7, Zenon DEF Inv

\* Every step keeps the invariant and the data files.
LEMMA NextKeepsInv ==
  ASSUME Inv, [Next]_vars
  PROVE  Inv' /\ FilesAreKept
<1>1. CASE Next
  <2>1. ASSUME NEW p \in Pools, OpenStore(p)
        PROVE  Inv' /\ FilesAreKept
    BY <2>1, OpenDataFileKeepsInv, CallStepKeepsInv, BootstrapStepKeepsInv,
       CommitDoneKeepsInv, FailToOpenKeepsInv, Zenon
       DEF OpenStore
  <2>2. ASSUME NEW p \in Pools, Crash(p)
        PROVE  Inv' /\ FilesAreKept
    BY <2>2, CrashKeepsInv, Zenon
  <2>3. ASSUME NEW s \in Stores, Close(s) \/ Release(s)
        PROVE  Inv' /\ FilesAreKept
    BY <2>3, ClosingKeepsInv, Zenon
  <2>4. ASSUME NEW s \in Stores, NEW id \in 2..(MaxPages - 1), WritePage(s, id)
        PROVE  Inv' /\ FilesAreKept
    BY <2>4, WritePageKeepsInv, Zenon
  <2> QED BY <1>1, <2>1, <2>2, <2>3, <2>4, Zenon DEF Next
<1>2. CASE UNCHANGED vars
  <2>1. UNCHANGED <<files, log_files, pc, opening, options, path, state, handles, header,
                    pending, stores, created>>
    BY <1>2, Zenon DEF vars, diskVars, callVars, storeVars
  <2>2. FilesAreKept
    BY <2>1, FilesStay, Zenon
  <2>3. TypeOK' /\ CallsOwnTheirStore' /\ HandlesAreOwned' /\ OpenStoresAreRegistered'
    BY <2>1, ZenonT(60)
       DEF Inv, TypeOK, FilesTypeOK, CallsOwnTheirStore, HandlesAreOwned,
           OpenStoresAreRegistered
  <2>4. OpenFilesExist' /\ ExclusiveStoresAreAlone' /\ FirstPagesAreReserved'
    BY <2>1, Zenon
       DEF Inv, OpenFilesExist, ExclusiveStoresAreAlone, FirstPagesAreReserved
  <2>5. BootstrapIsOrdered' /\ CreatedStoresAreComplete' /\ (created \subseteq DOMAIN files)'
    BY <2>1, Zenon
       DEF Inv, BootstrapIsOrdered, HeaderIsWritten, CreatedStoresAreComplete
  <2> QED BY <2>2, <2>3, <2>4, <2>5, Zenon DEF Inv
<1> QED BY <1>1, <1>2, Zenon

\* The invariant holds however the processes' OpenStore, Close and Release calls,
\* their writes and their crashes interleave.
THEOREM OpenStoreInvariant == Spec => []Inv
<1>1. Init => Inv
  BY InitInv, Zenon
<1>2. Inv /\ [Next]_vars => Inv'
  BY NextKeepsInv, Zenon
<1> QED BY <1>1, <1>2, PTL DEF Spec

\* The error paths of OpenStore, Close, Release and the end of a process close
\* what was opened.
THEOREM NoHandleLeaks == Spec => []HandlesAreOwned
<1>1. Inv => HandlesAreOwned
  BY Zenon DEF Inv
<1> QED BY <1>1, OpenStoreInvariant, PTL

\* PoolImpl::stores_ has exactly the pool's open stores.
THEOREM PoolsKnowTheirStores == Spec => []OpenStoresAreRegistered
<1>1. Inv => OpenStoresAreRegistered
  BY Zenon DEF Inv
<1> QED BY <1>1, OpenStoreInvariant, PTL

\* error_if_exists gives the file to one of the processes that race for it.
THEOREM ExclusiveOpensExclude == Spec => []ExclusiveStoresAreAlone
<1>1. Inv => ExclusiveStoresAreAlone
  BY Zenon DEF Inv
<1> QED BY <1>1, OpenStoreInvariant, PTL

\* A store whose creation has succeeded keeps its header and its root catalog page.
THEOREM CreationIsComplete == Spec => []CreatedStoresAreComplete
<1>1. Inv => CreatedStoresAreComplete
  BY Zenon DEF Inv
<1> QED BY <1>1, OpenStoreInvariant, PTL

\* No call, failure or crash shortens a data file or changes the application's
\* pages in it.
THEOREM DataIsKept == Spec => OpensKeepData
<1>1. Inv /\ [Next]_vars =>
        [\A f \in DOMAIN files :
           /\ f \in DOMAIN files'
           /\ Len(files'[f]) >= Len(files[f])
           /\ \A i \in 1..Len(files[f]) :
                files[f][i] = DataPage => files'[f][i] = DataPage]_vars
  BY NextKeepsInv, Zenon DEF FilesAreKept
<1> QED BY <1>1, OpenStoreInvariant, PTL DEF Spec, OpensKeepData
=============================================================================
