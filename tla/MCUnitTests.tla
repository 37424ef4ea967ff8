---------------------------- MODULE MCUnitTests ----------------------------
(***************************************************************************)
(* The repository's unit tests for TLC.  suite says which model the        *)
(* running test is about; the other models stay in their initial states.   *)
(* A model of the pool has as many frames as the test's pool has pages.    *)
(***************************************************************************)
EXTENDS Naturals, Sequences, FiniteSets, TLC

CONSTANTS f1, f2, f3, f4, s1, i1, t1, Garbage, NoFrame, NoTxn,
          zero, b1, b2, b3, b4,
          p1, n1, h1, a, Hole, Torn, NoNode,
          list, empty, one, two, host1, host2, host3, null

VARIABLES suite, script,
          local, access_error,
          head_page_id, tail_page_id, op, status, popped, used, held,
          transaction, page_id, pin_count, is_dirty, data, pool_pages,
          allocated, free_list, lru_list, page_map, disk,
          live, is_closed, is_committed, pc, loop_page, state, transactions,
          rollback_queue, cursor, request, calls, pins, blank, writer, failed,
          objects, handles, broken,
          dir, content, fp, buffer, phase, args, result,
          next, prev, list_sentinel, size, lists, items,
          files, log_files, opening, options, path, header, pending, stores,
          created, file_pc, file_state, file_handles,
          memory, header_object, accepted

\* StoreImpl's variables, which the suites of pools and of the API share, and
\* op and status, which both of them have.
storeImplVars == <<transaction, page_id, pin_count, is_dirty, data, pool_pages,
                   allocated, free_list, lru_list, page_map, disk, live,
                   is_closed, is_committed, pc, loop_page, state, transactions,
                   rollback_queue, cursor, request, calls, pins, blank, writer,
                   failed, op, status>>
poolVars == <<local, access_error, head_page_id, tail_page_id, popped, used, held>>
apiVars == <<objects, handles, broken>>
fileVars == <<dir, content, fp, buffer, phase, args, result>>
listVars == <<next, prev, list_sentinel, size, lists, items>>
storeFileVars == <<files, log_files, opening, options, path, header, pending,
                   stores, created, file_pc, file_state, file_handles>>
memoryVars == <<memory, header_object, accepted>>
vars == <<suite, script, storeImplVars, poolVars, apiVars, fileVars, listVars,
          storeFileVars, memoryVars>>

TestBuffers == (0 :> zero) @@ (1 :> b1) @@ (2 :> b2) @@ (3 :> b3) @@ (4 :> b4)

Pool(Frames) == INSTANCE PoolTests WITH
  Stores <- {s1}, Txns <- {i1, t1}, StoreOf <- (i1 :> s1) @@ (t1 :> s1),
  InitTxn <- (s1 :> i1), PageIds <- (0..9) \union {42}, Values <- {zero, Garbage},
  WritesCanFail <- FALSE, ReadsCanFail <- TRUE, MaxPins <- 3,
  TheStore <- s1, TheTxn <- t1, PageSize <- 32, Buffers <- TestBuffers

Api == INSTANCE ApiTests WITH
  Frames <- {f1, f2},
  Stores <- {s1}, Txns <- {i1, t1}, StoreOf <- (i1 :> s1) @@ (t1 :> s1),
  InitTxn <- (s1 :> i1), PageIds <- {0, 1}, Values <- {zero, Garbage},
  WritesCanFail <- FALSE, ReadsCanFail <- FALSE, MaxPins <- 1,
  TheStore <- s1, TheTxn <- t1

Files == INSTANCE VfsTests WITH
  Paths <- {p1}, Nodes <- {n1}, Handles <- {h1}, ProcessOf <- (h1 :> a),
  Data <- 0..16, MaxBlocks <- 7, CanFail <- FALSE, TheFile <- h1, kFileName <- p1

Lists == INSTANCE LinkedListTests WITH
  Nodes <- {host1, host2, host3}, Sentinels <- {list, empty, one, two},
  nullptr <- null

StoreFiles == INSTANCE StoreFileTests WITH
  Pools <- {a}, Paths <- {p1}, Stores <- {s1}, PoolOf <- (s1 :> a),
  DataPage <- b1, MaxPages <- 3, CanFail <- FALSE,
  kGlobalMagic <- 10, kStoreMagic <- 11, PageShift <- 12,
  ThePool <- a, TheStore <- s1, kFileName <- p1,
  pc <- file_pc, state <- file_state, handles <- file_handles

Formats(LittleEndian) == INSTANCE FormatTests WITH header <- header_object

-----------------------------------------------------------------------------
\* The suites of the pool, by the capacity of their tests' pools.
Capacity == ("pool of 1" :> {f1}) @@ ("pool of 2" :> {f1, f2}) @@
            ("pool of 3" :> {f1, f2, f3}) @@ ("pool of 4" :> {f1, f2, f3, f4})

Init ==
  /\ \/ \E n \in DOMAIN Capacity :
          /\ suite = n /\ Pool(Capacity[n])!SetUp /\ Pool(Capacity[n])!PoolTestCases
          /\ objects = {} /\ handles = {} /\ broken = {}
     \/ /\ suite = "api" /\ Api!InitA /\ Api!ApiTestCases
        /\ local = <<>> /\ access_error = FALSE /\ held = NoFrame
        /\ head_page_id = 0 /\ tail_page_id = 0 /\ popped = 0 /\ used = {}
     \/ /\ suite \in {"files", "lists", "store files", "formats", "big-endian formats"}
        /\ Pool({f1})!SetUp
        /\ objects = {} /\ handles = {} /\ broken = {}
        /\ \/ suite = "files" /\ Files!VfsTestCases
           \/ suite = "lists" /\ Lists!ListTestCases
           \/ suite = "store files" /\ script = StoreFiles!CreateOptions
           \/ suite = "formats" /\ Formats(TRUE)!FormatTestCases
           \/ suite = "big-endian formats" /\ Formats(FALSE)!FormatTestCases
  /\ Files!VfsInit
  /\ Lists!ListSetUp
  /\ StoreFiles!Init
  /\ Formats(TRUE)!FormatInit

PoolTest ==
  /\ \E n \in DOMAIN Capacity : suite = n /\ Pool(Capacity[n])!RunTest
  /\ UNCHANGED <<suite, apiVars, fileVars, listVars, storeFileVars, memoryVars>>

ApiTest ==
  /\ suite = "api" /\ Api!RunApiTest
  /\ UNCHANGED <<suite, poolVars, fileVars, listVars, storeFileVars, memoryVars>>

VfsTest ==
  /\ suite = "files" /\ Files!RunVfsTest
  /\ UNCHANGED <<suite, storeImplVars, poolVars, apiVars, listVars, storeFileVars, memoryVars>>

LinkedListTest ==
  /\ suite = "lists" /\ Lists!RunListTest
  /\ UNCHANGED <<suite, storeImplVars, poolVars, apiVars, fileVars, storeFileVars, memoryVars>>

StoreFileTest ==
  /\ suite = "store files" /\ StoreFiles!RunFileTest
  /\ UNCHANGED <<suite, storeImplVars, poolVars, apiVars, fileVars, listVars, memoryVars>>

FormatTest ==
  /\ \/ suite = "formats" /\ Formats(TRUE)!RunFormatTest
     \/ suite = "big-endian formats" /\ Formats(FALSE)!RunFormatTest
  /\ UNCHANGED <<suite, storeImplVars, poolVars, apiVars, fileVars, listVars,
                 storeFileVars>>

\* A test that has been run to its end, with every call returned.  Anything else
\* that cannot go on is a deadlock: a step of a test that the model refuses.
Done == script = <<>> /\ calls = <<>> /\ file_pc[a] = "idle" /\ UNCHANGED vars

Next ==
  \/ PoolTest \/ ApiTest \/ VfsTest \/ LinkedListTest \/ StoreFileTest
  \/ FormatTest \/ Done

Spec == Init /\ [][Next]_vars

\* The models do what the repository's tests expect of the code, at every
\* EXPECT and ASSERT of the tests that are modelled.
ExpectationsHold ==
  /\ \A n \in DOMAIN Capacity : suite = n => Pool(Capacity[n])!ExpectationHolds
  /\ suite = "api" => Api!ApiExpectationHolds
  /\ suite = "files" => Files!VfsExpectationHolds
  /\ suite = "lists" => Lists!ListExpectationHolds
  /\ suite = "store files" => StoreFiles!FileExpectationHolds
  /\ suite = "formats" => Formats(TRUE)!FormatExpectationHolds
  /\ suite = "big-endian formats" => Formats(FALSE)!FormatExpectationHolds
=============================================================================
