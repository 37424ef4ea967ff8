------------------------------ MODULE ApiTests ------------------------------
(***************************************************************************)
(* The tests of pools and stores through the public API                    *)
(* (api/pool_unittest.cc, api/store_unittest.cc), as scripts for the model *)
(* of the API.  Api starts with everything open, and the tests start with  *)
(* nothing, so the model's objects are released first.                     *)
(***************************************************************************)
EXTENDS Api, TestScript

CONSTANTS TheStore, TheTxn

InApiTest == calls = <<>> /\ op = NoOp

TestCall ==
  /\ InApiTest
  /\ \/ Now("Pool::Create") /\ PoolCreate
     \/ Now("OpenStore") /\ OpenNewStore(TheStore, TheTxn)
     \/ Now("CreateTransaction") /\ StoreCreateTransaction(TheTxn)
     \/ Now("ReleaseTransaction") /\ TransactionRelease(TheTxn)
     \/ Now("ReleaseStore") /\ StoreRelease(TheStore)
     \/ Now("ReleasePool") /\ PoolDestroy
     \/ Now("Expect") /\ UNCHANGED <<vars, objects, handles, op, status>>

SetUpApi ==
  << <<"ReleaseStore">>, <<"ReleasePool">>, <<"Pool::Create">>, <<"OpenStore">>,
     Expect("store", [status |-> "kSuccess", IsClosed |-> FALSE]) >>

ReleaseClosesStore ==
  SetUpApi \o
  << <<"ReleasePool">>, Expect("store", [IsClosed |-> TRUE]), <<"ReleaseStore">> >>

CloseAbortsTransaction ==
  SetUpApi \o
  << <<"CreateTransaction">>,
     Expect("txn", [IsCommitted |-> FALSE, IsRolledBack |-> FALSE, TxnIsClosed |-> FALSE]),
     <<"ReleaseStore">>,
     Expect("txn", [IsCommitted |-> FALSE, IsRolledBack |-> TRUE, TxnIsClosed |-> TRUE]),
     <<"ReleaseTransaction">>, <<"ReleasePool">> >>

ApiTestCases == script = ReleaseClosesStore \/ script = CloseAbortsTransaction

RunApiTest ==
  /\ failed = "none"
  /\ \/ TestCall /\ Advance
     \/ OpenStoreStep /\ UNCHANGED script
     \/ Return /\ UNCHANGED script
     \/ Step /\ UNCHANGED <<objects, handles, op, status, script>>
  /\ UNCHANGED broken

\* IsClosed, IsCommitted and IsRolledBack of store.h and transaction.h.
ApiSees(k) ==
  CASE k = "status"       -> status
    [] k = "IsClosed"     -> state[TheStore] = "kClosed"
    [] k = "TxnIsClosed"  -> is_closed[TheTxn]
    [] k = "IsCommitted"  -> is_committed[TheTxn]
    [] k = "IsRolledBack" -> is_closed[TheTxn] /\ ~is_committed[TheTxn]

ApiExpectationHolds ==
  InApiTest /\ Now("Expect") => \A k \in DOMAIN Arg(2) : ApiSees(k) = Arg(2)[k]
=============================================================================
