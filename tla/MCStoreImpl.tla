---------------------------- MODULE MCStoreImpl ----------------------------
(***************************************************************************)
(* StoreImpl for TLC: one store with two transactions, or two stores with  *)
(* one transaction each, beside the stores' init transactions.             *)
(***************************************************************************)
EXTENDS StoreImpl, TLC

CONSTANTS f1, f2,      \* frames
          s1, s2,      \* stores
          i1, i2,      \* their init transactions
          t1, t2,      \* the application's transactions
          v0, v1       \* page contents

MCStoreOf1 == [t \in Txns |-> s1]
MCInitTxn1 == s1 :> i1

MCStoreOf2 == (i1 :> s1) @@ (t1 :> s1) @@ (i2 :> s2) @@ (t2 :> s2)
MCInitTxn2 == (s1 :> i1) @@ (s2 :> i2)

\* Frames, contents and the transactions of one store are interchangeable.
FrameSymmetry == Permutations(Frames) \union Permutations(Values \ {Garbage})
FrameTxnSymmetry == FrameSymmetry \union Permutations({t1, t2})

\* The two stores are interchangeable, with their transactions.
StoreSymmetry ==
  {(s1 :> s2) @@ (s2 :> s1) @@ (i1 :> i2) @@ (i2 :> i1) @@ (t1 :> t2) @@ (t2 :> t1)}
    \union Permutations(Values \ {Garbage})
=============================================================================
