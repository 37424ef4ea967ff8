----------------------- MODULE MCPooledFreePageList -----------------------
(***************************************************************************)
(* PooledFreePageList for TLC: one store with one transaction at a time.   *)
(***************************************************************************)
EXTENDS PooledFreePageList, TLC

CONSTANTS f1, f2, s1, i1, t1

MCStoreOf == (i1 :> s1) @@ (t1 :> s1)
MCInitTxn == s1 :> i1

\* What the data file holds at first is not read.
MCValues == {ListPage(kInvalidPageId, <<>>), Garbage}

MCFrameSymmetry == Permutations(Frames)
=============================================================================
