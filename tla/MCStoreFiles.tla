---------------------------- MODULE MCStoreFiles ----------------------------
(***************************************************************************)
(* StoreFiles for TLC.                                                     *)
(***************************************************************************)
EXTENDS StoreFiles, TLC

CONSTANTS a, b, s1, s2, s3

\* Two processes, one of which may have the same store open twice.
MCPoolOf == s1 :> a @@ s2 :> a @@ s3 :> b
=============================================================================
