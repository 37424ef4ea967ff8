------------------------------- MODULE MCApi -------------------------------
(***************************************************************************)
(* Api for TLC, on the instances of MCStoreImpl.                           *)
(***************************************************************************)
EXTENDS MCStoreImpl, Api

ObjectSymmetry == StoreSymmetry \union Permutations(Frames)
=============================================================================
