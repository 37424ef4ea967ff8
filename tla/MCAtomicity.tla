---------------------------- MODULE MCAtomicity ----------------------------
(***************************************************************************)
(* Atomicity for TLC, on the instances of MCStoreImpl.                     *)
(***************************************************************************)
EXTENDS MCStoreImpl, Atomicity
=============================================================================
