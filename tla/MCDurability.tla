---------------------------- MODULE MCDurability ----------------------------
(***************************************************************************)
(* Durability for TLC, on the instances of MCStoreImpl.                    *)
(***************************************************************************)
EXTENDS MCStoreImpl, Durability
=============================================================================
