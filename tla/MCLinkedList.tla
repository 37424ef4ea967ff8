---------------------------- MODULE MCLinkedList ----------------------------
(***************************************************************************)
(* LinkedList for TLC.                                                     *)
(***************************************************************************)
EXTENDS LinkedList, TLC

NodeSymmetry == Permutations(Nodes) \union Permutations(Sentinels)
=============================================================================
