--------------------------- MODULE MCFreePageList ---------------------------
(***************************************************************************)
(* FreePageList for TLC, with pages of two entries.                        *)
(***************************************************************************)
EXTENDS FreePageList, TLC

PageSymmetry == Permutations(Pages)
=============================================================================
