----------------------------- MODULE MCLibcVfs -----------------------------
(***************************************************************************)
(* LibcVfs for TLC.                                                        *)
(***************************************************************************)
EXTENDS LibcVfs, TLC

CONSTANTS h1, h2, a, b

\* Two processes with a file object each.
MCProcessOf == h1 :> a @@ h2 :> b

\* The processes, with their objects, are alike too.
SwapProcesses == h1 :> h2 @@ h2 :> h1 @@ a :> b @@ b :> a

FileSymmetry ==
  Permutations(Nodes) \union Permutations(Data) \union {SwapProcesses}
=============================================================================
