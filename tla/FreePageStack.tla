--------------------------- MODULE FreePageStack ---------------------------
(***************************************************************************)
(* What a free page list promises: it is a stack of page numbers, and a    *)
(* page is on one list, in use, or lost.  After a merge the store's list   *)
(* has its pages in some order, and may have lost some of them.            *)
(***************************************************************************)
EXTENDS Naturals, Sequences, Functions

CONSTANTS Pages, StoreList, TxnLists, FreeLists

VARIABLES stack,   \* the free pages of each list, next page to pop last
          in_use   \* the pages that are not free

PushFree(l, p) ==
  /\ p \in in_use
  /\ stack' = [stack EXCEPT ![l] = Append(@, p)]
  /\ in_use' = in_use \ {p}

PopFree(l) ==
  /\ stack[l] # <<>>
  /\ in_use' = in_use \union {stack[l][Len(stack[l])]}
  /\ stack' = [stack EXCEPT ![l] = SubSeq(@, 1, Len(@) - 1)]

MergeFree(o) ==
  /\ IsInjective(stack'[StoreList])
  /\ Range(stack'[StoreList]) \subseteq Range(stack[StoreList]) \union Range(stack[o])
  /\ stack'[o] = <<>>
  /\ \A l \in TxnLists \ {o} : stack'[l] = stack[l]
  /\ UNCHANGED in_use

StackInit ==
  /\ stack = [l \in FreeLists |-> <<>>]
  /\ in_use = Pages

StackNext ==
  \/ \E l \in FreeLists : PopFree(l) \/ \E p \in Pages : PushFree(l, p)
  \/ \E o \in TxnLists : MergeFree(o)

StackSpec == StackInit /\ [][StackNext]_<<stack, in_use>>
=============================================================================
