------------------------------- MODULE Lists -------------------------------
(***************************************************************************)
(* util/linked_list.h as the rest of the library sees it: a list is a      *)
(* sequence without duplicates.  push_back is Append, push_front and       *)
(* pop_front are <<e>> \o s and Tail, and erase removes a given element.   *)
(***************************************************************************)
EXTENDS Naturals, Sequences, FiniteSets, Functions

\* The sequence s without its k-th element.
Cut(s, k) == SubSeq(s, 1, k - 1) \o SubSeq(s, k + 1, Len(s))

\* LinkedList::erase(value_type).
Erase(s, e) ==
  IF e \in Range(s) THEN Cut(s, CHOOSE i \in DOMAIN s : s[i] = e) ELSE s
=============================================================================
