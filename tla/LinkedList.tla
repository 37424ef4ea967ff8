----------------------------- MODULE LinkedList -----------------------------
(***************************************************************************)
(* util/linked_list.h: circular, doubly linked lists of nodes that are     *)
(* embedded in the objects they list.                                      *)
(*                                                                         *)
(* A list is known by its sentinel node.  Every pointer of the code is a   *)
(* function on nodes here.  items is a history variable: the sequence that *)
(* the calls so far should have left in each list.  The other modules use  *)
(* such sequences (Lists); Represents says that this is sound.             *)
(*                                                                         *)
(* Nodes and lists come and go like the objects that hold them: a list may *)
(* be destroyed with nodes in it, which keep their pointers to it until    *)
(* they are destroyed too (StoreImpl::Close's local rollback_queue).       *)
(***************************************************************************)
EXTENDS Lists

CONSTANTS Nodes,      \* the nodes of embedders
          Sentinels,  \* the sentinel nodes of lists
          nullptr

ASSUME NodeAssumption ==
  /\ IsFiniteSet(Nodes)
  /\ Nodes \intersect Sentinels = {}
  /\ nullptr \notin Nodes \union Sentinels

VARIABLES next,           \* LinkedListNode::next_
          prev,           \* LinkedListNode::prev_
          list_sentinel,  \* LinkedListNode::list_sentinel_
          size,           \* LinkedList::size_
          lists,          \* the lists that exist
          items           \* what each list should hold

vars == <<next, prev, list_sentinel, size, lists, items>>

\* The k-th node of the list s, where the positions before the first and after
\* the last node are the sentinel's.
NodeAt(s, k) == IF k \in 1..Len(items[s]) THEN items[s][k] ELSE s

\* The sequence q with e in front of its k-th element.
InsertedAt(q, k, e) ==
  [i \in 1..(Len(q) + 1) |->
     IF i < k THEN q[i] ELSE IF i = k THEN e ELSE q[i - 1]]

\* No pointer leads to the memory of the list s.
Unreferenced(s) == \A n \in Nodes : list_sentinel[n] # s

-----------------------------------------------------------------------------
(* LinkedListNode *)

\* Mutant: the successor does not learn of its new predecessor.
InsertBeforeOneWay(n, pos) ==
  /\ list_sentinel' = [list_sentinel EXCEPT ![n] = list_sentinel[pos]]
  /\ next' = [next EXCEPT ![prev[pos]] = n, ![n] = pos]
  /\ prev' = [prev EXCEPT ![n] = prev[pos]]

InsertBefore(n, pos) ==
  /\ list_sentinel' = [list_sentinel EXCEPT ![n] = list_sentinel[pos]]
  /\ next' = [next EXCEPT ![prev[pos]] = n, ![n] = pos]
  /\ prev' = [prev EXCEPT ![n] = prev[pos], ![pos] = n]

\* Mutant: the removed node still looks linked.
RemoveStaysLinked(n) ==
  /\ next' = [next EXCEPT ![prev[n]] = next[n]]
  /\ prev' = [prev EXCEPT ![next[n]] = prev[n]]
  /\ list_sentinel' = [list_sentinel EXCEPT ![n] = nullptr]

Remove(n) ==
  /\ next' = [next EXCEPT ![prev[n]] = next[n], ![n] = nullptr]
  /\ prev' = [prev EXCEPT ![next[n]] = prev[n], ![n] = nullptr]
  /\ list_sentinel' = [list_sentinel EXCEPT ![n] = nullptr]

\* Mutant: the nodes still name the sentinel they came from.
MoveSentinelKeepsOwner(s, other) ==
  IF next[other] = other
  THEN /\ next' = [next EXCEPT ![s] = s]
       /\ prev' = [prev EXCEPT ![s] = s]
       /\ list_sentinel' = [list_sentinel EXCEPT ![s] = s]
  ELSE /\ next' = [next EXCEPT ![s] = next[other], ![other] = other,
                               ![prev[other]] = s]
       /\ prev' = [prev EXCEPT ![s] = prev[other], ![other] = other,
                               ![next[other]] = s]
       /\ list_sentinel' = [list_sentinel EXCEPT ![s] = s]

\* The sentinel s takes over the nodes of the sentinel other.
MoveSentinel(s, other) ==
  IF next[other] = other
  THEN /\ next' = [next EXCEPT ![s] = s]
       /\ prev' = [prev EXCEPT ![s] = s]
       /\ list_sentinel' = [list_sentinel EXCEPT ![s] = s]
  ELSE /\ next' = [next EXCEPT ![s] = next[other], ![other] = other,
                               ![prev[other]] = s]
       /\ prev' = [prev EXCEPT ![s] = prev[other], ![other] = other,
                               ![next[other]] = s]
       /\ list_sentinel' = [x \in Nodes \union Sentinels |->
            IF x = s \/ (x \in Nodes /\ list_sentinel[x] = other) THEN s
            ELSE list_sentinel[x]]

-----------------------------------------------------------------------------
(* LinkedList *)

\* LinkedList::LinkedList
NewList(s) ==
  /\ s \notin lists
  /\ Unreferenced(s)
  /\ lists' = lists \union {s}
  /\ next' = [next EXCEPT ![s] = s]
  /\ prev' = [prev EXCEPT ![s] = s]
  /\ list_sentinel' = [list_sentinel EXCEPT ![s] = s]
  /\ size' = [size EXCEPT ![s] = 0]
  /\ items' = [items EXCEPT ![s] = <<>>]

\* Mutant: the moved-from list keeps its size.
MoveListKeepsSize(s, other) ==
  /\ s \notin lists /\ Unreferenced(s)
  /\ other \in lists
  /\ lists' = lists \union {s}
  /\ MoveSentinel(s, other)
  /\ size' = [size EXCEPT ![s] = size[other]]
  /\ items' = [items EXCEPT ![s] = items[other], ![other] = <<>>]

\* LinkedList::LinkedList(LinkedList&&)
MoveList(s, other) ==
  /\ s \notin lists /\ Unreferenced(s)
  /\ other \in lists
  /\ lists' = lists \union {s}
  /\ MoveSentinel(s, other)
  /\ size' = [size EXCEPT ![s] = size[other], ![other] = 0]
  /\ items' = [items EXCEPT ![s] = items[other], ![other] = <<>>]

\* LinkedList::~LinkedList, whether or not the list is empty.
DestroyList(s) ==
  /\ s \in lists
  /\ lists' = lists \ {s}
  /\ items' = [items EXCEPT ![s] = <<>>]
  /\ UNCHANGED <<next, prev, list_sentinel, size>>

\* An embedder whose list is gone is destroyed, and another one constructed in
\* its place.
NewNode(n) ==
  /\ list_sentinel[n] \notin lists \union {nullptr}
  /\ next' = [next EXCEPT ![n] = nullptr]
  /\ prev' = [prev EXCEPT ![n] = nullptr]
  /\ list_sentinel' = [list_sentinel EXCEPT ![n] = nullptr]
  /\ UNCHANGED <<size, lists, items>>

\* LinkedList::insert, where the iterator is at position k or at end().
insert(s, k, n) ==
  /\ s \in lists
  /\ k \in 1..(Len(items[s]) + 1)
  /\ list_sentinel[n] = nullptr
  /\ InsertBefore(n, NodeAt(s, k))
  /\ size' = [size EXCEPT ![s] = @ + 1]
  /\ items' = [items EXCEPT ![s] = InsertedAt(@, k, n)]
  /\ UNCHANGED lists

\* LinkedList::erase.
erase(s, k) ==
  /\ s \in lists
  /\ k \in 1..Len(items[s])
  /\ Remove(NodeAt(s, k))
  /\ size' = [size EXCEPT ![s] = @ - 1]
  /\ items' = [items EXCEPT ![s] = Cut(@, k)]
  /\ UNCHANGED lists

-----------------------------------------------------------------------------
Init ==
  /\ next = [x \in Nodes \union Sentinels |-> nullptr]
  /\ prev = [x \in Nodes \union Sentinels |-> nullptr]
  /\ list_sentinel = [x \in Nodes \union Sentinels |-> nullptr]
  /\ size = [s \in Sentinels |-> 0]
  /\ lists = {}
  /\ items = [s \in Sentinels |-> <<>>]

Next ==
  \/ \E s \in Sentinels : NewList(s) \/ DestroyList(s)
  \/ \E s, other \in Sentinels : MoveList(s, other)
  \/ \E n \in Nodes : NewNode(n)
  \/ \E s \in Sentinels, n \in Nodes : \E k \in 1..(Len(items[s]) + 1) :
       insert(s, k, n)
  \/ \E s \in Sentinels : \E k \in 1..Len(items[s]) : erase(s, k)

Spec == Init /\ [][Next]_vars

-----------------------------------------------------------------------------
(* Properties *)

\* The variables' types.
TypeOK ==
  /\ next \in [Nodes \union Sentinels -> Nodes \union Sentinels \union {nullptr}]
  /\ prev \in [Nodes \union Sentinels -> Nodes \union Sentinels \union {nullptr}]
  /\ list_sentinel \in [Nodes \union Sentinels -> Sentinels \union {nullptr}]
  /\ size \in [Sentinels -> Nat]
  /\ lists \in SUBSET Sentinels
  /\ items \in [Sentinels -> Seq(Nodes)]

\* A node is in at most one list, at one place, and list_sentinel_ tells
\* which, whatever lists have been moved or destroyed in the meantime.
NodesKnowTheirList ==
  \A s \in lists :
    /\ list_sentinel[s] = s
    /\ IsInjective(items[s])
    /\ \A n \in Nodes : n \in Range(items[s]) <=> list_sentinel[n] = s

\* Following next_ from the sentinel visits the nodes that the calls have left
\* in the list, in that order, and following prev_ visits them backwards; the
\* BERRYDB_ASSUME_EQ checks of next() and prev() are a part of it.
Represents ==
  \A s \in lists : \A i \in 0..Len(items[s]) :
    /\ next[NodeAt(s, i)] = NodeAt(s, i + 1)
    /\ prev[NodeAt(s, i + 1)] = NodeAt(s, i)

\* size() counts the nodes, for a list that has been moved from, too.
SizeIsLength == \A s \in lists : size[s] = Len(items[s])

\* The pointers of a node "are guaranteed to be null when the node is not in a
\* list" (linked_list.h:405), which InsertBefore checks.
UnlinkedNodesAreNull ==
  \A n \in Nodes :
    list_sentinel[n] = nullptr => next[n] = nullptr /\ prev[n] = nullptr

\* All of the above, which is inductive: what one call does to the pointers
\* depends on the pointers alone.
Inv ==
  /\ TypeOK
  /\ NodesKnowTheirList
  /\ Represents
  /\ SizeIsLength
  /\ UnlinkedNodesAreNull
=============================================================================
