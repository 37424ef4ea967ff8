-------------------------- MODULE LinkedListProofs --------------------------
(***************************************************************************)
(* Proofs about LinkedList: for any numbers of nodes and lists, the        *)
(* pointers represent the sequences that the other modules use.            *)
(***************************************************************************)
EXTENDS LinkedList, TLAPS

-----------------------------------------------------------------------------
(* Lists without duplicates *)

\* s lists elements of S, none of them twice.
IsList(s, S) == s \in Seq(S) /\ IsInjective(s)

\* The empty list.
LEMMA EmptyList ==
  ASSUME NEW S
  PROVE  IsList(<<>>, S) /\ Range(<<>>) = {}
BY DEF IsList, IsInjective, Range

\* Cutting out the k-th element.
LEMMA CutProperties ==
  ASSUME NEW S, NEW s \in Seq(S), NEW k \in 1 .. Len(s)
  PROVE  /\ Cut(s, k) \in Seq(S)
         /\ Len(Cut(s, k)) = Len(s) - 1
         /\ \A j \in 1 .. Len(s) - 1 :
              Cut(s, k)[j] = IF j < k THEN s[j] ELSE s[j + 1]
<1> DEFINE a == SubSeq(s, 1, k - 1)
           b == SubSeq(s, k + 1, Len(s))
<1>1. Len(s) \in Nat /\ \A j \in 1 .. Len(s) : s[j] \in S
  OBVIOUS
<1>2. /\ a \in Seq(S) /\ Len(a) = k - 1
      /\ \A j \in 1 .. k - 1 : a[j] = s[j]
  BY <1>1
<1>3. /\ b \in Seq(S) /\ Len(b) = Len(s) - k
      /\ \A j \in 1 .. Len(s) - k : b[j] = s[k + j]
  BY <1>1
<1>4. Cut(s, k) = a \o b
  BY Zenon DEF Cut
<1> HIDE DEF a, b
<1>5. /\ a \o b \in Seq(S)
      /\ Len(a \o b) = Len(s) - 1
      /\ \A j \in 1 .. Len(a) + Len(b) :
           (a \o b)[j] = IF j <= Len(a) THEN a[j] ELSE b[j - Len(a)]
  BY <1>1, <1>2, <1>3
<1>6. \A j \in 1 .. Len(s) - 1 :
        (a \o b)[j] = IF j < k THEN s[j] ELSE s[j + 1]
  <2> SUFFICES ASSUME NEW j \in 1 .. Len(s) - 1
               PROVE  (a \o b)[j] = IF j < k THEN s[j] ELSE s[j + 1]
    BY Zenon
  <2>1. CASE j < k
    BY <1>1, <1>2, <1>3, <1>5, <2>1
  <2>2. CASE ~ (j < k)
    <3>1. /\ j - Len(a) \in 1 .. Len(s) - k
          /\ ~ (j <= Len(a))
          /\ k + (j - Len(a)) = j + 1
      BY <1>1, <1>2, <2>2
    <3>2. (a \o b)[j] = b[j - Len(a)]
      BY <1>1, <1>2, <1>3, <1>5, <3>1
    <3> QED BY <1>3, <2>2, <3>1, <3>2, Zenon
  <2> QED BY <2>1, <2>2, Zenon
<1> QED BY <1>4, <1>5, <1>6, Zenon

\* The positions of a list: the sentinel at both ends, different nodes of the
\* list in between.
LEMMA Positions ==
  ASSUME TypeOK, NodesKnowTheirList, NEW s \in lists
  PROVE  /\ Len(items[s]) \in Nat
         /\ NodeAt(s, 0) = s
         /\ NodeAt(s, Len(items[s]) + 1) = s
         /\ \A i \in 1..Len(items[s]) :
              NodeAt(s, i) \in Nodes /\ NodeAt(s, i) = items[s][i]
         /\ \A i \in 0..(Len(items[s]) + 1) :
              /\ NodeAt(s, i) \in Nodes \union Sentinels
              /\ list_sentinel[NodeAt(s, i)] = s
         /\ \A i, j \in 0..Len(items[s]) :
              NodeAt(s, i) = NodeAt(s, j) => i = j
         /\ \A i, j \in 1..(Len(items[s]) + 1) :
              NodeAt(s, i) = NodeAt(s, j) => i = j
<1> DEFINE q == items[s]
<1>1. s \in Sentinels /\ s \notin Nodes /\ q \in Seq(Nodes)
  BY NodeAssumption, Zenon DEF TypeOK
<1>2. Len(q) \in Nat /\ DOMAIN q = 1..Len(q)
  BY <1>1
<1>3. \A i \in 1..Len(q) : q[i] \in Nodes /\ q[i] \in Range(q)
  BY <1>1, <1>2 DEF Range
<1>4. \A i, j \in 1..Len(q) : q[i] = q[j] => i = j
  BY <1>2, Zenon DEF NodesKnowTheirList, IsInjective
<1>5. list_sentinel[s] = s /\ \A n \in Range(q) : n \in Nodes => list_sentinel[n] = s
  BY Zenon DEF NodesKnowTheirList
<1> HIDE DEF q
<1>6. \A i \in 1..Len(q) : NodeAt(s, i) = q[i]
  BY Zenon DEF NodeAt, q
<1>7. NodeAt(s, 0) = s /\ NodeAt(s, Len(q) + 1) = s
  BY <1>2 DEF NodeAt, q
<1>8. \A i \in 0..(Len(q) + 1) : i = 0 \/ i = Len(q) + 1 \/ i \in 1..Len(q)
  BY <1>2
<1>9. \A i \in 0..(Len(q) + 1) : /\ NodeAt(s, i) \in Nodes \union Sentinels
                                /\ list_sentinel[NodeAt(s, i)] = s
  BY <1>1, <1>3, <1>5, <1>6, <1>7, <1>8, Zenon
<1>10. \A i, j \in 0..Len(q) : NodeAt(s, i) = NodeAt(s, j) => i = j
  BY <1>1, <1>2, <1>3, <1>4, <1>6, <1>7
<1>11. \A i, j \in 1..(Len(q) + 1) : NodeAt(s, i) = NodeAt(s, j) => i = j
  BY <1>1, <1>2, <1>3, <1>4, <1>6, <1>7
<1> QED
  BY <1>2, <1>3, <1>6, <1>7, <1>9, <1>10, <1>11, Zenon DEF q

\* What Represents says of one list.
LinkedInOrder(s) ==
  \A i \in 0..Len(items[s]) :
    /\ next[NodeAt(s, i)] = NodeAt(s, i + 1)
    /\ prev[NodeAt(s, i + 1)] = NodeAt(s, i)

\* What NodesKnowTheirList says of one list.
OwnsItsNodes(s) ==
  /\ list_sentinel[s] = s
  /\ IsInjective(items[s])
  /\ \A n \in Nodes : n \in Range(items[s]) <=> list_sentinel[n] = s

\* A list is left alone by a call that changes no pointer of its nodes.
LEMMA OtherList ==
  ASSUME TypeOK, NodesKnowTheirList, Represents, NEW s \in lists,
         items'[s] = items[s],
         \A x \in Nodes \union Sentinels : list_sentinel[x] = s =>
           next'[x] = next[x] /\ prev'[x] = prev[x]
  PROVE  LinkedInOrder(s)'
<1> SUFFICES ASSUME NEW i \in 0..Len(items[s])
             PROVE  /\ next'[NodeAt(s, i)'] = NodeAt(s, i + 1)'
                    /\ prev'[NodeAt(s, i + 1)'] = NodeAt(s, i)'
  BY Zenon DEF LinkedInOrder
<1>1. NodeAt(s, i)' = NodeAt(s, i) /\ NodeAt(s, i + 1)' = NodeAt(s, i + 1)
  BY Zenon DEF NodeAt
<1>2. i \in 0..(Len(items[s]) + 1) /\ i + 1 \in 0..(Len(items[s]) + 1)
  BY Positions
<1>3. /\ next'[NodeAt(s, i)] = next[NodeAt(s, i)]
      /\ prev'[NodeAt(s, i + 1)] = prev[NodeAt(s, i + 1)]
  BY <1>2, Positions, Zenon
<1> QED
  BY <1>1, <1>3, Zenon DEF Represents

\* A new list is empty.
LEMMA NewListInv ==
  ASSUME Inv, NEW s \in Sentinels, NewList(s)
  PROVE  Inv'
<1>1. s \notin lists /\ \A n \in Nodes : list_sentinel[n] # s
  BY Zenon DEF NewList, Unreferenced
<1>2. TypeOK'
  BY NodeAssumption DEF Inv, TypeOK, NewList
<1>3. \A t \in lists : t # s /\ t \in Sentinels /\ items'[t] = items[t]
  BY <1>1, Zenon DEF NewList, Inv, TypeOK
<1>4. items'[s] = <<>> /\ lists' = lists \union {s}
  BY Zenon DEF NewList, Inv, TypeOK
<1>5. \A x \in Nodes \union Sentinels : x # s =>
        next'[x] = next[x] /\ prev'[x] = prev[x] /\ list_sentinel'[x] = list_sentinel[x]
  BY Zenon DEF NewList, Inv, TypeOK
<1>6. next'[s] = s /\ prev'[s] = s /\ list_sentinel'[s] = s
  BY Zenon DEF NewList, Inv, TypeOK
<1>7. s \notin Nodes
  BY NodeAssumption, Zenon
<1>8. OwnsItsNodes(s)' /\ LinkedInOrder(s)'
  <2>1. OwnsItsNodes(s)'
    BY <1>1, <1>4, <1>5, <1>6, <1>7, EmptyList, Zenon DEF IsList, OwnsItsNodes
  <2>2. LinkedInOrder(s)'
    BY <1>4, <1>6 DEF NodeAt, LinkedInOrder
  <2> QED BY <2>1, <2>2, Zenon
<1>9. ASSUME NEW t \in lists
      PROVE  OwnsItsNodes(t)' /\ LinkedInOrder(t)'
  <2>1. OwnsItsNodes(t)'
    BY <1>3, <1>5, <1>7, Zenon DEF Inv, NodesKnowTheirList, OwnsItsNodes
  <2>3. ASSUME NEW i \in 0..Len(items[t])
        PROVE  /\ next'[NodeAt(t, i)'] = NodeAt(t, i + 1)'
               /\ prev'[NodeAt(t, i + 1)'] = NodeAt(t, i)'
    <3>1. NodeAt(t, i)' = NodeAt(t, i) /\ NodeAt(t, i + 1)' = NodeAt(t, i + 1)
      BY <1>3, Zenon DEF NodeAt
    <3>2. /\ NodeAt(t, i) # s /\ NodeAt(t, i + 1) # s
          /\ NodeAt(t, i) \in Nodes \union Sentinels
          /\ NodeAt(t, i + 1) \in Nodes \union Sentinels
      BY <1>1, <1>3, <1>7 DEF NodeAt, Inv, TypeOK
    <3> QED BY <3>1, <3>2, <1>5, Zenon DEF Inv, Represents
  <2> QED BY <2>1, <2>3, <1>3, Zenon DEF LinkedInOrder
<1>10. NodesKnowTheirList' /\ Represents'
  BY <1>4, <1>8, <1>9, Zenon
     DEF NodesKnowTheirList, Represents, OwnsItsNodes, LinkedInOrder
<1>11. SizeIsLength'
  BY <1>3, <1>4, Zenon DEF SizeIsLength, NewList, Inv, TypeOK
<1>12. UnlinkedNodesAreNull'
  BY <1>5, <1>7, Zenon DEF UnlinkedNodesAreNull, Inv
<1> QED
  BY <1>2, <1>10, <1>11, <1>12, Zenon DEF Inv

\* A list that is gone is nobody's business.
LEMMA DestroyListInv ==
  ASSUME Inv, NEW s \in Sentinels, DestroyList(s)
  PROVE  Inv'
<1>1. \A t \in lists' : t \in lists /\ t # s /\ items'[t] = items[t]
  BY Zenon DEF DestroyList, Inv, TypeOK
<1>2. UNCHANGED <<next, prev, list_sentinel, size>>
  BY Zenon DEF DestroyList
<1>3. TypeOK'
  BY DEF DestroyList, Inv, TypeOK
<1>4. NodesKnowTheirList'
  BY <1>1, <1>2, Zenon DEF Inv, NodesKnowTheirList
<1>5. \A t \in lists' : LinkedInOrder(t)'
  BY <1>1, <1>2, OtherList, Zenon DEF Inv
<1>6. SizeIsLength' /\ UnlinkedNodesAreNull'
  BY <1>1, <1>2, Zenon DEF Inv, SizeIsLength, UnlinkedNodesAreNull
<1> QED
  BY <1>3, <1>4, <1>5, <1>6, Zenon DEF Inv, Represents, LinkedInOrder

\* A node of a list that is gone is in no other list's chain.
LEMMA NewNodeInv ==
  ASSUME Inv, NEW n \in Nodes, NewNode(n)
  PROVE  Inv'
<1>1. list_sentinel[n] \notin lists /\ UNCHANGED <<size, lists, items>>
  BY Zenon DEF NewNode
<1>2. \A x \in Nodes \union Sentinels : x # n =>
        next'[x] = next[x] /\ prev'[x] = prev[x] /\ list_sentinel'[x] = list_sentinel[x]
  BY Zenon DEF NewNode, Inv, TypeOK
<1>3. next'[n] = nullptr /\ prev'[n] = nullptr /\ list_sentinel'[n] = nullptr
  BY Zenon DEF NewNode, Inv, TypeOK
<1>4. TypeOK'
  BY Zenon DEF NewNode, Inv, TypeOK
<1>5. \A t \in lists : t \in Sentinels /\ t # n /\ t # nullptr
  BY NodeAssumption, Zenon DEF Inv, TypeOK
<1>6. NodesKnowTheirList'
  BY <1>1, <1>2, <1>3, <1>5 DEF Inv, NodesKnowTheirList
<1>7. \A t \in lists : LinkedInOrder(t)'
  BY <1>1, <1>2, OtherList, Zenon DEF Inv
<1>8. SizeIsLength' /\ UnlinkedNodesAreNull'
  BY <1>1, <1>2, <1>3, Zenon DEF Inv, SizeIsLength, UnlinkedNodesAreNull
<1> QED
  BY <1>1, <1>4, <1>6, <1>7, <1>8, Zenon DEF Inv, Represents, LinkedInOrder

\* The sequence after an insertion.
LEMMA Inserted ==
  ASSUME NEW S, NEW q, IsList(q, S), NEW e \in S, e \notin Range(q),
         NEW k \in 1..(Len(q) + 1)
  PROVE  /\ IsList(InsertedAt(q, k, e), S)
         /\ Len(InsertedAt(q, k, e)) = Len(q) + 1
         /\ \A i \in 1..(Len(q) + 1) :
              InsertedAt(q, k, e)[i] =
                IF i < k THEN q[i] ELSE IF i = k THEN e ELSE q[i - 1]
         /\ Range(InsertedAt(q, k, e)) = Range(q) \union {e}
<1> DEFINE L == Len(q)
           r == InsertedAt(q, k, e)
<1>1. q \in Seq(S) /\ L \in Nat /\ DOMAIN q = 1..L /\ k \in 1..(L + 1)
  BY DEF IsList
<1>2. \A i, j \in 1..L : q[i] = q[j] => i = j
  BY <1>1, Zenon DEF IsList, IsInjective
<1>3. \A i \in 1..L : q[i] \in S /\ q[i] # e
  BY <1>1 DEF Range
<1>4. DOMAIN r = 1..(L + 1)
  BY Zenon DEF InsertedAt
<1>5. \A i \in 1..(L + 1) :
        r[i] = IF i < k THEN q[i] ELSE IF i = k THEN e ELSE q[i - 1]
  BY Zenon DEF InsertedAt
<1>6. r = [i \in 1..(L + 1) |-> r[i]]
  BY <1>5, Zenon DEF InsertedAt
<1> HIDE DEF r, L
<1>7. \A i \in 1..(L + 1) : r[i] \in S
  BY <1>1, <1>3, <1>5
<1>8. r \in Seq(S) /\ Len(r) = L + 1
  <2>1. r \in [1..(L + 1) -> S] /\ L + 1 \in Nat
    BY <1>1, <1>6, <1>7
  <2>2. r \in Seq(S)
    BY <2>1
  <2> QED BY <2>1, <2>2
<1>9. \A i, j \in 1..(L + 1) : r[i] = r[j] => i = j
  <2> SUFFICES ASSUME NEW i \in 1..(L + 1), NEW j \in 1..(L + 1), i < j
               PROVE  r[i] # r[j]
    BY <1>1
  <2>1. CASE j < k
    BY <2>1, <1>1, <1>2, <1>5
  <2>2. CASE j = k
    BY <2>2, <1>1, <1>3, <1>5
  <2>3. CASE j > k /\ i < k
    BY <2>3, <1>1, <1>2, <1>5
  <2>4. CASE j > k /\ i = k
    BY <2>4, <1>1, <1>3, <1>5
  <2>5. CASE j > k /\ i > k
    BY <2>5, <1>1, <1>2, <1>5
  <2> QED BY <2>1, <2>2, <2>3, <2>4, <2>5, <1>1
<1>10. Range(r) = Range(q) \union {e}
  <2>1. Range(q) = {q[i] : i \in 1..L} /\ Range(r) = {r[i] : i \in 1..(L + 1)}
    BY <1>1, <1>4, Zenon DEF Range
  <2>2. r[k] = e
    BY <1>1, <1>5
  <2>3. \A i \in 1..L : \E j \in 1..(L + 1) : r[j] = q[i]
    <3> TAKE i \in 1..L
    <3>1. CASE i < k
      <4>1. i \in 1..(L + 1) /\ r[i] = q[i]
        BY <3>1, <1>1, <1>5
      <4> QED BY <4>1, Zenon
    <3>2. CASE i >= k
      <4>1. i + 1 \in 1..(L + 1) /\ r[i + 1] = q[i]
        BY <3>2, <1>1, <1>5
      <4> QED BY <4>1, Zenon
    <3> QED BY <3>1, <3>2, <1>1
  <2>4. \A j \in 1..(L + 1) : r[j] = e \/ \E i \in 1..L : r[j] = q[i]
    <3> TAKE j \in 1..(L + 1)
    <3>1. CASE j < k
      <4>1. j \in 1..L /\ r[j] = q[j]
        BY <3>1, <1>1, <1>5
      <4> QED BY <4>1, Zenon
    <3>2. CASE j > k
      <4>1. j - 1 \in 1..L /\ r[j] = q[j - 1]
        BY <3>2, <1>1, <1>5
      <4> QED BY <4>1, Zenon
    <3> QED BY <3>1, <3>2, <2>2, <1>1
  <2> QED BY <2>1, <2>2, <2>3, <2>4, <1>1, Zenon
<1> QED
  BY <1>4, <1>5, <1>8, <1>9, <1>10, Zenon DEF IsList, IsInjective, r, L

\* LinkedList::insert puts the node where the iterator points, and nowhere
\* else.
LEMMA InsertInv ==
  ASSUME Inv, NEW s \in Sentinels, NEW n \in Nodes,
         NEW k \in 1..(Len(items[s]) + 1), insert(s, k, n)
  PROVE  Inv'
<1> DEFINE q == items[s]
           L == Len(q)
           At(i) == NodeAt(s, i)
           r == InsertedAt(q, k, n)
<1>1. s \in lists /\ list_sentinel[n] = nullptr /\ lists' = lists
  BY Zenon DEF insert
<1>2. L \in Nat /\ q \in Seq(Nodes) /\ k - 1 \in 0..L /\ k \in 1..(L + 1)
  BY DEF Inv, TypeOK
<1>3. /\ At(0) = s /\ At(L + 1) = s
      /\ \A i \in 1..L : At(i) \in Nodes /\ At(i) = q[i]
      /\ \A i \in 0..(L + 1) : /\ At(i) \in Nodes \union Sentinels
                               /\ list_sentinel[At(i)] = s
      /\ \A i, j \in 0..L : At(i) = At(j) => i = j
      /\ \A i, j \in 1..(L + 1) : At(i) = At(j) => i = j
  BY <1>1, Positions, Zenon DEF Inv
<1>4. \A i \in 0..L : next[At(i)] = At(i + 1) /\ prev[At(i + 1)] = At(i)
  BY <1>1, Zenon DEF Inv, Represents
<1>5. prev[At(k)] = At(k - 1)
  BY <1>2, <1>4
<1>6. s # nullptr /\ s # n
  BY NodeAssumption, Zenon
<1>7. n # At(k) /\ n # At(k - 1) /\ \A i \in 0..(L + 1) : At(i) # n
  BY <1>1, <1>2, <1>3, <1>6
<1>owner. list_sentinel[At(k)] = s
  BY <1>2, <1>3
<1>8. /\ list_sentinel' = [list_sentinel EXCEPT ![n] = s]
      /\ next' = [next EXCEPT ![At(k - 1)] = n, ![n] = At(k)]
      /\ prev' = [prev EXCEPT ![n] = At(k - 1), ![At(k)] = n]
  BY <1>5, <1>owner, Zenon DEF insert, InsertBefore
<1>9. /\ At(k) \in Nodes \union Sentinels /\ At(k - 1) \in Nodes \union Sentinels
      /\ list_sentinel[At(k)] = s /\ list_sentinel[At(k - 1)] = s
  BY <1>2, <1>3
<1>10. /\ items' = [items EXCEPT ![s] = r]
       /\ size' = [size EXCEPT ![s] = @ + 1]
  BY Zenon DEF insert
<1> HIDE DEF At
<1>11. /\ \A x \in Nodes \union Sentinels :
            /\ next'[x] = IF x = n THEN At(k) ELSE IF x = At(k - 1) THEN n ELSE next[x]
            /\ prev'[x] = IF x = At(k) THEN n ELSE IF x = n THEN At(k - 1) ELSE prev[x]
            /\ list_sentinel'[x] = IF x = n THEN s ELSE list_sentinel[x]
  BY <1>7, <1>8, <1>9, Zenon DEF Inv, TypeOK
<1>12. /\ IsList(r, Nodes) /\ Len(r) = L + 1
       /\ \A i \in 1..(L + 1) :
            r[i] = IF i < k THEN q[i] ELSE IF i = k THEN n ELSE q[i - 1]
       /\ Range(r) = Range(q) \union {n}
  <2>1. IsList(q, Nodes) /\ n \notin Range(q)
    BY <1>1, <1>2, <1>6, Zenon DEF Inv, NodesKnowTheirList, IsList
  <2> QED BY <2>1, Inserted
<1>13. TypeOK'
  <2>1. /\ next' \in [Nodes \union Sentinels -> Nodes \union Sentinels \union {nullptr}]
        /\ prev' \in [Nodes \union Sentinels -> Nodes \union Sentinels \union {nullptr}]
        /\ list_sentinel' \in [Nodes \union Sentinels -> Sentinels \union {nullptr}]
    BY <1>8, <1>9, Zenon DEF Inv, TypeOK
  <2>2. items' \in [Sentinels -> Seq(Nodes)] /\ size' \in [Sentinels -> Nat]
    BY <1>10, <1>12 DEF Inv, TypeOK, IsList
  <2> QED BY <2>1, <2>2, <1>1, Zenon DEF Inv, TypeOK
<1>14. items'[s] = r /\ size'[s] = size[s] + 1
       /\ \A t \in lists : t # s => items'[t] = items[t] /\ size'[t] = size[t]
  BY <1>10, Zenon DEF Inv, TypeOK
<1> HIDE DEF r
<1>15. \A i \in 0..(L + 2) :
         NodeAt(s, i)' = IF i < k THEN At(i) ELSE IF i = k THEN n ELSE At(i - 1)
  <2> SUFFICES ASSUME NEW i \in 0..(L + 2)
               PROVE  NodeAt(s, i)' = IF i < k THEN At(i) ELSE IF i = k THEN n ELSE At(i - 1)
    BY Zenon
  <2>1. NodeAt(s, i)' = IF i \in 1..(L + 1) THEN r[i] ELSE s
    BY <1>12, <1>14, Zenon DEF NodeAt
  <2>2. CASE i = 0
    BY <2>1, <2>2, <1>2, <1>3
  <2>3. CASE i = L + 2
    BY <2>1, <2>3, <1>2, <1>3
  <2>4. CASE i \in 1..(L + 1) /\ i < k
    BY <2>1, <2>4, <1>2, <1>3, <1>12
  <2>5. CASE i = k
    BY <2>1, <2>5, <1>2, <1>12
  <2>6. CASE i \in 1..(L + 1) /\ i > k
    <3>1. i - 1 \in 1..L
      BY <2>6, <1>2
    <3>2. r[i] = q[i - 1]
      BY <2>6, <1>2, <1>12
    <3>3. At(i - 1) = q[i - 1]
      BY <3>1, <1>3, Zenon
    <3> QED BY <3>2, <3>3, <2>1, <2>6, <1>2
  <2> QED BY <2>2, <2>3, <2>4, <2>5, <2>6, <1>2
<1>16. LinkedInOrder(s)'
  <2> SUFFICES ASSUME NEW i \in 0..(L + 1)
               PROVE  /\ next'[NodeAt(s, i)'] = NodeAt(s, i + 1)'
                      /\ prev'[NodeAt(s, i + 1)'] = NodeAt(s, i)'
    BY <1>12, <1>14, Zenon DEF LinkedInOrder
  <2>1. CASE i < k - 1
    <3>1. i \in 0..L /\ i + 1 \in 1..(L + 1) /\ i + 1 < k
      BY <2>1, <1>2
    <3>2. NodeAt(s, i)' = At(i) /\ NodeAt(s, i + 1)' = At(i + 1)
      BY <3>1, <2>1, <1>2, <1>15
    <3>3. At(i) # At(k - 1) /\ At(i + 1) # At(k)
      BY <3>1, <2>1, <1>2, <1>3
    <3>4. /\ At(i) \in Nodes \union Sentinels /\ At(i) # n
          /\ At(i + 1) \in Nodes \union Sentinels /\ At(i + 1) # n
      BY <3>1, <1>2, <1>3, <1>7
    <3>5. next'[At(i)] = next[At(i)] /\ prev'[At(i + 1)] = prev[At(i + 1)]
      BY <3>3, <3>4, <1>11, Zenon
    <3> QED BY <3>1, <3>2, <3>5, <1>4, Zenon
  <2>2. CASE i = k - 1
    <3>1. NodeAt(s, i)' = At(k - 1) /\ NodeAt(s, i + 1)' = n
      BY <2>2, <1>2, <1>15
    <3> QED BY <3>1, <1>7, <1>9, <1>11, Zenon
  <2>3. CASE i = k
    <3>1. NodeAt(s, i)' = n /\ NodeAt(s, i + 1)' = At(k)
      BY <2>3, <1>2, <1>15
    <3> QED BY <3>1, <1>7, <1>9, <1>11, Zenon
  <2>4. CASE i > k
    <3>1. i - 1 \in 0..L /\ i \in 1..(L + 1) /\ i - 1 # k - 1 /\ i # k
      BY <2>4, <1>2
    <3>2. NodeAt(s, i)' = At(i - 1) /\ NodeAt(s, i + 1)' = At(i)
      BY <2>4, <1>2, <1>15
    <3>3. At(i - 1) # At(k - 1) /\ At(i) # At(k)
      BY <3>1, <2>4, <1>2, <1>3, Zenon
    <3>4. At(i - 1) \in Nodes \union Sentinels /\ At(i) \in Nodes \union Sentinels
          /\ At(i - 1) # n /\ At(i) # n
      BY <3>1, <1>2, <1>3, <1>7
    <3>5. next[At(i - 1)] = At(i) /\ prev[At(i)] = At(i - 1)
      BY <3>1, <1>2, <1>4
    <3> QED BY <3>2, <3>3, <3>4, <3>5, <1>11, Zenon
  <2> QED BY <2>1, <2>2, <2>3, <2>4, <1>2
<1>17. OwnsItsNodes(s)'
  <2>1. list_sentinel[s] = s /\ \A m \in Nodes : m \in Range(q) <=> list_sentinel[m] = s
    BY <1>1, Zenon DEF Inv, NodesKnowTheirList
  <2>2. \A m \in Nodes : m \in Range(r) <=> list_sentinel'[m] = s
    BY <2>1, <1>11, <1>12, Zenon
  <2> QED BY <2>1, <2>2, <1>6, <1>11, <1>12, <1>14, Zenon
      DEF OwnsItsNodes, IsList
<1>18. ASSUME NEW t \in lists, t # s
       PROVE  OwnsItsNodes(t)' /\ LinkedInOrder(t)'
  <2>1. t \in Sentinels /\ t # n /\ t # nullptr
    BY NodeAssumption, Zenon DEF Inv, TypeOK
  <2>2. OwnsItsNodes(t)'
    BY <2>1, <1>1, <1>11, <1>14, <1>18 DEF OwnsItsNodes, Inv, NodesKnowTheirList
  <2>3. \A x \in Nodes \union Sentinels : list_sentinel[x] = t =>
          next'[x] = next[x] /\ prev'[x] = prev[x]
    BY <2>1, <1>1, <1>9, <1>11, <1>18, Zenon
  <2>4. LinkedInOrder(t)'
    BY <2>3, <1>14, <1>18, OtherList, Zenon DEF Inv
  <2> QED BY <2>2, <2>4, Zenon
<1>19. NodesKnowTheirList' /\ Represents'
  BY <1>1, <1>16, <1>17, <1>18, Zenon
     DEF NodesKnowTheirList, Represents, OwnsItsNodes, LinkedInOrder
<1>20. SizeIsLength'
  BY <1>1, <1>2, <1>12, <1>14, Zenon DEF Inv, SizeIsLength
<1>21. UnlinkedNodesAreNull'
  <2> SUFFICES ASSUME NEW m \in Nodes, list_sentinel'[m] = nullptr
               PROVE  next'[m] = nullptr /\ prev'[m] = nullptr
    BY Zenon DEF UnlinkedNodesAreNull
  <2>1. m # n /\ list_sentinel[m] = nullptr
    BY <1>6, <1>11, Zenon
  <2> QED BY <2>1, <1>6, <1>9, <1>11, Zenon DEF Inv, UnlinkedNodesAreNull
<1> QED
  BY <1>13, <1>19, <1>20, <1>21, Zenon DEF Inv

\* The sequence after an erasure.
LEMMA WasCut ==
  ASSUME NEW S, NEW q, IsList(q, S), NEW k \in 1..Len(q)
  PROVE  /\ IsList(Cut(q, k), S)
         /\ Len(Cut(q, k)) = Len(q) - 1
         /\ \A i \in 1..(Len(q) - 1) :
              Cut(q, k)[i] = IF i < k THEN q[i] ELSE q[i + 1]
         /\ Range(Cut(q, k)) = Range(q) \ {q[k]}
<1> DEFINE L == Len(q)
           r == Cut(q, k)
<1>1. q \in Seq(S) /\ L \in Nat /\ DOMAIN q = 1..L /\ k \in 1..L
  BY DEF IsList
<1>2. \A i, j \in 1..L : q[i] = q[j] => i = j
  BY <1>1, Zenon DEF IsList, IsInjective
<1>3. /\ r \in Seq(S) /\ Len(r) = L - 1
      /\ \A i \in 1..(L - 1) : r[i] = IF i < k THEN q[i] ELSE q[i + 1]
  BY <1>1, CutProperties, Zenon
<1>4. DOMAIN r = 1..(L - 1)
  BY <1>3
<1> HIDE DEF r, L
<1>5. \A i, j \in 1..(L - 1) : r[i] = r[j] => i = j
  <2> SUFFICES ASSUME NEW i \in 1..(L - 1), NEW j \in 1..(L - 1), i < j
               PROVE  r[i] # r[j]
    BY <1>1
  <2>1. CASE j < k
    BY <2>1, <1>1, <1>2, <1>3
  <2>2. CASE j >= k /\ i < k
    BY <2>2, <1>1, <1>2, <1>3
  <2>3. CASE i >= k
    <3>1. r[i] = q[i + 1] /\ r[j] = q[j + 1]
      BY <2>3, <1>1, <1>3
    <3>2. i + 1 \in 1..L /\ j + 1 \in 1..L /\ i + 1 # j + 1
      BY <1>1
    <3> QED BY <3>1, <3>2, <1>2, Zenon
  <2> QED BY <2>1, <2>2, <2>3, <1>1
<1>6. Range(r) = Range(q) \ {q[k]}
  <2>1. Range(q) = {q[i] : i \in 1..L} /\ Range(r) = {r[i] : i \in 1..(L - 1)}
    BY <1>1, <1>4, Zenon DEF Range
  <2>2. \A i \in 1..L : i # k => \E j \in 1..(L - 1) : r[j] = q[i]
    <3> TAKE i \in 1..L
    <3>1. CASE i < k
      <4>1. i \in 1..(L - 1) /\ r[i] = q[i]
        BY <3>1, <1>1, <1>3
      <4> QED BY <4>1, Zenon
    <3>2. CASE i > k
      <4>1. i - 1 \in 1..(L - 1) /\ r[i - 1] = q[i]
        BY <3>2, <1>1, <1>3
      <4> QED BY <4>1, Zenon
    <3> QED BY <3>1, <3>2, <1>1
  <2>3. \A j \in 1..(L - 1) : \E i \in 1..L : i # k /\ r[j] = q[i]
    <3> TAKE j \in 1..(L - 1)
    <3>1. CASE j < k
      <4>1. j \in 1..L /\ j # k /\ r[j] = q[j]
        BY <3>1, <1>1, <1>3
      <4> QED BY <4>1, Zenon
    <3>2. CASE j >= k
      <4>1. j + 1 \in 1..L /\ j + 1 # k /\ r[j] = q[j + 1]
        BY <3>2, <1>1, <1>3
      <4> QED BY <4>1, Zenon
    <3> QED BY <3>1, <3>2, <1>1
  <2>4. ASSUME NEW x \in Range(r) PROVE x \in Range(q) /\ x # q[k]
    <3>1. PICK j \in 1..(L - 1) : x = r[j]
      BY <2>1, Zenon
    <3>2. PICK i \in 1..L : i # k /\ r[j] = q[i]
      BY <2>3, Zenon
    <3> QED BY <3>1, <3>2, <2>1, <1>1, <1>2, Zenon
  <2>5. ASSUME NEW x \in Range(q), x # q[k] PROVE x \in Range(r)
    <3>1. PICK i \in 1..L : x = q[i]
      BY <2>1, Zenon
    <3>2. PICK j \in 1..(L - 1) : r[j] = q[i]
      BY <3>1, <2>2, <2>5, Zenon
    <3> QED BY <3>1, <3>2, <2>1, Zenon
  <2> QED BY <2>4, <2>5, Zenon
<1> QED
  BY <1>3, <1>4, <1>5, <1>6, Zenon DEF IsList, IsInjective, r, L

\* LinkedList::erase takes out the node that the iterator points to, and
\* nothing else.
LEMMA EraseInv ==
  ASSUME Inv, NEW s \in Sentinels, NEW k \in 1..Len(items[s]), erase(s, k)
  PROVE  Inv'
<1> DEFINE q == items[s]
           L == Len(q)
           At(i) == NodeAt(s, i)
           n == At(k)
           r == Cut(q, k)
<1>1. s \in lists /\ lists' = lists
  BY Zenon DEF erase
<1>2. L \in Nat /\ q \in Seq(Nodes) /\ k - 1 \in 0..L /\ k \in 1..L /\ k + 1 \in 1..(L + 1)
  BY DEF Inv, TypeOK
<1>3. /\ At(0) = s /\ At(L + 1) = s
      /\ \A i \in 1..L : At(i) \in Nodes /\ At(i) = q[i]
      /\ \A i \in 0..(L + 1) : /\ At(i) \in Nodes \union Sentinels
                               /\ list_sentinel[At(i)] = s
      /\ \A i, j \in 0..L : At(i) = At(j) => i = j
      /\ \A i, j \in 1..(L + 1) : At(i) = At(j) => i = j
  BY <1>1, Positions, Zenon DEF Inv
<1>4. \A i \in 0..L : next[At(i)] = At(i + 1) /\ prev[At(i + 1)] = At(i)
  BY <1>1, Zenon DEF Inv, Represents
<1>5. prev[n] = At(k - 1) /\ next[n] = At(k + 1)
  BY <1>2, <1>4
<1>6. s # nullptr /\ s \notin Nodes
  BY NodeAssumption, Zenon
<1>7. n \in Nodes /\ n = q[k] /\ n # At(k - 1) /\ n # At(k + 1)
  BY <1>2, <1>3
<1>8. /\ list_sentinel' = [list_sentinel EXCEPT ![n] = nullptr]
      /\ next' = [next EXCEPT ![At(k - 1)] = At(k + 1), ![n] = nullptr]
      /\ prev' = [prev EXCEPT ![At(k + 1)] = At(k - 1), ![n] = nullptr]
  BY <1>5, Zenon DEF erase, Remove
<1>9. /\ At(k + 1) \in Nodes \union Sentinels /\ At(k - 1) \in Nodes \union Sentinels
      /\ list_sentinel[At(k + 1)] = s /\ list_sentinel[At(k - 1)] = s
      /\ list_sentinel[n] = s
  BY <1>2, <1>3
<1>10. /\ items' = [items EXCEPT ![s] = r]
       /\ size' = [size EXCEPT ![s] = @ - 1]
  BY Zenon DEF erase
<1> HIDE DEF At, n
<1>11. /\ \A x \in Nodes \union Sentinels :
            /\ next'[x] = IF x = n THEN nullptr
                          ELSE IF x = At(k - 1) THEN At(k + 1) ELSE next[x]
            /\ prev'[x] = IF x = n THEN nullptr
                          ELSE IF x = At(k + 1) THEN At(k - 1) ELSE prev[x]
            /\ list_sentinel'[x] = IF x = n THEN nullptr ELSE list_sentinel[x]
  BY <1>7, <1>8, <1>9, Zenon DEF Inv, TypeOK
<1>12. /\ IsList(r, Nodes) /\ Len(r) = L - 1
       /\ \A i \in 1..(L - 1) : r[i] = IF i < k THEN q[i] ELSE q[i + 1]
       /\ Range(r) = Range(q) \ {n}
  <2>1. IsList(q, Nodes)
    BY <1>1, <1>2, Zenon DEF Inv, NodesKnowTheirList, IsList
  <2>2. k \in 1..Len(q)
    BY <1>2, Zenon
  <2>3. /\ IsList(r, Nodes) /\ Len(r) = L - 1
        /\ \A i \in 1..(L - 1) : r[i] = IF i < k THEN q[i] ELSE q[i + 1]
        /\ Range(r) = Range(q) \ {q[k]}
    <3> HIDE DEF q
    <3> QED BY <2>1, <2>2, WasCut
  <2> QED BY <2>3, <1>7, Zenon
<1>13. size[s] = L
  BY <1>1, Zenon DEF Inv, SizeIsLength
<1>14. TypeOK'
  <2>1. /\ next' \in [Nodes \union Sentinels -> Nodes \union Sentinels \union {nullptr}]
        /\ prev' \in [Nodes \union Sentinels -> Nodes \union Sentinels \union {nullptr}]
        /\ list_sentinel' \in [Nodes \union Sentinels -> Sentinels \union {nullptr}]
    BY <1>8, <1>9, Zenon DEF Inv, TypeOK
  <2>2. items' \in [Sentinels -> Seq(Nodes)]
    BY <1>10, <1>12, Zenon DEF Inv, TypeOK, IsList
  <2>3. size[s] - 1 \in Nat
    BY <1>2, <1>13
  <2>4. size' \in [Sentinels -> Nat]
    BY <2>3, <1>10, Zenon DEF Inv, TypeOK
  <2> QED BY <2>1, <2>2, <2>4, <1>1, Zenon DEF Inv, TypeOK
<1>15. items'[s] = r /\ size'[s] = size[s] - 1
       /\ \A t \in lists : t # s => items'[t] = items[t] /\ size'[t] = size[t]
  BY <1>10, Zenon DEF Inv, TypeOK
<1> HIDE DEF r
<1>16. \A i \in 0..L : NodeAt(s, i)' = IF i < k THEN At(i) ELSE At(i + 1)
  <2> SUFFICES ASSUME NEW i \in 0..L
               PROVE  NodeAt(s, i)' = IF i < k THEN At(i) ELSE At(i + 1)
    BY Zenon
  <2>1. NodeAt(s, i)' = IF i \in 1..(L - 1) THEN r[i] ELSE s
    BY <1>12, <1>15, Zenon DEF NodeAt
  <2>2. CASE i = 0
    BY <2>1, <2>2, <1>2, <1>3
  <2>3. CASE i = L
    BY <2>1, <2>3, <1>2, <1>3
  <2>4. CASE i \in 1..(L - 1) /\ i < k
    BY <2>1, <2>4, <1>2, <1>3, <1>12
  <2>5. CASE i \in 1..(L - 1) /\ i >= k
    <3>1. r[i] = q[i + 1]
      BY <2>5, <1>2, <1>12
    <3>2. i + 1 \in 1..L
      BY <2>5, <1>2
    <3>3. At(i + 1) = q[i + 1]
      BY <3>2, <1>3, Zenon
    <3> QED BY <3>1, <3>3, <2>1, <2>5, <1>2
  <2> QED BY <2>2, <2>3, <2>4, <2>5, <1>2
<1>17. LinkedInOrder(s)'
  <2> SUFFICES ASSUME NEW i \in 0..(L - 1)
               PROVE  /\ next'[NodeAt(s, i)'] = NodeAt(s, i + 1)'
                      /\ prev'[NodeAt(s, i + 1)'] = NodeAt(s, i)'
    BY <1>12, <1>15, Zenon DEF LinkedInOrder
  <2>1. CASE i < k - 1
    <3>1. i \in 0..L /\ i + 1 \in 1..(L + 1) /\ i + 1 < k /\ i + 1 \in 0..L
      BY <2>1, <1>2
    <3>2. NodeAt(s, i)' = At(i) /\ NodeAt(s, i + 1)' = At(i + 1)
      BY <3>1, <2>1, <1>2, <1>16
    <3>3. At(i) # At(k - 1) /\ At(i) # n /\ At(i + 1) # At(k + 1) /\ At(i + 1) # n
      BY <3>1, <2>1, <1>2, <1>3 DEF n
    <3>4. At(i) \in Nodes \union Sentinels /\ At(i + 1) \in Nodes \union Sentinels
      BY <3>1, <1>2, <1>3
    <3>5. next[At(i)] = At(i + 1) /\ prev[At(i + 1)] = At(i)
      BY <3>1, <1>4, Zenon
    <3> QED BY <3>2, <3>3, <3>4, <3>5, <1>11, Zenon
  <2>2. CASE i = k - 1
    <3>1. NodeAt(s, i)' = At(k - 1) /\ NodeAt(s, i + 1)' = At(k + 1)
      BY <2>2, <1>2, <1>16
    <3> QED BY <3>1, <1>7, <1>9, <1>11, Zenon
  <2>3. CASE i >= k
    <3>1. i + 1 \in 0..L /\ i + 2 \in 1..(L + 1) /\ i + 1 > k /\ i + 1 \in 1..(L + 1)
      BY <2>3, <1>2
    <3>2. NodeAt(s, i)' = At(i + 1) /\ NodeAt(s, i + 1)' = At((i + 1) + 1)
      BY <3>1, <2>3, <1>2, <1>16
    <3>3. At(i + 1) # At(k - 1) /\ At(i + 1) # n
          /\ At((i + 1) + 1) # At(k + 1) /\ At((i + 1) + 1) # n
      BY <3>1, <2>3, <1>2, <1>3 DEF n
    <3>4. At(i + 1) \in Nodes \union Sentinels /\ At((i + 1) + 1) \in Nodes \union Sentinels
      BY <3>1, <1>2, <1>3, SMTT(30)
    <3>5. next[At(i + 1)] = At((i + 1) + 1) /\ prev[At((i + 1) + 1)] = At(i + 1)
      BY <3>1, <1>4, Zenon
    <3> QED BY <3>2, <3>3, <3>4, <3>5, <1>11, Zenon
  <2> QED BY <2>1, <2>2, <2>3, <1>2
<1>18. OwnsItsNodes(s)'
  <2>1. list_sentinel[s] = s /\ \A m \in Nodes : m \in Range(q) <=> list_sentinel[m] = s
    BY <1>1, Zenon DEF Inv, NodesKnowTheirList
  <2>2. \A m \in Nodes : m \in Range(r) <=> list_sentinel'[m] = s
    BY <2>1, <1>6, <1>11, <1>12, Zenon
  <2> QED BY <2>1, <2>2, <1>6, <1>7, <1>11, <1>12, <1>15, Zenon
      DEF OwnsItsNodes, IsList
<1>19. ASSUME NEW t \in lists, t # s
       PROVE  OwnsItsNodes(t)' /\ LinkedInOrder(t)'
  <2>1. t \in Sentinels /\ t # n /\ t # nullptr
    BY <1>7, NodeAssumption, Zenon DEF Inv, TypeOK
  <2>2. OwnsItsNodes(t)'
    BY <2>1, <1>9, <1>11, <1>15, <1>19, Zenon
       DEF OwnsItsNodes, Inv, NodesKnowTheirList
  <2>3. \A x \in Nodes \union Sentinels : list_sentinel[x] = t =>
          next'[x] = next[x] /\ prev'[x] = prev[x]
    BY <2>1, <1>9, <1>11, <1>19, Zenon
  <2>4. LinkedInOrder(t)'
    BY <2>3, <1>15, <1>19, OtherList, Zenon DEF Inv
  <2> QED BY <2>2, <2>4, Zenon
<1>20. NodesKnowTheirList' /\ Represents'
  BY <1>1, <1>17, <1>18, <1>19, Zenon
     DEF NodesKnowTheirList, Represents, OwnsItsNodes, LinkedInOrder
<1>21. SizeIsLength'
  BY <1>1, <1>2, <1>12, <1>13, <1>15, Zenon DEF Inv, SizeIsLength
<1>22. UnlinkedNodesAreNull'
  <2> SUFFICES ASSUME NEW m \in Nodes, list_sentinel'[m] = nullptr, m # n
               PROVE  next'[m] = nullptr /\ prev'[m] = nullptr
    BY <1>11, Zenon DEF UnlinkedNodesAreNull
  <2>1. list_sentinel[m] = nullptr
    BY <1>11, Zenon
  <2> QED BY <2>1, <1>6, <1>9, <1>11, Zenon DEF Inv, UnlinkedNodesAreNull
<1> QED
  BY <1>14, <1>20, <1>21, <1>22, Zenon DEF Inv

\* The move constructor hands over all nodes and leaves an empty list behind.
LEMMA MoveListInv ==
  ASSUME Inv, NEW s \in Sentinels, NEW other \in Sentinels, MoveList(s, other)
  PROVE  Inv'
<1> DEFINE q == items[other]
           L == Len(q)
<1>1. /\ s \notin lists /\ other \in lists /\ s # other
      /\ lists' = lists \union {s}
      /\ \A n \in Nodes : list_sentinel[n] # s
  BY Zenon DEF MoveList, Unreferenced
<1>2. L \in Nat /\ q \in Seq(Nodes) /\ IsInjective(q)
      /\ list_sentinel[other] = other
      /\ \A n \in Nodes : n \in Range(q) <=> list_sentinel[n] = other
  BY <1>1 DEF Inv, TypeOK, NodesKnowTheirList
<1>3. s \notin Nodes /\ other \notin Nodes /\ s # nullptr /\ other # nullptr
  BY NodeAssumption, Zenon
<1>4. /\ items'[s] = q /\ items'[other] = <<>>
      /\ size'[s] = size[other] /\ size'[other] = 0
      /\ \A t \in Sentinels : t # s /\ t # other =>
           items'[t] = items[t] /\ size'[t] = size[t]
  BY <1>1, Zenon DEF MoveList, Inv, TypeOK
<1>5. items' \in [Sentinels -> Seq(Nodes)] /\ size' \in [Sentinels -> Nat]
      /\ lists' \in SUBSET Sentinels
  <2>1. <<>> \in Seq(Nodes)
    OBVIOUS
  <2>2. items' \in [Sentinels -> Seq(Nodes)]
    BY <2>1, Zenon DEF MoveList, Inv, TypeOK
  <2>3. size' \in [Sentinels -> Nat]
    BY Zenon DEF MoveList, Inv, TypeOK
  <2> QED BY <2>2, <2>3, <1>1, Zenon DEF Inv, TypeOK
<1>6. \A i \in 1..L : q[i] \in Nodes /\ list_sentinel[q[i]] = other
  <2>1. DOMAIN q = 1..L
    BY <1>2
  <2> QED BY <2>1, <1>2 DEF Range
<1>7. \A i, j \in 1..L : q[i] = q[j] => i = j
  BY <1>2 DEF IsInjective
<1>8. \A i \in 0..L : /\ next[NodeAt(other, i)] = NodeAt(other, i + 1)
                      /\ prev[NodeAt(other, i + 1)] = NodeAt(other, i)
  BY <1>1, Zenon DEF Inv, Represents
<1>9. /\ NodeAt(other, 0) = other /\ NodeAt(other, L + 1) = other
      /\ \A i \in 1..L : NodeAt(other, i) = q[i]
  BY <1>2 DEF NodeAt
<1>10. CASE L = 0
  <2>1. q = <<>>
    BY <1>2, <1>10
  <2>2. next[other] = other /\ prev[other] = other
    BY <1>2, <1>8, <1>9, <1>10
  <2>3. /\ next' = [next EXCEPT ![s] = s]
        /\ prev' = [prev EXCEPT ![s] = s]
        /\ list_sentinel' = [list_sentinel EXCEPT ![s] = s]
    BY <2>2, Zenon DEF MoveList, MoveSentinel
  <2>4. \A x \in Nodes \union Sentinels :
          /\ next'[x] = IF x = s THEN s ELSE next[x]
          /\ prev'[x] = IF x = s THEN s ELSE prev[x]
          /\ list_sentinel'[x] = IF x = s THEN s ELSE list_sentinel[x]
    BY <2>3, Zenon DEF Inv, TypeOK
  <2>5. TypeOK'
    BY <2>3, <1>5, Zenon DEF Inv, TypeOK
  <2>6. \A t \in lists : t \in Sentinels /\ t # s /\ items'[t] = items[t] /\ size'[t] = size[t]
    BY <2>1, <1>1, <1>4, <1>10, Zenon DEF Inv, TypeOK, SizeIsLength
  <2>7. OwnsItsNodes(s)' /\ LinkedInOrder(s)'
    <3>1. OwnsItsNodes(s)'
      BY <2>1, <2>4, <1>1, <1>3, <1>4, EmptyList, Zenon DEF IsList, OwnsItsNodes
    <3>2. LinkedInOrder(s)'
      BY <2>1, <2>4, <1>4 DEF NodeAt, LinkedInOrder
    <3> QED BY <3>1, <3>2, Zenon
  <2>8. ASSUME NEW t \in lists
        PROVE  OwnsItsNodes(t)' /\ LinkedInOrder(t)'
    <3>1. OwnsItsNodes(t)'
      BY <2>4, <2>6, <1>3, Zenon DEF Inv, NodesKnowTheirList, OwnsItsNodes
    <3>2. ASSUME NEW i \in 0..Len(items[t])
          PROVE  /\ next'[NodeAt(t, i)'] = NodeAt(t, i + 1)'
                 /\ prev'[NodeAt(t, i + 1)'] = NodeAt(t, i)'
      <4>1. NodeAt(t, i)' = NodeAt(t, i) /\ NodeAt(t, i + 1)' = NodeAt(t, i + 1)
        BY <2>6, Zenon DEF NodeAt
      <4>2. /\ NodeAt(t, i) # s /\ NodeAt(t, i + 1) # s
            /\ NodeAt(t, i) \in Nodes \union Sentinels
            /\ NodeAt(t, i + 1) \in Nodes \union Sentinels
        BY <2>6, <1>3 DEF NodeAt, Inv, TypeOK
      <4> QED BY <4>1, <4>2, <2>4, Zenon DEF Inv, Represents
    <3> QED BY <3>1, <3>2, <2>6, Zenon DEF LinkedInOrder
  <2>9. NodesKnowTheirList' /\ Represents'
    BY <2>7, <2>8, <1>1, Zenon
       DEF NodesKnowTheirList, Represents, OwnsItsNodes, LinkedInOrder
  <2>10. SizeIsLength'
    BY <2>6, <1>1, <1>4, Zenon DEF Inv, SizeIsLength
  <2>11. UnlinkedNodesAreNull'
    BY <2>4, <1>3, Zenon DEF Inv, UnlinkedNodesAreNull
  <2> QED BY <2>5, <2>9, <2>10, <2>11, Zenon DEF Inv
<1>11. CASE L > 0
  <2>1. next[other] = q[1] /\ prev[other] = q[L] /\ q[1] \in Nodes /\ q[L] \in Nodes
        /\ list_sentinel[q[1]] = other /\ list_sentinel[q[L]] = other
    BY <1>2, <1>6, <1>8, <1>9, <1>11
  <2>2. next[other] # other
    BY <2>1, <1>3, Zenon
  <2>3. /\ next' = [next EXCEPT ![s] = q[1], ![other] = other, ![q[L]] = s]
        /\ prev' = [prev EXCEPT ![s] = q[L], ![other] = other, ![q[1]] = s]
        /\ list_sentinel' = [x \in Nodes \union Sentinels |->
             IF x = s \/ (x \in Nodes /\ list_sentinel[x] = other) THEN s
             ELSE list_sentinel[x]]
    BY <2>1, <2>2, Zenon DEF MoveList, MoveSentinel
  <2>4. \A x \in Nodes \union Sentinels :
          /\ next'[x] = IF x = s THEN q[1] ELSE IF x = other THEN other
                        ELSE IF x = q[L] THEN s ELSE next[x]
          /\ prev'[x] = IF x = s THEN q[L] ELSE IF x = other THEN other
                        ELSE IF x = q[1] THEN s ELSE prev[x]
          /\ list_sentinel'[x] =
               IF x = s \/ (x \in Nodes /\ list_sentinel[x] = other) THEN s
               ELSE list_sentinel[x]
    <3> HIDE DEF q, L
    <3> QED BY <2>1, <2>3, <1>1, <1>3, Zenon DEF Inv, TypeOK
  <2>5. TypeOK'
    <3> HIDE DEF q, L
    <3>1. /\ next' \in [Nodes \union Sentinels -> Nodes \union Sentinels \union {nullptr}]
          /\ prev' \in [Nodes \union Sentinels -> Nodes \union Sentinels \union {nullptr}]
      BY <2>1, <2>3, Zenon DEF Inv, TypeOK
    <3>2. list_sentinel' \in [Nodes \union Sentinels -> Sentinels \union {nullptr}]
      BY <2>3, Zenon DEF Inv, TypeOK
    <3> QED BY <3>1, <3>2, <1>5, Zenon DEF TypeOK
  <2>6. OwnsItsNodes(s)'
    <3> HIDE DEF q, L
    <3>1. list_sentinel'[s] = s /\ \A n \in Nodes : n \in Range(q) <=> list_sentinel'[n] = s
      <4>1. list_sentinel'[s] = s
        BY <2>4, Zenon
      <4>2. \A n \in Nodes : list_sentinel'[n] = s <=> list_sentinel[n] = other
        BY <2>4, <1>1, <1>3, Zenon
      <4>3. \A n \in Nodes : n \in Range(q) <=> list_sentinel[n] = other
        BY <1>2, Zenon
      <4> QED BY <4>1, <4>2, <4>3, Zenon
    <3> QED BY <3>1, <1>2, <1>4, Zenon DEF OwnsItsNodes
  <2>7. LinkedInOrder(s)'
    <3> SUFFICES ASSUME NEW i \in 0..L
                 PROVE  /\ next'[NodeAt(s, i)'] = NodeAt(s, i + 1)'
                        /\ prev'[NodeAt(s, i + 1)'] = NodeAt(s, i)'
      BY <1>4, Zenon DEF LinkedInOrder
    <3>1. \A j \in Nat : NodeAt(s, j)' = IF j \in 1..L THEN q[j] ELSE s
      BY <1>4, Zenon DEF NodeAt
    <3> HIDE DEF q, L
    <3>2. next'[NodeAt(s, i)'] = NodeAt(s, i + 1)'
      <4>1. CASE i = 0
        <5>1. NodeAt(s, i)' = s /\ NodeAt(s, i + 1)' = q[1]
          BY <4>1, <3>1, <1>2, <1>11
        <5> QED BY <5>1, <2>4, Zenon
      <4>2. CASE i = L
        <5>1. NodeAt(s, i)' = q[L] /\ NodeAt(s, i + 1)' = s
          BY <4>2, <3>1, <1>2, <1>11
        <5> QED BY <5>1, <2>1, <2>4, <1>3, ZenonT(60)
      <4>3. CASE i > 0 /\ i < L
        <5>1. i \in 1..L /\ i + 1 \in 1..L /\ L \in 1..L
          BY <4>3, <1>2
        <5>2. q[i] # q[L] /\ q[i] \in Nodes /\ next[q[i]] = q[i + 1]
          BY <5>1, <4>3, <1>2, <1>6, <1>7, <1>8, <1>9
        <5> QED BY <5>1, <5>2, <3>1, <2>4, <1>3
      <4> QED BY <4>1, <4>2, <4>3, <1>2
    <3>3. prev'[NodeAt(s, i + 1)'] = NodeAt(s, i)'
      <4>1. CASE i = 0
        <5>1. NodeAt(s, i)' = s /\ NodeAt(s, i + 1)' = q[1]
          BY <4>1, <3>1, <1>2, <1>11
        <5> QED BY <5>1, <2>1, <2>4, <1>3
      <4>2. CASE i = L
        <5>1. NodeAt(s, i)' = q[L] /\ NodeAt(s, i + 1)' = s
          BY <4>2, <3>1, <1>2, <1>11
        <5> QED BY <5>1, <2>1, <2>4, <1>3, Zenon
      <4>3. CASE i > 0 /\ i < L
        <5>1. i \in 1..L /\ i + 1 \in 1..L /\ 1 \in 1..L
          BY <4>3, <1>2
        <5>2. q[i + 1] # q[1] /\ q[i + 1] \in Nodes /\ prev[q[i + 1]] = q[i]
          BY <5>1, <4>3, <1>2, <1>6, <1>7, <1>8, <1>9
        <5> QED BY <5>1, <5>2, <3>1, <2>4, <1>3
      <4> QED BY <4>1, <4>2, <4>3, <1>2
    <3> QED BY <3>2, <3>3, Zenon
  <2>8. OwnsItsNodes(other)' /\ LinkedInOrder(other)'
    <3>1. OwnsItsNodes(other)'
      BY <2>4, <1>1, <1>2, <1>3, <1>4, EmptyList DEF OwnsItsNodes, IsList
    <3>2. LinkedInOrder(other)'
      BY <2>4, <1>1, <1>4 DEF LinkedInOrder, NodeAt
    <3> QED BY <3>1, <3>2, Zenon
  <2>9. ASSUME NEW t \in lists, t # other
        PROVE  OwnsItsNodes(t)' /\ LinkedInOrder(t)'
    <3>1. t \in Sentinels /\ t # s /\ items'[t] = items[t]
      BY <2>9, <1>1, <1>4, Zenon DEF Inv, TypeOK
    <3>2. OwnsItsNodes(t)'
      BY <3>1, <2>4, <2>9, NodeAssumption, ZenonT(60)
         DEF OwnsItsNodes, Inv, NodesKnowTheirList
    <3>3. ASSUME NEW i \in 0..Len(items[t])
          PROVE  /\ next'[NodeAt(t, i)'] = NodeAt(t, i + 1)'
                 /\ prev'[NodeAt(t, i + 1)'] = NodeAt(t, i)'
      <4>1. NodeAt(t, i)' = NodeAt(t, i) /\ NodeAt(t, i + 1)' = NodeAt(t, i + 1)
        BY <3>1, Zenon DEF NodeAt
      <4>2. /\ NodeAt(t, i) # s /\ NodeAt(t, i + 1) # s
            /\ NodeAt(t, i) \in Nodes \union Sentinels
            /\ NodeAt(t, i + 1) \in Nodes \union Sentinels
        BY <3>1, <1>3 DEF NodeAt, Inv, TypeOK
      <4>3. i \in 0..(Len(items[t]) + 1) /\ i + 1 \in 0..(Len(items[t]) + 1)
        BY Positions DEF Inv
      <4>4. list_sentinel[NodeAt(t, i)] = t /\ list_sentinel[NodeAt(t, i + 1)] = t
        BY <4>3, Positions, Zenon DEF Inv
      <4> HIDE DEF q, L
      <4> QED BY <4>1, <4>2, <4>4, <2>1, <2>4, <2>9, <1>2 DEF Inv, Represents
    <3> QED BY <3>1, <3>2, <3>3, Zenon DEF LinkedInOrder
  <2>10. NodesKnowTheirList' /\ Represents'
    BY <2>6, <2>7, <2>8, <2>9, <1>1, ZenonT(60)
       DEF NodesKnowTheirList, Represents, OwnsItsNodes, LinkedInOrder
  <2>11. SizeIsLength'
    <3>1. size'[s] = Len(items'[s])
      BY <1>1, <1>4, Zenon DEF Inv, SizeIsLength
    <3>2. size'[other] = Len(items'[other])
      BY <1>4
    <3>3. \A t \in lists : t # other => size'[t] = Len(items'[t])
      BY <1>1, <1>4, Zenon DEF Inv, SizeIsLength, TypeOK
    <3> QED BY <3>1, <3>2, <3>3, <1>1, Zenon DEF SizeIsLength
  <2>12. UnlinkedNodesAreNull'
    <3> SUFFICES ASSUME NEW m \in Nodes, list_sentinel'[m] = nullptr
                 PROVE  next'[m] = nullptr /\ prev'[m] = nullptr
      BY Zenon DEF UnlinkedNodesAreNull
    <3> HIDE DEF q, L
    <3>1. list_sentinel[m] = nullptr
      BY <2>4, <1>3, Zenon
    <3> QED BY <3>1, <2>1, <2>4, <1>3, Zenon DEF Inv, UnlinkedNodesAreNull
  <2> QED BY <2>5, <2>10, <2>11, <2>12, Zenon DEF Inv
<1> QED
  BY <1>2, <1>10, <1>11

-----------------------------------------------------------------------------
\* The pointers of linked_list.h represent the sequences that the calls
\* describe, for any numbers of lists and nodes: the inductive invariant.
THEOREM ListsAreSequences == Spec => []Inv
<1>1. Init => Inv
  BY EmptyList, NodeAssumption
     DEF Init, Inv, TypeOK, NodesKnowTheirList, Represents, SizeIsLength,
         UnlinkedNodesAreNull, IsList
<1>2. Inv /\ [Next]_vars => Inv'
  <2> SUFFICES ASSUME Inv, [Next]_vars
               PROVE  Inv'
    BY Zenon
  <2>1. CASE UNCHANGED vars
    BY <2>1, Zenon
       DEF vars, Inv, TypeOK, NodesKnowTheirList, Represents, SizeIsLength,
           UnlinkedNodesAreNull, NodeAt
  <2>2. CASE \E s \in Sentinels : NewList(s) \/ DestroyList(s)
    BY <2>2, NewListInv, DestroyListInv, Zenon
  <2>3. CASE \E s, other \in Sentinels : MoveList(s, other)
    BY <2>3, MoveListInv, Zenon
  <2>4. CASE \E n \in Nodes : NewNode(n)
    BY <2>4, NewNodeInv, Zenon
  <2>5. CASE \E s \in Sentinels, n \in Nodes : \E k \in 1..(Len(items[s]) + 1) :
               insert(s, k, n)
    BY <2>5, InsertInv, Zenon
  <2>6. CASE \E s \in Sentinels : \E k \in 1..Len(items[s]) : erase(s, k)
    BY <2>6, EraseInv, Zenon
  <2> QED BY <2>1, <2>2, <2>3, <2>4, <2>5, <2>6, Zenon DEF Next
<1> QED
  BY <1>1, <1>2, PTL DEF Spec

\* Traversing a list in either direction visits its nodes in order.
THEOREM TraversalIsExact == Spec => []Represents
<1>1. Inv => Represents
  BY Zenon DEF Inv
<1> QED
  BY <1>1, ListsAreSequences, PTL

\* A node is in one list at most, and knows which.
THEOREM NodesAreInOneList == Spec => []NodesKnowTheirList
<1>1. Inv => NodesKnowTheirList
  BY Zenon DEF Inv
<1> QED
  BY <1>1, ListsAreSequences, PTL

\* size() is the number of nodes.
THEOREM SizesAreCounts == Spec => []SizeIsLength
<1>1. Inv => SizeIsLength
  BY Zenon DEF Inv
<1> QED
  BY <1>1, ListsAreSequences, PTL

\* The pointers, owners and sizes of LinkedList keep their types; no size
\* becomes negative.
THEOREM ListsAreTyped == Spec => []TypeOK
<1>1. Inv => TypeOK
  BY Zenon DEF Inv
<1> QED
  BY <1>1, ListsAreSequences, PTL

\* LinkedListNode::Remove leaves nothing behind: a node in no list points nowhere.
THEOREM UnlinkedNodesPointNowhere == Spec => []UnlinkedNodesAreNull
<1>1. Inv => UnlinkedNodesAreNull
  BY Zenon DEF Inv
<1> QED
  BY <1>1, ListsAreSequences, PTL
=============================================================================
