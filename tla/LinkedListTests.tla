-------------------------- MODULE LinkedListTests --------------------------
(***************************************************************************)
(* The tests of linked lists (util/linked_list_unittest.cc), as scripts    *)
(* for the model of the lists' nodes and pointers.  A test names lists and *)
(* hosts; what it sees of a list it finds by following pointers.           *)
(***************************************************************************)
EXTENDS LinkedList, TestScript

CONSTANTS list, empty, one, two,   \* the tests' lists
          host1, host2, host3

\* The nodes that an iterator meets that follows pointer from the sentinel s.
Walk(pointer, s) ==
  LET From[n \in 0..Cardinality(Nodes), x \in Nodes \union Sentinels] ==
        IF n = 0 \/ x = s THEN <<>> ELSE <<x>> \o From[n - 1, pointer[x]]
  IN  From[Cardinality(Nodes), pointer[s]]

\* The position of node n in list s, for erase(value_type).
PositionOf(s, n) == CHOOSE k \in DOMAIN items[s] : items[s][k] = n

ListCall ==
  \/ Now("push_back") /\ insert(Arg(1), Len(items[Arg(1)]) + 1, Arg(2))
  \/ Now("push_front") /\ insert(Arg(1), 1, Arg(2))
  \/ Now("pop_back") /\ erase(Arg(1), Len(items[Arg(1)]))
  \/ Now("pop_front") /\ erase(Arg(1), 1)
  \/ Now("erase") /\ erase(Arg(1), PositionOf(Arg(1), Arg(2)))
  \/ Now("move") /\ MoveList(Arg(1), Arg(2))
  \/ Now("Expect") /\ UNCHANGED vars

\* size(), begin() and ++, end() and --.
ListIs(s, nodes) ==
  Expect(s, [size |-> Len(nodes), forward |-> nodes,
             backward |-> [i \in DOMAIN nodes |-> nodes[Len(nodes) + 1 - i]]])

EmptyConstructor == << ListIs(list, <<>>) >>

Iterator == << <<"push_front", list, host1>>, ListIs(list, <<host1>>) >>

PushPopBack ==
  << <<"push_back", list, host1>>, ListIs(list, <<host1>>),
     <<"push_back", list, host2>>, ListIs(list, <<host1, host2>>),
     <<"pop_back", list>>, ListIs(list, <<host1>>),
     <<"pop_back", list>>, ListIs(list, <<>>) >>

PushPopFront ==
  << <<"push_front", list, host1>>, ListIs(list, <<host1>>),
     <<"push_front", list, host2>>, ListIs(list, <<host2, host1>>),
     <<"pop_front", list>>, ListIs(list, <<host1>>),
     <<"pop_front", list>>, ListIs(list, <<>>) >>

MoveConstructor ==
  << <<"move", empty, list>>, ListIs(empty, <<>>),
     <<"push_back", list, host1>>, <<"move", one, list>>,
     ListIs(list, <<>>), ListIs(one, <<host1>>),
     <<"pop_back", one>>, ListIs(one, <<>>),
     <<"push_back", list, host1>>, <<"push_back", list, host2>>,
     <<"move", two, list>>, ListIs(list, <<>>), ListIs(two, <<host1, host2>>),
     <<"pop_back", two>>, ListIs(two, <<host1>>),
     <<"pop_back", two>>, ListIs(two, <<>>) >>

PushThree == << <<"push_back", list, host1>>, <<"push_back", list, host2>>,
                <<"push_back", list, host3>> >>

FrontBack == PushThree \o << Expect(list, [front |-> host1, back |-> host3]) >>

EraseTest == PushThree \o << <<"erase", list, host2>>, ListIs(list, <<host1, host3>>) >>

RangedForLoop == PushThree \o << Expect(list, [forward |-> <<host1, host2, host3>>]) >>

\* The fixture's list.
ListSetUp ==
  /\ next = [x \in Nodes \union Sentinels |-> IF x = list THEN list ELSE nullptr]
  /\ prev = next /\ list_sentinel = next
  /\ size = [s \in Sentinels |-> 0]
  /\ lists = {list}
  /\ items = [s \in Sentinels |-> <<>>]

ListTestCases ==
  \/ script = EmptyConstructor
  \/ script = Iterator
  \/ script = PushPopBack
  \/ script = PushPopFront
  \/ script = MoveConstructor
  \/ script = FrontBack
  \/ script = EraseTest
  \/ script = RangedForLoop

RunListTest == ListCall /\ Advance

ListSees(s, k) ==
  CASE k = "size"     -> size[s]
    [] k = "forward"  -> Walk(next, s)
    [] k = "backward" -> Walk(prev, s)
    [] k = "front"    -> next[s]
    [] k = "back"     -> prev[s]

ListExpectationHolds ==
  Now("Expect") => \A k \in DOMAIN Arg(2) : ListSees(Arg(1), k) = Arg(2)[k]
=============================================================================
