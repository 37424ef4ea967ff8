--------------------------- MODULE StoreImplSteps ---------------------------
(***************************************************************************)
(* The steps of StoreImpl that keep its invariant Inv: the lemmas on the   *)
(* call stack and on frames and lists that the proofs rest on; the steps   *)
(* that enter calls and return from them (the transactions' Commit and     *)
(* Close, StoreImpl::Close, ~PoolImpl); and the steps that touch assigned  *)
(* pages (StorePage on a cached page, the callers' unpinning and           *)
(* modifying, the pinning and unpinning in the loops of Commit and Close). *)
(***************************************************************************)
EXTENDS StoreImpl, TLAPS

-----------------------------------------------------------------------------
(* Lists without duplicates *)

\* s lists elements of S, none of them twice.
IsList(s, S) == s \in Seq(S) /\ IsInjective(s)

\* The empty list.
LEMMA EmptyList ==
  ASSUME NEW S
  PROVE  IsList(<<>>, S) /\ Range(<<>>) = {}
BY DEF IsList, IsInjective, Range

\* The elements of a list are the values at its positions.
LEMMA ListElements ==
  ASSUME NEW S, NEW s \in Seq(S)
  PROVE  /\ Range(s) \subseteq S
         /\ \A e : e \in Range(s) <=> \E i \in 1 .. Len(s) : s[i] = e
         /\ s = <<>> <=> Range(s) = {}
<1>1. \A e : e \in Range(s) <=> \E i \in 1 .. Len(s) : s[i] = e
  BY DEF Range
<1>2. Range(s) \subseteq S
  BY <1>1
<1>3. s = <<>> => Range(s) = {}
  BY <1>1
<1>4. s # <<>> => s[1] \in Range(s)
  BY <1>1
<1> QED BY <1>1, <1>2, <1>3, <1>4, Zenon

\* LinkedList::push_back of an element that is not in the list.
LEMMA PushBack ==
  ASSUME NEW S, NEW s, IsList(s, S), NEW e \in S, e \notin Range(s)
  PROVE  /\ IsList(Append(s, e), S)
         /\ Range(Append(s, e)) = Range(s) \union {e}
BY DEF IsList, IsInjective, Range

\* LinkedList::push_front of an element that is not in the list.
LEMMA PushFront ==
  ASSUME NEW S, NEW s, IsList(s, S), NEW e \in S, e \notin Range(s)
  PROVE  /\ IsList(<<e>> \o s, S)
         /\ Range(<<e>> \o s) = Range(s) \union {e}
         /\ <<e>> \o s # <<>> /\ Head(<<e>> \o s) = e
<1> DEFINE r == <<e>> \o s
<1>1. s \in Seq(S) /\ Len(s) \in Nat /\ DOMAIN s = 1 .. Len(s)
  BY DEF IsList
<1>2. <<e>> \in Seq(S) /\ Len(<<e>>) = 1 /\ <<e>>[1] = e
  OBVIOUS
<1>3. /\ r \in Seq(S)
      /\ Len(r) = Len(s) + 1
      /\ \A i \in 1 .. Len(s) + 1 : r[i] = IF i = 1 THEN e ELSE s[i - 1]
  BY <1>1, <1>2
<1> HIDE DEF r
<1>4. DOMAIN r = 1 .. Len(s) + 1 /\ r[1] = e
  BY <1>1, <1>3
<1>5. \A i \in 1 .. Len(s) : r[i + 1] = s[i]
  BY <1>1, <1>3
<1>6. Range(r) = Range(s) \union {e}
  <2>1. Range(s) \union {e} \subseteq Range(r)
    <3>1. \A i \in 1 .. Len(s) : i + 1 \in DOMAIN r /\ r[i + 1] = s[i]
      BY <1>1, <1>4, <1>5
    <3>2. 1 \in DOMAIN r
      BY <1>1, <1>4
    <3> QED BY <1>1, <1>4, <3>1, <3>2 DEF Range
  <2>2. Range(r) \subseteq Range(s) \union {e}
    <3> SUFFICES ASSUME NEW i \in 1 .. Len(s) + 1, r[i] # e
                 PROVE  r[i] \in Range(s)
      BY <1>4, Zenon DEF Range
    <3>1. i - 1 \in 1 .. Len(s) /\ r[i] = s[i - 1]
      BY <1>1, <1>3
    <3> QED BY <1>1, <3>1, Zenon DEF Range
  <2> QED BY <2>1, <2>2, Zenon
<1>7. IsInjective(r)
  <2> SUFFICES ASSUME NEW a \in 1 .. Len(s) + 1, NEW b \in 1 .. Len(s) + 1,
                      r[a] = r[b]
               PROVE  a = b
    BY <1>4, Zenon DEF IsInjective
  <2>1. \A i \in 1 .. Len(s) : s[i] # e
    BY <1>1, Zenon DEF Range
  <2>2. CASE a = 1 \/ b = 1
    BY <1>1, <1>3, <2>1, <2>2
  <2>3. CASE a # 1 /\ b # 1
    BY <1>1, <1>3, <2>3 DEF IsList, IsInjective
  <2> QED BY <2>2, <2>3, Zenon
<1>8. r # <<>> /\ Head(r) = e
  BY <1>1, <1>3, <1>4
<1> QED BY <1>3, <1>6, <1>7, <1>8, Zenon DEF IsList, r

\* LinkedList::pop_front, and an iterator's step past the first element.
LEMMA PopFront ==
  ASSUME NEW S, NEW s, IsList(s, S), s # <<>>
  PROVE  /\ Head(s) \in S
         /\ Head(s) \in Range(s)
         /\ IsList(Tail(s), S)
         /\ Range(Tail(s)) = Range(s) \ {Head(s)}
<1>1. /\ s \in Seq(S)
      /\ Len(s) \in Nat \ {0}
      /\ DOMAIN s = 1 .. Len(s)
      /\ Head(s) = s[1]
  BY DEF IsList
<1>2. /\ Head(s) \in S
      /\ Tail(s) \in Seq(S)
      /\ Len(Tail(s)) = Len(s) - 1
      /\ \A i \in 1 .. Len(s) - 1 : Tail(s)[i] = s[i + 1]
  BY <1>1
<1>3. DOMAIN Tail(s) = 1 .. Len(s) - 1
  BY <1>2
<1>4. \A a, b \in 1 .. Len(s) : s[a] = s[b] => a = b
  BY <1>1, Zenon DEF IsList, IsInjective
<1>5. IsInjective(Tail(s))
  BY <1>1, <1>2, <1>3, <1>4 DEF IsInjective
<1>6. Range(Tail(s)) \subseteq Range(s) \ {s[1]}
  BY <1>1, <1>2, <1>3, <1>4 DEF Range
<1>7. Range(s) \ {s[1]} \subseteq Range(Tail(s))
  <2> SUFFICES ASSUME NEW i \in 1 .. Len(s), s[i] # s[1]
               PROVE  s[i] \in Range(Tail(s))
    BY <1>1, Zenon DEF Range
  <2>1. i - 1 \in 1 .. Len(s) - 1 /\ Tail(s)[i - 1] = s[i]
    BY <1>1, <1>2
  <2> QED BY <2>1, <1>3, Zenon DEF Range
<1>8. s[1] \in Range(s)
  BY <1>1 DEF Range
<1> QED BY <1>1, <1>2, <1>5, <1>6, <1>7, <1>8, Zenon DEF IsList

\* Cutting out the k-th element.
LEMMA CutProperties ==
  ASSUME NEW S, NEW s \in Seq(S), NEW k \in 1 .. Len(s)
  PROVE  /\ Cut(s, k) \in Seq(S)
         /\ Len(Cut(s, k)) = Len(s) - 1
         /\ \A j \in 1 .. Len(s) - 1 :
              Cut(s, k)[j] = IF j < k THEN s[j] ELSE s[j + 1]
<1> DEFINE a == SubSeq(s, 1, k - 1)
           b == SubSeq(s, k + 1, Len(s))
<1>1. Len(s) \in Nat /\ \A j \in 1 .. Len(s) : s[j] \in S
  OBVIOUS
<1>2. /\ a \in Seq(S) /\ Len(a) = k - 1
      /\ \A j \in 1 .. k - 1 : a[j] = s[j]
  BY <1>1
<1>3. /\ b \in Seq(S) /\ Len(b) = Len(s) - k
      /\ \A j \in 1 .. Len(s) - k : b[j] = s[k + j]
  BY <1>1
<1>4. Cut(s, k) = a \o b
  BY Zenon DEF Cut
<1> HIDE DEF a, b
<1>5. /\ a \o b \in Seq(S)
      /\ Len(a \o b) = Len(s) - 1
      /\ \A j \in 1 .. Len(a) + Len(b) :
           (a \o b)[j] = IF j <= Len(a) THEN a[j] ELSE b[j - Len(a)]
  BY <1>1, <1>2, <1>3
<1>6. \A j \in 1 .. Len(s) - 1 :
        (a \o b)[j] = IF j < k THEN s[j] ELSE s[j + 1]
  <2> SUFFICES ASSUME NEW j \in 1 .. Len(s) - 1
               PROVE  (a \o b)[j] = IF j < k THEN s[j] ELSE s[j + 1]
    BY Zenon
  <2>1. CASE j < k
    BY <1>1, <1>2, <1>3, <1>5, <2>1
  <2>2. CASE ~ (j < k)
    <3>1. /\ j - Len(a) \in 1 .. Len(s) - k
          /\ ~ (j <= Len(a))
          /\ k + (j - Len(a)) = j + 1
      BY <1>1, <1>2, <2>2
    <3>2. (a \o b)[j] = b[j - Len(a)]
      BY <1>1, <1>2, <1>3, <1>5, <3>1
    <3> QED BY <1>3, <2>2, <3>1, <3>2, Zenon
  <2> QED BY <2>1, <2>2, Zenon
<1> QED BY <1>4, <1>5, <1>6, Zenon

\* LinkedList::erase, of an element that may be in the list.
LEMMA EraseElement ==
  ASSUME NEW S, NEW s, IsList(s, S), NEW e
  PROVE  /\ IsList(Erase(s, e), S)
         /\ Range(Erase(s, e)) = Range(s) \ {e}
<1>1. s \in Seq(S) /\ Len(s) \in Nat /\ DOMAIN s = 1 .. Len(s)
  BY DEF IsList
<1>2. CASE ~ \E i \in 1 .. Len(s) : s[i] = e
  BY <1>1, <1>2, Zenon DEF Erase, Range
<1>3. CASE \E i \in 1 .. Len(s) : s[i] = e
  <2>1. PICK k \in 1 .. Len(s) : s[k] = e
    BY <1>3, Zenon
  <2>2. \A i, j \in 1 .. Len(s) : s[i] = s[j] => i = j
    BY <1>1, Zenon DEF IsList, IsInjective
  <2> DEFINE r == Cut(s, k)
  <2>3. e \in Range(s)
    BY <1>1, <2>1, Zenon DEF Range
  <2>4. (CHOOSE i \in DOMAIN s : s[i] = e) = k
    BY <1>1, <2>1, <2>2, Zenon
  <2>5. Erase(s, e) = r
    BY <2>3, <2>4, Zenon DEF Erase
  <2>6. /\ r \in Seq(S) /\ Len(r) = Len(s) - 1
        /\ \A j \in 1 .. Len(s) - 1 : r[j] = IF j < k THEN s[j] ELSE s[j + 1]
    BY <1>1, CutProperties, Zenon
  <2> HIDE DEF r
  <2>7. DOMAIN r = 1 .. Len(s) - 1
    BY <2>6
  <2>8. IsInjective(r)
    BY <1>1, <2>2, <2>6, <2>7 DEF IsInjective
  <2>9. Range(r) \subseteq Range(s) \ {e}
    <3> SUFFICES ASSUME NEW j \in 1 .. Len(s) - 1
                 PROVE  r[j] \in Range(s) \ {e}
      BY <2>7, Zenon DEF Range
    <3>1. PICK i \in 1 .. Len(s) : i # k /\ r[j] = s[i]
      BY <1>1, <2>6
    <3>2. s[i] # e
      BY <2>1, <2>2, <3>1, Zenon
    <3> QED BY <1>1, <3>1, <3>2, Zenon DEF Range
  <2>10. Range(s) \ {e} \subseteq Range(r)
    <3> SUFFICES ASSUME NEW i \in 1 .. Len(s), s[i] # e
                 PROVE  s[i] \in Range(r)
      BY <1>1, Zenon DEF Range
    <3>1. CASE i < k
      BY <1>1, <2>6, <2>7, <3>1 DEF Range
    <3>2. CASE i > k
      <4>1. i - 1 \in 1 .. Len(s) - 1 /\ r[i - 1] = s[i]
        BY <1>1, <2>6, <3>2
      <4> QED BY <4>1, <2>7, Zenon DEF Range
    <3> QED BY <1>1, <2>1, <3>1, <3>2
  <2> QED BY <2>5, <2>6, <2>8, <2>9, <2>10, Zenon DEF IsList
<1> QED BY <1>2, <1>3, Zenon

-----------------------------------------------------------------------------
(* Calls, frames and lists *)

\* The types of the elements of the call stack.
CallNames == Txns \union Stores \union {"StorePage", "Pool"}

\* The part of Inv that is about pages and lists, not about running calls.
CacheInv ==
  /\ FramesAreListed
  /\ PagesAreListed
  /\ PageMapIsExact
  /\ DirtyIffModified
  /\ PinnedPagesAreAssigned
  /\ CleanPagesMatchDisk

\* The types of what a step leaves alone.
LEMMA SameTypes ==
  ASSUME TypeOK
  PROVE  /\ UNCHANGED pageVars => PageTypes'
         /\ UNCHANGED poolVars => PoolTypes'
         /\ UNCHANGED txnVars => TxnTypes'
         /\ UNCHANGED storeVars => StoreTypes'
         /\ UNCHANGED callerVars => CallerTypes'
         /\ UNCHANGED <<request, failed>> /\ calls' \in Seq(CallNames) => CallTypes'
<1>1. UNCHANGED pageVars => PageTypes'
  BY Zenon DEF TypeOK, PageTypes, pageVars
<1>2. UNCHANGED poolVars => PoolTypes'
  BY Zenon DEF TypeOK, PoolTypes, poolVars
<1>3. UNCHANGED txnVars => TxnTypes'
  BY Zenon DEF TypeOK, TxnTypes, txnVars
<1>4. UNCHANGED storeVars => StoreTypes'
  BY Zenon DEF TypeOK, StoreTypes, storeVars
<1>5. UNCHANGED callerVars => CallerTypes'
  BY Zenon DEF TypeOK, CallerTypes, callerVars
<1>6. UNCHANGED <<request, failed>> /\ calls' \in Seq(CallNames) => CallTypes'
  BY Zenon DEF TypeOK, CallTypes, CallNames
<1> QED BY <1>1, <1>2, <1>3, <1>4, <1>5, <1>6, Zenon

\* PageMapIsExact only depends on what the frames cache and on the map.
LEMMA SamePageMap ==
  ASSUME PageMapIsExact, UNCHANGED <<transaction, page_id, page_map>>
  PROVE  PageMapIsExact'
<1>1. \A s \in Stores : AssignedTo(s)' = AssignedTo(s)
  BY Zenon DEF AssignedTo
<1> QED BY <1>1 DEF PageMapIsExact

\* CallsAreNested only depends on the stack and on where the calls stand.
LEMMA SameCalls ==
  ASSUME CallsAreNested, UNCHANGED <<calls, pc, is_closed, state, blank>>
  PROVE  CallsAreNested'
BY Zenon DEF CallsAreNested

\* CacheInv only depends on the pages, the pool and the callers' pins.
LEMMA CacheUnchanged ==
  ASSUME CacheInv, UNCHANGED <<pageVars, poolVars, callerVars>>
  PROVE  CacheInv'
<1> USE DEF pageVars, poolVars, callerVars, AssignedTo
<1>1. FramesAreListed'
  BY Zenon DEF CacheInv, FramesAreListed
<1>2. PagesAreListed'
  BY Zenon DEF CacheInv, PagesAreListed
<1>3. PageMapIsExact'
  BY SamePageMap, Zenon DEF CacheInv
<1>4. DirtyIffModified'
  BY Zenon DEF CacheInv, DirtyIffModified
<1>5. PinnedPagesAreAssigned'
  BY Zenon DEF CacheInv, PinnedPagesAreAssigned
<1>6. CleanPagesMatchDisk'
  BY Zenon DEF CacheInv, CleanPagesMatchDisk
<1> QED BY <1>1, <1>2, <1>3, <1>4, <1>5, <1>6, Zenon DEF CacheInv

\* When no call runs, no loop holds a page.
LEMMA NoCallRuns ==
  ASSUME Inv, calls = <<>>
  PROVE  /\ \A t \in Txns : pc[t] = "idle" /\ loop_page[t] = NoFrame
         /\ request = NoRequest
         /\ \A f \in Frames : ~PinnedByLoop(f) /\ pin_count[f] = pins[f]
<1>1. Range(calls) = {}
  BY EmptyList, Zenon
<1>2. \A t \in Txns : pc[t] = "idle" /\ loop_page[t] = NoFrame
  BY <1>1, Zenon DEF Inv, CallsAreNested, HeldFramesAreUnassigned
<1>3. request = NoRequest
  BY <1>1, Zenon DEF Inv, HeldFramesAreUnassigned
<1>4. \A f \in Frames : ~PinnedByLoop(f)
  BY <1>2, <1>3, ValueAssumption, Zenon DEF PinnedByLoop, NoRequest
<1>5. \A f \in Frames : pin_count[f] = pins[f]
  BY <1>4 DEF Inv, TypeOK, CallerTypes, PinsAreAccounted
<1> QED BY <1>2, <1>3, <1>4, <1>5, Zenon

\* StorePage and ~PoolImpl run as the only call on the stack when they are the
\* innermost one.
LEMMA OutermostCall ==
  ASSUME Inv, NEW c \in {"StorePage", "Pool"}, Running(c)
  PROVE  calls = <<c>> /\ Tail(calls) = <<>>
<1>1. calls \in Seq(CallNames) /\ calls # <<>> /\ Head(calls) = c
  BY Zenon DEF Inv, TypeOK, CallTypes, CallNames, Running
<1>2. Len(calls) \in Nat \ {0} /\ calls[1] = c /\ DOMAIN calls = 1 .. Len(calls)
  BY <1>1
<1>3. c \in Range(calls)
  BY <1>2 DEF Range
<1>4. calls[Len(calls)] = c
  BY <1>3, Zenon DEF Inv, CallsAreNested
<1>5. Len(calls) = 1
  BY <1>2, <1>4 DEF Inv, CallsAreNested, IsInjective
<1>6. calls = <<c>>
  BY <1>1, <1>2, <1>5
<1> QED BY <1>6

\* The innermost call is on the stack, and returning from it removes just it.
LEMMA InnermostCall ==
  ASSUME Inv, NEW c, Running(c)
  PROVE  /\ IsList(calls, CallNames) /\ calls # <<>>
         /\ c \in CallNames /\ c \in Range(calls)
         /\ IsList(Tail(calls), CallNames)
         /\ Range(Tail(calls)) = Range(calls) \ {c}
<1>1. IsList(calls, CallNames) /\ calls # <<>> /\ Head(calls) = c
  BY Zenon
     DEF Inv, TypeOK, CallTypes, CallsAreNested, IsList, CallNames, Running
<1> QED BY <1>1, PopFront, Zenon

\* Returning from the innermost call leaves StorePage or ~PoolImpl outermost.
LEMMA ReturnKeepsOutermost ==
  ASSUME Inv, NEW c, Running(c)
  PROVE  \A d \in {"StorePage", "Pool"} :
           d \in Range(Tail(calls)) => Tail(calls)[Len(Tail(calls))] = d
<1> SUFFICES ASSUME NEW d \in {"StorePage", "Pool"}, d \in Range(Tail(calls))
             PROVE  Tail(calls)[Len(Tail(calls))] = d
  BY Zenon
<1>1. calls \in Seq(CallNames) /\ calls # <<>>
  BY InnermostCall, Zenon DEF IsList
<1>2. d \in Range(calls) /\ d # c
  BY InnermostCall, Zenon
<1>3. calls[Len(calls)] = d
  BY <1>2, Zenon DEF Inv, CallsAreNested
<1>4. calls[1] = c /\ Len(calls) \in Nat \ {0}
  BY <1>1 DEF Running
<1>5. /\ Len(Tail(calls)) = Len(calls) - 1
      /\ \A i \in 1 .. Len(Tail(calls)) : Tail(calls)[i] = calls[i + 1]
  BY <1>1
<1>6. Len(calls) # 1
  BY <1>2, <1>3, <1>4, Zenon
<1>7. Len(calls) - 1 \in 1 .. Len(Tail(calls))
  BY <1>4, <1>5, <1>6
<1> QED BY <1>3, <1>4, <1>5, <1>7

\* Pushing a call keeps the stack a list and its outermost call in place.
LEMMA PushCall ==
  ASSUME NEW cs, IsList(cs, CallNames), NEW c \in Txns \union Stores,
         c \notin Range(cs),
         \A d \in {"StorePage", "Pool"} : d \in Range(cs) => cs[Len(cs)] = d
  PROVE  /\ IsList(<<c>> \o cs, CallNames)
         /\ Range(<<c>> \o cs) = Range(cs) \union {c}
         /\ <<c>> \o cs # <<>> /\ Head(<<c>> \o cs) = c
         /\ \A d \in {"StorePage", "Pool"} :
              d \in Range(<<c>> \o cs) => (<<c>> \o cs)[Len(<<c>> \o cs)] = d
<1>1. c \in CallNames
  BY Zenon DEF CallNames
<1>2. /\ IsList(<<c>> \o cs, CallNames)
      /\ Range(<<c>> \o cs) = Range(cs) \union {c}
      /\ <<c>> \o cs # <<>> /\ Head(<<c>> \o cs) = c
  BY <1>1, PushFront
<1>3. ASSUME NEW d \in {"StorePage", "Pool"}, d \in Range(<<c>> \o cs)
      PROVE  (<<c>> \o cs)[Len(<<c>> \o cs)] = d
  <2>1. d \in Range(cs)
    BY <1>2, <1>3, CallAssumption, Zenon
  <2>2. cs \in Seq(CallNames) /\ <<c>> \in Seq(CallNames) /\ Len(<<c>>) = 1
    BY <1>1 DEF IsList
  <2>3. cs # <<>>
    BY <2>1, EmptyList, Zenon
  <2>4. Len(cs) \in Nat \ {0}
    BY <2>2, <2>3
  <2>5. /\ Len(<<c>> \o cs) = 1 + Len(cs)
        /\ (<<c>> \o cs)[1 + Len(cs)] = cs[Len(cs)]
    BY <2>2, <2>4
  <2> QED BY <2>1, <2>5, Zenon
<1> QED BY <1>2, <1>3, Zenon

\* A stack of one call.
LEMMA SingleCall ==
  ASSUME NEW c \in CallNames
  PROVE  /\ IsList(<<c>>, CallNames) /\ Range(<<c>>) = {c}
         /\ <<c>> # <<>> /\ Head(<<c>>) = c /\ <<c>>[Len(<<c>>)] = c
<1>1. <<c>> \in Seq(CallNames) /\ Len(<<c>>) = 1 /\ DOMAIN <<c>> = {1} /\ <<c>>[1] = c
  OBVIOUS
<1> QED BY <1>1 DEF IsList, IsInjective, Range

-----------------------------------------------------------------------------
(* Steps that touch no page: calls start, nest and return. *)

\* A step keeps the stores' transaction lists exact if it neither changes them
\* nor starts or ends a transaction.
LEMMA SameRunningTransactions ==
  ASSUME RunningTransactionsAreListed, live' = live,
         \A s \in Stores : state'[s] = "kOpen" =>
           state[s] = "kOpen" /\ transactions'[s] = transactions[s],
         \A t \in UserTxns \intersect live :
           ~is_closed'[t] \/ t \in Range(calls') <=>
             ~is_closed[t] \/ t \in Range(calls)
  PROVE  RunningTransactionsAreListed'
<1> SUFFICES ASSUME NEW s \in Stores, state'[s] = "kOpen"
             PROVE  /\ IsInjective(transactions'[s])
                    /\ Range(transactions'[s]) =
                         {t \in UserTxns \intersect live' : StoreOf[t] = s /\
                            (~is_closed'[t] \/ t \in Range(calls'))}
  BY Zenon DEF RunningTransactionsAreListed
<1>1. state[s] = "kOpen" /\ transactions'[s] = transactions[s]
  BY Zenon
<1>2. /\ IsInjective(transactions[s])
      /\ Range(transactions[s]) =
           {t \in UserTxns \intersect live : StoreOf[t] = s /\
              (~is_closed[t] \/ t \in Range(calls))}
  BY <1>1, Zenon DEF RunningTransactionsAreListed
<1> QED BY <1>1, <1>2, Zenon

\* What is left to prove of a step that touches no page.
LEMMA ControlStep ==
  ASSUME Inv, UNCHANGED <<pageVars, poolVars, callerVars>>,
         TypeOK', CallsAreNested', HeldFramesAreUnassigned',
         RunningTransactionsAreListed',
         \A f \in Frames : PinnedByLoop(f)' <=> PinnedByLoop(f)
  PROVE  Inv'
<1>1. CacheInv'
  BY CacheUnchanged, Zenon DEF Inv, CacheInv
<1>2. PinsAreAccounted'
  BY Zenon DEF Inv, PinsAreAccounted, pageVars, callerVars
<1> QED BY <1>1, <1>2, Zenon DEF Inv, CacheInv

\* The steps that leave pages, calls and loops alone: creating and releasing a
\* transaction.
LEMMA BystanderStep ==
  ASSUME Inv, TypeOK', RunningTransactionsAreListed',
         UNCHANGED <<pageVars, poolVars, callerVars, pc, loop_page, cursor,
                     state, request, calls>>,
         \A t \in Txns : is_closed'[t] # is_closed[t] => calls = <<>>
  PROVE  Inv'
<1>1. CallsAreNested'
  <2>1. CASE calls = <<>>
    <3>1. \A t \in Txns : pc[t] = "idle"
      BY <2>1, NoCallRuns, Zenon
    <3> QED BY <2>1, <3>1, Zenon DEF Inv, CallsAreNested, callerVars
  <2>2. CASE calls # <<>>
    <3>1. \A t \in Txns : is_closed'[t] = is_closed[t]
      BY <2>2, Zenon
    <3> QED BY <2>2, <3>1, Zenon DEF Inv, CallsAreNested, callerVars
  <2> QED BY <2>1, <2>2, Zenon
<1>2. HeldFramesAreUnassigned'
  BY Zenon DEF Inv, HeldFramesAreUnassigned, pageVars, poolVars
<1>3. \A f \in Frames : PinnedByLoop(f)' <=> PinnedByLoop(f)
  BY Zenon DEF PinnedByLoop, pageVars
<1> QED BY <1>1, <1>2, <1>3, ControlStep, Zenon

\* UnassignPageFromStore closes the store when the write fails: the stack keeps
\* its shape, and the lists of the stores that stay open do not change.
LEMMA CloseAfterWriteCalls ==
  ASSUME Inv, NEW s \in Stores, NEW ok, NEW cs, IsList(cs, CallNames),
         CloseAfterWrite(s, ok, cs),
         \A d \in {"StorePage", "Pool"} : d \in Range(cs) => cs[Len(cs)] = d,
         \A r \in Stores : r \in Range(cs) => state[r] = "kClosing"
  PROVE  /\ calls' \in Seq(Txns \union Stores \union {"StorePage", "Pool"})
         /\ IsInjective(calls')
         /\ \A c \in Txns \union {"StorePage", "Pool"} :
              c \in Range(calls') <=> c \in Range(cs)
         /\ \A d \in {"StorePage", "Pool"} :
              d \in Range(calls') => calls'[Len(calls')] = d
         /\ \A r \in Stores : r \in Range(calls') => state'[r] = "kClosing"
         /\ \A r \in Stores : state'[r] = "kOpen" =>
              state[r] = "kOpen" /\ transactions'[r] = transactions[r]
         /\ state' \in [Stores -> {"kOpen", "kClosing", "kClosed"}]
         /\ transactions' \in [Stores -> Seq(UserTxns)]
         /\ rollback_queue' \in [Stores -> Seq(UserTxns)]
<1>1. CASE ~ok /\ state[s] = "kOpen"
  <2>1. /\ state' = [state EXCEPT ![s] = "kClosing"]
        /\ rollback_queue' = [rollback_queue EXCEPT ![s] = transactions[s]]
        /\ transactions' = [transactions EXCEPT ![s] = <<>>]
        /\ calls' = <<s>> \o cs
    BY <1>1, Zenon DEF CloseAfterWrite, BeginClose
  <2>2. s \notin Range(cs)
    BY <1>1, Zenon
  <2>3. /\ IsList(calls', CallNames)
        /\ Range(calls') = Range(cs) \union {s}
        /\ \A d \in {"StorePage", "Pool"} :
             d \in Range(calls') => calls'[Len(calls')] = d
    BY <2>1, <2>2, PushCall
  <2>4. /\ state' \in [Stores -> {"kOpen", "kClosing", "kClosed"}]
        /\ transactions' \in [Stores -> Seq(UserTxns)]
        /\ rollback_queue' \in [Stores -> Seq(UserTxns)]
        /\ state'[s] = "kClosing"
        /\ \A r \in Stores \ {s} :
             state'[r] = state[r] /\ transactions'[r] = transactions[r]
    BY <2>1 DEF Inv, TypeOK, StoreTypes
  <2>5. \A c \in Txns \union {"StorePage", "Pool"} : c # s
    BY CallAssumption, Zenon
  <2>6. \A r \in Stores : r \in Range(calls') => state'[r] = "kClosing"
    BY <2>3, <2>4, Zenon
  <2> QED BY <2>3, <2>4, <2>5, <2>6, Zenon DEF IsList, CallNames
<1>2. CASE ~(~ok /\ state[s] = "kOpen")
  <2>1. UNCHANGED storeVars /\ calls' = cs
    BY <1>2, Zenon DEF CloseAfterWrite
  <2> QED BY <2>1, Zenon
      DEF IsList, CallNames, storeVars, Inv, TypeOK, StoreTypes
<1> QED BY <1>1, <1>2, Zenon

-----------------------------------------------------------------------------
(* What the operations on frames do to the lists. *)

\* A frame that is assigned, or pinned, has been created.
LEMMA UsedFrames ==
  ASSUME Inv, NEW f \in Frames, transaction[f] # NoTxn \/ pin_count[f] # 0
  PROVE  f \in allocated
BY Zenon DEF Inv, FramesAreListed

\* The pool's lists as lists.
LEMMA PoolLists ==
  ASSUME Inv
  PROVE  IsList(free_list, Frames) /\ IsList(lru_list, Frames)
BY Zenon DEF Inv, TypeOK, PoolTypes, FramesAreListed, IsList

\* UnpinUnassignedPage frees a frame with its last pin.
LEMMA FreeFrame ==
  ASSUME Inv, NEW f \in Frames, transaction[f] = NoTxn,
         pin_count[f] = 1, UnpinUnassignedPage(f),
         UNCHANGED <<allocated, lru_list, transaction>>
  PROVE  /\ FramesAreListed'
         /\ free_list' \in Seq(Frames)
         /\ pin_count' \in [Frames -> Nat]
         /\ pin_count'[f] = 0
         /\ \A g \in Frames \ {f} : pin_count'[g] = pin_count[g]
<1>1. /\ pin_count' \in [Frames -> Nat]
      /\ pin_count'[f] = 0
      /\ \A g \in Frames \ {f} : pin_count'[g] = pin_count[g]
  BY DEF Inv, TypeOK, PageTypes, UnpinUnassignedPage, RemovePin
<1>2. f \notin Range(free_list) /\ f \in allocated
  BY UsedFrames DEF Inv, FramesAreListed
<1>3. /\ IsList(free_list', Frames)
      /\ Range(free_list') = Range(free_list) \union {f}
  BY <1>2, PoolLists, PushBack DEF UnpinUnassignedPage
<1>4. FramesAreListed'
  <2>1. Range(free_list') =
          {g \in allocated : pin_count'[g] = 0 /\ transaction[g] = NoTxn}
    BY <1>1, <1>2, <1>3, Zenon DEF Inv, TypeOK, PoolTypes, FramesAreListed
  <2>2. Range(lru_list) =
          {g \in allocated : pin_count'[g] = 0 /\ transaction[g] # NoTxn}
    BY <1>1, Zenon DEF Inv, TypeOK, PoolTypes, FramesAreListed
  <2>3. \A g \in Frames \ allocated :
          pin_count'[g] = 0 /\ transaction[g] = NoTxn
    BY <1>1, <1>2, Zenon DEF Inv, FramesAreListed
  <2> QED BY <1>3, <2>1, <2>2, <2>3, PoolLists, Zenon
      DEF FramesAreListed, IsList
<1> QED BY <1>1, <1>3, <1>4, Zenon DEF IsList

\* A transaction's pages as a list.
LEMMA PageLists ==
  ASSUME Inv, NEW t \in Txns
  PROVE  /\ IsList(pool_pages[t], Frames)
         /\ Range(pool_pages[t]) = {f \in Frames : transaction[f] = t}
BY Zenon DEF Inv, TypeOK, PageTypes, PagesAreListed, IsList

\* The page list that UnassignPage and MovePage take frame f from.
LEMMA EraseFrame ==
  ASSUME Inv, NEW f \in Frames, NEW t \in Txns, transaction[f] = t
  PROVE  /\ IsList(Erase(pool_pages[t], f), Frames)
         /\ Range(Erase(pool_pages[t], f)) =
              {g \in Frames \ {f} : transaction[g] = t}
<1>1. /\ IsList(Erase(pool_pages[t], f), Frames)
      /\ Range(Erase(pool_pages[t], f)) = Range(pool_pages[t]) \ {f}
  BY PageLists, EraseElement, ZenonT(60)
<1> QED BY <1>1, PageLists, Zenon

\* UnassignPageFromStore: the frame leaves its list and the page map, and a
\* dirty page reaches the data file if the write succeeds.
LEMMA UnassignFrame ==
  ASSUME Inv, NEW f \in Frames, NEW ok, transaction[f] # NoTxn, pins[f] = 0,
         UnassignPageFromStore(f, ok),
         UNCHANGED <<page_id, data, pins, blank>>
  PROVE  /\ PagesAreListed' /\ PageMapIsExact' /\ DirtyIffModified'
         /\ PinnedPagesAreAssigned' /\ CleanPagesMatchDisk'
         /\ transaction' \in [Frames -> Txns \union {NoTxn}]
         /\ is_dirty' \in [Frames -> BOOLEAN]
         /\ pool_pages' \in [Txns -> Seq(Frames)]
         /\ page_map' \in [Stores -> [PageIds -> Frames \union {NoFrame}]]
         /\ disk' \in [Stores -> [PageIds -> Values]]
         /\ transaction'[f] = NoTxn
         /\ \A g \in Frames \ {f} : transaction'[g] = transaction[g]
         /\ \A s \in Stores, id \in PageIds :
              page_map[s][id] = NoFrame => page_map'[s][id] = NoFrame
<1> DEFINE t == transaction[f]
           s == StoreOf[t]
           id == page_id[f]
<1>1. t \in Txns /\ s \in Stores /\ id \in PageIds /\ data[f] \in Values
  BY TxnAssumption, Zenon DEF Inv, TypeOK, PageTypes
<1>2. /\ page_map' = [page_map EXCEPT ![s][id] = NoFrame]
      /\ disk' = disk \/ disk' = [disk EXCEPT ![s][id] = data[f]]
      /\ pool_pages' = [pool_pages EXCEPT ![t] = Erase(@, f)]
      /\ transaction' = [transaction EXCEPT ![f] = NoTxn]
      /\ is_dirty' = [is_dirty EXCEPT ![f] = FALSE]
  BY Zenon DEF UnassignPageFromStore, UnassignPage, WritePage
<1>3. /\ IsList(Erase(pool_pages[t], f), Frames)
      /\ Range(Erase(pool_pages[t], f)) =
           {g \in Frames \ {f} : transaction[g] = t}
  BY <1>1, EraseFrame, Zenon
<1>4. s = StoreOf[transaction[f]] /\ id = page_id[f] /\ t = transaction[f]
  BY Zenon
<1> HIDE DEF t, s, id
<1>5. /\ transaction' \in [Frames -> Txns \union {NoTxn}]
      /\ is_dirty' \in [Frames -> BOOLEAN]
      /\ pool_pages' \in [Txns -> Seq(Frames)]
      /\ page_map' \in [Stores -> [PageIds -> Frames \union {NoFrame}]]
  BY <1>1, <1>2, <1>3, Zenon DEF Inv, TypeOK, PageTypes, PoolTypes, IsList
<1>6. disk' \in [Stores -> [PageIds -> Values]]
  <2>1. disk \in [Stores -> [PageIds -> Values]]
    BY Zenon DEF Inv, TypeOK, PoolTypes
  <2>2. ASSUME NEW v \in Values
        PROVE  [disk EXCEPT ![s][id] = v] \in [Stores -> [PageIds -> Values]]
    BY <1>1, <2>1, Zenon
  <2> QED BY <1>1, <1>2, <2>1, <2>2, Zenon
<1>7. /\ transaction'[f] = NoTxn /\ ~is_dirty'[f]
      /\ \A g \in Frames \ {f} : /\ transaction'[g] = transaction[g]
                                 /\ is_dirty'[g] = is_dirty[g]
      /\ pool_pages'[t] = Erase(pool_pages[t], f)
      /\ \A u \in Txns \ {t} : pool_pages'[u] = pool_pages[u]
  BY <1>1, <1>2, Zenon DEF Inv, TypeOK, PageTypes
<1>8. /\ page_map'[s][id] = NoFrame
      /\ \A r \in Stores, i \in PageIds :
           r # s \/ i # id => /\ page_map'[r][i] = page_map[r][i]
                              /\ disk'[r][i] = disk[r][i]
  BY <1>1, <1>2 DEF Inv, TypeOK, PoolTypes
<1>9. PagesAreListed'
  <2> SUFFICES ASSUME NEW u \in Txns
               PROVE  /\ IsInjective(pool_pages'[u])
                      /\ Range(pool_pages'[u]) =
                           {g \in Frames : transaction'[g] = u}
    BY Zenon DEF PagesAreListed
  <2>1. CASE u = t
    BY <1>1, <1>3, <1>7, <2>1, ValueAssumption, Zenon DEF IsList
  <2>2. CASE u # t
    BY <1>4, <1>7, <2>2, ValueAssumption DEF Inv, PagesAreListed
  <2> QED BY <2>1, <2>2, Zenon
<1>10. \A g \in Frames \ {f} : g \in AssignedTo(s) => page_id[g] # id
  <2>1. page_map[s][id] = f
    BY <1>1, <1>4 DEF Inv, PageMapIsExact, AssignedTo
  <2> QED BY <1>1, <2>1 DEF Inv, PageMapIsExact
<1>11. PageMapIsExact'
  <2> SUFFICES ASSUME NEW r \in Stores, NEW i \in PageIds, NEW g \in Frames
               PROVE  page_map'[r][i] = g <=>
                        /\ transaction'[g] # NoTxn
                        /\ StoreOf[transaction'[g]] = r
                        /\ page_id[g] = i
    BY DEF PageMapIsExact, AssignedTo
  <2>1. page_map[r][i] = g <=> /\ transaction[g] # NoTxn
                               /\ StoreOf[transaction[g]] = r
                               /\ page_id[g] = i
    BY DEF Inv, PageMapIsExact, AssignedTo
  <2>2. CASE r = s /\ i = id
    BY <1>7, <1>8, <1>10, <2>1, <2>2, ValueAssumption, Zenon DEF AssignedTo
  <2>3. CASE r # s \/ i # id
    BY <1>4, <1>7, <1>8, <2>1, <2>3, ZenonT(30)
  <2> QED BY <2>2, <2>3, Zenon
<1>12. DirtyIffModified'
  BY <1>7, ValueAssumption, Zenon DEF Inv, DirtyIffModified, UserTxns
<1>13. PinnedPagesAreAssigned'
  BY <1>7 DEF Inv, PinnedPagesAreAssigned
<1>14. CleanPagesMatchDisk'
  <2> SUFFICES ASSUME NEW g \in Frames, transaction'[g] # NoTxn,
                      ~is_dirty'[g], g # blank
               PROVE  data[g] = disk'[StoreOf[transaction'[g]]][page_id[g]]
    BY Zenon DEF CleanPagesMatchDisk
  <2>1. /\ g # f /\ transaction'[g] = transaction[g]
        /\ transaction[g] \in Txns /\ ~is_dirty[g]
    BY <1>7, ZenonT(30) DEF Inv, TypeOK, PageTypes
  <2>2. StoreOf[transaction[g]] \in Stores /\ page_id[g] \in PageIds
    BY <2>1, TxnAssumption, ZenonT(30) DEF Inv, TypeOK, PageTypes
  <2>3. StoreOf[transaction[g]] # s \/ page_id[g] # id
    BY <1>10, <2>1, Zenon DEF AssignedTo
  <2>4. data[g] = disk[StoreOf[transaction[g]]][page_id[g]]
    BY <2>1, Zenon DEF Inv, CleanPagesMatchDisk
  <2> QED BY <1>8, <2>1, <2>2, <2>3, <2>4, Zenon
<1>15. \A r \in Stores, i \in PageIds :
         page_map[r][i] = NoFrame => page_map'[r][i] = NoFrame
  BY <1>8, Zenon
<1> QED BY <1>5, <1>6, <1>7, <1>9, <1>11, <1>12, <1>13, <1>14, <1>15, Zenon

\* The first page of a transaction's list.
LEMMA FirstPage ==
  ASSUME Inv, NEW t \in Txns, pool_pages[t] # <<>>
  PROVE  /\ Head(pool_pages[t]) \in Frames
         /\ transaction[Head(pool_pages[t])] = t
         /\ t # NoTxn
<1>1. Head(pool_pages[t]) \in Frames /\ Head(pool_pages[t]) \in Range(pool_pages[t])
  BY PageLists, PopFront, Zenon
<1> QED BY <1>1, PageLists, ValueAssumption, Zenon

\* A page of a transaction is held by no other loop.
LEMMA HeldByTransaction ==
  ASSUME Inv, NEW f \in Frames, transaction[f] # NoTxn
  PROVE  /\ request.page # f
         /\ \A u \in Txns : loop_page[u] # f
<1>1. \A u \in Txns : loop_page[u] # f
  BY ValueAssumption, Zenon DEF Inv, HeldFramesAreUnassigned
<1>2. CASE request = NoRequest
  BY <1>1, <1>2, ValueAssumption, Zenon DEF NoRequest
<1>3. CASE request # NoRequest
  BY <1>1, <1>3, Zenon DEF Inv, HeldFramesAreUnassigned
<1> QED BY <1>1, <1>2, <1>3, Zenon

\* AllocPage has returned: StorePage is the only call, and holds its frame.
LEMMA StorePageRuns ==
  ASSUME Inv, Running("StorePage")
  PROVE  /\ Tail(calls) = <<>> /\ blank = NoFrame
         /\ \A t \in Txns : pc[t] = "idle" /\ loop_page[t] = NoFrame
         /\ request \in Requests /\ request # NoRequest
         /\ transaction[request.page] = NoTxn
         /\ page_map[request.store][request.id] = NoFrame
         /\ pins[request.page] = 0 /\ pin_count[request.page] = 1
         /\ \A t \in Txns : t \notin Range(calls)
<1>1. calls = <<"StorePage">> /\ Tail(calls) = <<>>
  BY OutermostCall, Zenon
<1>2. Range(calls) = {"StorePage"} /\ calls # <<>>
  BY <1>1, SingleCall, Zenon DEF CallNames
<1>3. \A t \in Txns : t \notin Range(calls)
  BY <1>2, CallAssumption, Zenon
<1>4. \A t \in Txns : pc[t] = "idle" /\ loop_page[t] = NoFrame
  BY <1>3, Zenon DEF Inv, CallsAreNested, HeldFramesAreUnassigned
<1>5. /\ request # NoRequest /\ transaction[request.page] = NoTxn
      /\ page_map[request.store][request.id] = NoFrame
  BY <1>2, Zenon DEF Inv, HeldFramesAreUnassigned
<1>6. request \in Requests /\ request.page \in Frames
  BY <1>5, Zenon DEF Inv, TypeOK, CallTypes, Requests
<1>7. PinnedByLoop(request.page)
  BY Zenon DEF PinnedByLoop
<1>8. pins[request.page] = 0
  BY <1>5, <1>6 DEF Inv, TypeOK, CallerTypes, PinnedPagesAreAssigned
<1>9. pin_count[request.page] = 1
  <2>1. pin_count[request.page] =
          pins[request.page] + (IF PinnedByLoop(request.page) THEN 1 ELSE 0)
    BY <1>6, Zenon DEF Inv, PinsAreAccounted
  <2>2. (IF PinnedByLoop(request.page) THEN 1 ELSE 0) = 1
    BY <1>7, Zenon
  <2>3. pin_count[request.page] = 0 + 1
    BY <1>8, <2>1, <2>2, Zenon
  <2>4. 0 + 1 = 1
    OBVIOUS
  <2> QED BY <2>3, <2>4, Zenon
<1>10. blank = NoFrame
  BY <1>2, Zenon DEF Inv, CallsAreNested
<1> QED BY <1>1, <1>3, <1>4, <1>5, <1>6, <1>8, <1>9, <1>10, Zenon

-----------------------------------------------------------------------------
(* The steps that enter calls and return from them. *)

\* StoreImpl::CreateTransaction lists the new transaction, which owns no page.
LEMMA CreateTransactionInv ==
  ASSUME Inv, NEW t \in Txns, CreateTransaction(t)
  PROVE  Inv'
<1> DEFINE s == StoreOf[t]
<1>1. s \in Stores
  BY TxnAssumption, Zenon
<1>2. /\ state[s] = "kOpen" /\ t \in UserTxns \ live /\ calls = <<>>
      /\ live' = live \union {t}
      /\ is_closed' = [is_closed EXCEPT ![t] = FALSE]
      /\ transactions' = [transactions EXCEPT ![s] = Append(@, t)]
      /\ UNCHANGED <<calls, state>>
  BY Zenon DEF CreateTransaction, Idle
<1>3. IsList(transactions[s], UserTxns) /\ t \notin Range(transactions[s])
  BY <1>1, <1>2, Zenon
     DEF Inv, TypeOK, StoreTypes, IsList, RunningTransactionsAreListed
<1>4. /\ IsList(Append(transactions[s], t), UserTxns)
      /\ Range(Append(transactions[s], t)) = Range(transactions[s]) \union {t}
  BY <1>2, <1>3, PushBack
<1>5. TypeOK'
  <2>1. TxnTypes'
    BY <1>1, <1>4, Zenon
       DEF Inv, TypeOK, TxnTypes, IsList, CreateTransaction, pageVars, poolVars,
           callerVars
  <2>2. StoreTypes'
    BY <1>1, <1>4, Zenon
       DEF Inv, TypeOK, StoreTypes, IsList, CreateTransaction, pageVars,
           poolVars, callerVars
  <2>3. CallTypes'
    BY <1>1, <1>4, Zenon
       DEF Inv, TypeOK, CallTypes, IsList, CreateTransaction, pageVars,
           poolVars, callerVars
  <2> QED BY <1>1, <1>4, <2>1, <2>2, <2>3, SameTypes, Zenon
      DEF Inv, TypeOK, CreateTransaction, pageVars, poolVars, callerVars
<1>6. RunningTransactionsAreListed'
  <2> SUFFICES ASSUME NEW r \in Stores, state[r] = "kOpen"
               PROVE  /\ IsInjective(transactions'[r])
                      /\ Range(transactions'[r]) =
                           {u \in UserTxns \intersect live' : StoreOf[u] = r /\
                              (~is_closed'[u] \/ u \in Range(calls'))}
    BY <1>2, Zenon DEF RunningTransactionsAreListed
  <2>1. /\ IsInjective(transactions[r])
        /\ Range(transactions[r]) =
             {u \in UserTxns \intersect live : StoreOf[u] = r /\
                (~is_closed[u] \/ u \in Range(calls))}
    BY Zenon DEF Inv, RunningTransactionsAreListed
  <2>2. ~is_closed'[t] /\ \A u \in Txns \ {t} : is_closed'[u] = is_closed[u]
    BY <1>2, Zenon DEF Inv, TypeOK, TxnTypes
  <2>3. CASE r = s
    <3>1. transactions'[r] = Append(transactions[s], t)
      BY <1>1, <1>2, <2>3, Zenon DEF Inv, TypeOK, StoreTypes
    <3> QED BY <1>2, <1>4, <2>1, <2>2, <2>3, <3>1 DEF IsList, UserTxns
  <2>4. CASE r # s
    <3>1. transactions'[r] = transactions[r]
      BY <1>2, <2>4 DEF Inv
    <3> QED BY <1>2, <2>1, <2>2, <2>4, <3>1, Zenon DEF UserTxns
  <2> QED BY <2>3, <2>4, Zenon
<1> QED BY <1>5, <1>6, BystanderStep, Zenon DEF CreateTransaction, Idle

\* Releasing a closed transaction leaves nothing behind on any list.
LEMMA ReleaseInv ==
  ASSUME Inv, NEW t \in Txns, Release(t)
  PROVE  Inv'
<1>1. TypeOK'
  <2>1. TxnTypes'
    BY Zenon
       DEF Inv, TypeOK, TxnTypes, Release, pageVars, poolVars, callerVars,
           storeVars
  <2>2. CallTypes'
    BY Zenon
       DEF Inv, TypeOK, CallTypes, Release, pageVars, poolVars, callerVars,
           storeVars
  <2> QED BY <2>1, <2>2, SameTypes, Zenon
      DEF Inv, TypeOK, Release, pageVars, poolVars, callerVars, storeVars
<1>2. RunningTransactionsAreListed'
  <2>1. Range(calls) = {} /\ is_closed[t] /\ live' = live \ {t}
    BY EmptyList, Zenon DEF Release, Idle
  <2> QED BY <2>1, Zenon
      DEF Inv, RunningTransactionsAreListed, Release, storeVars
<1> QED BY <1>1, <1>2, BystanderStep, Zenon DEF Release, Idle, storeVars

\* Entering TransactionImpl::Commit: no page is pinned yet.
LEMMA CommitInv ==
  ASSUME Inv, NEW t \in Txns, Commit(t)
  PROVE  Inv'
<1>1. /\ calls = <<>> /\ calls' = <<t>> /\ t \in UserTxns /\ ~is_closed[t]
      /\ pc' = [pc EXCEPT ![t] = "pin_commit"] /\ cursor' = 1
      /\ blank = NoFrame
      /\ UNCHANGED <<pageVars, poolVars, callerVars, live, is_closed,
                     is_committed, loop_page, storeVars, request, failed>>
  BY Zenon DEF Commit, Idle
<1>2. t \in CallNames
  BY Zenon DEF CallNames
<1>3. /\ IsList(calls', CallNames) /\ Range(calls') = {t}
      /\ Head(calls') = t
  BY <1>1, <1>2, SingleCall, Zenon
<1>4. /\ \A u \in Txns : pc[u] = "idle" /\ loop_page[u] = NoFrame
      /\ request = NoRequest
      /\ \A f \in Frames : ~PinnedByLoop(f)
  BY <1>1, NoCallRuns, Zenon
<1>5. TypeOK'
  <2>1. TxnTypes'
    BY <1>1, <1>3
       DEF Inv, TypeOK, TxnTypes, Pcs, IsList, CallNames, pageVars, poolVars,
           callerVars, storeVars
  <2> QED BY <1>1, <1>3, <2>1, SameTypes
      DEF Inv, TypeOK, CallNames, pageVars, poolVars, callerVars, storeVars
<1>6. /\ pc'[t] = "pin_commit"
      /\ \A u \in Txns \ {t} : pc'[u] = "idle"
  BY <1>1, <1>4, Zenon DEF Inv, TypeOK, TxnTypes
<1>7. CallsAreNested'
  <2>1. \A s \in Stores : s # t
    BY CallAssumption, Zenon
  <2>2. t \notin {"StorePage", "Pool"}
    BY CallAssumption, Zenon
  <2> QED BY <1>1, <1>3, <1>6, <2>1, <2>2, ZenonT(60)
      DEF Inv, CallsAreNested, IsList, callerVars
<1>8. HeldFramesAreUnassigned'
  <2>1. "StorePage" # t
    BY CallAssumption, Zenon
  <2> QED BY <1>1, <1>3, <1>4, <1>6, <2>1, Zenon DEF HeldFramesAreUnassigned
<1>9. \A f \in Frames : ~PinnedByLoop(f)'
  <2> SUFFICES ASSUME NEW f \in Frames PROVE ~PinnedByLoop(f)'
    BY Zenon
  <2>1. request'.page # f
    BY <1>1, <1>4, ValueAssumption, Zenon DEF NoRequest
  <2>2. \A u \in Txns : loop_page'[u] # f
    BY <1>1, <1>4, ValueAssumption, ZenonT(60)
  <2>3. \A i \in DOMAIN pool_pages'[t] : ~(i < cursor')
    <3>1. pool_pages[t] \in Seq(Frames)
      BY Zenon DEF Inv, TypeOK, PageTypes
    <3> QED BY <1>1, <3>1 DEF pageVars
  <2> QED BY <1>6, <2>1, <2>2, <2>3, Zenon DEF PinnedByLoop
<1>10. RunningTransactionsAreListed'
  <2>1. Range(calls) = {}
    BY <1>1, EmptyList, Zenon
  <2> QED BY <1>1, <1>3, <2>1, SameRunningTransactions, Zenon DEF Inv, storeVars
<1> QED BY <1>1, <1>4, <1>5, <1>7, <1>8, <1>9, <1>10, ControlStep, Zenon

\* TransactionImpl::Close starts: in a rollback, from StoreImpl::Close, or at
\* the end of a commit.
LEMMA BeginTransactionCloseInv ==
  ASSUME Inv, TypeOK', NEW t \in Txns, NEW cs, BeginTransactionClose(t, cs),
         UNCHANGED <<pageVars, poolVars, callerVars, loop_page, state, request,
                     live, transactions>>,
         IsList(cs, CallNames), Range(cs) = Range(calls) \union {t},
         Head(cs) = t, cs # <<>>, blank = NoFrame, ~is_closed[t],
         \A d \in {"StorePage", "Pool"} : d \in Range(cs) => cs[Len(cs)] = d,
         \A u \in Txns \ {t} : pc[u] \in {"idle", "unassign", "unpin"},
         pc[t] = "idle" \/ (pc[t] = "write" /\ pool_pages[t] = <<>>)
  PROVE  Inv'
<1>1. /\ pc' = [pc EXCEPT ![t] = "pin_close"] /\ cursor' = 1 /\ calls' = cs
      /\ is_closed' = [is_closed EXCEPT ![t] = TRUE]
  BY Zenon DEF BeginTransactionClose
<1>2. /\ pc'[t] = "pin_close" /\ is_closed'[t]
      /\ \A u \in Txns \ {t} : pc'[u] = pc[u] /\ is_closed'[u] = is_closed[u]
  BY <1>1, Zenon DEF Inv, TypeOK, TxnTypes
<1>3. t \notin Stores /\ t # "StorePage" /\ t # "Pool"
  BY CallAssumption, Zenon
<1>4. CallsAreNested'
  <2>1. \A u \in Txns : u \in Range(calls)' <=> pc'[u] # "idle"
    BY <1>1, <1>2 DEF Inv, CallsAreNested
  <2>2. \A s \in Stores : s \in Range(calls)' => state'[s] = "kClosing"
    BY <1>1, <1>3, Zenon DEF Inv, CallsAreNested
  <2> QED BY <1>1, <1>2, <2>1, <2>2 DEF Inv, CallsAreNested, IsList, callerVars
<1>5. HeldFramesAreUnassigned'
  <2>1. "StorePage" \in Range(calls)' <=> "StorePage" \in Range(calls)
    BY <1>1, <1>3, Zenon
  <2>2. \A u \in Txns : pc'[u] = "unpin" <=> pc[u] = "unpin"
    BY <1>2, Zenon
  <2> QED BY <2>1, <2>2, Zenon
      DEF Inv, HeldFramesAreUnassigned, pageVars, poolVars
<1>6. ASSUME NEW f \in Frames
      PROVE  PinnedByLoop(f)' <=> PinnedByLoop(f)
  <2>1. \A u \in Txns : pc'[u] = "unpin" <=> pc[u] = "unpin"
    BY <1>2, Zenon
  <2>2. \A i \in DOMAIN pool_pages[t] : ~(i < 1)
    <3>1. pool_pages[t] \in Seq(Frames)
      BY Zenon DEF Inv, TypeOK, PageTypes
    <3> QED BY <3>1
  <2>3. pc[t] = "write" => transaction[f] # t
    <3>1. Range(<<>>) = {}
      BY EmptyList, Zenon
    <3> QED BY <3>1, Zenon DEF Inv, PagesAreListed
  <2> QED BY <1>1, <1>2, <2>1, <2>2, <2>3, ZenonT(60) DEF PinnedByLoop, pageVars
<1>7. RunningTransactionsAreListed'
  <2>1. \A u \in UserTxns \intersect live :
          ~is_closed'[u] \/ u \in Range(calls') <=>
            ~is_closed[u] \/ u \in Range(calls)
    BY <1>1, <1>2, Zenon DEF UserTxns
  <2> QED BY <2>1, SameRunningTransactions, Zenon DEF Inv
<1> QED BY <1>4, <1>5, <1>6, <1>7, ControlStep, Zenon

\* Entering TransactionImpl::Rollback from the application.
LEMMA RollbackInv ==
  ASSUME Inv, NEW t \in Txns, Rollback(t)
  PROVE  Inv'
<1>1. /\ calls = <<>> /\ blank = NoFrame /\ BeginTransactionClose(t, <<t>>)
      /\ ~is_closed[t]
      /\ UNCHANGED <<pageVars, poolVars, live, is_committed, loop_page,
                     storeVars, callerVars, request, failed>>
  BY Zenon DEF Rollback, Idle
<1>2. t \in CallNames /\ t # "StorePage" /\ t # "Pool"
  BY CallAssumption, Zenon DEF CallNames
<1>3. /\ IsList(<<t>>, CallNames) /\ Range(<<t>>) = Range(calls) \union {t}
      /\ <<t>> # <<>> /\ Head(<<t>>) = t
  BY <1>1, <1>2, SingleCall, EmptyList, Zenon
<1>4. \A u \in Txns : pc[u] = "idle"
  BY <1>1, NoCallRuns, Zenon
<1>5. TypeOK'
  <2>1. TxnTypes'
    BY <1>1, <1>3
       DEF Inv, TypeOK, TxnTypes, Pcs, IsList, CallNames, pageVars, poolVars,
           callerVars, storeVars, BeginTransactionClose
  <2> QED BY <1>1, <1>3, <2>1, SameTypes
      DEF Inv, TypeOK, CallNames, pageVars, poolVars, callerVars, storeVars,
          BeginTransactionClose
<1>6. \A d \in {"StorePage", "Pool"} :
        d \in Range(<<t>>) => <<t>>[Len(<<t>>)] = d
  BY <1>1, <1>2, <1>3, EmptyList, Zenon
<1> QED BY <1>1, <1>3, <1>4, <1>5, <1>6, BeginTransactionCloseInv, Zenon
    DEF storeVars

\* Commit calls Close once every page of the transaction has been written.
LEMMA CommitDoneInv ==
  ASSUME Inv, NEW t \in Txns, CommitDone(t)
  PROVE  Inv'
<1>1. /\ Running(t) /\ pc[t] = "write" /\ pool_pages[t] = <<>>
      /\ BeginTransactionClose(t, calls)
      /\ is_committed' = [is_committed EXCEPT ![t] = TRUE]
      /\ UNCHANGED <<pageVars, poolVars, live, loop_page, storeVars, callerVars,
                     request, failed>>
  BY ZenonT(60) DEF CommitDone
<1>2. calls = <<t>> /\ blank = NoFrame /\ ~is_closed[t]
  BY <1>1, Zenon DEF Inv, CallsAreNested, Running
<1>3. IsList(calls, CallNames) /\ t \in Range(calls) /\ calls # <<>> /\ Head(calls) = t
  BY <1>1, InnermostCall, Zenon DEF Running
<1>4. Range(calls) = {t}
  BY <1>2, SingleCall, Zenon DEF CallNames
<1>5. \A u \in Txns \ {t} : pc[u] = "idle"
  BY <1>4, Zenon DEF Inv, CallsAreNested
<1>6. TypeOK'
  <2>1. TxnTypes'
    BY <1>1, <1>3
       DEF Inv, TypeOK, TxnTypes, Pcs, pageVars, poolVars, callerVars,
           storeVars, BeginTransactionClose
  <2>2. CallTypes'
    BY <1>1, <1>3, Zenon
       DEF Inv, TypeOK, CallTypes, Pcs, pageVars, poolVars, callerVars,
           storeVars, BeginTransactionClose
  <2> QED BY <1>1, <1>3, <2>1, <2>2, SameTypes, ZenonT(60)
      DEF Inv, TypeOK, pageVars, poolVars, callerVars, storeVars,
          BeginTransactionClose
<1>7. \A d \in {"StorePage", "Pool"} : d \in Range(calls) => calls[Len(calls)] = d
  BY Zenon DEF Inv, CallsAreNested
<1>8. Range(calls) = Range(calls) \union {t}
  BY <1>4, Zenon
<1> QED BY <1>1, <1>2, <1>3, <1>5, <1>6, <1>7, <1>8, BeginTransactionCloseInv,
    ZenonT(30)
    DEF storeVars

\* StoreImpl::Close is innermost: no transaction commits or pins its pages.
LEMMA StoreRuns ==
  ASSUME Inv, NEW s \in Stores, Running(s)
  PROVE  /\ state[s] = "kClosing"
         /\ blank = NoFrame
         /\ \A t \in Txns : pc[t] \in {"idle", "unassign", "unpin"}
         /\ \A t \in Txns : ~is_closed[t] => pc[t] = "idle" /\ t \notin Range(calls)
<1>1. calls # <<>> /\ Head(calls) = s /\ s \in Range(calls)
  BY InnermostCall, Zenon DEF Running
<1>2. \A t \in Txns : t # s /\ Head(<<t>>) = t
  BY CallAssumption
<1>3. \A t \in Txns : pc[t] \in Pcs
  BY Zenon DEF Inv, TypeOK, TxnTypes
<1>4. ASSUME NEW t \in Txns
      PROVE  pc[t] \in {"idle", "unassign", "unpin"}
  <2>1. pc[t] = "pin_close" => Head(calls) = t
    BY Zenon DEF Inv, CallsAreNested
  <2>2. pc[t] \in {"pin_commit", "write"} => calls = <<t>>
    BY Zenon DEF Inv, CallsAreNested
  <2>3. pc[t] \notin {"pin_commit", "write"}
    BY <1>1, <1>2, <2>2, Zenon
  <2> QED BY <1>1, <1>2, <1>3, <2>1, <2>3, Zenon DEF Pcs
<1> QED BY <1>1, <1>4, Zenon DEF Inv, CallsAreNested

\* StoreImpl::Close calls TransactionImpl::Close.
LEMMA NestedTransactionCloseInv ==
  ASSUME Inv, TypeOK', NEW s \in Stores, NEW t \in Txns, Running(s),
         ~is_closed[t], BeginTransactionClose(t, <<t>> \o calls),
         UNCHANGED <<pageVars, poolVars, callerVars, loop_page, state, request,
                     live, transactions>>
  PROVE  Inv'
<1>1. /\ blank = NoFrame
      /\ \A u \in Txns : pc[u] \in {"idle", "unassign", "unpin"}
      /\ pc[t] = "idle" /\ t \notin Range(calls)
  BY StoreRuns, Zenon
<1>2. IsList(calls, CallNames)
  BY InnermostCall, Zenon
<1>3. \A d \in {"StorePage", "Pool"} : d \in Range(calls) => calls[Len(calls)] = d
  BY Zenon DEF Inv, CallsAreNested
<1>4. /\ IsList(<<t>> \o calls, CallNames)
      /\ Range(<<t>> \o calls) = Range(calls) \union {t}
      /\ <<t>> \o calls # <<>> /\ Head(<<t>> \o calls) = t
      /\ \A d \in {"StorePage", "Pool"} :
           d \in Range(<<t>> \o calls)
             => (<<t>> \o calls)[Len(<<t>> \o calls)] = d
  BY <1>1, <1>2, <1>3, PushCall, Zenon
<1> QED BY <1>1, <1>4, BeginTransactionCloseInv, Zenon

\* The types of the variables that BeginTransactionClose changes.
BeginTypes ==
  /\ calls \in Seq(Txns \union Stores \union {"StorePage", "Pool"})
  /\ is_closed \in [Txns -> BOOLEAN]
  /\ pc \in [Txns -> Pcs]
  /\ cursor \in Nat \ {0}

\* The variables that entering TransactionImpl::Close changes keep their types.
LEMMA BeginTransactionCloseTypes ==
  ASSUME Inv, NEW t \in Txns, NEW cs \in Seq(CallNames),
         BeginTransactionClose(t, cs)
  PROVE  BeginTypes'
BY DEF Inv, TypeOK, TxnTypes, BeginTypes, BeginTransactionClose, CallNames, Pcs

\* StoreImpl::Close enters the rollback of the next queued transaction.
LEMMA CloseRollbackInv ==
  ASSUME Inv, NEW s \in Stores, CloseRollback(s)
  PROVE  Inv'
<1> DEFINE t == Head(rollback_queue[s])
<1>1. /\ Running(s) /\ rollback_queue[s] # <<>>
      /\ IF is_closed[t] THEN UNCHANGED <<is_closed, pc, cursor, calls>>
         ELSE BeginTransactionClose(t, <<t>> \o calls)
      /\ rollback_queue' = [rollback_queue EXCEPT ![s] = Tail(@)]
      /\ UNCHANGED <<pageVars, poolVars, live, is_committed, loop_page, state,
                     transactions, callerVars, request, failed>>
  BY Zenon DEF CloseRollback
<1>2. rollback_queue[s] \in Seq(UserTxns)
  BY Zenon DEF Inv, TypeOK, StoreTypes
<1>3. t \in UserTxns /\ Tail(rollback_queue[s]) \in Seq(UserTxns)
  BY <1>1, <1>2
<1>4. t \in Txns
  BY <1>3, Zenon DEF UserTxns
<1> HIDE DEF t
<1>5. rollback_queue' \in [Stores -> Seq(UserTxns)]
  BY <1>1, <1>3, Zenon DEF Inv, TypeOK, StoreTypes
<1>6. CASE is_closed[t]
  <2>1. TypeOK'
    <3>1. TxnTypes'
      BY <1>1, <1>5, <1>6, Zenon
         DEF Inv, TypeOK, TxnTypes, pageVars, poolVars, callerVars
    <3>2. StoreTypes'
      BY <1>1, <1>5, <1>6, Zenon
         DEF Inv, TypeOK, StoreTypes, pageVars, poolVars, callerVars
    <3>3. CallTypes'
      BY <1>1, <1>5, <1>6, Zenon
         DEF Inv, TypeOK, CallTypes, pageVars, poolVars, callerVars
    <3> QED BY <1>1, <1>5, <1>6, <3>1, <3>2, <3>3, SameTypes, Zenon
        DEF Inv, TypeOK, pageVars, poolVars, callerVars
  <2>2. RunningTransactionsAreListed'
    BY <1>1, <1>6, SameRunningTransactions, Zenon DEF Inv
  <2> QED BY <1>1, <1>6, <2>1, <2>2, BystanderStep, Zenon
<1>7. CASE ~is_closed[t]
  <2>1. IsList(calls, CallNames) /\ t \notin Range(calls)
    BY <1>1, <1>4, <1>7, InnermostCall, StoreRuns, Zenon
  <2>2. <<t>> \o calls \in Seq(CallNames)
    <3>1. <<t>> \in Seq(CallNames) /\ calls \in Seq(CallNames)
      BY <1>4, <2>1 DEF CallNames, IsList
    <3> QED BY <3>1
  <2>3. BeginTransactionClose(t, <<t>> \o calls)
    BY <1>1, <1>7, Zenon
  <2>4. BeginTypes'
    BY <1>4, <2>2, <2>3, BeginTransactionCloseTypes, Zenon
  <2>5. TypeOK'
    <3>1. TxnTypes'
      BY <1>1, <1>5, <2>4, Zenon
         DEF Inv, TypeOK, TxnTypes, pageVars, poolVars, callerVars, BeginTypes
    <3>2. StoreTypes'
      BY <1>1, <1>5, <2>4, Zenon
         DEF Inv, TypeOK, StoreTypes, pageVars, poolVars, callerVars, BeginTypes
    <3>3. CallTypes'
      BY <1>1, <1>5, <2>4, Zenon
         DEF Inv, TypeOK, CallTypes, pageVars, poolVars, callerVars, BeginTypes
    <3> QED BY <1>1, <1>5, <2>4, <3>1, <3>2, <3>3, SameTypes, Zenon
        DEF Inv, TypeOK, pageVars, poolVars, callerVars
  <2> QED BY <1>1, <1>4, <1>7, <2>3, <2>5, NestedTransactionCloseInv, Zenon
<1> QED BY <1>6, <1>7, Zenon

\* StoreImpl::Close enters the rollback of the store's init transaction.
LEMMA CloseRollbackInitInv ==
  ASSUME Inv, NEW s \in Stores, CloseRollbackInit(s)
  PROVE  Inv'
<1> DEFINE t == InitTxn[s]
<1>1. /\ Running(s) /\ ~is_closed[t]
      /\ BeginTransactionClose(t, <<t>> \o calls)
      /\ UNCHANGED <<pageVars, poolVars, live, is_committed, loop_page,
                     storeVars, callerVars, request, failed>>
  BY Zenon DEF CloseRollbackInit
<1>2. t \in Txns
  BY TxnAssumption, Zenon
<1> HIDE DEF t
<1>3. <<t>> \o calls \in Seq(CallNames)
  <2>1. <<t>> \in Seq(CallNames) /\ calls \in Seq(CallNames)
    BY <1>1, <1>2, InnermostCall DEF CallNames, IsList
  <2> QED BY <2>1
<1>4. BeginTypes'
  BY <1>1, <1>2, <1>3, BeginTransactionCloseTypes, ZenonT(60)
<1>5. TypeOK'
  <2>1. TxnTypes'
    BY <1>1, <1>4, Zenon
       DEF Inv, TypeOK, TxnTypes, pageVars, poolVars, callerVars, storeVars,
           BeginTypes
  <2>2. CallTypes'
    BY <1>1, <1>4, Zenon
       DEF Inv, TypeOK, CallTypes, pageVars, poolVars, callerVars, storeVars,
           BeginTypes
  <2> QED BY <1>1, <1>4, <2>1, <2>2, SameTypes, Zenon
      DEF Inv, TypeOK, pageVars, poolVars, callerVars, storeVars
<1> QED BY <1>1, <1>2, <1>5, NestedTransactionCloseInv, Zenon DEF storeVars

\* StoreImpl::Close starts, from the calls cs.
LEMMA BeginCloseInv ==
  ASSUME Inv, NEW s \in Stores, BeginClose(s), state[s] = "kOpen",
         UNCHANGED <<pageVars, poolVars, txnVars, callerVars, request, failed>>,
         blank = NoFrame, calls' = <<s>> \o calls,
         calls = <<>> \/ Running("Pool")
  PROVE  Inv'
<1>1. IsList(calls, CallNames)
  BY Zenon DEF Inv, TypeOK, CallTypes, CallsAreNested, IsList, CallNames
<1>2. s \notin Range(calls)
  BY Zenon DEF Inv, CallsAreNested
<1>3. /\ IsList(calls', CallNames)
      /\ Range(calls') = Range(calls) \union {s}
      /\ calls' # <<>> /\ Head(calls') = s
      /\ \A d \in {"StorePage", "Pool"} :
           d \in Range(calls') => calls'[Len(calls')] = d
  <2>1. \A d \in {"StorePage", "Pool"} : d \in Range(calls) => calls[Len(calls)] = d
    BY Zenon DEF Inv, CallsAreNested
  <2> QED BY <1>1, <1>2, <2>1, PushCall
<1>4. /\ state' = [state EXCEPT ![s] = "kClosing"]
      /\ rollback_queue' = [rollback_queue EXCEPT ![s] = transactions[s]]
      /\ transactions' = [transactions EXCEPT ![s] = <<>>]
  BY Zenon DEF BeginClose
<1>5. calls' \in Seq(Txns \union Stores \union {"StorePage", "Pool"})
  BY <1>3, Zenon DEF IsList, CallNames
<1>6. TypeOK'
  <2>1. StoreTypes'
    BY <1>4, <1>5
       DEF Inv, TypeOK, StoreTypes, pageVars, poolVars, txnVars, callerVars
  <2>2. CallTypes'
    BY <1>4, <1>5, Zenon
       DEF Inv, TypeOK, CallTypes, pageVars, poolVars, txnVars, callerVars
  <2> QED BY <1>4, <1>5, <2>1, <2>2, SameTypes, Zenon
      DEF Inv, TypeOK, pageVars, poolVars, txnVars, callerVars
<1>7. \A t \in Txns : t # s /\ pc[t] = "idle" /\ pc'[t] = "idle"
  <2>1. CASE calls = <<>>
    BY <2>1, NoCallRuns, CallAssumption, Zenon DEF txnVars
  <2>2. CASE Running("Pool")
    <3>1. Range(calls) = {"Pool"}
      BY <2>2, OutermostCall, SingleCall, Zenon DEF CallNames
    <3>2. \A t \in Txns : t \notin Range(calls)
      BY <3>1, CallAssumption, Zenon
    <3> QED BY <3>2, CallAssumption, Zenon DEF Inv, CallsAreNested, txnVars
  <2> QED BY <2>1, <2>2, Zenon
<1>8. s # "StorePage" /\ s # "Pool" /\ s \notin Txns
  BY CallAssumption, Zenon
<1>9. CallsAreNested'
  <2>1. \A t \in Txns : t \notin Range(calls')
    BY <1>3, <1>7, Zenon DEF Inv, CallsAreNested
  <2>2. \A r \in Stores : r \in Range(calls') => state'[r] = "kClosing"
    BY <1>3, <1>4, ZenonT(30) DEF Inv, TypeOK, StoreTypes, CallsAreNested
  <2> QED BY <1>3, <1>7, <2>1, <2>2, Zenon
      DEF CallsAreNested, IsList, callerVars
<1>10. HeldFramesAreUnassigned'
  <2>1. "StorePage" \in Range(calls)' <=> "StorePage" \in Range(calls)
    BY <1>3, <1>8, Zenon
  <2> QED BY <2>1, Zenon
      DEF Inv, HeldFramesAreUnassigned, pageVars, poolVars, txnVars
<1>11. \A f \in Frames : PinnedByLoop(f)' <=> PinnedByLoop(f)
  BY ZenonT(60) DEF PinnedByLoop, pageVars, txnVars
<1>12. RunningTransactionsAreListed'
  <2>1. \A r \in Stores : state'[r] = "kOpen" =>
          state[r] = "kOpen" /\ transactions'[r] = transactions[r]
    BY <1>4, Zenon DEF Inv, TypeOK, StoreTypes
  <2>2. \A t \in UserTxns : t \in Range(calls') <=> t \in Range(calls)
    BY <1>3, <1>8, Zenon DEF UserTxns
  <2> QED BY <2>1, <2>2, SameRunningTransactions, Zenon DEF Inv, txnVars
<1> QED BY <1>6, <1>9, <1>10, <1>11, <1>12, ControlStep, Zenon

\* The application enters StoreImpl::Close.
LEMMA CloseStoreInv ==
  ASSUME Inv, NEW s \in Stores, CloseStore(s)
  PROVE  Inv'
<1>1. s \in CallNames
  BY Zenon DEF CallNames
<1>2. <<s>> = <<s>> \o <<>>
  BY <1>1
<1> QED BY <1>2, BeginCloseInv, Zenon DEF CloseStore, Idle

\* ~PoolImpl enters StoreImpl::Close for the next open store.
LEMMA DestroyPoolCloseStoreInv ==
  ASSUME Inv, NEW s \in Stores, DestroyPoolCloseStore(s)
  PROVE  Inv'
<1>1. blank = NoFrame
  BY Zenon DEF DestroyPoolCloseStore, Running, Inv, CallsAreNested
<1> QED BY <1>1, BeginCloseInv, Zenon DEF DestroyPoolCloseStore

\* PinTransactionPages returns: every page of the transaction is pinned.
LEMMA PinTransactionPagesDoneInv ==
  ASSUME Inv, NEW t \in Txns, PinTransactionPagesDone(t)
  PROVE  Inv'
<1>1. /\ Running(t) /\ pc[t] \in {"pin_commit", "pin_close"}
      /\ cursor > Len(pool_pages[t])
      /\ pc' = [pc EXCEPT ![t] = IF @ = "pin_commit" THEN "write" ELSE "unassign"]
      /\ UNCHANGED <<pageVars, poolVars, live, is_closed, is_committed,
                     loop_page, cursor, storeVars, callerVars, request, calls,
                     failed>>
  BY Zenon DEF PinTransactionPagesDone
<1>2. /\ pc'[t] = IF pc[t] = "pin_commit" THEN "write" ELSE "unassign"
      /\ \A u \in Txns \ {t} : pc'[u] = pc[u]
  BY <1>1, Zenon DEF Inv, TypeOK, TxnTypes
<1>3. TypeOK'
  <2>1. TxnTypes'
    BY <1>1, Zenon
       DEF Inv, TypeOK, TxnTypes, Pcs, pageVars, poolVars, callerVars, storeVars
  <2>2. CallTypes'
    BY <1>1, Zenon
       DEF Inv, TypeOK, CallTypes, Pcs, pageVars, poolVars, callerVars,
           storeVars
  <2> QED BY <1>1, <2>1, <2>2, SameTypes, Zenon
      DEF Inv, TypeOK, pageVars, poolVars, callerVars, storeVars
<1>4. CallsAreNested'
  <2>1. UNCHANGED <<calls, is_closed, state, blank>>
    BY <1>1, Zenon DEF callerVars, storeVars
  <2>2. CallsAreNested
    BY Zenon DEF Inv
  <2>3. \A u \in Txns :
          /\ u \in Range(calls) <=> pc'[u] # "idle"
          /\ pc'[u] \in {"pin_commit", "write"} =>
               calls = <<u>> /\ u \in UserTxns /\ ~is_closed[u]
          /\ pc'[u] = "pin_close" => Head(calls) = u
          /\ pc'[u] \in {"pin_close", "unassign", "unpin"} => is_closed[u]
    <3>1. CASE pc[t] = "pin_commit"
      BY <1>2, <2>2, <3>1 DEF CallsAreNested
    <3>2. CASE pc[t] = "pin_close"
      BY <1>2, <2>2, <3>2, ZenonT(60) DEF CallsAreNested
    <3> QED BY <1>1, <3>1, <3>2, Zenon
  <2> QED BY <2>1, <2>2, <2>3, Zenon DEF CallsAreNested
<1>5. HeldFramesAreUnassigned'
  <2>1. UNCHANGED <<request, calls, allocated, transaction, page_map, loop_page>>
    BY <1>1, Zenon DEF pageVars, poolVars
  <2>2. \A u \in Txns : pc'[u] = "unpin" <=> pc[u] = "unpin"
    BY <1>1, <1>2
  <2>3. HeldFramesAreUnassigned
    BY Zenon DEF Inv
  <2> QED BY <2>1, <2>2, <2>3, Zenon DEF HeldFramesAreUnassigned
<1>6. RunningTransactionsAreListed'
  BY <1>1, SameRunningTransactions, Zenon DEF Inv, storeVars
<1>7. ASSUME NEW f \in Frames
      PROVE  PinnedByLoop(f)' <=> PinnedByLoop(f)
  <2>1. \A u \in Txns : pc'[u] = "unpin" <=> pc[u] = "unpin"
    BY <1>1, <1>2
  <2>2. transaction[f] = t =>
          \E i \in DOMAIN pool_pages[t] : i < cursor /\ pool_pages[t][i] = f
    <3> SUFFICES ASSUME transaction[f] = t
                 PROVE  \E i \in DOMAIN pool_pages[t] :
                          i < cursor /\ pool_pages[t][i] = f
      BY Zenon
    <3>1. pool_pages[t] \in Seq(Frames) /\ cursor \in Nat
      BY Zenon DEF Inv, TypeOK, PageTypes, TxnTypes
    <3>2. f \in Range(pool_pages[t])
      BY Zenon DEF Inv, PagesAreListed
    <3>3. PICK i \in 1 .. Len(pool_pages[t]) : pool_pages[t][i] = f
      BY <3>1, <3>2, ListElements, Zenon
    <3>4. i \in DOMAIN pool_pages[t] /\ i < cursor
      BY <1>1, <3>1
    <3> QED BY <3>3, <3>4, Zenon
  <2> QED BY <1>1, <1>2, <2>1, <2>2, ZenonT(60) DEF PinnedByLoop, pageVars
<1> QED BY <1>1, <1>3, <1>4, <1>5, <1>6, <1>7, ControlStep, Zenon

\* ~PoolImpl starts.
LEMMA DestroyPoolInv ==
  ASSUME Inv, DestroyPool
  PROVE  Inv'
<1>1. /\ calls = <<>> /\ blank = NoFrame /\ calls' = <<"Pool">>
      /\ UNCHANGED <<pageVars, poolVars, txnVars, storeVars, callerVars,
                     request, failed>>
  BY Zenon DEF DestroyPool, Idle
<1>2. /\ IsList(calls', CallNames) /\ Range(calls') = {"Pool"}
      /\ calls'[Len(calls')] = "Pool"
  BY <1>1, SingleCall, Zenon DEF CallNames
<1>3. calls' \in Seq(Txns \union Stores \union {"StorePage", "Pool"})
  BY <1>2, Zenon DEF IsList, CallNames
<1>4. TypeOK'
  <2>1. CallTypes'
    BY <1>1, <1>3, Zenon
       DEF Inv, TypeOK, CallTypes, pageVars, poolVars, txnVars, storeVars,
           callerVars
  <2> QED BY <1>1, <1>3, <2>1, SameTypes, Zenon
      DEF Inv, TypeOK, pageVars, poolVars, txnVars, storeVars, callerVars
<1>5. "Pool" \notin Txns /\ "Pool" \notin Stores
  BY CallAssumption, Zenon
<1>6. request = NoRequest /\ \A t \in Txns : pc[t] = "idle"
  BY <1>1, NoCallRuns, Zenon
<1>7. CallsAreNested'
  BY <1>1, <1>2, <1>5, <1>6, Zenon
     DEF CallsAreNested, IsList, txnVars, callerVars
<1>8. HeldFramesAreUnassigned'
  BY <1>1, <1>2, <1>6, Zenon
     DEF Inv, HeldFramesAreUnassigned, pageVars, poolVars, txnVars
<1>9. RunningTransactionsAreListed'
  <2>1. Range(calls) = {}
    BY <1>1, EmptyList, Zenon
  <2>2. \A t \in UserTxns : t \notin Range(calls')
    BY <1>2, <1>5, Zenon DEF UserTxns
  <2> QED BY <1>1, <2>1, <2>2, SameRunningTransactions, Zenon
      DEF Inv, txnVars, storeVars
<1>10. \A f \in Frames : PinnedByLoop(f)' <=> PinnedByLoop(f)
  BY <1>1, Zenon DEF PinnedByLoop, pageVars, txnVars
<1> QED BY <1>1, <1>4, <1>7, <1>8, <1>9, <1>10, ControlStep, Zenon

\* A check fails: the program stops where it is.
LEMMA FailInv ==
  ASSUME Inv,
         NEW check \in {"file_is_open", "store_is_not_closed",
                        "commit_write_succeeds", "pool_is_drained"},
         Fail(check)
  PROVE  Inv'
<1>1. /\ failed' = check
      /\ UNCHANGED <<pageVars, poolVars, txnVars, storeVars, callerVars,
                     request, calls>>
  BY Zenon DEF Fail, Stop, poolVars
<1>2. TypeOK'
  <2>1. CallTypes'
    BY <1>1, Zenon
       DEF Inv, TypeOK, CallTypes, pageVars, poolVars, txnVars, storeVars,
           callerVars
  <2> QED BY <1>1, <2>1, SameTypes, Zenon
      DEF Inv, TypeOK, pageVars, poolVars, txnVars, storeVars, callerVars
<1>3. RunningTransactionsAreListed'
  BY <1>1, SameRunningTransactions, Zenon DEF Inv, txnVars, storeVars
<1> QED BY <1>1, <1>2, <1>3, BystanderStep, Zenon DEF txnVars, storeVars

\* A call returns, having left the pages alone.
LEMMA ReturnInv ==
  ASSUME Inv, NEW c, Running(c), calls' = Tail(calls),
         UNCHANGED <<pageVars, poolVars, callerVars, loop_page, cursor,
                     is_closed, request>>,
         TypeOK', RunningTransactionsAreListed', c # "StorePage",
         \A t \in Txns : pc'[t] = IF t = c THEN "idle" ELSE pc[t],
         \A s \in Stores \ {c} : state'[s] = state[s],
         c \in Txns => pc[c] = "unassign" /\ pool_pages[c] = <<>>
  PROVE  Inv'
<1>1. /\ IsList(calls', CallNames)
      /\ Range(calls') = Range(calls) \ {c}
      /\ c \in Range(calls) /\ calls # <<>> /\ Head(calls) = c
      /\ blank = NoFrame
  BY InnermostCall, Zenon DEF Running, Inv, CallsAreNested
<1>2. \A t \in Txns : pc[t] \in {"pin_commit", "write", "pin_close"} => t = c
  <2>1. \A t \in Txns : Head(<<t>>) = t
    OBVIOUS
  <2> QED BY <1>1, <2>1, ZenonT(60) DEF Inv, CallsAreNested
<1>3. CallsAreNested'
  <2>1. \A d \in {"StorePage", "Pool"} :
          d \in Range(calls') => calls'[Len(calls')] = d
    BY ReturnKeepsOutermost, Zenon
  <2>2. \A t \in Txns : t \in Range(calls') <=> pc'[t] # "idle"
    <3>1. \A t \in Txns : t \in Range(calls) <=> pc[t] # "idle"
      BY Zenon DEF Inv, CallsAreNested
    <3> QED BY <1>1, <3>1, Zenon
  <2>3. \A t \in Txns : pc'[t] \notin {"pin_commit", "write", "pin_close"}
    BY <1>2, ZenonT(60)
  <2>4. \A t \in Txns : pc'[t] \in {"unassign", "unpin"} => is_closed'[t]
    BY DEF Inv, CallsAreNested
  <2>5. \A s \in Stores : s \in Range(calls') => state'[s] = "kClosing"
    BY <1>1, ZenonT(60) DEF Inv, CallsAreNested
  <2> QED BY <1>1, <2>1, <2>2, <2>3, <2>4, <2>5, Zenon
      DEF CallsAreNested, IsList, callerVars
<1>4. HeldFramesAreUnassigned'
  <2>1. "StorePage" \in Range(calls)' <=> "StorePage" \in Range(calls)
    BY <1>1, Zenon
  <2>2. \A t \in Txns : pc'[t] = "unpin" <=> pc[t] = "unpin"
    BY Zenon
  <2> QED BY <2>1, <2>2, Zenon
      DEF Inv, HeldFramesAreUnassigned, pageVars, poolVars
<1>5. ASSUME NEW f \in Frames
      PROVE  PinnedByLoop(f)' <=> PinnedByLoop(f)
  <2>1. c \in Txns => transaction[f] # c
    <3>1. Range(<<>>) = {}
      BY EmptyList, Zenon
    <3> QED BY <3>1, Zenon DEF Inv, PagesAreListed
  <2>2. \A t \in Txns : pc'[t] = "unpin" <=> pc[t] = "unpin"
    BY ZenonT(30)
  <2> QED BY <2>1, <2>2, Zenon DEF PinnedByLoop, pageVars
<1> QED BY <1>3, <1>4, <1>5, ControlStep, Zenon

\* TransactionImpl::Close returns, and the store forgets the transaction.
LEMMA TransactionClosedInv ==
  ASSUME Inv, NEW t \in Txns, TransactionClosed(t)
  PROVE  Inv'
<1> DEFINE s == StoreOf[t]
<1>1. /\ Running(t) /\ pc[t] = "unassign" /\ pool_pages[t] = <<>>
      /\ pc' = [pc EXCEPT ![t] = "idle"] /\ calls' = Tail(calls)
      /\ transactions' = IF state[s] = "kOpen"
                         THEN [transactions EXCEPT ![s] = Erase(@, t)]
                         ELSE transactions
      /\ UNCHANGED <<pageVars, poolVars, live, is_closed, is_committed,
                     loop_page, cursor, state, rollback_queue, callerVars,
                     request, failed>>
  BY Zenon DEF TransactionClosed
<1>2. /\ calls' \in Seq(Txns \union Stores \union {"StorePage", "Pool"})
      /\ Range(calls') = Range(calls) \ {t}
  BY <1>1, InnermostCall, ZenonT(30) DEF IsList, CallNames
<1>3. s \in Stores /\ is_closed[t]
  BY <1>1, TxnAssumption, Zenon DEF Inv, CallsAreNested
<1>4. state[s] = "kOpen" =>
        /\ IsList(Erase(transactions[s], t), UserTxns)
        /\ Range(Erase(transactions[s], t)) = Range(transactions[s]) \ {t}
  <2> SUFFICES ASSUME state[s] = "kOpen"
               PROVE  /\ IsList(Erase(transactions[s], t), UserTxns)
                      /\ Range(Erase(transactions[s], t)) =
                           Range(transactions[s]) \ {t}
    BY Zenon
  <2>1. IsList(transactions[s], UserTxns)
    BY <1>3, Zenon
       DEF Inv, TypeOK, StoreTypes, IsList, RunningTransactionsAreListed
  <2> QED BY <2>1, EraseElement, Zenon
<1>5. transactions' \in [Stores -> Seq(UserTxns)]
  BY <1>1, <1>3, <1>4, Zenon DEF Inv, TypeOK, StoreTypes, IsList
<1>6. TypeOK'
  <2>1. TxnTypes'
    BY <1>1, <1>2, <1>5, Zenon
       DEF Inv, TypeOK, TxnTypes, Pcs, pageVars, poolVars, callerVars
  <2>2. StoreTypes'
    BY <1>1, <1>2, <1>5, Zenon
       DEF Inv, TypeOK, StoreTypes, Pcs, pageVars, poolVars, callerVars
  <2>3. CallTypes'
    BY <1>1, <1>2, <1>5, Zenon
       DEF Inv, TypeOK, CallTypes, Pcs, pageVars, poolVars, callerVars
  <2> QED BY <1>1, <1>2, <1>5, <2>1, <2>2, <2>3, SameTypes, ZenonT(60)
      DEF Inv, TypeOK, pageVars, poolVars, callerVars
<1>7. t # "StorePage"
  BY CallAssumption, Zenon
<1>8. \A u \in Txns : pc'[u] = IF u = t THEN "idle" ELSE pc[u]
  BY <1>1, Zenon DEF Inv, TypeOK, TxnTypes
<1>9. RunningTransactionsAreListed'
  <2> SUFFICES ASSUME NEW r \in Stores, state[r] = "kOpen"
               PROVE  /\ IsInjective(transactions'[r])
                      /\ Range(transactions'[r]) =
                           {u \in UserTxns \intersect live : StoreOf[u] = r /\
                              (~is_closed[u] \/ u \in Range(calls'))}
    BY <1>1, ZenonT(30) DEF RunningTransactionsAreListed
  <2>1. /\ IsInjective(transactions[r])
        /\ Range(transactions[r]) =
             {u \in UserTxns \intersect live : StoreOf[u] = r /\
                (~is_closed[u] \/ u \in Range(calls))}
    BY Zenon DEF Inv, RunningTransactionsAreListed
  <2>2. CASE r = s
    <3>1. transactions'[r] = Erase(transactions[s], t)
      BY <1>1, <1>3, <2>2, Zenon DEF Inv, TypeOK, StoreTypes
    <3> QED BY <1>2, <1>3, <1>4, <2>1, <2>2, <3>1, Zenon DEF IsList
  <2>3. CASE r # s
    <3>1. transactions'[r] = transactions[r]
      BY <1>1, <2>3 DEF Inv
    <3> QED BY <1>2, <2>1, <2>3, <3>1, ZenonT(60)
  <2> QED BY <2>2, <2>3, Zenon
<1> QED BY <1>1, <1>6, <1>7, <1>8, <1>9, ReturnInv, Zenon

\* StoreImpl::Close returns to the call it interrupted.
LEMMA StoreClosedInv ==
  ASSUME Inv, NEW s \in Stores, StoreClosed(s)
  PROVE  Inv'
<1>1. /\ Running(s) /\ state' = [state EXCEPT ![s] = "kClosed"]
      /\ calls' = Tail(calls)
      /\ UNCHANGED <<pageVars, poolVars, txnVars, transactions, rollback_queue,
                     callerVars, request, failed>>
  BY Zenon DEF StoreClosed
<1>2. /\ calls' \in Seq(Txns \union Stores \union {"StorePage", "Pool"})
      /\ Range(calls') = Range(calls) \ {s}
  BY <1>1, InnermostCall, Zenon DEF IsList, CallNames
<1>3. TypeOK'
  <2>1. StoreTypes'
    BY <1>1, <1>2, Zenon
       DEF Inv, TypeOK, StoreTypes, pageVars, poolVars, callerVars, txnVars
  <2>2. CallTypes'
    BY <1>1, <1>2, Zenon
       DEF Inv, TypeOK, CallTypes, pageVars, poolVars, callerVars, txnVars
  <2> QED BY <1>1, <1>2, <2>1, <2>2, SameTypes, Zenon
      DEF Inv, TypeOK, pageVars, poolVars, callerVars, txnVars
<1>4. s # "StorePage" /\ s \notin Txns
  BY CallAssumption, Zenon
<1>5. \A r \in Stores \ {s} : state'[r] = state[r]
  BY <1>1 DEF Inv
<1>6. \A t \in Txns : pc'[t] = pc[t] /\ t # s
  BY <1>1, <1>4, Zenon DEF txnVars
<1>7. RunningTransactionsAreListed'
  <2>1. \A r \in Stores : state'[r] = "kOpen" => state[r] = "kOpen"
    BY <1>1 DEF Inv
  <2> QED BY <1>1, <1>2, <1>4, <2>1, SameRunningTransactions, Zenon
      DEF Inv, txnVars, UserTxns
<1> QED BY <1>1, <1>3, <1>4, <1>5, <1>6, <1>7, ReturnInv, ZenonT(30) DEF txnVars

\* ~PagePool frees the frames of the free list, which nobody uses.
LEMMA DestroyPoolDoneInv ==
  ASSUME Inv, DestroyPoolDone
  PROVE  Inv'
<1>1. /\ Running("Pool")
      /\ allocated' = allocated \ Range(free_list)
      /\ free_list' = <<>> /\ calls' = Tail(calls)
      /\ UNCHANGED <<pageVars, lru_list, page_map, disk, txnVars, storeVars,
                     callerVars, request, failed>>
  BY Zenon DEF DestroyPoolDone
<1>2. calls = <<"Pool">> /\ calls' = <<>>
  BY <1>1, OutermostCall, Zenon
<1>3. /\ Range(calls) = {"Pool"} /\ Range(calls') = {} /\ IsInjective(calls')
      /\ calls' \in Seq(CallNames)
  BY <1>2, SingleCall, EmptyList, Zenon DEF CallNames, IsList
<1>4. \A t \in Txns : t \notin Range(calls) /\ t \notin Range(calls')
  BY <1>3, CallAssumption, Zenon
<1>5. /\ \A t \in Txns : pc[t] = "idle" /\ loop_page[t] = NoFrame
      /\ request = NoRequest
  BY <1>3, <1>4, ZenonT(60) DEF Inv, CallsAreNested, HeldFramesAreUnassigned
<1>6. TypeOK'
  <2>1. PoolTypes'
    BY <1>1 DEF Inv, TypeOK, PoolTypes, IsList
  <2>2. calls' \in Seq(CallNames)
    BY <1>1, <1>3, Zenon DEF CallNames
  <2> QED BY <1>1, <2>1, <2>2, SameTypes, ZenonT(60)
      DEF Inv, TypeOK, pageVars, txnVars, storeVars, callerVars
<1>7. CallsAreNested'
  BY <1>1, <1>2, <1>3, <1>5, Zenon DEF CallsAreNested, txnVars, storeVars
<1>8. HeldFramesAreUnassigned'
  BY <1>1, <1>3, <1>5, Zenon DEF HeldFramesAreUnassigned, txnVars
<1>9. FramesAreListed'
  <2>1. IsInjective(<<>>) /\ Range(<<>>) = {}
    BY EmptyList, Zenon DEF IsList
  <2> QED BY <1>1, <2>1, Zenon DEF Inv, FramesAreListed, pageVars
<1>10. PagesAreListed' /\ DirtyIffModified'
  BY <1>1, Zenon DEF Inv, PagesAreListed, DirtyIffModified, pageVars
<1>11. PageMapIsExact'
  BY <1>1, SamePageMap, Zenon DEF Inv, pageVars
<1>12. PinsAreAccounted'
  <2>1. \A f \in Frames : PinnedByLoop(f)' <=> PinnedByLoop(f)
    BY <1>1, Zenon DEF PinnedByLoop, pageVars, txnVars
  <2> QED BY <1>1, <2>1, Zenon DEF Inv, PinsAreAccounted, pageVars, callerVars
<1>13. PinnedPagesAreAssigned' /\ CleanPagesMatchDisk'
  BY <1>1, Zenon
     DEF Inv, PinnedPagesAreAssigned, CleanPagesMatchDisk, pageVars, callerVars
<1>14. RunningTransactionsAreListed'
  BY <1>1, <1>4, SameRunningTransactions, Zenon
     DEF Inv, UserTxns, txnVars, storeVars
<1> QED BY <1>6, <1>7, <1>8, <1>9, <1>10, <1>11, <1>12, <1>13, <1>14, ZenonT(60)
    DEF Inv

-----------------------------------------------------------------------------
(* The steps that pin and unpin assigned pages. *)

\* PinStorePage takes an unpinned frame off the LRU list.
LEMMA PinFrame ==
  ASSUME Inv, NEW f \in Frames, transaction[f] # NoTxn, PinStorePage(f),
         UNCHANGED <<transaction, allocated, free_list>>
  PROVE  /\ FramesAreListed'
         /\ lru_list' \in Seq(Frames)
         /\ pin_count' \in [Frames -> Nat]
         /\ pin_count'[f] = pin_count[f] + 1
         /\ \A g \in Frames \ {f} : pin_count'[g] = pin_count[g]
<1>1. /\ pin_count' \in [Frames -> Nat]
      /\ pin_count'[f] = pin_count[f] + 1 /\ pin_count[f] \in Nat
      /\ \A g \in Frames \ {f} : pin_count'[g] = pin_count[g]
  BY DEF Inv, TypeOK, PageTypes, PinStorePage, AddPin
<1>2. IsList(lru_list', Frames) /\ Range(lru_list') = Range(lru_list) \ {f}
  <2>1. CASE pin_count[f] = 0
    BY <2>1, PoolLists, EraseElement, Zenon DEF PinStorePage, IsUnpinned
  <2>2. CASE pin_count[f] # 0
    <3>1. f \notin Range(lru_list)
      BY <2>2, Zenon DEF Inv, FramesAreListed
    <3> QED BY <2>2, <3>1, PoolLists, Zenon DEF PinStorePage, IsUnpinned
  <2> QED BY <2>1, <2>2, Zenon
<1>3. FramesAreListed'
  <2>1. Range(lru_list') =
          {g \in allocated : pin_count'[g] = 0 /\ transaction[g] # NoTxn}
    BY <1>1, <1>2, SMTT(30) DEF Inv, TypeOK, PoolTypes, FramesAreListed
  <2>2. Range(free_list) =
          {g \in allocated : pin_count'[g] = 0 /\ transaction[g] = NoTxn}
    BY <1>1, Zenon DEF Inv, TypeOK, PoolTypes, FramesAreListed
  <2>3. \A g \in Frames \ allocated :
          pin_count'[g] = 0 /\ transaction[g] = NoTxn
    BY <1>1, Zenon DEF Inv, FramesAreListed
  <2> QED BY <1>2, <2>1, <2>2, <2>3, PoolLists, ZenonT(60)
      DEF FramesAreListed, IsList
<1> QED BY <1>1, <1>2, <1>3, Zenon DEF IsList

\* UnpinStorePage puts a frame on the LRU list with its last pin.
LEMMA UnpinFrame ==
  ASSUME Inv, NEW f \in Frames, NEW mode, transaction[f] # NoTxn,
         pin_count[f] # 0, UnpinStorePage(f, mode),
         UNCHANGED <<allocated, free_list>>,
         \A g \in Frames : transaction'[g] = NoTxn <=> transaction[g] = NoTxn
  PROVE  /\ FramesAreListed'
         /\ lru_list' \in Seq(Frames)
         /\ pin_count' \in [Frames -> Nat]
         /\ pin_count'[f] = pin_count[f] - 1
         /\ \A g \in Frames \ {f} : pin_count'[g] = pin_count[g]
<1>1. /\ pin_count' \in [Frames -> Nat]
      /\ pin_count'[f] = pin_count[f] - 1 /\ pin_count[f] \in Nat
      /\ \A g \in Frames \ {f} : pin_count'[g] = pin_count[g]
  BY DEF Inv, TypeOK, PageTypes, UnpinStorePage, RemovePin
<1>2. f \notin Range(lru_list) /\ f \in allocated
  BY UsedFrames, Zenon DEF Inv, FramesAreListed
<1>3. /\ IsList(lru_list', Frames)
      /\ Range(lru_list') = IF pin_count[f] = 1 THEN Range(lru_list) \union {f}
                            ELSE Range(lru_list)
  <2>1. CASE pin_count[f] = 1
    BY <1>2, <2>1, PoolLists, PushBack, PushFront DEF UnpinStorePage
  <2>2. CASE pin_count[f] # 1
    BY <2>2, PoolLists, Zenon DEF UnpinStorePage
  <2> QED BY <2>1, <2>2, ZenonT(60)
<1>4. FramesAreListed'
  <2>1. Range(lru_list') =
          {g \in allocated : pin_count'[g] = 0 /\ transaction'[g] # NoTxn}
    BY <1>1, <1>2, <1>3, SMTT(30) DEF Inv, TypeOK, PoolTypes, FramesAreListed
  <2>2. Range(free_list) =
          {g \in allocated : pin_count'[g] = 0 /\ transaction'[g] = NoTxn}
    BY <1>1, Zenon DEF Inv, TypeOK, PoolTypes, FramesAreListed
  <2>3. \A g \in Frames \ allocated :
          pin_count'[g] = 0 /\ transaction'[g] = NoTxn
    BY <1>1, <1>2, Zenon DEF Inv, FramesAreListed
  <2> QED BY <1>3, <2>1, <2>2, <2>3, PoolLists, ZenonT(60)
      DEF FramesAreListed, IsList
<1> QED BY <1>1, <1>3, <1>4, ZenonT(60) DEF IsList

\* What is left to prove of a step that only changes pins.
LEMMA PinStep ==
  ASSUME Inv, TypeOK', FramesAreListed', PinsAreAccounted',
         PinnedPagesAreAssigned',
         UNCHANGED <<transaction, page_id, is_dirty, data, pool_pages,
                     allocated, page_map, disk, live, is_closed, pc,
                     loop_page, storeVars, blank, request, calls>>
  PROVE  Inv'
<1>1. CallsAreNested'
  BY SameCalls, Zenon DEF Inv, storeVars
<1>2. HeldFramesAreUnassigned'
  BY Zenon DEF Inv, HeldFramesAreUnassigned
<1>3. PagesAreListed'
  BY Zenon DEF Inv, PagesAreListed
<1>4. PageMapIsExact'
  BY SamePageMap, Zenon DEF Inv
<1>5. DirtyIffModified' /\ CleanPagesMatchDisk'
  BY Zenon DEF Inv, DirtyIffModified, CleanPagesMatchDisk
<1>6. RunningTransactionsAreListed'
  BY SameRunningTransactions, Zenon DEF Inv, storeVars
<1> QED BY <1>1, <1>2, <1>3, <1>4, <1>5, <1>6, Zenon DEF Inv

\* StorePage finds the page in page_map_.
LEMMA StorePageHitInv ==
  ASSUME Inv, NEW s \in Stores, NEW id \in PageIds, StorePageHit(s, id)
  PROVE  Inv'
<1> DEFINE f == page_map[s][id]
<1>1. /\ calls = <<>> /\ f # NoFrame /\ PinStorePage(f)
      /\ pins' = [pins EXCEPT ![f] = @ + 1]
      /\ UNCHANGED <<transaction, page_id, is_dirty, data, pool_pages,
                     allocated, free_list, page_map, disk, txnVars, storeVars,
                     blank, writer, request, calls, failed>>
  BY Zenon DEF StorePageHit, Idle
<1>2. f \in Frames
  BY <1>1, ZenonT(60) DEF Inv, TypeOK, PoolTypes
<1>3. transaction[f] # NoTxn
  BY <1>2 DEF Inv, PageMapIsExact, AssignedTo
<1> HIDE DEF f
<1>4. /\ FramesAreListed'
      /\ lru_list' \in Seq(Frames) /\ pin_count' \in [Frames -> Nat]
      /\ pin_count'[f] = pin_count[f] + 1
      /\ \A g \in Frames \ {f} : pin_count'[g] = pin_count[g]
  BY <1>1, <1>2, <1>3, PinFrame, ZenonT(60)
<1>5. /\ pins' \in [Frames -> Nat] /\ pins'[f] = pins[f] + 1
      /\ \A g \in Frames \ {f} : pins'[g] = pins[g]
  BY <1>1, <1>2, SMTT(30) DEF Inv, TypeOK, CallerTypes
<1>6. TypeOK'
  <2>1. PageTypes'
    BY <1>1, <1>4, <1>5, ZenonT(60) DEF Inv, TypeOK, PageTypes, txnVars, storeVars
  <2>2. PoolTypes'
    BY <1>1, <1>4, <1>5, ZenonT(60) DEF Inv, TypeOK, PoolTypes, txnVars, storeVars
  <2>3. CallerTypes'
    BY <1>1, <1>4, <1>5, ZenonT(60) DEF Inv, TypeOK, CallerTypes, txnVars, storeVars
  <2> QED BY <1>1, <1>4, <1>5, <2>1, <2>2, <2>3, SameTypes, SMTT(30)
      DEF Inv, TypeOK, txnVars, storeVars
<1>7. PinsAreAccounted'
  <2>1. \A g \in Frames : PinnedByLoop(g)' <=> PinnedByLoop(g)
    BY <1>1, Zenon DEF PinnedByLoop, txnVars
  <2>2. \A g \in Frames : ~PinnedByLoop(g) /\ pin_count[g] = pins[g]
    BY <1>1, NoCallRuns, Zenon
  <2>3. \A g \in Frames : pin_count'[g] = pins'[g] /\ pins'[g] \in Nat
    BY <1>4, <1>5, <2>2, Zenon
  <2> QED BY <2>1, <2>2, <2>3 DEF PinsAreAccounted
<1>8. PinnedPagesAreAssigned'
  BY <1>1, <1>3, <1>5, Zenon DEF Inv, PinnedPagesAreAssigned
<1> QED BY <1>1, <1>4, <1>6, <1>7, <1>8, PinStep, Zenon DEF txnVars

\* A caller unpins a page.
LEMMA UnpinInv ==
  ASSUME Inv, NEW f \in Frames, NEW mode, Unpin(f, mode)
  PROVE  Inv'
<1>1. /\ calls = <<>> /\ pins[f] > 0 /\ UnpinStorePage(f, mode)
      /\ pins' = [pins EXCEPT ![f] = @ - 1]
      /\ UNCHANGED <<transaction, page_id, is_dirty, data, pool_pages,
                     allocated, free_list, page_map, disk, txnVars, storeVars,
                     blank, writer, request, calls, failed>>
  BY Zenon DEF Unpin, Idle
<1>2. transaction[f] # NoTxn
  BY <1>1, Zenon DEF Inv, PinnedPagesAreAssigned
<1>3. \A g \in Frames : ~PinnedByLoop(g) /\ pin_count[g] = pins[g]
  BY <1>1, NoCallRuns, Zenon
<1>4. pins[f] \in Nat /\ pin_count[f] # 0
  BY <1>1, <1>3 DEF Inv, TypeOK, CallerTypes
<1>5. /\ FramesAreListed'
      /\ lru_list' \in Seq(Frames) /\ pin_count' \in [Frames -> Nat]
      /\ pin_count'[f] = pin_count[f] - 1
      /\ \A g \in Frames \ {f} : pin_count'[g] = pin_count[g]
  BY <1>1, <1>2, <1>4, UnpinFrame, ZenonT(60)
<1>6. /\ pins' \in [Frames -> Nat] /\ pins'[f] = pins[f] - 1
      /\ \A g \in Frames \ {f} : pins'[g] = pins[g]
  BY <1>1, SMTT(30) DEF Inv, TypeOK, CallerTypes
<1>7. TypeOK'
  <2>1. PageTypes'
    BY <1>1, <1>5, <1>6, ZenonT(60) DEF Inv, TypeOK, PageTypes, txnVars, storeVars
  <2>2. PoolTypes'
    BY <1>1, <1>5, <1>6, Zenon DEF Inv, TypeOK, PoolTypes, txnVars, storeVars
  <2>3. CallerTypes'
    BY <1>1, <1>5, <1>6, ZenonT(60) DEF Inv, TypeOK, CallerTypes, txnVars, storeVars
  <2> QED BY <1>1, <1>5, <1>6, <2>1, <2>2, <2>3, SameTypes, SMTT(30)
      DEF Inv, TypeOK, txnVars, storeVars
<1>8. PinsAreAccounted'
  <2>1. \A g \in Frames : PinnedByLoop(g)' <=> PinnedByLoop(g)
    BY <1>1, ZenonT(60) DEF PinnedByLoop, txnVars
  <2>2. \A g \in Frames : pin_count'[g] = pins'[g] /\ pins'[g] \in Nat
    BY <1>3, <1>5, <1>6, Zenon
  <2> QED BY <1>3, <2>1, <2>2 DEF PinsAreAccounted
<1>9. PinnedPagesAreAssigned'
  BY <1>1, <1>2, <1>6, Zenon DEF Inv, PinnedPagesAreAssigned
<1> QED BY <1>1, <1>5, <1>7, <1>8, <1>9, PinStep, Zenon DEF txnVars

\* PinTransactionPages pins the next page.
LEMMA PinTransactionPageInv ==
  ASSUME Inv, NEW t \in Txns, PinTransactionPage(t)
  PROVE  Inv'
<1>1. /\ Running(t) /\ pc[t] \in {"pin_commit", "pin_close"}
      /\ cursor <= Len(pool_pages[t])
      /\ PinStorePage(pool_pages[t][cursor])
      /\ cursor' = cursor + 1
      /\ UNCHANGED <<transaction, page_id, is_dirty, data, pool_pages,
                     allocated, free_list, page_map, disk, live, is_closed,
                     is_committed, pc, loop_page, storeVars, callerVars,
                     request, calls, failed>>
  BY ZenonT(60) DEF PinTransactionPage
<1>2. /\ pool_pages[t] \in Seq(Frames) /\ IsInjective(pool_pages[t])
      /\ cursor \in 1 .. Len(pool_pages[t])
      /\ cursor \in DOMAIN pool_pages[t]
  BY <1>1, SMTT(30) DEF Inv, TypeOK, PageTypes, TxnTypes, PagesAreListed
<1>3. PICK f \in Frames : f = pool_pages[t][cursor] /\ f \in Range(pool_pages[t])
  BY <1>2 DEF Range
<1>4. transaction[f] = t /\ t # NoTxn
  BY <1>3, PageLists, ValueAssumption, ZenonT(60)
<1>5. f = pool_pages[t][cursor] /\ cursor' \in Nat \ {0}
  BY <1>1, <1>2, <1>3
<1>6. /\ FramesAreListed'
      /\ lru_list' \in Seq(Frames) /\ pin_count' \in [Frames -> Nat]
      /\ pin_count'[f] = pin_count[f] + 1
      /\ \A g \in Frames \ {f} : pin_count'[g] = pin_count[g]
  BY <1>1, <1>3, <1>4, PinFrame, Zenon
<1>7. TypeOK'
  <2>1. PageTypes'
    BY <1>1, <1>5, <1>6, Zenon DEF Inv, TypeOK, PageTypes, storeVars, callerVars
  <2>2. PoolTypes'
    BY <1>1, <1>5, <1>6, Zenon DEF Inv, TypeOK, PoolTypes, storeVars, callerVars
  <2>3. TxnTypes'
    BY <1>1, <1>5, <1>6, ZenonT(60) DEF Inv, TypeOK, TxnTypes, storeVars, callerVars
  <2>4. CallTypes'
    BY <1>1, <1>5, <1>6, Zenon DEF Inv, TypeOK, CallTypes, storeVars, callerVars
  <2> QED BY <1>1, <1>5, <1>6, <2>1, <2>2, <2>3, <2>4, SameTypes, ZenonT(60)
      DEF Inv, TypeOK, storeVars, callerVars
<1>8. \A u \in Txns : pc[u] \in {"pin_commit", "pin_close"} => u = t
  <2>1. Head(calls) = t /\ \A u \in Txns : Head(<<u>>) = u
    BY <1>1 DEF Running
  <2> QED BY <2>1, ZenonT(60) DEF Inv, CallsAreNested
<1>9. ~PinnedByLoop(f)
  <2>1. request.page # f /\ \A u \in Txns : loop_page[u] # f
    BY <1>3, <1>4, HeldByTransaction, Zenon
  <2>2. \A i \in DOMAIN pool_pages[t] : i < cursor => pool_pages[t][i] # f
    BY <1>2, <1>5 DEF IsInjective
  <2> QED BY <1>1, <1>4, <2>1, <2>2, Zenon DEF PinnedByLoop
<1>10. PinnedByLoop(f)'
  <2>1. cursor < cursor + 1
    BY <1>2
  <2> QED BY <1>1, <1>2, <1>4, <1>5, <2>1, Zenon DEF PinnedByLoop
<1>11. ASSUME NEW g \in Frames \ {f}
       PROVE  PinnedByLoop(g)' <=> PinnedByLoop(g)
  <2>1. \A i \in DOMAIN pool_pages[t] :
          pool_pages[t][i] = g => (i < cursor + 1 <=> i < cursor)
    BY <1>2, <1>5
  <2> QED BY <1>1, <1>8, <2>1, ZenonT(60) DEF PinnedByLoop
<1>12. PinsAreAccounted'
  <2> SUFFICES ASSUME NEW g \in Frames
               PROVE  pin_count'[g] =
                        pins'[g] + (IF PinnedByLoop(g)' THEN 1 ELSE 0)
    BY Zenon DEF PinsAreAccounted
  <2>1. pin_count[g] = pins[g] + (IF PinnedByLoop(g) THEN 1 ELSE 0)
    BY Zenon DEF Inv, PinsAreAccounted
  <2>2. pins'[g] = pins[g] /\ pins[g] \in Nat
    BY <1>1, Zenon DEF Inv, TypeOK, CallerTypes, callerVars
  <2>3. CASE g = f
    <3>1. pin_count[g] = pins[g]
      BY <1>9, <2>1, <2>2, <2>3
    <3>2. pin_count'[g] = pins'[g] + 1
      BY <1>6, <2>2, <2>3, <3>1, Zenon
    <3>3. PinnedByLoop(g)'
      BY <1>10, <2>3, Zenon
    <3> QED BY <3>2, <3>3, Zenon
  <2>4. CASE g # f
    <3>1. PinnedByLoop(g)' <=> PinnedByLoop(g)
      BY <1>11, <2>4, Zenon
    <3> QED BY <1>6, <2>1, <2>2, <2>4, <3>1, Zenon
  <2> QED BY <2>3, <2>4, Zenon
<1>13. PinnedPagesAreAssigned'
  BY <1>1, Zenon DEF Inv, PinnedPagesAreAssigned, callerVars
<1> QED BY <1>1, <1>6, <1>7, <1>12, <1>13, PinStep, Zenon DEF callerVars

-----------------------------------------------------------------------------
(* The steps that move pages between transactions. *)

\* MovePage: the frame changes lists, and stays a page of the same store.
LEMMA MoveFrame ==
  ASSUME Inv, NEW f \in Frames, NEW from \in Txns, NEW to \in Txns,
         NEW dirty \in BOOLEAN, from # to, transaction[f] = from,
         StoreOf[from] = StoreOf[to], dirty <=> to \in UserTxns,
         MovePage(f, from, to, dirty), UNCHANGED <<page_id, page_map>>
  PROVE  /\ PagesAreListed' /\ PageMapIsExact' /\ DirtyIffModified'
         /\ transaction' \in [Frames -> Txns \union {NoTxn}]
         /\ is_dirty' \in [Frames -> BOOLEAN]
         /\ pool_pages' \in [Txns -> Seq(Frames)]
         /\ transaction'[f] = to /\ is_dirty'[f] = dirty
         /\ \A g \in Frames \ {f} :
              transaction'[g] = transaction[g] /\ is_dirty'[g] = is_dirty[g]
<1>1. /\ pool_pages' = [pool_pages EXCEPT ![from] = Erase(@, f),
                                          ![to] = Append(@, f)]
      /\ transaction' = [transaction EXCEPT ![f] = to]
      /\ is_dirty' = [is_dirty EXCEPT ![f] = dirty]
  BY Zenon DEF MovePage
<1>2. /\ IsList(Erase(pool_pages[from], f), Frames)
      /\ Range(Erase(pool_pages[from], f)) =
           {g \in Frames \ {f} : transaction[g] = from}
  BY EraseFrame, ZenonT(60)
<1>3. /\ IsList(Append(pool_pages[to], f), Frames)
      /\ Range(Append(pool_pages[to], f)) = Range(pool_pages[to]) \union {f}
  <2>1. f \notin Range(pool_pages[to])
    BY PageLists, Zenon
  <2> QED BY <2>1, PageLists, PushBack
<1>4. /\ pool_pages'[from] = Erase(pool_pages[from], f)
      /\ pool_pages'[to] = Append(pool_pages[to], f)
      /\ \A u \in Txns \ {from, to} : pool_pages'[u] = pool_pages[u]
      /\ DOMAIN pool_pages' = Txns
      /\ pool_pages' = [u \in Txns |-> pool_pages'[u]]
  BY <1>1, Zenon DEF Inv, TypeOK, PageTypes
<1>5. pool_pages' \in [Txns -> Seq(Frames)]
  <2>1. pool_pages'[from] \in Seq(Frames) /\ pool_pages'[to] \in Seq(Frames)
    BY <1>2, <1>3, <1>4, Zenon DEF IsList
  <2>2. \A u \in Txns \ {from, to} : pool_pages'[u] \in Seq(Frames)
    BY <1>4, Zenon DEF Inv, TypeOK, PageTypes
  <2> QED BY <1>4, <2>1, <2>2, Zenon
<1>6. /\ transaction' \in [Frames -> Txns \union {NoTxn}]
      /\ is_dirty' \in [Frames -> BOOLEAN]
      /\ transaction'[f] = to /\ is_dirty'[f] = dirty
      /\ \A g \in Frames \ {f} :
           transaction'[g] = transaction[g] /\ is_dirty'[g] = is_dirty[g]
  BY <1>1, Zenon DEF Inv, TypeOK, PageTypes
<1>7. PagesAreListed'
  <2> SUFFICES ASSUME NEW u \in Txns
               PROVE  /\ IsInjective(pool_pages'[u])
                      /\ Range(pool_pages'[u]) =
                           {g \in Frames : transaction'[g] = u}
    BY Zenon DEF PagesAreListed
  <2>1. CASE u = from
    BY <1>2, <1>4, <1>6, <2>1 DEF IsList
  <2>2. CASE u = to
    <3>1. IsInjective(pool_pages'[u])
      BY <1>3, <1>4, <2>2, Zenon DEF IsList
    <3>2. Range(pool_pages'[u]) = {g \in Frames : transaction[g] = to} \union {f}
      BY <1>3, <1>4, <2>2, PageLists, ZenonT(60)
    <3> QED BY <1>6, <2>2, <3>1, <3>2, ZenonT(60)
  <2>3. CASE u # from /\ u # to
    BY <1>4, <1>6, <2>3, SMTT(30) DEF Inv, PagesAreListed
  <2> QED BY <2>1, <2>2, <2>3, Zenon
<1>8. PageMapIsExact'
  <2>1. \A g \in Frames : /\ transaction'[g] = NoTxn <=> transaction[g] = NoTxn
                          /\ StoreOf[transaction'[g]] = StoreOf[transaction[g]]
    BY <1>6, ValueAssumption, Zenon
  <2> QED BY <2>1 DEF Inv, PageMapIsExact, AssignedTo
<1>9. DirtyIffModified'
  BY <1>6, Zenon DEF Inv, DirtyIffModified
<1> QED BY <1>5, <1>6, <1>7, <1>8, <1>9, Zenon

\* Moving assigned frames between transactions leaves the pool's lists exact.
LEMMA SamePoolLists ==
  ASSUME Inv, UNCHANGED <<pin_count, allocated, free_list, lru_list>>,
         \A g \in Frames : transaction'[g] = NoTxn <=> transaction[g] = NoTxn
  PROVE  FramesAreListed'
<1>1. \A g \in allocated : g \in Frames
  BY ZenonT(60) DEF Inv, TypeOK, PoolTypes
<1> QED BY <1>1, Zenon DEF Inv, FramesAreListed

\* Two frames never cache the same page of a store.
LEMMA OneFramePerPage ==
  ASSUME Inv, NEW f \in Frames, NEW g \in Frames, transaction[f] # NoTxn,
         transaction[g] # NoTxn, page_id[f] = page_id[g],
         StoreOf[transaction[f]] = StoreOf[transaction[g]]
  PROVE  f = g
<1>1. StoreOf[transaction[f]] \in Stores /\ page_id[f] \in PageIds
  BY TxnAssumption, Zenon DEF Inv, TypeOK, PageTypes
<1> QED BY <1>1 DEF Inv, PageMapIsExact, AssignedTo

\* The check of pin_count_ fails after UnassignPageFromStore has written the
\* page: a modified page may have changed in the data file.
LEMMA UnassignPinnedPageInv ==
  ASSUME Inv, NEW ok, UnassignPinnedPage(ok)
  PROVE  Inv'
<1>1. PICK t \in Txns :
        LET f == Head(pool_pages[t])
        IN  /\ Running(t) /\ pool_pages[t] # <<>>
            /\ IF is_dirty[f] THEN WritePage(f, ok) ELSE UNCHANGED disk
  BY Zenon DEF UnassignPinnedPage
<1>2. PICK f \in Frames : f = Head(pool_pages[t]) /\ transaction[f] = t /\ t # NoTxn
  BY <1>1, FirstPage, Zenon
<1> DEFINE s == StoreOf[t]
           id == page_id[f]
<1>3. s \in Stores /\ id \in PageIds /\ data[f] \in Values
  BY <1>2, TxnAssumption, ZenonT(60) DEF Inv, TypeOK, PageTypes
<1>4. disk' = disk \/ (is_dirty[f] /\ disk' = [disk EXCEPT ![s][id] = data[f]])
  BY <1>1, <1>2, ZenonT(60) DEF WritePage
<1>5. /\ failed' = "pin_count_is_1"
      /\ UNCHANGED <<pageVars, allocated, free_list, lru_list, page_map, txnVars,
                     storeVars, callerVars, request, calls>>
  BY Zenon DEF UnassignPinnedPage, Stop
<1>6. s = StoreOf[transaction[f]] /\ id = page_id[f]
  BY <1>2, Zenon
<1> HIDE DEF s, id
<1>7. /\ disk' \in [Stores -> [PageIds -> Values]]
      /\ \A r \in Stores, i \in PageIds :
           r # s \/ i # id \/ ~is_dirty[f] => disk'[r][i] = disk[r][i]
  <2>1. disk \in [Stores -> [PageIds -> Values]]
    BY Zenon DEF Inv, TypeOK, PoolTypes
  <2>2. ASSUME disk' = [disk EXCEPT ![s][id] = data[f]]
        PROVE  /\ disk' \in [Stores -> [PageIds -> Values]]
               /\ \A r \in Stores, i \in PageIds :
                    r # s \/ i # id => disk'[r][i] = disk[r][i]
    BY <1>3, <2>1, <2>2, Zenon
  <2> QED BY <1>4, <2>1, <2>2, ZenonT(60)
<1>8. TypeOK'
  <2>1. PoolTypes'
    BY <1>5, <1>7, ZenonT(60) DEF Inv, TypeOK, PoolTypes
  <2>2. CallTypes'
    BY <1>5, Zenon DEF Inv, TypeOK, CallTypes
  <2> QED BY <1>5, <2>1, <2>2, SameTypes, ZenonT(60) DEF Inv, TypeOK
<1>9. CleanPagesMatchDisk'
  <2> SUFFICES ASSUME NEW g \in Frames, transaction[g] # NoTxn, ~is_dirty[g],
                      g # blank
               PROVE  data[g] = disk'[StoreOf[transaction[g]]][page_id[g]]
    BY <1>5, Zenon DEF CleanPagesMatchDisk, pageVars, callerVars
  <2>1. data[g] = disk[StoreOf[transaction[g]]][page_id[g]]
    BY Zenon DEF Inv, CleanPagesMatchDisk
  <2>2. StoreOf[transaction[g]] \in Stores /\ page_id[g] \in PageIds
    BY TxnAssumption, ZenonT(60) DEF Inv, TypeOK, PageTypes
  <2>3. g = f => ~is_dirty[f]
    BY Zenon
  <2>4. g # f => StoreOf[transaction[g]] # s \/ page_id[g] # id
    BY <1>2, <1>6, OneFramePerPage, ZenonT(60)
  <2> QED BY <1>7, <2>1, <2>2, <2>3, <2>4, ZenonT(60)
<1>10. /\ FramesAreListed' /\ PagesAreListed' /\ PageMapIsExact'
       /\ DirtyIffModified' /\ PinnedPagesAreAssigned'
  <2>1. FramesAreListed'
    BY <1>5, SamePoolLists, Zenon DEF pageVars
  <2>2. PagesAreListed'
    BY <1>5, Zenon DEF Inv, PagesAreListed, pageVars
  <2>3. PageMapIsExact'
    BY <1>5, SamePageMap, Zenon DEF Inv, pageVars
  <2>4. DirtyIffModified'
    BY <1>5, Zenon DEF Inv, DirtyIffModified, pageVars
  <2>5. PinnedPagesAreAssigned'
    BY <1>5, Zenon DEF Inv, PinnedPagesAreAssigned, pageVars, callerVars
  <2> QED BY <2>1, <2>2, <2>3, <2>4, <2>5, Zenon
<1>11. CallsAreNested'
  BY <1>5, SameCalls, Zenon DEF Inv, txnVars, storeVars, callerVars
<1>12. HeldFramesAreUnassigned'
  BY <1>5, ZenonT(60) DEF Inv, HeldFramesAreUnassigned, pageVars, txnVars
<1>13. PinsAreAccounted'
  <2>1. \A g \in Frames : PinnedByLoop(g)' <=> PinnedByLoop(g)
    BY <1>5, ZenonT(60) DEF PinnedByLoop, pageVars, txnVars
  <2> QED BY <1>5, <2>1, ZenonT(60) DEF Inv, PinsAreAccounted, pageVars, callerVars
<1>14. RunningTransactionsAreListed'
  BY <1>5, SameRunningTransactions, Zenon DEF Inv, txnVars, storeVars
<1> QED BY <1>8, <1>9, <1>10, <1>11, <1>12, <1>13, <1>14, ZenonT(60) DEF Inv

\* The checks that stop the program.
LEMMA FailureInv ==
  ASSUME Inv, Failure
  PROVE  Inv'
<1>1. ASSUME NEW ok, UnassignPinnedPage(ok) PROVE Inv'
  BY <1>1, UnassignPinnedPageInv, Zenon
<1>2. CASE \/ Fail("file_is_open") \/ Fail("store_is_not_closed")
           \/ Fail("commit_write_succeeds") \/ Fail("pool_is_drained")
  BY <1>2, FailInv, Zenon
<1> QED BY <1>1, <1>2, Zenon DEF Failure

\* A caller modifies a page it has pinned.
LEMMA ModifyInv ==
  ASSUME Inv, NEW t \in Txns, NEW f \in Frames, NEW v \in Values, Modify(t, f, v)
  PROVE  Inv'
<1>1. /\ calls = <<>> /\ t \in UserTxns
      /\ blank # NoFrame => blank = f
      /\ pins[f] > 0 /\ transaction[f] \in {t, InitTxn[StoreOf[t]]}
      /\ WillModifyPage(t, f) /\ data' = [data EXCEPT ![f] = v]
      /\ blank' = NoFrame /\ writer' = NoTxn
      /\ UNCHANGED <<page_id, pin_count, poolVars, txnVars, storeVars, pins,
                     request, calls, failed>>
  BY Zenon DEF Modify
<1>2. /\ PagesAreListed' /\ PageMapIsExact' /\ DirtyIffModified'
      /\ transaction' \in [Frames -> Txns \union {NoTxn}]
      /\ is_dirty' \in [Frames -> BOOLEAN]
      /\ pool_pages' \in [Txns -> Seq(Frames)]
      /\ transaction'[f] = t /\ is_dirty'[f]
      /\ \A g \in Frames \ {f} :
           transaction'[g] = transaction[g] /\ is_dirty'[g] = is_dirty[g]
  <2>1. CASE transaction[f] = t
    <3>1. is_dirty' = [is_dirty EXCEPT ![f] = TRUE] /\ UNCHANGED <<transaction, pool_pages>>
      BY <1>1, <2>1, Zenon DEF WillModifyPage
    <3>2. PagesAreListed'
      BY <3>1, Zenon DEF Inv, PagesAreListed
    <3>3. PageMapIsExact'
      BY <1>1, <3>1, SamePageMap, Zenon DEF Inv, poolVars
    <3>4. is_dirty' \in [Frames -> BOOLEAN] /\ is_dirty'[f]
          /\ \A g \in Frames \ {f} : is_dirty'[g] = is_dirty[g]
      BY <3>1, Zenon DEF Inv, TypeOK, PageTypes
    <3>5. DirtyIffModified'
      BY <1>1, <2>1, <3>1, <3>4, Zenon DEF Inv, DirtyIffModified
    <3> QED BY <2>1, <3>1, <3>2, <3>3, <3>4, <3>5, ZenonT(60)
        DEF Inv, TypeOK, PageTypes
  <2>2. CASE transaction[f] # t
    <3> DEFINE i == InitTxn[StoreOf[t]]
    <3>1. transaction[f] = i /\ i # t /\ i \in Txns /\ StoreOf[i] = StoreOf[t]
      BY <1>1, <2>2, TxnAssumption, Zenon
    <3>2. MovePage(f, i, t, TRUE)
      BY <1>1, <2>2, <3>1, Zenon DEF WillModifyPage
    <3> HIDE DEF i
    <3>3. UNCHANGED <<page_id, page_map>>
      BY <1>1, Zenon DEF poolVars
    <3> QED BY <1>1, <3>1, <3>2, <3>3, MoveFrame, Zenon
  <2> QED BY <2>1, <2>2, Zenon
<1>3. /\ data' \in [Frames -> Values] /\ data'[f] = v
      /\ \A g \in Frames \ {f} : data'[g] = data[g]
  BY <1>1, Zenon DEF Inv, TypeOK, PageTypes
<1>4. TypeOK'
  <2>1. PageTypes'
    BY <1>1, <1>2, <1>3, ZenonT(60)
       DEF Inv, TypeOK, PageTypes, poolVars, txnVars, storeVars
  <2>2. CallerTypes'
    BY <1>1, <1>2, <1>3, Zenon
       DEF Inv, TypeOK, CallerTypes, poolVars, txnVars, storeVars
  <2>3. TypeOK /\ calls' = calls /\ calls \in Seq(CallNames)
    BY <1>1, Zenon DEF Inv, TypeOK, CallTypes, CallNames
  <2>4. PoolTypes' /\ TxnTypes' /\ StoreTypes' /\ CallTypes'
    BY <1>1, <2>3, SameTypes, Zenon
  <2> QED BY <2>1, <2>2, <2>4, Zenon DEF TypeOK
<1>5. /\ request = NoRequest
      /\ \A u \in Txns : pc[u] = "idle" /\ loop_page[u] = NoFrame
      /\ \A g \in Frames : pin_count[g] = pins[g]
  BY <1>1, NoCallRuns, Zenon
<1>6. transaction[f] # NoTxn /\ t # NoTxn
  BY <1>1, ValueAssumption, Zenon DEF Inv, PinnedPagesAreAssigned
<1>7. FramesAreListed'
  BY <1>1, <1>2, <1>6, SamePoolLists, Zenon DEF poolVars
<1>8. CallsAreNested'
  BY <1>1, ZenonT(60) DEF Inv, CallsAreNested, txnVars, storeVars
<1>9. HeldFramesAreUnassigned'
  <2>1. Range(calls) = {}
    BY <1>1, EmptyList, ZenonT(60)
  <2> QED BY <1>1, <1>5, <2>1, Zenon DEF HeldFramesAreUnassigned, txnVars
<1>10. PinsAreAccounted'
  <2>1. \A g \in Frames : ~PinnedByLoop(g)'
    BY <1>1, <1>5, ValueAssumption, Zenon DEF PinnedByLoop, txnVars, NoRequest
  <2>2. \A g \in Frames : pin_count'[g] = pins'[g] /\ pins'[g] \in Nat
    BY <1>1, <1>5, ZenonT(60) DEF Inv, TypeOK, CallerTypes
  <2> QED BY <2>1, <2>2 DEF PinsAreAccounted
<1>11. PinnedPagesAreAssigned'
  BY <1>1, <1>2, <1>6, Zenon DEF Inv, PinnedPagesAreAssigned
<1>12. CleanPagesMatchDisk'
  <2> SUFFICES ASSUME NEW g \in Frames, transaction'[g] # NoTxn, ~is_dirty'[g]
               PROVE  data'[g] = disk'[StoreOf[transaction'[g]]][page_id'[g]]
    BY Zenon DEF CleanPagesMatchDisk
  <2>1. g # f /\ g # blank
    BY <1>1, <1>2, ValueAssumption, ZenonT(60)
  <2> QED BY <1>1, <1>2, <1>3, <2>1, ZenonT(60)
      DEF Inv, CleanPagesMatchDisk, poolVars
<1>13. RunningTransactionsAreListed'
  BY <1>1, SameRunningTransactions, Zenon DEF Inv, txnVars, storeVars
<1> QED BY <1>2, <1>4, <1>7, <1>8, <1>9, <1>10, <1>11, <1>12, <1>13, ZenonT(60)
    DEF Inv

\* Commit writes a page and hands it to the init transaction.
LEMMA CommitPageInv ==
  ASSUME Inv, NEW t \in Txns, CommitPage(t)
  PROVE  Inv'
<1>1. PICK f \in Frames : f = Head(pool_pages[t]) /\ transaction[f] = t /\ t # NoTxn
  BY FirstPage, Zenon DEF CommitPage
<1> DEFINE s == StoreOf[t]
           id == page_id[f]
           i == InitTxn[s]
<1>2. /\ Running(t) /\ pc[t] = "write"
      /\ disk' = [disk EXCEPT ![s][id] = data[f]]
      /\ MovePage(f, t, i, FALSE) /\ UnpinStorePage(f, "kCachePage")
      /\ UNCHANGED <<page_id, data, allocated, free_list, page_map, txnVars,
                     storeVars, callerVars, request, calls, failed>>
  BY <1>1, Zenon DEF CommitPage, WritePage, PageWasPersisted
<1>3. s \in Stores /\ id \in PageIds /\ data[f] \in Values
  BY <1>1, TxnAssumption, ZenonT(60) DEF Inv, TypeOK, PageTypes
<1>4. calls = <<t>> /\ t \in UserTxns /\ blank = NoFrame
  BY <1>2, SMTT(30) DEF Inv, CallsAreNested
<1>5. i \in Txns /\ i # t /\ StoreOf[i] = s /\ i \notin UserTxns /\ i # NoTxn
  BY <1>3, <1>4, TxnAssumption, ValueAssumption, ZenonT(60) DEF UserTxns, IsInit
<1>6. s = StoreOf[t] /\ id = page_id[f]
  BY Zenon
<1> HIDE DEF s, id, i
<1>7. /\ PagesAreListed' /\ PageMapIsExact' /\ DirtyIffModified'
      /\ transaction' \in [Frames -> Txns \union {NoTxn}]
      /\ is_dirty' \in [Frames -> BOOLEAN]
      /\ pool_pages' \in [Txns -> Seq(Frames)]
      /\ transaction'[f] = i /\ ~is_dirty'[f]
      /\ \A g \in Frames \ {f} :
           transaction'[g] = transaction[g] /\ is_dirty'[g] = is_dirty[g]
  BY <1>1, <1>2, <1>4, <1>5, <1>6, MoveFrame, ZenonT(60)
<1>8. \A u \in Txns \ {t} : pc[u] = "idle"
  <2>1. Range(calls) = {t}
    BY <1>4, SingleCall, Zenon DEF CallNames
  <2> QED BY <2>1, Zenon DEF Inv, CallsAreNested
<1>9. PinnedByLoop(f) /\ pins[f] \in Nat /\ pin_count[f] = pins[f] + 1
  <2>1. PinnedByLoop(f)
    BY <1>1, <1>2, Zenon DEF PinnedByLoop
  <2> QED BY <2>1, Zenon DEF Inv, TypeOK, CallerTypes, PinsAreAccounted
<1>10. /\ FramesAreListed'
       /\ lru_list' \in Seq(Frames) /\ pin_count' \in [Frames -> Nat]
       /\ pin_count'[f] = pin_count[f] - 1
       /\ \A g \in Frames \ {f} : pin_count'[g] = pin_count[g]
  <2>1. transaction[f] # NoTxn /\ pin_count[f] # 0
    <3>1. \A k \in Nat : k + 1 # 0
      OBVIOUS
    <3> QED BY <1>1, <1>9, <3>1, Zenon
  <2>2. \A g \in Frames : transaction'[g] = NoTxn <=> transaction[g] = NoTxn
    BY <1>1, <1>5, <1>7, Zenon
  <2>3. UNCHANGED <<allocated, free_list>> /\ UnpinStorePage(f, "kCachePage")
    BY <1>2, Zenon
  <2> QED BY <2>1, <2>2, <2>3, UnpinFrame, Zenon
<1>11. /\ disk' \in [Stores -> [PageIds -> Values]]
       /\ disk'[s][id] = data[f]
       /\ \A r \in Stores, j \in PageIds :
            r # s \/ j # id => disk'[r][j] = disk[r][j]
  BY <1>2, <1>3, Zenon DEF Inv, TypeOK, PoolTypes
<1>12. TypeOK'
  <2>1. PageTypes'
    BY <1>2, <1>7, <1>10, <1>11, ZenonT(60)
       DEF Inv, TypeOK, PageTypes, txnVars, storeVars, callerVars
  <2>2. PoolTypes'
    BY <1>2, <1>7, <1>10, <1>11, ZenonT(60)
       DEF Inv, TypeOK, PoolTypes, txnVars, storeVars, callerVars
  <2>3. CallTypes'
    BY <1>2, <1>7, <1>10, <1>11, ZenonT(60)
       DEF Inv, TypeOK, CallTypes, txnVars, storeVars, callerVars
  <2> QED BY <1>2, <1>7, <1>10, <1>11, <2>1, <2>2, <2>3, SameTypes, ZenonT(60)
      DEF Inv, TypeOK, txnVars, storeVars, callerVars
<1>13. CallsAreNested'
  BY <1>2, SameCalls, Zenon DEF Inv, txnVars, storeVars, callerVars
<1>14. HeldFramesAreUnassigned'
  <2>1. request.page # f /\ \A u \in Txns : loop_page[u] # f
    BY <1>1, HeldByTransaction, Zenon
  <2>2. request # NoRequest => request.page \in Frames
    BY Zenon DEF Inv, TypeOK, CallTypes, Requests
  <2>3. \A u \in Txns : loop_page[u] # NoFrame => loop_page[u] \in Frames
    BY Zenon DEF Inv, TypeOK, TxnTypes
  <2> QED BY <1>2, <1>7, <2>1, <2>2, <2>3, ZenonT(60)
      DEF Inv, HeldFramesAreUnassigned, txnVars
<1>15. PinsAreAccounted'
  <2> SUFFICES ASSUME NEW g \in Frames
               PROVE  pin_count'[g] =
                        pins'[g] + (IF PinnedByLoop(g)' THEN 1 ELSE 0)
    BY Zenon DEF PinsAreAccounted
  <2>1. pins'[g] = pins[g] /\ pins[g] \in Nat
    BY <1>2, ZenonT(60) DEF Inv, TypeOK, CallerTypes, callerVars
  <2>2. CASE g = f
    <3>1. request.page # f /\ \A u \in Txns : loop_page[u] # f
      BY <1>1, HeldByTransaction, Zenon
    <3>2. ~PinnedByLoop(f)'
      BY <1>2, <1>5, <1>7, <1>8, <3>1, Zenon DEF PinnedByLoop, txnVars
    <3> QED BY <1>9, <1>10, <2>1, <2>2, <3>2
  <2>3. CASE g # f
    <3>1. PinnedByLoop(g)' <=> PinnedByLoop(g)
      BY <1>2, <1>7, <1>8, <2>3, Zenon DEF PinnedByLoop, txnVars
    <3>2. pin_count[g] = pins[g] + (IF PinnedByLoop(g) THEN 1 ELSE 0)
      BY Zenon DEF Inv, PinsAreAccounted
    <3> QED BY <1>10, <2>1, <2>3, <3>1, <3>2, Zenon
  <2> QED BY <2>2, <2>3, Zenon
<1>16. PinnedPagesAreAssigned'
  BY <1>1, <1>2, <1>5, <1>7, Zenon DEF Inv, PinnedPagesAreAssigned, callerVars
<1>17. CleanPagesMatchDisk'
  <2> SUFFICES ASSUME NEW g \in Frames, transaction'[g] # NoTxn, ~is_dirty'[g]
               PROVE  data[g] = disk'[StoreOf[transaction'[g]]][page_id[g]]
    BY <1>2, Zenon DEF CleanPagesMatchDisk
  <2>1. CASE g = f
    BY <1>5, <1>6, <1>7, <1>11, <2>1, Zenon
  <2>2. CASE g # f
    <3>1. /\ transaction'[g] = transaction[g] /\ transaction[g] \in Txns
          /\ ~is_dirty[g] /\ g # blank
      BY <1>4, <1>7, <2>2, ValueAssumption, Zenon DEF Inv
    <3>2. StoreOf[transaction[g]] \in Stores /\ page_id[g] \in PageIds
      BY <3>1, TxnAssumption, Zenon DEF Inv, TypeOK, PageTypes
    <3>3. StoreOf[transaction[g]] # s \/ page_id[g] # id
      BY <1>1, <1>6, <2>2, <3>1, OneFramePerPage, ZenonT(30)
    <3>4. data[g] = disk[StoreOf[transaction[g]]][page_id[g]]
      BY <3>1, Zenon DEF Inv, CleanPagesMatchDisk
    <3> QED BY <1>11, <3>1, <3>2, <3>3, <3>4, ZenonT(60)
  <2> QED BY <2>1, <2>2, Zenon
<1>18. RunningTransactionsAreListed'
  BY <1>2, SameRunningTransactions, Zenon DEF Inv, txnVars, storeVars
<1> QED BY <1>7, <1>10, <1>12, <1>13, <1>14, <1>15, <1>16, <1>17, <1>18, ZenonT(60)
    DEF Inv

\* The frame that Close has unassigned is held by nothing else.
LEMMA LoopPage ==
  ASSUME Inv, NEW t \in Txns, pc[t] = "unpin"
  PROVE  /\ loop_page[t] \in Frames /\ loop_page[t] # NoFrame
         /\ transaction[loop_page[t]] = NoTxn
         /\ request.page # loop_page[t]
         /\ \A u \in Txns \ {t} : loop_page[u] # loop_page[t]
         /\ pins[loop_page[t]] = 0 /\ pin_count[loop_page[t]] = 1
<1>1. /\ loop_page[t] \in Frames /\ loop_page[t] # NoFrame
      /\ transaction[loop_page[t]] = NoTxn
      /\ request.page # loop_page[t]
      /\ \A u \in Txns \ {t} : loop_page[u] # loop_page[t]
  BY Zenon DEF Inv, TypeOK, TxnTypes, HeldFramesAreUnassigned
<1>2. PinnedByLoop(loop_page[t])
  BY ZenonT(60) DEF PinnedByLoop
<1>3. pins[loop_page[t]] = 0
  BY <1>1 DEF Inv, TypeOK, CallerTypes, PinnedPagesAreAssigned
<1>4. pin_count[loop_page[t]] = 0 + 1
  BY <1>1, <1>2, <1>3, Zenon DEF Inv, PinsAreAccounted
<1>5. 0 + 1 = 1
  OBVIOUS
<1> QED BY <1>1, <1>3, <1>4, <1>5, Zenon

\* Close frees the page it has unassigned.
LEMMA CloseUnpinPageInv ==
  ASSUME Inv, NEW t \in Txns, CloseUnpinPage(t)
  PROVE  Inv'
<1>1. /\ Running(t) /\ pc[t] = "unpin" /\ UnpinUnassignedPage(loop_page[t])
      /\ loop_page' = [loop_page EXCEPT ![t] = NoFrame]
      /\ pc' = [pc EXCEPT ![t] = "unassign"]
      /\ UNCHANGED <<transaction, page_id, is_dirty, data, pool_pages,
                     allocated, lru_list, page_map, disk, live, is_closed,
                     is_committed, cursor, storeVars, callerVars, request,
                     calls, failed>>
  BY Zenon DEF CloseUnpinPage
<1>2. PICK f \in Frames :
        /\ f = loop_page[t] /\ f # NoFrame /\ transaction[f] = NoTxn
        /\ request.page # f /\ \A u \in Txns \ {t} : loop_page[u] # f
        /\ pins[f] = 0 /\ pin_count[f] = 1
  BY <1>1, LoopPage, Zenon
<1>3. /\ FramesAreListed'
      /\ free_list' \in Seq(Frames) /\ pin_count' \in [Frames -> Nat]
      /\ pin_count'[f] = 0
      /\ \A g \in Frames \ {f} : pin_count'[g] = pin_count[g]
  BY <1>1, <1>2, FreeFrame, ZenonT(60)
<1>4. /\ pc' \in [Txns -> Pcs] /\ pc'[t] = "unassign"
      /\ loop_page' \in [Txns -> Frames \union {NoFrame}]
      /\ loop_page'[t] = NoFrame
      /\ \A u \in Txns \ {t} : pc'[u] = pc[u] /\ loop_page'[u] = loop_page[u]
  BY <1>1, Zenon DEF Inv, TypeOK, TxnTypes, Pcs
<1>5. TypeOK'
  <2>1. PageTypes'
    BY <1>1, <1>3, <1>4, Zenon DEF Inv, TypeOK, PageTypes, storeVars, callerVars
  <2>2. PoolTypes'
    BY <1>1, <1>3, <1>4, Zenon DEF Inv, TypeOK, PoolTypes, storeVars, callerVars
  <2>3. TxnTypes'
    BY <1>1, <1>3, <1>4, Zenon DEF Inv, TypeOK, TxnTypes, storeVars, callerVars
  <2>4. CallTypes'
    BY <1>1, <1>3, <1>4, Zenon DEF Inv, TypeOK, CallTypes, storeVars, callerVars
  <2> QED BY <1>1, <1>3, <1>4, <2>1, <2>2, <2>3, <2>4, SameTypes, ZenonT(60)
      DEF Inv, TypeOK, storeVars, callerVars
<1>6. CallsAreNested'
  BY <1>1, <1>4, ZenonT(60) DEF Inv, CallsAreNested, storeVars, callerVars
<1>7. HeldFramesAreUnassigned'
  BY <1>1, <1>4, ZenonT(30) DEF Inv, HeldFramesAreUnassigned
<1>8. PinsAreAccounted'
  <2> SUFFICES ASSUME NEW g \in Frames
               PROVE  pin_count'[g] =
                        pins'[g] + (IF PinnedByLoop(g)' THEN 1 ELSE 0)
    BY Zenon DEF PinsAreAccounted
  <2>1. pins'[g] = pins[g] /\ pins[g] \in Nat
    BY <1>1, ZenonT(60) DEF Inv, TypeOK, CallerTypes, callerVars
  <2>2. CASE g = f
    <3>1. ~PinnedByLoop(f)'
      <4>1. request'.page # f /\ transaction'[f] \notin Txns
        BY <1>1, <1>2, ValueAssumption, Zenon
      <4>2. \A u \in Txns : loop_page'[u] # f
        BY <1>1, <1>2, <1>4, Zenon
      <4> QED BY <4>1, <4>2, Zenon DEF PinnedByLoop
    <3> QED BY <1>2, <1>3, <2>1, <2>2, <3>1
  <2>3. CASE g # f
    <3>1. PinnedByLoop(g)' <=> PinnedByLoop(g)
      BY <1>1, <1>2, <1>4, <2>3, ValueAssumption DEF PinnedByLoop
    <3>2. pin_count[g] = pins[g] + (IF PinnedByLoop(g) THEN 1 ELSE 0)
      BY Zenon DEF Inv, PinsAreAccounted
    <3> QED BY <1>3, <2>1, <2>3, <3>1, <3>2, ZenonT(60)
  <2> QED BY <2>2, <2>3, Zenon
<1>9. PagesAreListed' /\ DirtyIffModified'
  BY <1>1, Zenon DEF Inv, PagesAreListed, DirtyIffModified
<1>10. PageMapIsExact'
  BY <1>1, SamePageMap, Zenon DEF Inv
<1>11. PinnedPagesAreAssigned' /\ CleanPagesMatchDisk'
  BY <1>1, Zenon
     DEF Inv, PinnedPagesAreAssigned, CleanPagesMatchDisk, callerVars
<1>12. RunningTransactionsAreListed'
  BY <1>1, SameRunningTransactions, Zenon DEF Inv, storeVars
<1> QED BY <1>3, <1>5, <1>6, <1>7, <1>8, <1>9, <1>10, <1>11, <1>12, ZenonT(60)
    DEF Inv

=============================================================================
