------------------------- MODULE FreePageListLemmas -------------------------
(***************************************************************************)
(* What the proofs about the free page lists need to know of sequences,    *)
(* of the chains of list pages and of what the lists hold.                 *)
(*                                                                         *)
(* Chain and WithEntries are recursive functions.  What they compute is    *)
(* proved by induction, from the least number of a set of numbers.         *)
(***************************************************************************)
EXTENDS FreePageList, FiniteSetTheorems, TLAPS

-----------------------------------------------------------------------------
(* Induction and recursion on the natural numbers *)

\* Every set of natural numbers has a least element.
LEMMA LeastNumber ==
  ASSUME NEW T \in SUBSET Nat, T # {}
  PROVE  \E n \in T : \A m \in T : n <= m
<1> DEFINE R == OpToRel(<, Nat)
<1>1. PICK n \in T : \A m \in T : <<m, n>> \notin R
  <2>1. IsWellFoundedOn(R, Nat)
    BY NatLessThanWellFounded, Zenon
  <2> HIDE DEF R
  <2> QED BY <2>1, WFMin, Zenon
<1>2. \A m \in Nat : m < n => <<m, n>> \in R
  BY Zenon DEF OpToRel
<1> HIDE DEF R
<1>3. \A m \in T : ~(m < n) /\ m \in Nat /\ n \in Nat
  BY <1>1, <1>2, Zenon
<1> QED BY <1>3

\* Induction, for a property given as a set.
LEMMA SetInduction ==
  ASSUME NEW S, 0 \in S, \A n \in Nat : n \in S => n + 1 \in S
  PROVE  Nat \subseteq S
<1> SUFFICES ASSUME Nat \ S # {} PROVE FALSE
  BY Zenon
<1>1. PICK n \in Nat \ S : \A m \in Nat \ S : n <= m
  BY LeastNumber, Zenon
<1>2. n # 0 /\ n - 1 \in Nat /\ n - 1 \in S
  BY <1>1
<1> QED BY <1>1, <1>2

\* The steps of a recursion on elements of D, which may depend on their number,
\* and the function that starts at d0 and takes these steps.
IsStep(F, D) == F \in [Nat -> [D -> D]]

IsIterate(f, d0, F, D) ==
  f \in [Nat -> D] /\ f[0] = d0 /\ \A n \in Nat : f[n + 1] = F[n][f[n]]

\* Iterating a step defines a function on the natural numbers.
LEMMA NatRecursion ==
  ASSUME NEW D, NEW d0, d0 \in D, NEW F, IsStep(F, D)
  PROVE  \E f : IsIterate(f, d0, F, D)
<1> USE DEF IsStep, IsIterate
<1> DEFINE Approximates(g, n) ==
             /\ g \in [0..n -> D] /\ g[0] = d0
             /\ \A m \in 0..(n - 1) : g[m + 1] = F[m][g[m]]
           S == {n \in Nat : \E g : Approximates(g, n)}
<1>1. 0 \in S
  <2>1. Approximates([m \in 0..0 |-> d0], 0)
    OBVIOUS
  <2> QED BY <2>1, Zenon
<1>2. ASSUME NEW n \in Nat, n \in S PROVE n + 1 \in S
  <2>1. PICK g : Approximates(g, n)
    BY <1>2, Zenon
  <2> DEFINE h == [m \in 0..(n + 1) |-> IF m = n + 1 THEN F[n][g[n]] ELSE g[m]]
  <2>2. h \in [0..(n + 1) -> D] /\ h[0] = d0
    BY <2>1
  <2>3. \A m \in 0..n : h[m + 1] = F[m][h[m]]
    BY <2>1
  <2>4. (n + 1) - 1 = n
    OBVIOUS
  <2> HIDE DEF h
  <2>5. Approximates(h, n + 1)
    BY <2>2, <2>3, <2>4, Zenon
  <2> QED BY <2>5
<1>3. Nat \subseteq S
  <2> HIDE DEF S
  <2> QED BY <1>1, <1>2, SetInduction, Zenon
<1> DEFINE G == [n \in Nat |-> CHOOSE g : Approximates(g, n)]
<1>4. \A n \in Nat : Approximates(G[n], n)
  BY <1>3, Zenon
<1>5. \A m \in Nat : \A n \in Nat : m <= n => G[n][m] = G[m][m]
  <2> HIDE DEF G
  <2> DEFINE A == {m \in Nat : \A n \in Nat : m <= n => G[n][m] = G[m][m]}
  <2>1. 0 \in A
    BY <1>4, Zenon
  <2>2. ASSUME NEW m \in Nat, m \in A PROVE m + 1 \in A
    <3> SUFFICES ASSUME NEW n \in Nat, m + 1 <= n
                 PROVE  G[n][m + 1] = G[m + 1][m + 1]
      OBVIOUS
    <3>0. m \in 0..(n - 1) /\ m \in 0..((m + 1) - 1) /\ m + 1 \in Nat
      OBVIOUS
    <3>1. G[n][m + 1] = F[m][G[n][m]]
      BY <1>4, <3>0, Zenon
    <3>2. G[m + 1][m + 1] = F[m][G[m + 1][m]]
      BY <1>4, <3>0, Zenon
    <3>3. G[n][m] = G[m][m] /\ G[m + 1][m] = G[m][m]
      BY <2>2
    <3> QED BY <3>1, <3>2, <3>3, Zenon
  <2>3. Nat \subseteq A
    <3> HIDE DEF A
    <3> QED BY <2>1, <2>2, SetInduction, Zenon
  <2> QED BY <2>3, Zenon
<1> HIDE DEF G
<1> DEFINE f == [n \in Nat |-> G[n][n]]
<1>6. f \in [Nat -> D] /\ f[0] = d0
  BY <1>4
<1>7. ASSUME NEW n \in Nat PROVE f[n + 1] = F[n][f[n]]
  <2>1. G[n + 1][n + 1] = F[n][G[n + 1][n]]
    BY <1>4
  <2>2. G[n + 1][n] = G[n][n]
    BY <1>5
  <2> QED BY <2>1, <2>2
<1> HIDE DEF f
<1> QED BY <1>6, <1>7, Zenon

-----------------------------------------------------------------------------
(* Sequences, with and without duplicates *)

\* A sequence but for its last element.
LEMMA FrontProperties ==
  ASSUME NEW S, NEW c \in Seq(S), c # <<>>
  PROVE  LET d == SubSeq(c, 1, Len(c) - 1)
         IN  /\ d \in Seq(S) /\ Len(d) = Len(c) - 1
             /\ \A i \in 1..(Len(c) - 1) : d[i] = c[i]
             /\ c[Len(c)] \in S /\ c = Append(d, c[Len(c)])
<1> DEFINE d == SubSeq(c, 1, Len(c) - 1)
<1>1. Len(c) \in Nat /\ Len(c) > 0 /\ c[Len(c)] \in S /\ \A i \in 1..Len(c) : c[i] \in S
  OBVIOUS
<1>2. /\ d \in Seq(S) /\ Len(d) = Len(c) - 1
      /\ \A i \in 1..(Len(c) - 1) : d[i] = c[i]
  <2>1. \A k \in 1..Len(c) : /\ SubSeq(c, 1, k - 1) \in Seq(S)
                             /\ Len(SubSeq(c, 1, k - 1)) = k - 1
                             /\ \A i \in 1..(k - 1) : SubSeq(c, 1, k - 1)[i] = c[i]
    BY <1>1
  <2>2. Len(c) \in 1..Len(c)
    BY <1>1
  <2> QED BY <2>1, <2>2, Zenon
<1> HIDE DEF d
<1>3. c = Append(d, c[Len(c)])
  BY <1>1, <1>2
<1> QED BY <1>1, <1>2, <1>3, Zenon DEF d

\* What is before the last element of a sequence, and the last element.
LEMMA FrontElements ==
  ASSUME NEW S, NEW s \in Seq(S), s # <<>>
  PROVE  LET d == SubSeq(s, 1, Len(s) - 1)
         IN  /\ Range(s) = Range(d) \union {s[Len(s)]}
             /\ IsInjective(s) => IsInjective(d) /\ s[Len(s)] \notin Range(d)
<1> DEFINE d == SubSeq(s, 1, Len(s) - 1)
           n == Len(s)
<1>1. /\ d \in Seq(S) /\ Len(d) = n - 1 /\ \A i \in 1..(n - 1) : d[i] = s[i]
  BY FrontProperties, Zenon
<1>2. n \in Nat /\ n > 0 /\ DOMAIN s = 1..n
  OBVIOUS
<1> HIDE DEF d, n
<1>3. /\ DOMAIN d = 1..(n - 1) /\ n \in 1..n /\ n \notin 1..(n - 1)
      /\ \A i \in 1..n : i = n \/ i \in 1..(n - 1)
      /\ \A i \in 1..(n - 1) : i \in 1..n
  BY <1>1, <1>2
<1>4. Range(s) = Range(d) \union {s[n]}
  BY <1>1, <1>2, <1>3, Zenon DEF Range
<1>5. IsInjective(s) => IsInjective(d) /\ s[n] \notin Range(d)
  BY <1>1, <1>2, <1>3, Zenon DEF Range, IsInjective
<1> QED BY <1>4, <1>5, Zenon DEF d, n

\* The elements of a sequence to which one has been appended.
LEMMA AppendElements ==
  ASSUME NEW S, NEW s \in Seq(S), NEW x \in S
  PROVE  /\ Append(s, x) \in Seq(S) /\ Len(Append(s, x)) = Len(s) + 1
         /\ Range(Append(s, x)) = Range(s) \union {x}
         /\ IsInjective(s) /\ x \notin Range(s) => IsInjective(Append(s, x))
<1>1. Append(s, x) \in Seq(S) /\ Len(Append(s, x)) = Len(s) + 1
  OBVIOUS
<1> DEFINE r == Append(s, x)
           n == Len(s)
<1>2. /\ n \in Nat /\ DOMAIN s = 1..n /\ DOMAIN r = 1..(n + 1) /\ r[n + 1] = x
      /\ \A i \in 1..n : r[i] = s[i]
      /\ \A i \in 1..(n + 1) : i = n + 1 \/ i \in 1..n
      /\ n + 1 \in 1..(n + 1) /\ \A i \in 1..n : i \in 1..(n + 1)
  OBVIOUS
<1> HIDE DEF r, n
<1>3. Range(r) = Range(s) \union {x}
  BY <1>2, Zenon DEF Range
<1>4. IsInjective(s) /\ x \notin Range(s) => IsInjective(r)
  BY <1>2, Zenon DEF Range, IsInjective
<1> QED BY <1>1, <1>3, <1>4, Zenon DEF r

\* Append is undone by taking away the last element.
LEMMA AppendLast ==
  ASSUME NEW S, NEW r \in Seq(S), NEW y \in S
  PROVE  /\ Append(r, y) # <<>> /\ Append(r, y)[Len(Append(r, y))] = y
         /\ SubSeq(Append(r, y), 1, Len(Append(r, y)) - 1) = r
<1> DEFINE a == Append(r, y)
<1>1. a \in Seq(S) /\ Len(a) = Len(r) + 1 /\ a # <<>> /\ a[Len(a)] = y /\ Len(r) \in Nat
      /\ \A i \in 1..Len(r) : a[i] = r[i]
  OBVIOUS
<1> DEFINE d == SubSeq(a, 1, Len(a) - 1)
<1>2. d \in Seq(S) /\ Len(d) = Len(a) - 1 /\ \A i \in 1..(Len(a) - 1) : d[i] = a[i]
  <2> HIDE DEF a
  <2> QED BY <1>1, FrontProperties, Zenon
<1> HIDE DEF a, d
<1>3. d = r
  <2>1. Len(d) = Len(r) /\ \A i \in 1..Len(r) : d[i] = r[i]
    BY <1>1, <1>2
  <2> QED BY <1>2, <2>1
<1> QED BY <1>1, <1>3, Zenon DEF a, d

\* The elements of two sequences, one after the other.
LEMMA ConcatElements ==
  ASSUME NEW S, NEW x \in Seq(S), NEW s \in Seq(S)
  PROVE  /\ x \o s \in Seq(S) /\ Len(x \o s) = Len(x) + Len(s)
         /\ Range(x \o s) = Range(x) \union Range(s)
         /\ IsInjective(x) /\ IsInjective(s) /\ Range(x) \intersect Range(s) = {}
            => IsInjective(x \o s)
<1> DEFINE r == x \o s
           m == Len(x)
           n == Len(s)
<1>1. /\ m \in Nat /\ n \in Nat
      /\ r \in Seq(S) /\ Len(r) = m + n
      /\ DOMAIN r = 1..(m + n) /\ DOMAIN x = 1..m /\ DOMAIN s = 1..n
  OBVIOUS
<1>2. \A i \in 1..(m + n) : r[i] = IF i <= m THEN x[i] ELSE s[i - m]
  OBVIOUS
<1> HIDE DEF r, m, n
<1>3. /\ \A i \in 1..m : i \in DOMAIN r /\ r[i] = x[i]
      /\ \A i \in 1..n : m + i \in DOMAIN r /\ r[m + i] = s[i]
  <2>1. \A i \in 1..n : (m + i) - m = i /\ m + i \in 1..(m + n) /\ ~(m + i <= m)
    BY <1>1
  <2> QED BY <1>1, <1>2, <2>1
<1>4. Range(x) \union Range(s) \subseteq Range(r)
  BY <1>1, <1>3, Zenon DEF Range
<1>5. ASSUME NEW i \in DOMAIN r
      PROVE  \/ i \in DOMAIN x /\ r[i] = x[i]
             \/ i - m \in DOMAIN s /\ r[i] = s[i - m]
  BY <1>1, <1>2
<1>6. Range(r) \subseteq Range(x) \union Range(s)
  BY <1>5, Zenon DEF Range
<1>7. ASSUME IsInjective(x), IsInjective(s), Range(x) \intersect Range(s) = {}
      PROVE  IsInjective(r)
  <2> SUFFICES ASSUME NEW i \in DOMAIN r, NEW j \in DOMAIN r, r[i] = r[j]
               PROVE  i = j
    BY Zenon DEF IsInjective
  <2>1. i \in Int /\ j \in Int /\ (i - m = j - m => i = j)
    BY <1>1
  <2>2. \A a \in DOMAIN x : \A b \in DOMAIN s : x[a] # s[b]
    BY <1>7, Zenon DEF Range
  <2>3. \A a, b \in DOMAIN x : x[a] = x[b] => a = b
    BY <1>7, Zenon DEF IsInjective
  <2>4. \A a, b \in DOMAIN s : s[a] = s[b] => a = b
    BY <1>7, Zenon DEF IsInjective
  <2>5. CASE i \in DOMAIN x /\ r[i] = x[i]
    BY <1>5, <2>2, <2>3, <2>5, Zenon
  <2>6. CASE i - m \in DOMAIN s /\ r[i] = s[i - m]
    <3>1. CASE j - m \in DOMAIN s /\ r[j] = s[j - m]
      BY <2>1, <2>4, <2>6, <3>1, Zenon
    <3> QED BY <1>5, <2>2, <2>6, <3>1, Zenon
  <2> QED BY <1>5, <2>5, <2>6, Zenon
<1>8. Range(r) = Range(x) \union Range(s)
  BY <1>4, <1>6, Zenon
<1>9. r \in Seq(S) /\ Len(r) = m + n
  BY <1>1, Zenon
<1> QED BY <1>7, <1>8, <1>9, Zenon DEF r, m, n

\* x, then p, then s, as in one step of WithEntries.
LEMMA ConcatProperties ==
  ASSUME NEW S, NEW x \in Seq(S), NEW p \in S, NEW s \in Seq(S)
  PROVE  /\ x \o <<p>> \o s \in Seq(S)
         /\ Range(x \o <<p>> \o s) = Range(x) \union {p} \union Range(s)
         /\ IsInjective(x) /\ IsInjective(s) /\ p \notin Range(x) /\ p \notin Range(s)
              /\ Range(x) \intersect Range(s) = {}
            => IsInjective(x \o <<p>> \o s)
<1> DEFINE r == x \o <<p>> \o s
           m == Len(x)
           n == Len(s)
<1>1. /\ m \in Nat /\ n \in Nat
      /\ r \in Seq(S) /\ Len(r) = m + 1 + n
      /\ DOMAIN r = 1..(m + 1 + n) /\ DOMAIN x = 1..m /\ DOMAIN s = 1..n
  OBVIOUS
<1>2. \A i \in 1..(m + 1 + n) :
        r[i] = IF i <= m THEN x[i] ELSE IF i = m + 1 THEN p ELSE s[i - (m + 1)]
  OBVIOUS
<1> HIDE DEF r, m, n
<1>3. /\ \A i \in 1..m : i \in DOMAIN r /\ r[i] = x[i]
      /\ m + 1 \in DOMAIN r /\ r[m + 1] = p
      /\ \A i \in 1..n : m + 1 + i \in DOMAIN r /\ r[m + 1 + i] = s[i]
  <2>1. \A i \in 1..n : (m + 1 + i) - (m + 1) = i /\ m + 1 + i \in 1..(m + 1 + n)
                        /\ ~(m + 1 + i <= m) /\ m + 1 + i # m + 1
    BY <1>1
  <2> QED BY <1>1, <1>2, <2>1
<1>4. Range(x) \union {p} \union Range(s) \subseteq Range(r)
  BY <1>1, <1>3, ZenonT(60) DEF Range
<1>5. ASSUME NEW i \in DOMAIN r
      PROVE  \/ i \in DOMAIN x /\ r[i] = x[i]
             \/ i = m + 1 /\ r[i] = p
             \/ i - (m + 1) \in DOMAIN s /\ r[i] = s[i - (m + 1)]
  BY <1>1, <1>2
<1>6. Range(r) \subseteq Range(x) \union {p} \union Range(s)
  BY <1>5, Zenon DEF Range
<1>7. ASSUME IsInjective(x), IsInjective(s), p \notin Range(x), p \notin Range(s),
             Range(x) \intersect Range(s) = {}
      PROVE  IsInjective(r)
  <2> SUFFICES ASSUME NEW i \in DOMAIN r, NEW j \in DOMAIN r, r[i] = r[j]
               PROVE  i = j
    BY Zenon DEF IsInjective
  <2>1. i \in Int /\ j \in Int /\ (i - (m + 1) = j - (m + 1) => i = j)
    BY <1>1
  <2>2. \A a \in DOMAIN x : x[a] # p /\ \A b \in DOMAIN s : x[a] # s[b]
    BY <1>7, Zenon DEF Range
  <2>3. \A b \in DOMAIN s : s[b] # p
    BY <1>7, Zenon DEF Range
  <2>4. \A a, b \in DOMAIN x : x[a] = x[b] => a = b
    BY <1>7, Zenon DEF IsInjective
  <2>5. \A a, b \in DOMAIN s : s[a] = s[b] => a = b
    BY <1>7, Zenon DEF IsInjective
  <2>6. CASE i \in DOMAIN x /\ r[i] = x[i]
    BY <1>5, <2>2, <2>4, <2>6, Zenon
  <2>7. CASE i = m + 1 /\ r[i] = p
    BY <1>5, <2>2, <2>3, <2>7, Zenon
  <2>8. CASE i - (m + 1) \in DOMAIN s /\ r[i] = s[i - (m + 1)]
    <3>1. CASE j - (m + 1) \in DOMAIN s /\ r[j] = s[j - (m + 1)]
      BY <2>1, <2>5, <2>8, <3>1, Zenon
    <3> QED BY <1>5, <2>2, <2>3, <2>8, <3>1, Zenon
  <2> QED BY <1>5, <2>6, <2>7, <2>8, Zenon
<1>8. Range(r) = Range(x) \union {p} \union Range(s)
  BY <1>4, <1>6, Zenon
<1>9. r \in Seq(S)
  BY <1>1, Zenon
<1>10. IsInjective(x) /\ IsInjective(s) /\ p \notin Range(x) /\ p \notin Range(s)
           /\ Range(x) \intersect Range(s) = {}
         => IsInjective(r)
  BY <1>7, Zenon
<1> QED BY <1>8, <1>9, <1>10, Zenon DEF r

\* Appending to a sequence appends to what ends in it.
LEMMA ConcatAppend ==
  ASSUME NEW S, NEW x \in Seq(S), NEW p \in S, NEW s \in Seq(S), NEW y \in S
  PROVE  x \o <<p>> \o Append(s, y) = Append(x \o <<p>> \o s, y)
OBVIOUS

\* A list page without entries is all that it adds to a list's contents.
LEMMA ConcatEmpty ==
  ASSUME NEW S, NEW x \in Seq(S), NEW p \in S
  PROVE  x \o <<p>> \o <<>> = Append(x, p)
OBVIOUS

\* The elements of the two parts of a sequence.
LEMMA SplitElements ==
  ASSUME NEW S, NEW s \in Seq(S), NEW k \in 0..Len(s)
  PROVE  LET a == SubSeq(s, 1, k)
             b == SubSeq(s, k + 1, Len(s))
         IN  /\ a \in Seq(S) /\ b \in Seq(S) /\ Len(a) = k /\ Len(b) = Len(s) - k
             /\ Range(s) = Range(a) \union Range(b)
             /\ IsInjective(s) => /\ IsInjective(a) /\ IsInjective(b)
                                 /\ Range(a) \intersect Range(b) = {}
<1> DEFINE a == SubSeq(s, 1, k)
           b == SubSeq(s, k + 1, Len(s))
           n == Len(s)
<1>1. n \in Nat /\ DOMAIN s = 1..n /\ \A i \in 1..n : s[i] \in S
  OBVIOUS
<1>2. a \in Seq(S) /\ Len(a) = k /\ \A i \in 1..k : a[i] = s[i]
  BY <1>1
<1>3. b \in Seq(S) /\ Len(b) = n - k /\ \A i \in 1..(n - k) : b[i] = s[k + i]
  <2>1. n - (k + 1) + 1 = n - k /\ n - k \in Nat /\ k \in Nat
    BY <1>1
  <2>2. Len(b) = n - k
    <3>1. CASE k = n
      BY <3>1
    <3>2. CASE k + 1 <= n
      BY <3>2, SMTT(30)
    <3>3. k = n \/ k + 1 <= n
      OBVIOUS
    <3> QED BY <3>1, <3>2, <3>3, Zenon
  <2>3. \A i \in 1..(n - k) : b[i] = s[k + i] /\ k + i \in 1..n
    BY <1>1, <2>1
  <2>4. b \in Seq(S)
    BY <1>1, <2>1
  <2> QED BY <2>2, <2>3, <2>4, Zenon
<1> HIDE DEF a, b, n
<1>4. /\ k \in Nat /\ k <= n
  BY DEF n
<1>5. /\ DOMAIN a = 1..k /\ DOMAIN b = 1..(n - k)
      /\ \A i \in 1..k : i \in 1..n
      /\ \A i \in 1..(n - k) : k + i \in 1..n
      /\ \A i \in 1..n : i \in 1..k \/ (i - k \in 1..(n - k) /\ k + (i - k) = i)
  BY <1>1, <1>2, <1>3, <1>4
<1>6. Range(s) = Range(a) \union Range(b)
  <2>1. Range(a) \union Range(b) \subseteq Range(s)
    <3>1. Range(a) \subseteq Range(s)
      BY <1>1, <1>2, <1>5, Zenon DEF Range
    <3>2. \A i \in 1..(n - k) : b[i] \in Range(s)
      BY <1>1, <1>3, <1>5, Zenon DEF Range
    <3>3. Range(b) \subseteq Range(s)
      BY <1>5, <3>2, Zenon DEF Range
    <3> QED BY <3>1, <3>3, Zenon
  <2>2. ASSUME NEW i \in 1..n PROVE s[i] \in Range(a) \union Range(b)
    <3>1. CASE i \in 1..k
      BY <1>2, <1>5, <3>1, Zenon DEF Range
    <3>2. CASE i - k \in 1..(n - k) /\ k + (i - k) = i
      <4>1. b[i - k] = s[i]
        BY <1>3, <3>2, Zenon
      <4> QED BY <1>5, <3>2, <4>1, Zenon DEF Range
    <3> QED BY <1>5, <3>1, <3>2, Zenon
  <2> QED BY <1>1, <2>1, <2>2, Zenon DEF Range
<1>7. ASSUME IsInjective(s)
      PROVE  IsInjective(a) /\ IsInjective(b) /\ Range(a) \intersect Range(b) = {}
  <2>1. \A i, j \in 1..n : s[i] = s[j] => i = j
    BY <1>1, <1>7, Zenon DEF IsInjective
  <2>2. IsInjective(a)
    BY <1>2, <1>5, <2>1, Zenon DEF IsInjective
  <2>3. IsInjective(b)
    <3> SUFFICES ASSUME NEW i \in 1..(n - k), NEW j \in 1..(n - k), b[i] = b[j]
                 PROVE  i = j
      BY <1>5, Zenon DEF IsInjective
    <3>1. k + i = k + j
      BY <1>3, <1>5, <2>1, Zenon
    <3> QED BY <1>1, <1>4, <3>1
  <2>4. \A i \in 1..k : \A j \in 1..(n - k) : a[i] # b[j]
    <3> SUFFICES ASSUME NEW i \in 1..k, NEW j \in 1..(n - k), a[i] = b[j]
                 PROVE  FALSE
      BY Zenon
    <3>1. i = k + j
      BY <1>2, <1>3, <1>5, <2>1, SMTT(30)
    <3> QED BY <1>1, <1>4, <3>1
  <2>5. Range(a) \intersect Range(b) = {}
    BY <1>5, <2>4, Zenon DEF Range
  <2> QED BY <2>2, <2>3, <2>5, Zenon
<1>8. a \in Seq(S) /\ b \in Seq(S) /\ Len(a) = k /\ Len(b) = n - k
  BY <1>2, <1>3, Zenon
<1> QED BY <1>6, <1>7, <1>8, Zenon DEF a, b, n

\* What filling up page g with the last entries of page h does to the two.
LEMMA SplitEntries ==
  ASSUME NEW S, NEW x \in Seq(S), NEW y \in Seq(S), NEW n \in Nat,
         Len(y) <= n, ~(Len(y) + Len(x) < n)
  PROVE  LET kept == Len(x) - (n - Len(y))
             left == SubSeq(x, 1, kept)
             all == y \o SubSeq(x, kept + 1, Len(x))
         IN  /\ left \in Seq(S) /\ Len(left) <= Len(x) /\ all \in Seq(S) /\ Len(all) = n
             /\ Range(left) \union Range(all) = Range(x) \union Range(y)
             /\ IsInjective(x) /\ IsInjective(y) /\ Range(x) \intersect Range(y) = {}
                => /\ IsInjective(left) /\ IsInjective(all)
                   /\ Range(left) \intersect Range(all) = {}
<1> DEFINE kept == Len(x) - (n - Len(y))
           left == SubSeq(x, 1, kept)
           right == SubSeq(x, kept + 1, Len(x))
           all == y \o right
<1>1. kept \in 0..Len(x) /\ Len(x) \in Nat /\ Len(y) \in Nat
  BY DEF kept
<1>2. Len(y) + (Len(x) - kept) = n /\ kept <= Len(x)
  BY <1>1
<1> HIDE DEF kept
<1>3. /\ left \in Seq(S) /\ right \in Seq(S) /\ Len(left) = kept /\ Len(right) = Len(x) - kept
      /\ Range(x) = Range(left) \union Range(right)
      /\ IsInjective(x) => /\ IsInjective(left) /\ IsInjective(right)
                          /\ Range(left) \intersect Range(right) = {}
  BY <1>1, SplitElements, Zenon
<1> HIDE DEF left, right
<1>4. /\ all \in Seq(S) /\ Len(all) = Len(y) + Len(right)
      /\ Range(all) = Range(y) \union Range(right)
      /\ IsInjective(y) /\ IsInjective(right) /\ Range(y) \intersect Range(right) = {}
         => IsInjective(all)
  BY <1>3, ConcatElements, Zenon
<1> HIDE DEF all
<1>5. Len(all) = n /\ Len(left) <= Len(x)
  BY <1>2, <1>3, <1>4, Zenon
<1>6. Range(left) \union Range(all) = Range(x) \union Range(y)
  BY <1>3, <1>4, Zenon
<1>7. IsInjective(x) /\ IsInjective(y) /\ Range(x) \intersect Range(y) = {}
      => /\ IsInjective(left) /\ IsInjective(all) /\ Range(left) \intersect Range(all) = {}
  BY <1>3, <1>4, Zenon
<1> QED BY <1>3, <1>4, <1>5, <1>6, <1>7, Zenon DEF kept, left, right, all

-----------------------------------------------------------------------------
(* The list pages of a list *)

PageNumbers == Pages \union {kInvalidPageId, kStoreMagic}

\* The equations that define ChainFrom.
ChainEquations ==
  /\ ChainFrom \in [Nat -> [PageNumbers -> Seq(Pages)]]
  /\ \A p \in PageNumbers : ChainFrom[0][p] = <<>>
  /\ \A n \in Nat : \A p \in PageNumbers :
       ChainFrom[n + 1][p] = IF p \in Pages THEN Append(ChainFrom[n][next_page_id[p]], p)
                             ELSE <<>>

\* ChainFrom satisfies the equations that define it.
LEMMA ChainIsDefined ==
  ASSUME next_page_id \in [Pages -> PageNumbers]
  PROVE  ChainEquations
<1> DEFINE D == [PageNumbers -> Seq(Pages)]
           d0 == [p \in PageNumbers |-> <<>>]
           More(x) == [p \in PageNumbers |->
                         IF p \notin Pages THEN <<>> ELSE Append(x[next_page_id[p]], p)]
           F == [n \in Nat |-> [x \in D |-> More(x)]]
           Solves(f) == f = [n \in Nat |-> [p \in PageNumbers |->
                          IF n = 0 \/ p \notin Pages THEN <<>>
                          ELSE Append(f[n - 1][next_page_id[p]], p)]]
<1>1. d0 \in D
  OBVIOUS
<1>2. \A x \in D : More(x) \in D
  OBVIOUS
<1>3. F \in [Nat -> [D -> D]] /\ \A n \in Nat : \A x \in D : F[n][x] = More(x)
  <2> HIDE DEF D, More
  <2> QED BY <1>2, Zenon
<1>4. \E f : Solves(f)
  <2>1. PICK f \in [Nat -> D] : f[0] = d0 /\ \A n \in Nat : f[n + 1] = F[n][f[n]]
    <3> HIDE DEF D, d0, F
    <3>1. IsStep(F, D)
      BY <1>3, Zenon DEF IsStep
    <3>2. \E f : IsIterate(f, d0, F, D)
      BY <1>1, <3>1, NatRecursion, Zenon
    <3> QED BY <3>2, Zenon DEF IsIterate
  <2>2. ASSUME NEW n \in Nat
        PROVE  f[n] = [p \in PageNumbers |->
                          IF n = 0 \/ p \notin Pages THEN <<>>
                          ELSE Append(f[n - 1][next_page_id[p]], p)]
    <3>1. CASE n = 0
      BY <2>1, <3>1, Zenon
    <3>2. CASE n # 0
      <4>1. n - 1 \in Nat /\ (n - 1) + 1 = n
        BY <3>2
      <4>2. f[n] = More(f[n - 1])
        <5>1. f[(n - 1) + 1] = F[n - 1][f[n - 1]] /\ f[n - 1] \in D
          <6> HIDE DEF D, F
          <6> QED BY <2>1, <4>1, Zenon
        <5> HIDE DEF D, More, F
        <5> QED BY <1>3, <4>1, <5>1, Zenon
      <4> QED BY <3>2, <4>2, Zenon
    <3> QED BY <3>1, <3>2, Zenon
  <2>3. Solves(f)
    BY <2>1, <2>2, Zenon
  <2> QED BY <2>3, Zenon
<1>5. Solves(ChainFrom)
  <2>1. ChainFrom = CHOOSE f : Solves(f)
    BY Zenon DEF ChainFrom, PageNumbers
  <2> HIDE DEF Solves
  <2> QED BY <1>4, <2>1, Zenon
<1>6. /\ \A p \in PageNumbers : ChainFrom[0][p] = <<>>
      /\ ChainFrom[0] = d0
  BY <1>5
<1>7. ASSUME NEW n \in Nat
      PROVE  ChainFrom[n + 1] = More(ChainFrom[n])
  <2>1. n + 1 # 0 /\ (n + 1) - 1 = n /\ n + 1 \in Nat
    OBVIOUS
  <2> QED BY <1>5, <2>1, Zenon
<1>8. \A n \in Nat : ChainFrom[n] \in D
  <2> DEFINE S == {n \in Nat : ChainFrom[n] \in D}
  <2> HIDE DEF D, d0, More
  <2>1. 0 \in S /\ \A n \in Nat : n \in S => n + 1 \in S
    BY <1>1, <1>2, <1>6, <1>7, SMTT(30)
  <2>2. Nat \subseteq S
    <3> HIDE DEF S
    <3> QED BY <2>1, SetInduction, Zenon
  <2> QED BY <2>2, Zenon
<1>9. ChainFrom \in [Nat -> D]
  <2>1. ChainFrom = [n \in Nat |-> ChainFrom[n]]
    BY <1>5, Zenon
  <2> HIDE DEF D
  <2> QED BY <1>8, <2>1, Zenon
<1> QED BY <1>6, <1>7, <1>9, ZenonT(60) DEF ChainEquations

\* c is the chain of list pages from page p on, last page first, with the links
\* next.
IsChain(c, p, next) ==
  /\ c \in Seq(Pages) /\ IsInjective(c)
  /\ p = IF c = <<>> THEN kInvalidPageId ELSE c[Len(c)]
  /\ \A i \in 1..Len(c) :
       next[c[i]] = IF i = 1 THEN kInvalidPageId ELSE c[i - 1]

\* A list without duplicates is not longer than there are pages.
LEMMA ListsAreShort ==
  ASSUME NEW c \in Seq(Pages), IsInjective(c)
  PROVE  Len(c) <= Cardinality(Pages) /\ Cardinality(Pages) \in Nat
<1>1. c \in Injection(1..Len(c), Pages)
  <2>1. c \in [1..Len(c) -> Pages] /\ DOMAIN c = 1..Len(c)
    OBVIOUS
  <2> QED BY <2>1, Zenon DEF Injection, IsInjective
<1>2. IsFiniteSet(1..Len(c)) /\ Cardinality(1..Len(c)) = Len(c)
  <2>1. 1 \in Int /\ Len(c) \in Int /\ Len(c) \in Nat
    OBVIOUS
  <2>2. /\ IsFiniteSet(1..Len(c))
        /\ Cardinality(1..Len(c)) = IF 1 > Len(c) THEN 0 ELSE Len(c) - 1 + 1
    BY <2>1, FS_Interval, Zenon
  <2> QED BY <2>1, <2>2
<1>3. IsFiniteSet(Pages)
  BY ListAssumption, Zenon
<1>4. Cardinality(1..Len(c)) <= Cardinality(Pages)
  BY <1>1, <1>3, FS_Injection, Zenon
<1>5. Cardinality(Pages) \in Nat
  BY <1>3, FS_CardinalityType, Zenon
<1> QED BY <1>2, <1>4, <1>5, Zenon

\* The chain but for its last element is the chain from the next page on.
LEMMA ChainFront ==
  ASSUME NEW c, NEW p, NEW next, IsChain(c, p, next), c # <<>>
  PROVE  LET d == SubSeq(c, 1, Len(c) - 1)
         IN  /\ p \in Pages /\ c = Append(d, p) /\ Len(d) = Len(c) - 1
             /\ IsChain(d, next[p], next)
             /\ p \notin Range(d)
<1> DEFINE d == SubSeq(c, 1, Len(c) - 1)
<1>1. c \in Seq(Pages) /\ Len(c) \in Nat /\ Len(c) > 0 /\ p = c[Len(c)] /\ p \in Pages
  BY DEF IsChain
<1>2. d \in Seq(Pages) /\ Len(d) = Len(c) - 1 /\ \A i \in 1..(Len(c) - 1) : d[i] = c[i]
  BY <1>1, FrontProperties, Zenon
<1>3. c = Append(d, p)
  BY <1>1, FrontProperties, Zenon
<1> HIDE DEF d
<1>4. \A i, j \in 1..Len(c) : c[i] = c[j] => i = j
  BY <1>1 DEF IsChain, IsInjective
<1>5. IsInjective(d) /\ p \notin Range(d)
  BY <1>1, <1>2, <1>4 DEF IsInjective, Range
<1>6. \A i \in 1..Len(d) : next[d[i]] = IF i = 1 THEN kInvalidPageId ELSE d[i - 1]
  BY <1>1, <1>2 DEF IsChain
<1>7. next[p] = IF d = <<>> THEN kInvalidPageId ELSE d[Len(d)]
  BY <1>1, <1>2 DEF IsChain
<1> QED BY <1>1, <1>2, <1>3, <1>5, <1>6, <1>7, Zenon DEF IsChain, d

\* ChainFrom finds the chain, whatever its bound.
LEMMA ChainIsFound ==
  ASSUME ChainEquations, NEW c, NEW p \in PageNumbers, IsChain(c, p, next_page_id)
  PROVE  \A n \in Nat : Len(c) <= n => ChainFrom[n][p] = c
<1> DEFINE Found(n) == \A d \in Seq(Pages) : \A q \in PageNumbers :
                         IsChain(d, q, next_page_id) /\ Len(d) <= n => ChainFrom[n][q] = d
           S == {n \in Nat : Found(n)}
<1>1. Found(0)
  BY DEF ChainEquations
<1>2. ASSUME NEW n \in Nat, Found(n) PROVE Found(n + 1)
  <2> SUFFICES ASSUME NEW d \in Seq(Pages), NEW q \in PageNumbers, IsChain(d, q, next_page_id),
                      Len(d) <= n + 1
               PROVE  ChainFrom[n + 1][q] = d
    BY Zenon
  <2>1. CASE d = <<>>
    <3>1. q \notin Pages
      BY <2>1, ListAssumption, Zenon DEF IsChain
    <3> QED BY <2>1, <3>1, Zenon DEF ChainEquations
  <2>2. CASE d # <<>>
    <3> DEFINE e == SubSeq(d, 1, Len(d) - 1)
    <3>1. /\ q \in Pages /\ d = Append(e, q) /\ Len(e) = Len(d) - 1
          /\ IsChain(e, next_page_id[q], next_page_id)
      BY <2>2, ChainFront, Zenon
    <3> HIDE DEF e
    <3>2. e \in Seq(Pages) /\ next_page_id[q] \in PageNumbers /\ Len(e) <= n
      <4>1. e \in Seq(Pages)
        BY <3>1, Zenon DEF IsChain
      <4>2. next_page_id[q] = IF e = <<>> THEN kInvalidPageId ELSE e[Len(e)]
        BY <3>1, Zenon DEF IsChain
      <4>3. e # <<>> => e[Len(e)] \in Pages
        BY <4>1
      <4>4. next_page_id[q] \in PageNumbers
        BY <4>2, <4>3, Zenon DEF PageNumbers
      <4> QED BY <3>1, <4>1, <4>4
    <3>3. ChainFrom[n][next_page_id[q]] = e
      BY <1>2, <3>1, <3>2, Zenon
    <3> QED BY <3>1, <3>3, Zenon DEF ChainEquations
  <2> QED BY <2>1, <2>2, Zenon
<1>3. Nat \subseteq S
  <2>1. 0 \in S /\ \A n \in Nat : n \in S => n + 1 \in S
    <3> HIDE DEF Found
    <3> QED BY <1>1, <1>2
  <2> HIDE DEF S
  <2> QED BY <2>1, SetInduction, Zenon
<1>4. c \in Seq(Pages)
  BY Zenon DEF IsChain
<1> QED BY <1>3, <1>4, Zenon

ChainsAreFound ==
  /\ \A l \in FreeLists : \A c : IsChain(c, head_page_id[l], next_page_id) => Chain(l) = c
  /\ \A l \in FreeLists : Chain(l) \in Seq(Pages)

\* The links between the pages determine the chain of every list.
LEMMA TypedChains == TypeOK => ChainsAreFound
<1> SUFFICES ASSUME TypeOK PROVE ChainsAreFound
  BY Zenon
<1>1. \A l \in FreeLists : head_page_id[l] \in PageNumbers
  BY Zenon DEF TypeOK, PageNumbers
<1>2. ChainEquations
  BY ChainIsDefined, Zenon DEF TypeOK, PageNumbers
<1>3. ASSUME NEW l \in FreeLists, NEW c, IsChain(c, head_page_id[l], next_page_id) PROVE Chain(l) = c
  <2>1. c \in Seq(Pages) /\ IsInjective(c)
    BY <1>3, Zenon DEF IsChain
  <2>2. Len(c) <= Cardinality(Pages) /\ Cardinality(Pages) \in Nat
    BY <2>1, ListsAreShort, Zenon
  <2> QED BY <1>1, <1>2, <1>3, <2>2, ChainIsFound, Zenon DEF Chain
<1>4. Cardinality(Pages) \in Nat
  BY ListAssumption, FS_CardinalityType, Zenon
<1>5. \A l \in FreeLists : Chain(l) \in Seq(Pages)
  BY <1>1, <1>2, <1>4, Zenon DEF Chain, ChainEquations
<1> QED BY <1>3, <1>5, Zenon DEF ChainsAreFound

\* The same in the next state.
LEMMA TypedChainsNext == TypeOK' => ChainsAreFound'
BY TypedChains, PTL

\* A chain is still one when none of its links has changed.
LEMMA ChainStays ==
  ASSUME NEW c, NEW p, NEW next, NEW new, IsChain(c, p, next),
         \A q \in Range(c) : new[q] = next[q]
  PROVE  IsChain(c, p, new)
<1>1. \A i \in 1..Len(c) : c[i] \in Range(c)
  BY DEF Range, IsChain
<1> QED BY <1>1, Zenon DEF IsChain

\* A page in front of a chain.
LEMMA ChainPush ==
  ASSUME NEW c, NEW q, NEW next, IsChain(c, q, next), NEW p \in Pages, p \notin Range(c),
         NEW new, new[p] = q, \A x \in Range(c) : new[x] = next[x]
  PROVE  IsChain(Append(c, p), p, new)
<1>1. c \in Seq(Pages) /\ IsInjective(c) /\ IsChain(c, q, new)
  <2>1. IsChain(c, q, new)
    BY ChainStays, Zenon
  <2> QED BY <2>1, Zenon DEF IsChain
<1>2. /\ Append(c, p) \in Seq(Pages) /\ Len(Append(c, p)) = Len(c) + 1
      /\ IsInjective(Append(c, p))
  BY <1>1, AppendElements, Zenon
<1>3. \A i \in 1..Len(c) : Append(c, p)[i] = c[i]
  BY <1>1
<1>4. Append(c, p)[Len(c) + 1] = p
  BY <1>1
<1>5. ASSUME NEW i \in 1..(Len(c) + 1)
      PROVE  new[Append(c, p)[i]] = IF i = 1 THEN kInvalidPageId ELSE Append(c, p)[i - 1]
  <2>1. CASE i \in 1..Len(c)
    <3>1. new[c[i]] = IF i = 1 THEN kInvalidPageId ELSE c[i - 1]
      BY <1>1, <2>1, Zenon DEF IsChain
    <3>2. Append(c, p)[i] = c[i] /\ (i # 1 => Append(c, p)[i - 1] = c[i - 1])
      BY <1>1, <1>3, <2>1
    <3> QED BY <3>1, <3>2, Zenon
  <2>2. CASE i = Len(c) + 1
    <3>1. q = IF c = <<>> THEN kInvalidPageId ELSE c[Len(c)]
      BY Zenon DEF IsChain
    <3>2. i = 1 <=> c = <<>>
      BY <1>1, <2>2
    <3>3. i # 1 => Append(c, p)[i - 1] = c[Len(c)]
      BY <1>1, <1>3, <2>2
    <3> QED BY <1>4, <2>2, <3>1, <3>2, <3>3, Zenon
  <2> QED BY <1>1, <2>1, <2>2
<1>6. Append(c, p) # <<>>
  BY <1>1, SMTT(30)
<1> HIDE DEF IsChain
<1> QED BY <1>1, <1>2, <1>4, <1>5, <1>6, Zenon DEF IsChain

\* A chain in front of another one, to whose first page its last page is linked.
LEMMA ChainConcat ==
  ASSUME NEW d, NEW n, NEW next, IsChain(d, n, next),
         NEW q, NEW p, IsChain(q, p, next), q # <<>>,
         Range(d) \intersect Range(q) = {},
         NEW new, new[q[1]] = n,
         \A x \in (Range(d) \union Range(q)) \ {q[1]} : new[x] = next[x]
  PROVE  IsChain(d \o q, p, new)
<1> DEFINE r == d \o q
           m == Len(d)
<1>1. /\ d \in Seq(Pages) /\ IsInjective(d) /\ q \in Seq(Pages) /\ IsInjective(q)
      /\ n = IF d = <<>> THEN kInvalidPageId ELSE d[m]
      /\ p = q[Len(q)]
      /\ \A i \in 1..m : next[d[i]] = IF i = 1 THEN kInvalidPageId ELSE d[i - 1]
      /\ \A i \in 1..Len(q) : next[q[i]] = IF i = 1 THEN kInvalidPageId ELSE q[i - 1]
  BY Zenon DEF IsChain
<1>2. /\ r \in Seq(Pages) /\ Len(r) = m + Len(q) /\ IsInjective(r)
  BY <1>1, ConcatElements
<1>3. /\ m \in Nat /\ Len(q) \in Nat /\ Len(q) # 0 /\ (m = 0 <=> d = <<>>)
  BY <1>1
<1>4. /\ \A i \in 1..m : r[i] = d[i]
      /\ \A i \in 1..Len(q) : r[m + i] = q[i]
  BY <1>1
<1>5. /\ \A i \in 1..m : d[i] \in Range(d)
      /\ \A i \in 1..Len(q) : q[i] \in Range(q)
  BY <1>1 DEF Range
<1>6. \A i \in 2..Len(q) : q[i] # q[1]
  <2>1. DOMAIN q = 1..Len(q)
    BY <1>1
  <2>2. \A i \in 1..Len(q), j \in 1..Len(q) : q[i] = q[j] => i = j
    BY <1>1, <2>1, Zenon DEF IsInjective
  <2> QED BY <1>3, <2>2
<1>7. \A i \in 1..m : d[i] # q[1]
  BY <1>3, <1>5
<1> HIDE DEF m, r
<1>8. ASSUME NEW i \in 1..(m + Len(q))
      PROVE  new[r[i]] = IF i = 1 THEN kInvalidPageId ELSE r[i - 1]
  <2>1. CASE i \in 1..m
    <3>1. new[d[i]] = next[d[i]]
      BY <1>5, <1>7, <2>1, Zenon
    <3>2. r[i] = d[i] /\ (i # 1 => r[i - 1] = d[i - 1])
      BY <1>3, <1>4, <2>1
    <3> QED BY <1>1, <2>1, <3>1, <3>2, Zenon
  <2>2. CASE i = m + 1
    <3>1. r[i] = q[1]
      BY <1>3, <1>4, <2>2
    <3>2. i # 1 => r[i - 1] = d[m]
      BY <1>3, <1>4, <2>2
    <3>3. i = 1 <=> d = <<>>
      BY <1>3, <2>2
    <3> QED BY <1>1, <3>1, <3>2, <3>3, Zenon
  <2>3. CASE i \in (m + 2)..(m + Len(q))
    <3> DEFINE j == i - m
    <3>1. j \in 2..Len(q) /\ j \in 1..Len(q) /\ j - 1 \in 1..Len(q) /\ i = m + j /\ j # 1
          /\ i - 1 = m + (j - 1) /\ i # 1
      BY <1>3, <2>3
    <3> HIDE DEF j
    <3>2. r[i] = q[j] /\ r[i - 1] = q[j - 1]
      BY <1>4, <3>1, Zenon
    <3>3. new[q[j]] = next[q[j]]
      BY <1>5, <1>6, <3>1, Zenon
    <3>4. next[q[j]] = q[j - 1]
      BY <1>1, <3>1, Zenon
    <3> QED BY <3>1, <3>2, <3>3, <3>4, Zenon
  <2> QED BY <1>3, <2>1, <2>2, <2>3
<1>9. r # <<>> /\ r[Len(r)] = q[Len(q)]
  BY <1>2, <1>3, <1>4
<1>10. IsChain(r, p, new)
  BY <1>1, <1>2, <1>8, <1>9, Zenon DEF IsChain
<1> QED BY <1>10, Zenon DEF r

-----------------------------------------------------------------------------
(* The list pages and their entries *)

\* The contents of the first n pages of chain c, with the entries e.
UpTo(c, e) ==
  LET u[n \in 0..Len(c)] == IF n = 0 THEN <<>> ELSE u[n - 1] \o <<c[n]>> \o e[c[n]]
  IN  u

\* The contents of chain c, with the entries e.
Joined(c, e) == UpTo(c, e)[Len(c)]

\* Contents in terms of Joined, whose arguments are its chain and its entries.
LEMMA ContentsAreJoined ==
  ASSUME NEW l
  PROVE  Contents(l) = Joined(Chain(l), entries)
BY Zenon DEF Contents, WithEntries, Joined, UpTo

\* UpTo satisfies the equations that define it.
LEMMA UpToEquations ==
  ASSUME NEW c \in Seq(Pages), NEW e \in [Pages -> Seq(Pages)]
  PROVE  /\ UpTo(c, e)[0] = <<>>
         /\ \A n \in 1..Len(c) :
              UpTo(c, e)[n] = UpTo(c, e)[n - 1] \o <<c[n]>> \o e[c[n]]
         /\ \A n \in 0..Len(c) : UpTo(c, e)[n] \in Seq(Pages)
<1> DEFINE D == Seq(Pages)
           More(n, x) == IF n < Len(c) THEN x \o <<c[n + 1]>> \o e[c[n + 1]] ELSE x
           F == [n \in Nat |-> [x \in D |-> More(n, x)]]
           Solves(u) == u = [n \in 0..Len(c) |->
                               IF n = 0 THEN <<>> ELSE u[n - 1] \o <<c[n]>> \o e[c[n]]]
<1>1. Len(c) \in Nat /\ \A n \in 1..Len(c) : c[n] \in Pages /\ e[c[n]] \in Seq(Pages)
  OBVIOUS
<1>2. ASSUME NEW n \in Nat, NEW x \in D PROVE More(n, x) \in D
  <2>1. CASE n < Len(c)
    <3>1. n + 1 \in 1..Len(c)
      BY <1>1, <2>1
    <3> QED BY <1>1, <2>1, <3>1, ConcatProperties, Zenon
  <2>2. CASE ~(n < Len(c))
    BY <2>2, Zenon
  <2> QED BY <2>1, <2>2, Zenon
<1>3. IsStep(F, D) /\ \A n \in Nat : \A x \in D : F[n][x] = More(n, x)
  <2> HIDE DEF D, More
  <2> QED BY <1>2, Zenon DEF IsStep
<1>4. \E u : Solves(u)
  <2>1. <<>> \in D
    OBVIOUS
  <2>2. PICK g : g \in [Nat -> D] /\ g[0] = <<>> /\ \A n \in Nat : g[n + 1] = F[n][g[n]]
    <3> HIDE DEF D, F
    <3>1. IsStep(F, D)
      BY <1>3, Zenon
    <3>2. \E g : IsIterate(g, <<>>, F, D)
      BY <2>1, <3>1, NatRecursion, Zenon
    <3> QED BY <3>2, Zenon DEF IsIterate
  <2> DEFINE u == [n \in 0..Len(c) |-> g[n]]
  <2>3. ASSUME NEW n \in 0..Len(c)
        PROVE  g[n] = IF n = 0 THEN <<>> ELSE u[n - 1] \o <<c[n]>> \o e[c[n]]
    <3>1. CASE n = 0
      BY <2>2, <3>1, Zenon
    <3>2. CASE n # 0
      <4>1. n - 1 \in Nat /\ (n - 1) + 1 = n /\ n - 1 < Len(c) /\ n - 1 \in 0..Len(c)
        BY <1>1, <3>2
      <4>2. g[(n - 1) + 1] = F[n - 1][g[n - 1]] /\ g[n - 1] \in D
        <5> HIDE DEF D, F
        <5> QED BY <2>2, <4>1, Zenon
      <4>3. g[n] = More(n - 1, g[n - 1])
        <5> HIDE DEF D, More, F
        <5> QED BY <1>3, <4>1, <4>2, Zenon
      <4>4. u[n - 1] = g[n - 1]
        BY <4>1, Zenon
      <4> HIDE DEF u, F
      <4> QED BY <3>2, <4>1, <4>3, <4>4, Zenon
    <3> QED BY <3>1, <3>2, Zenon
  <2>4. Solves(u)
    BY <2>3, Zenon
  <2> QED BY <2>4, Zenon
<1>5. Solves(UpTo(c, e))
  <2>1. UpTo(c, e) = CHOOSE u : Solves(u)
    BY Zenon DEF UpTo
  <2> HIDE DEF Solves
  <2> QED BY <1>4, <2>1, Zenon
<1> DEFINE U == UpTo(c, e)
<1>6. U[0] = <<>> /\ \A n \in 1..Len(c) : U[n] = U[n - 1] \o <<c[n]>> \o e[c[n]]
  <2> HIDE DEF U
  <2>1. Solves(U)
    BY <1>5, Zenon DEF U
  <2>2. 0 \in 0..Len(c) /\ \A n \in 1..Len(c) : n \in 0..Len(c) /\ n # 0
    BY <1>1
  <2>3. \A n \in 0..Len(c) : U[n] = IF n = 0 THEN <<>> ELSE U[n - 1] \o <<c[n]>> \o e[c[n]]
    BY <2>1, Zenon
  <2> QED BY <2>2, <2>3, Zenon
<1>7. \A n \in 0..Len(c) : U[n] \in Seq(Pages)
  <2> HIDE DEF U
  <2> DEFINE A == {n \in Nat : n <= Len(c) => U[n] \in Seq(Pages)}
  <2>1. 0 \in A
    <3>1. U[0] = <<>>
      BY <1>6, Zenon
    <3>2. <<>> \in Seq(Pages)
      OBVIOUS
    <3>3. U[0] \in Seq(Pages)
      BY <3>1, <3>2, Zenon
    <3> QED BY <3>3, Zenon
  <2>2. ASSUME NEW n \in Nat, n \in A PROVE n + 1 \in A
    <3> SUFFICES ASSUME n + 1 <= Len(c) PROVE U[n + 1] \in Seq(Pages)
      OBVIOUS
    <3>1. n + 1 \in 1..Len(c) /\ (n + 1) - 1 = n /\ n <= Len(c)
      BY <1>1
    <3>2. U[n + 1] = U[n] \o <<c[n + 1]>> \o e[c[n + 1]]
      BY <1>6, <3>1, Zenon
    <3>3. U[n] \in Seq(Pages)
      BY <2>2, <3>1, Zenon
    <3>4. c[n + 1] \in Pages /\ e[c[n + 1]] \in Seq(Pages)
      BY <1>1, <3>1, Zenon
    <3>5. U[n] \o <<c[n + 1]>> \o e[c[n + 1]] \in Seq(Pages)
      BY <3>3, <3>4, ConcatProperties, Zenon
    <3> QED BY <3>2, <3>5, Zenon
  <2>3. Nat \subseteq A
    <3> HIDE DEF A
    <3> QED BY <2>1, <2>2, SetInduction, Zenon
  <2> QED BY <1>1, <2>3
<1> QED BY <1>6, <1>7, Zenon

\* The contents depend on the chain's pages and on their entries.
LEMMA UpToAgrees ==
  ASSUME NEW c \in Seq(Pages), NEW e \in [Pages -> Seq(Pages)],
         NEW d \in Seq(Pages), NEW f \in [Pages -> Seq(Pages)],
         NEW k \in Nat, k <= Len(c), k <= Len(d),
         \A i \in 1..k : c[i] = d[i] /\ e[c[i]] = f[c[i]]
  PROVE  UpTo(c, e)[k] = UpTo(d, f)[k]
<1> DEFINE S == {n \in Nat : n <= k => UpTo(c, e)[n] = UpTo(d, f)[n]}
<1>1. Len(c) \in Nat /\ Len(d) \in Nat
  OBVIOUS
<1>2. 0 \in S
  <2>1. UpTo(c, e)[0] = <<>> /\ UpTo(d, f)[0] = <<>>
    BY UpToEquations, Zenon
  <2> QED BY <2>1, Zenon
<1>3. ASSUME NEW n \in Nat, n \in S PROVE n + 1 \in S
  <2> SUFFICES ASSUME n + 1 <= k PROVE UpTo(c, e)[n + 1] = UpTo(d, f)[n + 1]
    OBVIOUS
  <2>1. /\ n + 1 \in 1..Len(c) /\ n + 1 \in 1..Len(d) /\ n + 1 \in 1..k
        /\ (n + 1) - 1 = n /\ n <= k
    BY <1>1
  <2>2. UpTo(c, e)[n + 1] = UpTo(c, e)[(n + 1) - 1] \o <<c[n + 1]>> \o e[c[n + 1]]
    BY <2>1, UpToEquations, Zenon
  <2>3. UpTo(d, f)[n + 1] = UpTo(d, f)[(n + 1) - 1] \o <<d[n + 1]>> \o f[d[n + 1]]
    BY <2>1, UpToEquations, Zenon
  <2>4. UpTo(c, e)[n] = UpTo(d, f)[n] /\ c[n + 1] = d[n + 1] /\ e[c[n + 1]] = f[d[n + 1]]
    BY <1>3, <2>1, Zenon
  <2> QED BY <2>1, <2>2, <2>3, <2>4, Zenon
<1>4. Nat \subseteq S
  <2> HIDE DEF S
  <2> QED BY <1>2, <1>3, SetInduction, Zenon
<1> QED BY <1>4

\* Only the entries of a chain's own pages matter for what it holds.
LEMMA JoinedAgrees ==
  ASSUME NEW c \in Seq(Pages), NEW e \in [Pages -> Seq(Pages)],
         NEW f \in [Pages -> Seq(Pages)], \A p \in Range(c) : e[p] = f[p]
  PROVE  Joined(c, e) = Joined(c, f)
<1>1. Len(c) \in Nat /\ \A i \in 1..Len(c) : c[i] \in Range(c)
  BY DEF Range
<1>2. \A i \in 1..Len(c) : c[i] = c[i] /\ e[c[i]] = f[c[i]]
  BY <1>1, Zenon
<1>3. Len(c) <= Len(c)
  BY <1>1
<1> QED BY <1>1, <1>2, <1>3, UpToAgrees, Zenon DEF Joined

\* A new head page adds itself and its entries behind all others.
LEMMA JoinedAppend ==
  ASSUME NEW c \in Seq(Pages), NEW e \in [Pages -> Seq(Pages)], NEW p \in Pages
  PROVE  Joined(Append(c, p), e) = Joined(c, e) \o <<p>> \o e[p]
<1> DEFINE d == Append(c, p)
           n == Len(c)
<1>1. /\ d \in Seq(Pages) /\ Len(d) = n + 1 /\ d[n + 1] = p /\ n \in Nat
      /\ \A i \in 1..n : d[i] = c[i]
  OBVIOUS
<1> HIDE DEF d, n
<1>2. n + 1 \in 1..Len(d) /\ (n + 1) - 1 = n /\ n <= Len(d) /\ n <= Len(c)
  BY <1>1 DEF n
<1>3. UpTo(d, e)[n + 1] = UpTo(d, e)[(n + 1) - 1] \o <<d[n + 1]>> \o e[d[n + 1]]
  BY <1>1, <1>2, UpToEquations, Zenon
<1>4. UpTo(d, e)[n] = UpTo(c, e)[n]
  <2>1. \A i \in 1..n : d[i] = c[i] /\ e[d[i]] = e[d[i]]
    BY <1>1, Zenon
  <2> QED BY <1>1, <1>2, <2>1, UpToAgrees, Zenon
<1>5. UpTo(d, e)[n + 1] = UpTo(c, e)[n] \o <<p>> \o e[p]
  BY <1>1, <1>2, <1>3, <1>4, Zenon
<1>6. Joined(d, e) = UpTo(d, e)[n + 1] /\ Joined(c, e) = UpTo(c, e)[n]
  BY <1>1, Zenon DEF Joined, n
<1> QED BY <1>5, <1>6, Zenon DEF d

\* A chain holds pages, and the empty chain none.
LEMMA JoinedType ==
  ASSUME NEW c \in Seq(Pages), NEW e \in [Pages -> Seq(Pages)]
  PROVE  /\ Joined(c, e) \in Seq(Pages)
         /\ c = <<>> => Joined(c, e) = <<>>
<1>1. Len(c) \in Nat /\ Len(c) \in 0..Len(c) /\ (c = <<>> => Len(c) = 0)
  OBVIOUS
<1> QED BY <1>1, UpToEquations, Zenon DEF Joined

\* No page is twice on the chain, or twice among the entries of its pages, or
\* on the chain and among the entries.
Distinct(c, e) ==
  /\ IsInjective(c)
  /\ \A p \in Range(c) : /\ IsInjective(e[p]) /\ Range(e[p]) \intersect Range(c) = {}
                         /\ \A q \in Range(c) \ {p} :
                              Range(e[p]) \intersect Range(e[q]) = {}

\* What is in the contents, and when they hold nothing twice.
LEMMA JoinedElements ==
  ASSUME NEW c \in Seq(Pages), NEW e \in [Pages -> Seq(Pages)]
  PROVE  /\ Range(Joined(c, e)) = Range(c) \union UNION {Range(e[p]) : p \in Range(c)}
         /\ Distinct(c, e) => IsInjective(Joined(c, e))
<1> DEFINE U == UpTo(c, e)
           Held(n) == {c[i] : i \in 1..n} \union UNION {Range(e[c[i]]) : i \in 1..n}
           Good(n) == Range(U[n]) = Held(n) /\ (Distinct(c, e) => IsInjective(U[n]))
           S == {n \in Nat : n <= Len(c) => Good(n)}
<1>1. Len(c) \in Nat /\ DOMAIN c = 1..Len(c) /\ 0 \in 0..Len(c) /\ Len(c) \in 0..Len(c)
  OBVIOUS
<1>2. Good(0)
  <2>1. U[0] = <<>>
    BY UpToEquations, Zenon
  <2>2. Range(<<>>) = {} /\ IsInjective(<<>>)
    BY DEF Range, IsInjective
  <2>3. Held(0) = {}
    OBVIOUS
  <2> QED BY <2>1, <2>2, <2>3, Zenon
<1>3. ASSUME NEW n \in Nat, n + 1 <= Len(c), Good(n) PROVE Good(n + 1)
  <2> DEFINE p == c[n + 1]
  <2>1. /\ n + 1 \in 1..Len(c) /\ (n + 1) - 1 = n /\ n \in 0..Len(c)
        /\ \A i \in 1..(n + 1) : i = n + 1 \/ i \in 1..n
        /\ \A i \in 1..n : i \in 1..(n + 1) /\ i \in 1..Len(c) /\ i # n + 1
        /\ n + 1 \in 1..(n + 1)
    BY <1>1, <1>3
  <2>2. p \in Pages /\ e[p] \in Seq(Pages) /\ U[n] \in Seq(Pages)
    <3>1. U[n] \in Seq(Pages)
      BY <2>1, UpToEquations, Zenon
    <3> HIDE DEF U
    <3> QED BY <1>1, <2>1, <3>1
  <2>3. U[n + 1] = U[n] \o <<p>> \o e[p]
    <3>1. U[n + 1] = U[(n + 1) - 1] \o <<c[n + 1]>> \o e[c[n + 1]]
      BY <2>1, UpToEquations, Zenon
    <3> QED BY <2>1, <3>1, Zenon
  <2> HIDE DEF U
  <2>4. Range(U[n + 1]) = Range(U[n]) \union {p} \union Range(e[p])
    <3> DEFINE x == U[n]
               s == e[p]
    <3>1. x \in Seq(Pages) /\ s \in Seq(Pages) /\ p \in Pages
      BY <2>2, Zenon
    <3> HIDE DEF p, x, s
    <3>2. Range(x \o <<p>> \o s) = Range(x) \union {p} \union Range(s)
      BY <3>1, ConcatProperties
    <3> QED BY <2>3, <3>2, Zenon DEF x, s
  <2>5. Held(n + 1) = Held(n) \union {p} \union Range(e[p])
    BY <2>1, Zenon
  <2>6. ASSUME Distinct(c, e) PROVE IsInjective(U[n + 1])
    <3>1. IsInjective(U[n]) /\ Range(U[n]) = Held(n)
      BY <1>3, <2>6, Zenon
    <3>2. p \in Range(c) /\ \A i \in 1..n : c[i] \in Range(c) /\ c[i] # p
      BY <1>1, <2>1, <2>6, Zenon DEF Distinct, IsInjective, Range
    <3>3. IsInjective(e[p]) /\ p \notin Range(e[p])
      BY <2>6, <3>2, Zenon DEF Distinct
    <3>4. ASSUME NEW x \in Held(n) PROVE x # p /\ x \notin Range(e[p])
      <4>1. CASE \E i \in 1..n : x = c[i]
        BY <2>6, <3>2, <4>1, Zenon DEF Distinct
      <4>2. CASE \E i \in 1..n : x \in Range(e[c[i]])
        BY <2>6, <3>2, <4>2, Zenon DEF Distinct
      <4> QED BY <3>4, <4>1, <4>2, Zenon
    <3>5. p \notin Range(U[n]) /\ Range(U[n]) \intersect Range(e[p]) = {}
      BY <3>1, <3>4, Zenon
    <3> HIDE DEF p
    <3>6. IsInjective(U[n] \o <<p>> \o e[p])
      BY <2>2, <3>1, <3>3, <3>5, ConcatProperties, Zenon
    <3> QED BY <2>3, <3>6, Zenon
  <2> QED BY <1>3, <2>4, <2>5, <2>6, Zenon
<1>4. Good(Len(c))
  <2> HIDE DEF Good
  <2>1. 0 \in S
    BY <1>2, Zenon
  <2>2. ASSUME NEW n \in Nat, n \in S PROVE n + 1 \in S
    <3>1. n + 1 <= Len(c) => n <= Len(c)
      BY <1>1
    <3> QED BY <1>3, <2>2, <3>1
  <2>3. Nat \subseteq S
    <3> HIDE DEF S
    <3> QED BY <2>1, <2>2, SetInduction, Zenon
  <2> QED BY <1>1, <2>3
<1>5. Held(Len(c)) = Range(c) \union UNION {Range(e[p]) : p \in Range(c)}
  <2>1. Range(c) = {c[i] : i \in 1..Len(c)}
    BY <1>1, Zenon DEF Range
  <2>2. UNION {Range(e[p]) : p \in Range(c)} = UNION {Range(e[c[i]]) : i \in 1..Len(c)}
    BY <2>1, Zenon
  <2> QED BY <2>1, <2>2, Zenon
<1> QED BY <1>4, <1>5, Zenon DEF Joined

-----------------------------------------------------------------------------
(* Every page is on one list page, or a list page, or in use *)

\* The list pages P, with the entries e, and the pages u in use have no page in
\* common, and no page is an entry twice.
Once(P, e, u) ==
  \A p \in P : /\ p \notin u /\ IsInjective(e[p])
              /\ Range(e[p]) \intersect (u \union P) = {}
              /\ \A q \in P \ {p} : Range(e[p]) \intersect Range(e[q]) = {}

\* Once, element by element.
LEMMA OnceMeans ==
  ASSUME NEW P, NEW e, NEW u
  PROVE  Once(P, e, u) <=>
           \A p \in P : /\ p \notin u /\ IsInjective(e[p])
                       /\ \A x \in Range(e[p]) :
                            x \notin u /\ x \notin P /\ \A q \in P : x \in Range(e[q]) => q = p
BY Zenon DEF Once

\* Fewer list pages.
LEMMA OnceOfFewer ==
  ASSUME NEW P, NEW e, NEW u, Once(P, e, u), NEW Q, Q \subseteq P,
         NEW f, \A q \in Q : f[q] = e[q]
  PROVE  Once(Q, f, u)
BY Zenon, OnceMeans

\* The entry x of list page h is taken.
LEMMA OncePopEntry ==
  ASSUME NEW P, NEW e, NEW u, Once(P, e, u), NEW h \in P, NEW x, NEW f,
         \A p \in P \ {h} : f[p] = e[p],
         IsInjective(f[h]), Range(e[h]) = Range(f[h]) \union {x}, x \notin Range(f[h])
  PROVE  Once(P, f, u \union {x})
<1>1. \A p \in P : Range(f[p]) \subseteq Range(e[p]) /\ IsInjective(f[p])
  BY OnceMeans, Zenon
<1>2. x \notin P /\ x \notin u /\ \A p \in P : x \notin Range(f[p])
  BY OnceMeans, Zenon
<1> QED BY <1>1, <1>2, OnceMeans, Zenon

\* The list page h is taken.
LEMMA OncePopPage ==
  ASSUME NEW P, NEW e, NEW u, Once(P, e, u), NEW h \in P
  PROVE  Once(P \ {h}, e, u \union {h})
BY OnceMeans, ZenonT(60)

\* Page p becomes an entry of list page h.
LEMMA OncePushEntry ==
  ASSUME NEW P, NEW e, NEW u, Once(P, e, u), NEW h \in P, NEW p \in u, NEW f,
         \A q \in P \ {h} : f[q] = e[q],
         IsInjective(f[h]), Range(f[h]) = Range(e[h]) \union {p}
  PROVE  Once(P, f, u \ {p})
<1>1. \A q \in P : /\ Range(f[q]) \subseteq Range(e[q]) \union {p} /\ IsInjective(f[q])
                   /\ q # h => Range(f[q]) = Range(e[q])
  BY OnceMeans, Zenon
<1>2. p \notin P /\ \A q \in P : p \notin Range(e[q])
  BY OnceMeans, Zenon
<1>3. \A q \in P : q \notin u /\ \A x \in Range(f[q]) : x \notin u \ {p} /\ x \notin P
  BY <1>1, <1>2, OnceMeans, Zenon
<1>4. ASSUME NEW q \in P, NEW x \in Range(f[q]), NEW r \in P, x \in Range(f[r])
      PROVE  r = q
  <2>1. CASE x = p
    BY <1>1, <1>2, <1>4, <2>1, Zenon
  <2>2. CASE x # p
    BY <1>1, <1>4, <2>2, OnceMeans, Zenon
  <2> QED BY <2>1, <2>2, Zenon
<1> QED BY <1>1, <1>3, <1>4, OnceMeans, Zenon

\* Page p becomes a list page without entries.
LEMMA OncePushPage ==
  ASSUME NEW P, NEW e, NEW u, Once(P, e, u), NEW p \in u, NEW f,
         \A q \in P : f[q] = e[q], f[p] = <<>>
  PROVE  Once(P \union {p}, f, u \ {p})
<1>1. Range(f[p]) = {} /\ IsInjective(f[p])
  BY DEF Range, IsInjective
<1>2. p \notin P /\ \A q \in P : p \notin Range(e[q])
  BY OnceMeans, Zenon
<1> QED BY <1>1, <1>2, OnceMeans, Zenon

\* The entries of list page g and g itself become entries of list page h.
LEMMA OnceJoinHeads ==
  ASSUME NEW P, NEW e, NEW u, Once(P, e, u), NEW h \in P, NEW g \in P, g # h, NEW f,
         \A q \in P \ {g, h} : f[q] = e[q],
         IsInjective(f[h]), Range(f[h]) = Range(e[h]) \union {g} \union Range(e[g])
  PROVE  Once(P \ {g}, f, u)
<1>1. \A q \in P \ {g} : /\ IsInjective(f[q])
                         /\ q # h => Range(f[q]) = Range(e[q])
  BY OnceMeans, Zenon
<1>2. g \notin u /\ \A q \in P : g \notin Range(e[q])
  BY OnceMeans, Zenon
<1>3. \A q \in P \ {g} : q \notin u /\ \A x \in Range(f[q]) : x \notin u /\ x \notin P \ {g}
  BY <1>1, <1>2, OnceMeans, Zenon
<1>4. ASSUME NEW q \in P \ {g}, NEW x \in Range(f[q]), NEW r \in P \ {g}, x \in Range(f[r])
      PROVE  r = q
  <2>1. CASE x = g
    BY <1>1, <1>2, <1>4, <2>1, Zenon
  <2>2. CASE x # g
    <3>1. \A s \in P \ {g} : x \in Range(f[s]) =>
            x \in Range(e[s]) \/ (s = h /\ x \in Range(e[g]))
      BY <1>1, <2>2, Zenon
    <3> QED BY <1>4, <3>1, OnceMeans, Zenon
  <2> QED BY <2>1, <2>2, Zenon
<1> QED BY <1>1, <1>3, <1>4, OnceMeans, Zenon

\* The list pages g and h share their entries in another way.
LEMMA OnceFillOtherHead ==
  ASSUME NEW P, NEW e, NEW u, Once(P, e, u), NEW h \in P, NEW g \in P, g # h, NEW f,
         \A q \in P \ {g, h} : f[q] = e[q],
         IsInjective(f[h]), IsInjective(f[g]), Range(f[h]) \intersect Range(f[g]) = {},
         Range(f[h]) \union Range(f[g]) = Range(e[h]) \union Range(e[g])
  PROVE  Once(P, f, u)
<1>1. \A q \in P : IsInjective(f[q])
  BY OnceMeans, Zenon
<1>2. \A q \in P : \A x \in Range(f[q]) : \E r \in P :
        x \in Range(e[r]) /\ (q \notin {g, h} => r = q) /\ (q \in {g, h} => r \in {g, h})
  BY Zenon
<1>3. \A q \in P : \A x \in Range(f[q]) : x \notin u /\ x \notin P
  BY <1>2, OnceMeans, Zenon
<1>4. ASSUME NEW q \in P, NEW r \in P, NEW x \in Range(f[q]), x \in Range(f[r])
      PROVE  r = q
  <2>1. PICK q1 \in P : /\ x \in Range(e[q1]) /\ (q \notin {g, h} => q1 = q)
                        /\ (q \in {g, h} => q1 \in {g, h})
    BY <1>2, Zenon
  <2>2. PICK r1 \in P : /\ x \in Range(e[r1]) /\ (r \notin {g, h} => r1 = r)
                        /\ (r \in {g, h} => r1 \in {g, h})
    BY <1>2, <1>4, Zenon
  <2>3. q1 = r1
    BY <2>1, <2>2, OnceMeans, Zenon
  <2>4. CASE q \notin {g, h} \/ r \notin {g, h}
    BY <2>1, <2>2, <2>3, <2>4, ZenonT(60)
  <2>5. CASE q \in {g, h} /\ r \in {g, h}
    <3>1. ~(x \in Range(f[g]) /\ x \in Range(f[h]))
      BY Zenon
    <3> QED BY <1>4, <2>5, <3>1
  <2> QED BY <2>4, <2>5, Zenon
<1> QED BY <1>1, <1>3, <1>4, OnceMeans, Zenon

-----------------------------------------------------------------------------
(* The inductive invariant *)

ListPages == UNION {Range(Chain(l)) : l \in LiveLists}

\* The links of every live list end, and do not run into another list.
ListsAreChains ==
  /\ ~was_merged[StoreList]
  /\ \A l \in LiveLists : IsChain(Chain(l), head_page_id[l], next_page_id)
  /\ \A l \in LiveLists : \A k \in LiveLists \ {l} :
       Range(Chain(l)) \intersect Range(Chain(k)) = {}

IInv ==
  /\ TypeOK
  /\ ListsAreChains
  /\ Once(ListPages, entries, used)
  /\ PagesAfterHeadAreFull
  /\ TailIsTheLastPage

\* A page is on one list at most, once at most, and is not in use then.
LEMMA NoPageTwice == IInv => NoPageIsFreeTwice
<1> SUFFICES ASSUME IInv, NEW l \in LiveLists
             PROVE  /\ IsInjective(Contents(l))
                    /\ FreePages(l) \intersect used = {}
                    /\ \A k \in LiveLists \ {l} : FreePages(l) \intersect FreePages(k) = {}
  BY Zenon DEF NoPageIsFreeTwice
<1>1. \A k \in LiveLists : Chain(k) \in Seq(Pages) /\ IsInjective(Chain(k))
  BY Zenon DEF IInv, ListsAreChains, IsChain
<1>2. entries \in [Pages -> Seq(Pages)]
  BY Zenon DEF IInv, TypeOK
<1>3. \A k \in LiveLists : Range(Chain(k)) \subseteq ListPages
  BY Zenon DEF ListPages
<1>4. \A k \in LiveLists : \A x :
        x \in FreePages(k) <=> \/ x \in Range(Chain(k))
                             \/ \E p \in Range(Chain(k)) : x \in Range(entries[p])
  <2>1. \A k \in LiveLists :
          FreePages(k) = Range(Chain(k)) \union UNION {Range(entries[p]) : p \in Range(Chain(k))}
    BY <1>1, <1>2, JoinedElements, ContentsAreJoined, Zenon DEF FreePages
  <2> QED BY <2>1
<1>5. Once(ListPages, entries, used)
  BY Zenon DEF IInv
<1>6. IsInjective(Contents(l))
  <2>1. Distinct(Chain(l), entries)
    BY <1>1, <1>3, <1>5, Zenon DEF Distinct, Once
  <2> QED BY <1>1, <1>2, <2>1, JoinedElements, ContentsAreJoined, Zenon
<1>7. FreePages(l) \intersect used = {}
  BY <1>3, <1>4, <1>5, Zenon DEF Once
<1>8. ASSUME NEW k \in LiveLists \ {l}, NEW x \in FreePages(l), x \in FreePages(k)
      PROVE  FALSE
  <2>1. Range(Chain(l)) \intersect Range(Chain(k)) = {}
    BY Zenon DEF IInv, ListsAreChains
  <2>2. \A q \in ListPages : \A p \in ListPages : q \notin Range(entries[p])
    BY <1>5, Zenon DEF Once
  <2>3. x \in Range(Chain(l)) => x \notin FreePages(k)
    BY <1>3, <1>4, <2>1, <2>2, Zenon
  <2>4. x \in Range(Chain(k)) => x \notin FreePages(l)
    BY <1>3, <1>4, <2>1, <2>2, Zenon
  <2>5. PICK p \in Range(Chain(l)) : x \in Range(entries[p])
    BY <1>4, <1>8, <2>3, Zenon
  <2>6. PICK q \in Range(Chain(k)) : x \in Range(entries[q])
    BY <1>4, <1>8, <2>4, Zenon
  <2>7. p # q /\ p \in ListPages /\ q \in ListPages
    BY <1>3, <2>1, Zenon
  <2> QED BY <1>5, <2>5, <2>6, <2>7, Zenon DEF Once
<1> QED BY <1>6, <1>7, <1>8, Zenon

\* The list pages of the lists are pages of the store.
LEMMA ListPagesArePages ==
  ASSUME IInv
  PROVE  /\ \A k \in LiveLists : Chain(k) \in Seq(Pages) /\ Range(Chain(k)) \subseteq Pages
         /\ ListPages \subseteq Pages
<1>1. \A k \in LiveLists : Chain(k) \in Seq(Pages)
  BY Zenon DEF IInv, ListsAreChains, IsChain
<1>2. \A k \in LiveLists : Range(Chain(k)) \subseteq Pages
  BY <1>1 DEF Range
<1> QED BY <1>1, <1>2, Zenon DEF ListPages

\* The lists have no list page in common.
LEMMA OtherLists ==
  ASSUME IInv, NEW l \in FreeLists, ~was_merged[l]
  PROVE  LET others == UNION {Range(Chain(k)) : k \in LiveLists \ {l}}
         IN  /\ Range(Chain(l)) \intersect others = {}
             /\ ListPages = Range(Chain(l)) \union others
             /\ \A k \in LiveLists \ {l} : Range(Chain(k)) \subseteq others
<1>1. l \in LiveLists
  BY Zenon DEF LiveLists
<1>2. \A k \in LiveLists \ {l} : Range(Chain(l)) \intersect Range(Chain(k)) = {}
  BY <1>1, Zenon DEF IInv, ListsAreChains
<1> QED BY <1>1, <1>2 DEF ListPages

\* An empty list has no list pages.
LEMMA EmptyChain ==
  ASSUME IInv, NEW l \in FreeLists, ~was_merged[l]
  PROVE  /\ is_empty(l) <=> Chain(l) = <<>>
         /\ Chain(l) \in Seq(Pages) /\ IsChain(Chain(l), head_page_id[l], next_page_id)
         /\ Contents(l) = Joined(Chain(l), entries)
<1>1. /\ IsChain(Chain(l), head_page_id[l], next_page_id)
  BY Zenon DEF IInv, ListsAreChains, LiveLists
<1>2. Chain(l) # <<>> => Chain(l)[Len(Chain(l))] \in Pages
  BY <1>1 DEF IsChain
<1> QED BY <1>1, <1>2, ListAssumption, ContentsAreJoined DEF IsChain, is_empty

\* The list pages of a list, and their entries, are its contents.
LEMMA ContentsElements ==
  ASSUME IInv, NEW l \in FreeLists, ~was_merged[l]
  PROVE  /\ Range(Chain(l)) \subseteq Range(Contents(l))
         /\ \A p \in Range(Chain(l)) : Range(entries[p]) \subseteq Range(Contents(l))
<1>1. /\ Chain(l) \in Seq(Pages) /\ IsChain(Chain(l), head_page_id[l], next_page_id)
      /\ Contents(l) = Joined(Chain(l), entries)
  BY EmptyChain, Zenon
<1>2. entries \in [Pages -> Seq(Pages)]
  BY Zenon DEF IInv, TypeOK
<1>3. \A x : x \in Range(Contents(l)) <=>
               x \in Range(Chain(l)) \/ \E p \in Range(Chain(l)) : x \in Range(entries[p])
  <2>1. Range(Joined(Chain(l), entries)) =
          Range(Chain(l)) \union UNION {Range(entries[p]) : p \in Range(Chain(l))}
    BY <1>1, <1>2, JoinedElements, Zenon
  <2>2. Range(Contents(l)) =
          Range(Chain(l)) \union UNION {Range(entries[p]) : p \in Range(Chain(l))}
    BY <1>1, <2>1, Zenon
  <2> QED BY <2>2, Zenon
<1> QED BY <1>3, Zenon

\* The pages of a list other than its head page are full.
LEMMA FullPages ==
  ASSUME IInv, NEW l \in FreeLists, ~was_merged[l]
  PROVE  \A p \in Range(Chain(l)) \ {head_page_id[l]} : Len(entries[p]) = EntriesPerPage
<1> SUFFICES ASSUME NEW p \in Range(Chain(l)) \ {head_page_id[l]}
             PROVE  Len(entries[p]) = EntriesPerPage
  BY Zenon
<1> DEFINE c == Chain(l)
<1>1. c \in Seq(Pages) /\ IsChain(c, head_page_id[l], next_page_id)
  BY EmptyChain, Zenon
<1>2. \A i \in 1..(Len(c) - 1) : Len(entries[c[i]]) = EntriesPerPage
  BY Zenon DEF IInv, PagesAfterHeadAreFull, LiveLists
<1> HIDE DEF c
<1>3. PICK i \in 1..Len(c) : p = c[i]
  BY <1>1 DEF c, Range
<1>4. c # <<>>
  BY <1>1, <1>3
<1>5. head_page_id[l] = c[Len(c)]
  BY <1>1, <1>4, Zenon DEF IsChain
<1>6. i \in 1..(Len(c) - 1)
  BY <1>1, <1>3, <1>5 DEF c
<1> QED BY <1>2, <1>3, <1>6

\* A list page has room for EntriesPerPage entries, and its offset is where the
\* next one goes.
LEMMA Offsets ==
  ASSUME TypeOK, NEW p \in Pages
  PROVE  /\ EntriesPerPage \in Nat /\ EntriesPerPage > 0
         /\ PageSize = 16 + 8 * EntriesPerPage
         /\ entries[p] \in Seq(Pages) /\ Len(entries[p]) \in Nat
         /\ Len(entries[p]) <= EntriesPerPage
         /\ NextEntryOffset(p) = 16 + 8 * Len(entries[p])
         /\ IsCorruptEntryOffset(NextEntryOffset(p)) <=> Len(entries[p]) >= EntriesPerPage
<1>1. /\ EntriesPerPage \in Nat /\ EntriesPerPage > 0
      /\ PageSize = 16 + 8 * EntriesPerPage
  BY FormatAssumption DEF EntriesPerPage, kFirstEntryOffset, kEntrySize
<1>2. entries[p] \in Seq(Pages) /\ Len(entries[p]) <= EntriesPerPage
  BY Zenon DEF TypeOK
<1>3. Len(entries[p]) \in Nat
  BY <1>2
<1>4. NextEntryOffset(p) = 16 + 8 * Len(entries[p])
  BY ListAssumption, Zenon DEF NextEntryOffset, kFirstEntryOffset, kEntrySize
<1> DEFINE n == Len(entries[p])
           E == EntriesPerPage
<1>5. 16 + 8 * n >= 16 + 8 * E <=> n >= E
  <2> HIDE DEF n, E
  <2>1. n \in Nat /\ E \in Nat
    BY <1>1, <1>3, Zenon DEF n, E
  <2> QED BY <2>1
<1>6. (16 + 8 * n) % 8 = 0
  <2> HIDE DEF n
  <2>1. n \in Nat
    BY <1>3, Zenon DEF n
  <2> QED BY <2>1
<1>7. IsCorruptEntryOffset(NextEntryOffset(p)) <=> n >= E
  BY <1>1, <1>4, <1>5, <1>6, Zenon DEF IsCorruptEntryOffset, kEntrySize
<1> QED BY <1>1, <1>2, <1>3, <1>4, <1>7

\* The chain of a list that has pages.
LEMMA HeadPage ==
  ASSUME IInv, NEW l \in FreeLists, ~was_merged[l], ~is_empty(l)
  PROVE  LET h == head_page_id[l]
             d == SubSeq(Chain(l), 1, Len(Chain(l)) - 1)
         IN  /\ h \in Pages /\ h \in ListPages /\ h \notin Range(d)
             /\ d \in Seq(Pages) /\ Chain(l) = Append(d, h) /\ IsInjective(d)
             /\ Len(Chain(l)) = Len(d) + 1
             /\ Range(Chain(l)) = Range(d) \union {h}
             /\ IsChain(d, next_page_id[h], next_page_id)
             /\ Joined(d, entries) \in Seq(Pages)
             /\ Contents(l) = Joined(d, entries) \o <<h>> \o entries[h]
<1> DEFINE h == head_page_id[l]
           c == Chain(l)
           d == SubSeq(c, 1, Len(c) - 1)
<1>1. l \in LiveLists /\ IsChain(c, h, next_page_id) /\ c \in Seq(Pages)
  BY Zenon DEF IInv, ListsAreChains, LiveLists, IsChain
<1>2. c # <<>>
  BY <1>1, Zenon DEF IsChain, is_empty
<1>3. entries \in [Pages -> Seq(Pages)]
  BY Zenon DEF IInv, TypeOK
<1> HIDE DEF c, h
<1>4. /\ h \in Pages /\ c = Append(d, h) /\ Len(d) = Len(c) - 1
      /\ IsChain(d, next_page_id[h], next_page_id) /\ h \notin Range(d)
  BY <1>1, <1>2, ChainFront, Zenon
<1>5. d \in Seq(Pages) /\ IsInjective(d)
  BY <1>4, Zenon DEF IsChain
<1> HIDE DEF d
<1>6. Range(c) = Range(d) \union {h}
  <2>1. Range(Append(d, h)) = Range(d) \union {h}
    BY <1>4, <1>5, AppendElements, ZenonT(60)
  <2> QED BY <1>4, <2>1
<1>7. h \in ListPages
  BY <1>1, <1>6, Zenon DEF ListPages, c
<1>8. Joined(Append(d, h), entries) = Joined(d, entries) \o <<h>> \o entries[h]
  BY <1>3, <1>4, <1>5, JoinedAppend, Zenon
<1>9. Contents(l) = Joined(d, entries) \o <<h>> \o entries[h]
  BY <1>4, <1>8, ContentsAreJoined, Zenon DEF c
<1>10. Joined(d, entries) \in Seq(Pages)
  BY <1>3, <1>5, JoinedType, Zenon
<1>11. Len(c) = Len(d) + 1
  BY <1>1, <1>4, <1>5
<1> QED BY <1>4, <1>5, <1>6, <1>7, <1>9, <1>10, <1>11, Zenon DEF c, d, h

\* A step that turns the chain of l into c, and may end other lists, does not
\* disturb the lists that stay.
LEMMA ChainsStep ==
  ASSUME IInv, TypeOK', NEW l \in FreeLists, ~was_merged[l],
         ~was_merged'[StoreList], ~was_merged'[l],
         \A k \in FreeLists : was_merged[k] => was_merged'[k],
         NEW c, IsChain(c, head_page_id'[l], next_page_id'),
         Range(c) \intersect UNION {Range(Chain(k)) : k \in LiveLists' \ {l}} = {},
         \A k \in LiveLists' \ {l} :
           /\ head_page_id'[k] = head_page_id[k] /\ tail_page_id'[k] = tail_page_id[k]
           /\ \A p \in Range(Chain(k)) :
                next_page_id'[p] = next_page_id[p] /\ entries'[p] = entries[p],
         \A i \in 1..(Len(c) - 1) : Len(entries'[c[i]]) = EntriesPerPage,
         l \in TxnLists => tail_page_id'[l] = IF c = <<>> THEN kInvalidPageId ELSE c[1]
  PROVE  /\ ListsAreChains' /\ PagesAfterHeadAreFull' /\ TailIsTheLastPage'
         /\ Contents(l)' = Joined(c, entries')
         /\ \A k \in LiveLists' \ {l} : Contents(k)' = Contents(k)
         /\ ListPages' = Range(c) \union UNION {Range(Chain(k)) : k \in LiveLists' \ {l}}
<1>1. LiveLists' \subseteq LiveLists /\ l \in LiveLists' /\ LiveLists' \subseteq FreeLists
  BY Zenon DEF LiveLists
<1>2. Chain(l)' = c
  BY TypedChainsNext, Zenon DEF ChainsAreFound
<1>3. ASSUME NEW k \in LiveLists' \ {l}
      PROVE  IsChain(Chain(k), head_page_id'[k], next_page_id') /\ Chain(k)' = Chain(k)
  <2>1. IsChain(Chain(k), head_page_id[k], next_page_id) /\ k \in FreeLists
    BY <1>1, Zenon DEF IInv, ListsAreChains
  <2>2. IsChain(Chain(k), head_page_id[k], next_page_id')
    <3>1. \A p \in Range(Chain(k)) : next_page_id'[p] = next_page_id[p]
      BY Zenon
    <3> QED BY <2>1, <3>1, ChainStays, ZenonT(60)
  <2>3. IsChain(Chain(k), head_page_id'[k], next_page_id')
    BY <2>2, Zenon
  <2> QED BY <2>1, <2>3, TypedChainsNext, Zenon DEF ChainsAreFound
<1>4. /\ Chain(l) \in Seq(Pages) /\ c \in Seq(Pages)
      /\ entries \in [Pages -> Seq(Pages)] /\ entries' \in [Pages -> Seq(Pages)]
  BY <1>1, Zenon DEF IInv, ListsAreChains, IsChain, TypeOK, LiveLists
<1>5. ListsAreChains'
  <2>1. \A k \in LiveLists' : IsChain(Chain(k)', head_page_id'[k], next_page_id')
    BY <1>2, <1>3, Zenon
  <2>2. ASSUME NEW k \in LiveLists', NEW j \in LiveLists' \ {k}
        PROVE  Range(Chain(k)') \intersect Range(Chain(j)') = {}
    <3>1. Range(Chain(k)) \intersect Range(Chain(j)) = {}
      BY <1>1, Zenon DEF IInv, ListsAreChains
    <3>2. \A i \in LiveLists' \ {l} : Range(c) \intersect Range(Chain(i)) = {}
      BY Zenon
    <3> QED BY <1>2, <1>3, <3>1, <3>2
  <2> QED BY <2>1, <2>2, Zenon DEF ListsAreChains
<1>6. PagesAfterHeadAreFull'
  <2>1. ASSUME NEW k \in LiveLists', NEW i \in 1..(Len(Chain(k)') - 1)
        PROVE  Len(entries'[Chain(k)'[i]]) = EntriesPerPage
    <3>1. CASE k = l
      BY <1>2, <2>1, <3>1, Zenon
    <3>2. CASE k # l
      <4>1. Chain(k)' = Chain(k) /\ k \in LiveLists /\ i \in 1..(Len(Chain(k)) - 1)
        BY <1>1, <1>3, <2>1, <3>2, Zenon
      <4>2. Len(entries[Chain(k)[i]]) = EntriesPerPage
        BY <4>1 DEF IInv, PagesAfterHeadAreFull
      <4>3. Chain(k)[i] \in Range(Chain(k))
        BY <4>1 DEF IInv, ListsAreChains, IsChain, Range
      <4> QED BY <3>2, <4>1, <4>2, <4>3
    <3> QED BY <3>1, <3>2, Zenon
  <2> QED BY <2>1, Zenon DEF PagesAfterHeadAreFull, EntriesPerPage
<1>7. TailIsTheLastPage'
  <2>1. ASSUME NEW k \in LiveLists' \intersect TxnLists
        PROVE  tail_page_id'[k] = IF is_empty(k)' THEN kInvalidPageId ELSE Chain(k)'[1]
    <3>1. CASE k = l
      <4>1. is_empty(l)' <=> c = <<>>
        BY <1>4, ListAssumption DEF is_empty, IsChain
      <4> QED BY <1>2, <3>1, <4>1, Zenon
    <3>2. CASE k # l
      <4>1. tail_page_id[k] = IF is_empty(k) THEN kInvalidPageId ELSE Chain(k)[1]
        BY <1>1, <2>1, Zenon DEF IInv, TailIsTheLastPage
      <4> QED BY <1>3, <3>2, <4>1, Zenon DEF is_empty
    <3> QED BY <3>1, <3>2, Zenon
  <2> QED BY <2>1, Zenon DEF TailIsTheLastPage
<1>8. Contents(l)' = Joined(c, entries')
  BY <1>2 DEF Contents, WithEntries, Joined, UpTo
<1>9. ASSUME NEW k \in LiveLists' \ {l} PROVE Contents(k)' = Contents(k)
  <2>1. Contents(k)' = Joined(Chain(k)', entries')
    BY Zenon DEF Contents, WithEntries, Joined, UpTo
  <2>2. Chain(k) \in Seq(Pages)
    BY <1>1, Zenon DEF IInv, ListsAreChains, IsChain
  <2>3. Joined(Chain(k), entries') = Joined(Chain(k), entries)
    BY <1>4, <2>2, JoinedAgrees, ZenonT(60)
  <2> QED BY <1>3, <2>1, <2>3, ContentsAreJoined, ZenonT(60)
<1>10. ListPages' = Range(c) \union UNION {Range(Chain(k)) : k \in LiveLists' \ {l}}
  <2>1. ListPages' = UNION {Range(Chain(k)') : k \in LiveLists'}
    BY Zenon DEF ListPages
  <2> QED BY <1>1, <1>2, <1>3, <2>1, SMTT(30)
<1> QED BY <1>5, <1>6, <1>7, <1>8, <1>9, <1>10, Zenon

-----------------------------------------------------------------------------
(* Pop and Push *)

\* The last page of list l is taken for use.
TakesLast(l) ==
  /\ Contents(l) # <<>>
  /\ used' = used \union {Contents(l)[Len(Contents(l))]}
  /\ Contents(l)' = SubSeq(Contents(l), 1, Len(Contents(l)) - 1)
  /\ \A k \in LiveLists' \ {l} : Contents(k)' = Contents(k)
  /\ UNCHANGED was_merged

\* Page p is put at the end of list l.
PutsLast(l, p) ==
  /\ used' = used \ {p}
  /\ Contents(l)' = Append(Contents(l), p)
  /\ \A k \in LiveLists' \ {l} : Contents(k)' = Contents(k)
  /\ UNCHANGED was_merged

\* The entries of the list's head page become f; the lists' pages stay.
LEMMA EntriesStep ==
  ASSUME IInv, NEW l \in FreeLists, ~was_merged[l], ~is_empty(l),
         NEW f \in Seq(Pages), Len(f) <= EntriesPerPage,
         entries' = [entries EXCEPT ![head_page_id[l]] = f],
         used' \in SUBSET Pages, free' \in [FreeLists -> SUBSET Pages], status' = "kSuccess",
         UNCHANGED <<head_page_id, tail_page_id, was_merged, next_page_id>>
  PROVE  /\ TypeOK' /\ ListsAreChains' /\ PagesAfterHeadAreFull' /\ TailIsTheLastPage'
         /\ ListPages' = ListPages
         /\ \A p \in Pages \ {head_page_id[l]} : entries'[p] = entries[p]
         /\ entries'[head_page_id[l]] = f
         /\ LET d == SubSeq(Chain(l), 1, Len(Chain(l)) - 1)
            IN  Contents(l)' = Joined(d, entries) \o <<head_page_id[l]>> \o f
         /\ \A k \in LiveLists' \ {l} : Contents(k)' = Contents(k)
<1> DEFINE h == head_page_id[l]
           c == Chain(l)
           d == SubSeq(c, 1, Len(c) - 1)
           others == UNION {Range(Chain(k)) : k \in LiveLists \ {l}}
<1>1. /\ h \in Pages /\ h \notin Range(d) /\ d \in Seq(Pages)
      /\ c = Append(d, h) /\ Range(c) = Range(d) \union {h}
      /\ Len(c) = Len(d) + 1
  BY HeadPage, Zenon
<1>2. /\ TypeOK /\ entries \in [Pages -> Seq(Pages)]
      /\ \A p \in Pages : Len(entries[p]) <= EntriesPerPage
  BY Zenon DEF IInv, TypeOK
<1>3. /\ Range(c) \intersect others = {} /\ ListPages = Range(c) \union others
      /\ \A k \in LiveLists \ {l} : Range(Chain(k)) \subseteq others
  BY OtherLists, Zenon
<1> HIDE DEF c, d, others
<1>4. /\ entries' \in [Pages -> Seq(Pages)] /\ entries'[h] = f
      /\ \A p \in Pages \ {h} : entries'[p] = entries[p]
  BY <1>1, <1>2, Zenon
<1> HIDE DEF h
<1>5. TypeOK'
  <2>1. \A p \in Pages : Len(entries'[p]) <= EntriesPerPage
    BY <1>2, <1>4, Zenon
  <2> QED BY <1>2, <1>4, <2>1, Zenon DEF TypeOK, EntriesPerPage
<1>6. LiveLists' = LiveLists /\ l \in LiveLists
  BY Zenon DEF LiveLists
<1>7. IsChain(c, head_page_id'[l], next_page_id')
  BY <1>6, Zenon DEF IInv, ListsAreChains, c
<1>8. /\ ListsAreChains' /\ PagesAfterHeadAreFull' /\ TailIsTheLastPage'
      /\ Contents(l)' = Joined(c, entries')
      /\ \A k \in LiveLists' \ {l} : Contents(k)' = Contents(k)
      /\ ListPages' = Range(c) \union UNION {Range(Chain(k)) : k \in LiveLists' \ {l}}
  <2>1. ~was_merged'[StoreList] /\ ~was_merged'[l]
        /\ \A k \in FreeLists : was_merged[k] => was_merged'[k]
    BY Zenon DEF IInv, ListsAreChains
  <2>2. Range(c) \intersect UNION {Range(Chain(k)) : k \in LiveLists' \ {l}} = {}
    BY <1>3, <1>6, Zenon DEF others
  <2>3. \A k \in LiveLists' \ {l} :
          /\ head_page_id'[k] = head_page_id[k] /\ tail_page_id'[k] = tail_page_id[k]
          /\ \A p \in Range(Chain(k)) :
                next_page_id'[p] = next_page_id[p] /\ entries'[p] = entries[p]
    <3>1. \A k \in LiveLists' \ {l} : \A p \in Range(Chain(k)) : p # h /\ p \in Pages
      BY <1>1, <1>3, <1>6, ListPagesArePages, ZenonT(60)
    <3> QED BY <1>4, <3>1, Zenon
  <2>4. \A i \in 1..(Len(c) - 1) : Len(entries'[c[i]]) = EntriesPerPage
    <3>1. \A i \in 1..(Len(c) - 1) : Len(entries[c[i]]) = EntriesPerPage
      BY <1>6, ZenonT(60) DEF IInv, PagesAfterHeadAreFull, c
    <3>2. \A i \in 1..(Len(c) - 1) : c[i] \in Range(d) /\ c[i] \in Pages
      BY <1>1 DEF Range
    <3>3. \A i \in 1..(Len(c) - 1) : c[i] \in Pages \ {h}
      BY <1>1, <3>2, Zenon
    <3> QED BY <1>4, <3>1, <3>3, Zenon
  <2>5. l \in TxnLists => tail_page_id'[l] = IF c = <<>> THEN kInvalidPageId ELSE c[1]
    <3>1. c # <<>>
      BY <1>1
    <3> QED BY <1>6, <3>1, Zenon DEF IInv, TailIsTheLastPage, c
  <2> QED BY <1>5, <1>7, <2>1, <2>2, <2>3, <2>4, <2>5, ChainsStep, ZenonT(60)
<1>9. ListPages' = ListPages
  BY <1>3, <1>6, <1>8, Zenon DEF others
<1>10. Contents(l)' = Joined(d, entries) \o <<h>> \o f
  <2>1. Joined(Append(d, h), entries') = Joined(d, entries') \o <<h>> \o entries'[h]
    BY <1>1, <1>4, JoinedAppend, ZenonT(60)
  <2>2. \A p \in Range(d) : entries'[p] = entries[p]
    <3>1. Range(d) \subseteq Pages
      BY <1>1 DEF Range
    <3> QED BY <1>1, <1>4, <3>1, Zenon
  <2>3. Joined(d, entries') = Joined(d, entries)
    <3>1. d \in Seq(Pages) /\ entries \in [Pages -> Seq(Pages)]
          /\ entries' \in [Pages -> Seq(Pages)]
      BY <1>1, <1>2, <1>4, Zenon
    <3> QED BY <2>2, <3>1, JoinedAgrees, ZenonT(60)
  <2> QED BY <1>1, <1>4, <1>8, <2>1, <2>3, ZenonT(60)
<1> QED BY <1>4, <1>5, <1>8, <1>9, <1>10, ZenonT(60) DEF c, d, h

\* FreePageList::Pop of an entry of the head page.
LEMMA PopEntryStep ==
  ASSUME IInv, NEW l \in FreeLists, ~was_merged[l], PopEntry(l)
  PROVE  IInv' /\ TakesLast(l)
<1> DEFINE h == head_page_id[l]
           s == entries[h]
           f == SubSeq(s, 1, Len(s) - 1)
           id == s[Len(s)]
           c == Chain(l)
           d == SubSeq(c, 1, Len(c) - 1)
<1>1. /\ ~is_empty(l) /\ NextEntryOffset(h) # kFirstEntryOffset
      /\ entries' = [entries EXCEPT ![h] = f]
      /\ used' = used \union {id} /\ free' = [free EXCEPT ![l] = @ \ {id}]
      /\ status' = "kSuccess" /\ UNCHANGED <<head_page_id, tail_page_id, was_merged, next_page_id>>
  BY Zenon DEF PopEntry, listVars
<1>2. /\ h \in Pages /\ h \in ListPages
      /\ Joined(d, entries) \in Seq(Pages)
      /\ Contents(l) = Joined(d, entries) \o <<h>> \o s
  BY <1>1, HeadPage, Zenon
<1>3. /\ TypeOK /\ s \in Seq(Pages) /\ Len(s) \in Nat /\ Len(s) <= EntriesPerPage
      /\ EntriesPerPage \in Nat /\ NextEntryOffset(h) = 16 + 8 * Len(s)
  BY <1>2, Offsets, Zenon DEF IInv
<1> HIDE DEF h, s, c, d
<1>4. s # <<>>
  BY <1>1, <1>3 DEF kFirstEntryOffset
<1>5. /\ f \in Seq(Pages) /\ Len(f) = Len(s) - 1 /\ id \in Pages /\ s = Append(f, id)
  BY <1>3, <1>4, FrontProperties, Zenon
<1>6. Range(s) = Range(f) \union {id} /\ (IsInjective(s) => IsInjective(f) /\ id \notin Range(f))
  BY <1>3, <1>4, FrontElements, Zenon
<1> HIDE DEF f, id
<1>7. /\ TypeOK' /\ ListsAreChains' /\ PagesAfterHeadAreFull' /\ TailIsTheLastPage'
      /\ ListPages' = ListPages
      /\ \A p \in Pages \ {h} : entries'[p] = entries[p]
      /\ entries'[h] = f
      /\ Contents(l)' = Joined(d, entries) \o <<h>> \o f
      /\ \A k \in LiveLists' \ {l} : Contents(k)' = Contents(k)
  <2>1. Len(f) <= EntriesPerPage
    BY <1>3, <1>5
  <2>2. used' \in SUBSET Pages /\ free' \in [FreeLists -> SUBSET Pages]
    BY <1>1, <1>3, <1>5, Zenon DEF TypeOK
  <2> QED BY <1>1, <1>5, <2>1, <2>2, EntriesStep, Zenon DEF h, c, d
<1>8. Once(ListPages', entries', used')
  <2>1. Once(ListPages, entries, used) /\ IsInjective(s) /\ ListPages \subseteq Pages
    BY <1>2, ListPagesArePages, Zenon DEF IInv, Once, s
  <2>2. \A p \in ListPages \ {h} : entries'[p] = entries[p]
    BY <1>7, <2>1, Zenon
  <2>3. /\ IsInjective(entries'[h]) /\ Range(entries[h]) = Range(entries'[h]) \union {id}
        /\ id \notin Range(entries'[h])
    BY <1>6, <1>7, <2>1, Zenon DEF s
  <2>4. Once(ListPages, entries', used \union {id})
    BY <1>2, <2>1, <2>2, <2>3, OncePopEntry, Zenon
  <2> QED BY <1>1, <1>7, <2>4, Zenon
<1>9. TakesLast(l)
  <2> DEFINE r == Joined(d, entries) \o <<h>> \o f
  <2>1. r \in Seq(Pages)
    BY <1>2, <1>5, ConcatProperties, Zenon
  <2>2. Joined(d, entries) \o <<h>> \o Append(f, id) = Append(r, id)
    BY <1>2, <1>5, ConcatAppend
  <2>3. Contents(l) = Append(r, id) /\ Contents(l)' = r
    BY <1>2, <1>5, <1>7, <2>2, Zenon
  <2> HIDE DEF r
  <2>4. /\ Append(r, id) # <<>> /\ Append(r, id)[Len(Append(r, id))] = id
        /\ SubSeq(Append(r, id), 1, Len(Append(r, id)) - 1) = r
    BY <1>5, <2>1, AppendLast, Zenon
  <2>5. /\ Contents(l) # <<>> /\ Contents(l)[Len(Contents(l))] = id
        /\ SubSeq(Contents(l), 1, Len(Contents(l)) - 1) = r
    BY <2>3, <2>4, Zenon
  <2> QED BY <1>1, <1>7, <2>3, <2>5, Zenon DEF TakesLast
<1> QED BY <1>7, <1>8, <1>9, Zenon DEF IInv

\* FreePageList::Push on a head page that has room.
LEMMA PushEntryStep ==
  ASSUME IInv, NEW l \in FreeLists, ~was_merged[l], NEW p \in used, PushEntry(l, p)
  PROVE  IInv' /\ PutsLast(l, p)
<1> DEFINE h == head_page_id[l]
           s == entries[h]
           f == Append(s, p)
           c == Chain(l)
           d == SubSeq(c, 1, Len(c) - 1)
<1>1. /\ ~is_empty(l) /\ ~IsCorruptEntryOffset(NextEntryOffset(h))
      /\ entries' = [entries EXCEPT ![h] = Append(@, p)]
      /\ used' = used \ {p} /\ free' = [free EXCEPT ![l] = @ \union {p}]
      /\ status' = "kSuccess" /\ UNCHANGED <<head_page_id, tail_page_id, was_merged, next_page_id>>
  BY Zenon DEF PushEntry, NeedsListPage, Pushed, listVars
<1>2. /\ h \in Pages /\ h \in ListPages
      /\ Joined(d, entries) \in Seq(Pages)
      /\ Contents(l) = Joined(d, entries) \o <<h>> \o s
  BY <1>1, HeadPage, Zenon
<1>3. /\ TypeOK /\ s \in Seq(Pages) /\ Len(s) \in Nat /\ EntriesPerPage \in Nat
      /\ ~(Len(s) >= EntriesPerPage)
  BY <1>1, <1>2, Offsets, Zenon DEF IInv
<1>4. entries' = [entries EXCEPT ![h] = f] /\ p \in Pages
  BY <1>1, <1>2, <1>3, Zenon DEF TypeOK
<1> HIDE DEF h, s, c, d
<1>5. f \in Seq(Pages) /\ Len(f) = Len(s) + 1 /\ Range(f) = Range(s) \union {p}
      /\ (IsInjective(s) /\ p \notin Range(s) => IsInjective(f))
  BY <1>3, <1>4, AppendElements
<1>6. /\ TypeOK' /\ ListsAreChains' /\ PagesAfterHeadAreFull' /\ TailIsTheLastPage'
      /\ ListPages' = ListPages
      /\ \A q \in Pages \ {h} : entries'[q] = entries[q]
      /\ entries'[h] = f
      /\ Contents(l)' = Joined(d, entries) \o <<h>> \o f
      /\ \A k \in LiveLists' \ {l} : Contents(k)' = Contents(k)
  <2> HIDE DEF f
  <2>1. Len(f) <= EntriesPerPage
    BY <1>3, <1>5
  <2>2. used' \in SUBSET Pages /\ free' \in [FreeLists -> SUBSET Pages]
    BY <1>1, <1>3, <1>4, Zenon DEF TypeOK
  <2> QED BY <1>1, <1>4, <1>5, <2>1, <2>2, EntriesStep, ZenonT(60) DEF h, c, d
<1>7. Once(ListPages', entries', used')
  <2> HIDE DEF f
  <2>1. /\ Once(ListPages, entries, used) /\ IsInjective(s) /\ ListPages \subseteq Pages
        /\ p \notin Range(s)
    BY <1>2, ListPagesArePages, Zenon DEF IInv, Once, s
  <2>2. \A q \in ListPages \ {h} : entries'[q] = entries[q]
    BY <1>6, <2>1, Zenon
  <2>3. /\ IsInjective(entries'[h]) /\ Range(entries'[h]) = Range(entries[h]) \union {p}
    BY <1>5, <1>6, <2>1, Zenon DEF s
  <2>4. Once(ListPages, entries', used \ {p})
    BY <1>2, <2>1, <2>2, <2>3, OncePushEntry, Zenon
  <2> QED BY <1>1, <1>6, <2>4, Zenon
<1>8. PutsLast(l, p)
  <2>1. Joined(d, entries) \o <<h>> \o Append(s, p) = Append(Joined(d, entries) \o <<h>> \o s, p)
    BY <1>2, <1>3, <1>4, ConcatAppend, SMTT(30)
  <2> QED BY <1>1, <1>2, <1>6, <2>1, Zenon DEF PutsLast
<1> QED BY <1>6, <1>7, <1>8, Zenon DEF IInv

\* FreePageList::Pop of a head page without entries.
LEMMA PopPageStep ==
  ASSUME IInv, NEW l \in FreeLists, ~was_merged[l], PopPage(l)
  PROVE  IInv' /\ TakesLast(l)
<1> DEFINE h == head_page_id[l]
           c == Chain(l)
           d == SubSeq(c, 1, Len(c) - 1)
           others == UNION {Range(Chain(k)) : k \in LiveLists \ {l}}
<1>1. ~is_empty(l)
  BY Zenon DEF PopPage
<1>2. /\ h \in Pages /\ h \in ListPages /\ h \notin Range(d) /\ d \in Seq(Pages)
      /\ c = Append(d, h) /\ Range(c) = Range(d) \union {h} /\ Len(c) = Len(d) + 1
      /\ IsChain(d, next_page_id[h], next_page_id)
      /\ Joined(d, entries) \in Seq(Pages)
      /\ Contents(l) = Joined(d, entries) \o <<h>> \o entries[h]
  BY <1>1, HeadPage, Zenon
<1>3. /\ NextPageId64(h) = next_page_id[h] /\ NextEntryOffset(h) = kFirstEntryOffset
      /\ head_page_id' = [head_page_id EXCEPT ![l] = next_page_id[h]]
      /\ tail_page_id' = IF next_page_id[h] = kInvalidPageId
                         THEN [tail_page_id EXCEPT ![l] = kInvalidPageId]
                         ELSE tail_page_id
      /\ used' = used \union {h}
      /\ next_page_id' = [next_page_id EXCEPT ![h] = kInvalidPageId]
      /\ free' = [free EXCEPT ![l] = @ \ {h}]
      /\ status' = "kSuccess" /\ UNCHANGED <<was_merged, entries>>
  BY <1>2, ListAssumption, Zenon DEF PopPage, NextPageId64
<1>4. entries[h] = <<>>
  <2>1. /\ entries[h] \in Seq(Pages) /\ Len(entries[h]) \in Nat
        /\ NextEntryOffset(h) = 16 + 8 * Len(entries[h])
    BY <1>2, Offsets, Zenon DEF IInv
  <2> QED BY <1>3, <2>1 DEF kFirstEntryOffset
<1>5. /\ Range(c) \intersect others = {} /\ ListPages = Range(c) \union others
      /\ \A k \in LiveLists \ {l} : Range(Chain(k)) \subseteq others
  BY OtherLists, Zenon
<1>6. LiveLists' = LiveLists /\ l \in LiveLists
  BY <1>3, Zenon DEF LiveLists
<1> HIDE DEF h, c, d, others
<1>7. /\ next_page_id[h] = IF d = <<>> THEN kInvalidPageId ELSE d[Len(d)]
      /\ d # <<>> => next_page_id[h] \in Pages
  BY <1>2 DEF IsChain
<1>8. TypeOK'
  <2>1. next_page_id[h] \in Pages \union {kInvalidPageId}
    BY <1>7, Zenon
  <2>2. TypeOK
    BY Zenon DEF IInv
  <2>3. head_page_id' \in [FreeLists -> Pages \union {kInvalidPageId}]
        /\ tail_page_id' \in [FreeLists -> Pages \union {kInvalidPageId}]
    BY <1>3, <2>1, <2>2, Zenon DEF TypeOK
  <2>4. next_page_id' \in [Pages -> Pages \union {kInvalidPageId, kStoreMagic}]
    BY <1>3, <2>2, Zenon DEF TypeOK
  <2>5. used' \in SUBSET Pages /\ free' \in [FreeLists -> SUBSET Pages]
    BY <1>2, <1>3, <2>2, Zenon DEF TypeOK
  <2> QED BY <1>3, <2>2, <2>3, <2>4, <2>5, ZenonT(60) DEF TypeOK, EntriesPerPage
<1>9. \A p \in Pages \ {h} : next_page_id'[p] = next_page_id[p]
  BY <1>3, Zenon DEF IInv, TypeOK
<1>10. IsChain(d, head_page_id'[l], next_page_id')
  <2>1. Range(d) \subseteq Pages
    BY <1>2 DEF Range
  <2>2. \A p \in Range(d) : next_page_id'[p] = next_page_id[p]
    BY <1>2, <1>9, <2>1, Zenon
  <2>3. head_page_id'[l] = next_page_id[h]
    BY <1>3, Zenon DEF IInv, TypeOK
  <2> QED BY <1>2, <2>2, <2>3, ChainStays, ZenonT(60)
<1>11. /\ ListsAreChains' /\ PagesAfterHeadAreFull' /\ TailIsTheLastPage'
       /\ Contents(l)' = Joined(d, entries')
       /\ \A k \in LiveLists' \ {l} : Contents(k)' = Contents(k)
       /\ ListPages' = Range(d) \union UNION {Range(Chain(k)) : k \in LiveLists' \ {l}}
  <2>1. ~was_merged'[StoreList] /\ ~was_merged'[l]
        /\ \A k \in FreeLists : was_merged[k] => was_merged'[k]
    BY <1>3, Zenon DEF IInv, ListsAreChains
  <2>2. Range(d) \intersect UNION {Range(Chain(k)) : k \in LiveLists' \ {l}} = {}
    BY <1>2, <1>5, <1>6, Zenon DEF others
  <2>3. \A k \in LiveLists' \ {l} :
          /\ head_page_id'[k] = head_page_id[k] /\ tail_page_id'[k] = tail_page_id[k]
          /\ \A p \in Range(Chain(k)) :
                next_page_id'[p] = next_page_id[p] /\ entries'[p] = entries[p]
    <3>1. \A k \in LiveLists' \ {l} : \A p \in Range(Chain(k)) : p # h /\ p \in Pages
      BY <1>2, <1>5, <1>6, ListPagesArePages, Zenon
    <3>2. \A k \in LiveLists' \ {l} :
            head_page_id'[k] = head_page_id[k] /\ tail_page_id'[k] = tail_page_id[k]
      BY <1>3, Zenon DEF IInv, TypeOK, LiveLists
    <3> QED BY <1>3, <1>9, <3>1, <3>2, Zenon
  <2>4. \A i \in 1..(Len(d) - 1) : Len(entries'[d[i]]) = EntriesPerPage
    <3>1. \A i \in 1..(Len(c) - 1) : Len(entries[c[i]]) = EntriesPerPage
      BY <1>6, Zenon DEF IInv, PagesAfterHeadAreFull, c
    <3>2. \A i \in 1..(Len(d) - 1) : c[i] = d[i] /\ i \in 1..(Len(c) - 1)
      BY <1>2
    <3> QED BY <1>3, <3>1, <3>2, Zenon
  <2>5. l \in TxnLists => tail_page_id'[l] = IF d = <<>> THEN kInvalidPageId ELSE d[1]
    <3>1. l \in TxnLists => tail_page_id[l] = c[1]
      BY <1>1, <1>6, Zenon DEF IInv, TailIsTheLastPage, c
    <3>2. d # <<>> => c[1] = d[1]
      BY <1>2
    <3>3. tail_page_id'[l] = IF d = <<>> THEN kInvalidPageId ELSE tail_page_id[l]
      BY <1>3, <1>7, ListAssumption, Zenon DEF IInv, TypeOK
    <3> QED BY <3>1, <3>2, <3>3, Zenon
  <2> QED BY <1>8, <1>10, <2>1, <2>2, <2>3, <2>4, <2>5, ChainsStep, ZenonT(60)
<1>12. Once(ListPages', entries', used')
  <2>1. ListPages' = ListPages \ {h}
    BY <1>2, <1>5, <1>6, <1>11, SMTT(30) DEF others
  <2>2. Once(ListPages \ {h}, entries, used \union {h})
    BY <1>2, OncePopPage, Zenon DEF IInv
  <2> QED BY <1>3, <2>1, <2>2, Zenon
<1>13. TakesLast(l)
  <2> DEFINE r == Joined(d, entries)
  <2>1. Contents(l) = Append(r, h)
    BY <1>2, <1>4, ConcatEmpty, Zenon
  <2>2. Contents(l)' = r
    BY <1>3, <1>11, Zenon
  <2>3. r \in Seq(Pages)
    BY <1>2, Zenon
  <2> HIDE DEF r
  <2>4. /\ Append(r, h) # <<>> /\ Append(r, h)[Len(Append(r, h))] = h
        /\ SubSeq(Append(r, h), 1, Len(Append(r, h)) - 1) = r
    BY <1>2, <2>3, AppendLast, ZenonT(60)
  <2>5. /\ Contents(l) # <<>> /\ Contents(l)[Len(Contents(l))] = h
        /\ SubSeq(Contents(l), 1, Len(Contents(l)) - 1) = r
    BY <2>1, <2>4, Zenon
  <2> QED BY <1>3, <1>11, <2>2, <2>5, Zenon DEF TakesLast
<1> QED BY <1>8, <1>11, <1>12, <1>13, Zenon DEF IInv

\* FreePageList::Push of a page that becomes the head page.
LEMMA PushPageStep ==
  ASSUME IInv, NEW l \in FreeLists, ~was_merged[l], NEW p \in used, PushPage(l, p)
  PROVE  IInv' /\ PutsLast(l, p)
<1> DEFINE c == Chain(l)
           a == Append(c, p)
           others == UNION {Range(Chain(k)) : k \in LiveLists \ {l}}
<1>1. /\ NeedsListPage(l) /\ entries' = [entries EXCEPT ![p] = <<>>]
      /\ next_page_id' = [next_page_id EXCEPT ![p] = head_page_id[l]]
      /\ tail_page_id' = IF is_empty(l) THEN [tail_page_id EXCEPT ![l] = p] ELSE tail_page_id
      /\ head_page_id' = [head_page_id EXCEPT ![l] = p]
      /\ used' = used \ {p} /\ free' = [free EXCEPT ![l] = @ \union {p}]
      /\ status' = "kSuccess" /\ UNCHANGED was_merged
  BY Zenon DEF PushPage, Pushed
<1>2. TypeOK /\ p \in Pages /\ Once(ListPages, entries, used)
  BY Zenon DEF IInv, TypeOK
<1>3. /\ Range(c) \intersect others = {} /\ ListPages = Range(c) \union others
      /\ \A k \in LiveLists \ {l} : Range(Chain(k)) \subseteq others
  BY OtherLists, Zenon
<1>4. LiveLists' = LiveLists /\ l \in LiveLists
  BY <1>1, Zenon DEF LiveLists
<1>5. p \notin ListPages /\ p \notin Range(c) /\ p \notin others
  <2>1. p \notin ListPages
    BY <1>2, Zenon DEF Once
  <2> QED BY <1>3, <2>1, Zenon
<1>6. /\ is_empty(l) <=> c = <<>>
      /\ c \in Seq(Pages) /\ IsChain(c, head_page_id[l], next_page_id)
      /\ Contents(l) = Joined(c, entries)
  BY EmptyChain, Zenon
<1> HIDE DEF c, others
<1>7. /\ \A q \in Pages \ {p} : next_page_id'[q] = next_page_id[q] /\ entries'[q] = entries[q]
      /\ next_page_id'[p] = head_page_id[l] /\ entries'[p] = <<>>
  BY <1>1, <1>2, ZenonT(60) DEF TypeOK
<1>8. TypeOK'
  <2>1. head_page_id' \in [FreeLists -> Pages \union {kInvalidPageId}]
        /\ tail_page_id' \in [FreeLists -> Pages \union {kInvalidPageId}]
    BY <1>1, <1>2, Zenon DEF TypeOK
  <2>2. next_page_id' \in [Pages -> Pages \union {kInvalidPageId, kStoreMagic}]
    BY <1>1, <1>2, Zenon DEF TypeOK
  <2>3. used' \in SUBSET Pages /\ free' \in [FreeLists -> SUBSET Pages]
    BY <1>1, <1>2, Zenon DEF TypeOK
  <2>4. <<>> \in Seq(Pages) /\ Len(<<>>) = 0
    OBVIOUS
  <2>5. entries' \in [Pages -> Seq(Pages)]
    BY <1>1, <1>2, <2>4, ZenonT(60) DEF TypeOK
  <2>6. \A q \in Pages : Len(entries'[q]) <= EntriesPerPage
    <3>1. EntriesPerPage \in Nat
      BY <1>2, Offsets, Zenon
    <3>2. \A q \in Pages : Len(entries[q]) <= EntriesPerPage
      BY <1>2, Zenon DEF TypeOK
    <3> QED BY <1>7, <2>4, <3>1, <3>2, SMTT(30)
  <2> QED BY <1>1, <1>2, <2>1, <2>2, <2>3, <2>5, <2>6, SMTT(30) DEF TypeOK, EntriesPerPage
<1>9. \A q \in Range(c) : /\ q \in Pages /\ q # p /\ next_page_id'[q] = next_page_id[q]
                         /\ entries'[q] = entries[q]
  <2>1. Range(c) \subseteq Pages
    BY <1>6 DEF Range
  <2> QED BY <1>5, <1>7, <2>1, ZenonT(60)
<1>10. IsChain(a, head_page_id'[l], next_page_id')
  <2>1. head_page_id'[l] = p
    BY <1>1, <1>2, ZenonT(60) DEF TypeOK
  <2>2. \A q \in Range(c) : next_page_id'[q] = next_page_id[q]
    BY <1>9, Zenon
  <2>3. IsChain(Append(c, p), p, next_page_id')
    BY <1>2, <1>5, <1>6, <1>7, <2>2, ChainPush, ZenonT(60)
  <2> QED BY <2>1, <2>3, Zenon
<1>11. /\ a \in Seq(Pages) /\ Len(a) = Len(c) + 1 /\ Range(a) = Range(c) \union {p}
       /\ \A i \in 1..Len(c) : a[i] = c[i]
       /\ a[Len(c) + 1] = p /\ a # <<>>
  <2>1. a \in Seq(Pages) /\ Len(a) = Len(c) + 1 /\ Range(a) = Range(c) \union {p}
    BY <1>2, <1>6, AppendElements, SMTT(30)
  <2> QED BY <1>2, <1>6, <2>1
<1> HIDE DEF a
<1>12. /\ ListsAreChains' /\ PagesAfterHeadAreFull' /\ TailIsTheLastPage'
       /\ Contents(l)' = Joined(a, entries')
       /\ \A k \in LiveLists' \ {l} : Contents(k)' = Contents(k)
       /\ ListPages' = Range(a) \union UNION {Range(Chain(k)) : k \in LiveLists' \ {l}}
  <2>1. ~was_merged'[StoreList] /\ ~was_merged'[l]
        /\ \A k \in FreeLists : was_merged[k] => was_merged'[k]
    BY <1>1, Zenon DEF IInv, ListsAreChains
  <2>2. Range(a) \intersect UNION {Range(Chain(k)) : k \in LiveLists' \ {l}} = {}
    BY <1>3, <1>4, <1>5, <1>11, Zenon DEF others
  <2>3. \A k \in LiveLists' \ {l} :
          /\ head_page_id'[k] = head_page_id[k] /\ tail_page_id'[k] = tail_page_id[k]
          /\ \A q \in Range(Chain(k)) :
                next_page_id'[q] = next_page_id[q] /\ entries'[q] = entries[q]
    <3>1. \A k \in LiveLists' \ {l} : \A q \in Range(Chain(k)) : q # p /\ q \in Pages
      BY <1>3, <1>4, <1>5, ListPagesArePages, Zenon
    <3>2. \A k \in LiveLists' \ {l} :
            head_page_id'[k] = head_page_id[k] /\ tail_page_id'[k] = tail_page_id[k]
      BY <1>1, <1>2, ZenonT(60) DEF TypeOK, LiveLists
    <3> QED BY <1>7, <3>1, <3>2, Zenon
  <2>4. \A i \in 1..(Len(a) - 1) : Len(entries'[a[i]]) = EntriesPerPage
    <3>1. ASSUME NEW i \in 1..Len(c) PROVE Len(entries[c[i]]) = EntriesPerPage
      <4>1. CASE i \in 1..(Len(c) - 1)
        BY <1>4, <4>1, Zenon DEF IInv, PagesAfterHeadAreFull, c
      <4>2. CASE i = Len(c)
        <5>1. c # <<>> /\ ~is_empty(l) /\ c[i] = head_page_id[l] /\ c[i] \in Pages
          <6>1. Len(c) # 0
            BY <4>2
          <6>2. c # <<>> /\ c[i] \in Pages
            BY <1>6, <6>1
          <6> QED BY <1>6, <4>2, <6>2, Zenon DEF IsChain
        <5>2. NextEntryOffset(c[i]) >= PageSize
          BY <1>1, <5>1, Zenon DEF NeedsListPage
        <5>3. /\ EntriesPerPage \in Nat /\ PageSize = 16 + 8 * EntriesPerPage
              /\ Len(entries[c[i]]) \in Nat /\ Len(entries[c[i]]) <= EntriesPerPage
              /\ NextEntryOffset(c[i]) = 16 + 8 * Len(entries[c[i]])
          BY <1>2, <5>1, Offsets, Zenon
        <5> QED BY <5>2, <5>3
      <4> QED BY <1>6, <4>1, <4>2
    <3>2. \A i \in 1..Len(c) : c[i] \in Range(c)
      BY <1>6 DEF Range
    <3> QED BY <1>6, <1>9, <1>11, <3>1, <3>2, SMTT(30)
  <2>5. l \in TxnLists => tail_page_id'[l] = IF a = <<>> THEN kInvalidPageId ELSE a[1]
    <3>1. l \in TxnLists /\ c # <<>> => tail_page_id[l] = c[1]
      BY <1>4, <1>6, ZenonT(60) DEF IInv, TailIsTheLastPage, c
    <3>2. a[1] = IF c = <<>> THEN p ELSE c[1]
      BY <1>6, <1>11
    <3>3. tail_page_id'[l] = IF c = <<>> THEN p ELSE tail_page_id[l]
      BY <1>1, <1>2, <1>6, Zenon DEF TypeOK
    <3> QED BY <1>11, <3>1, <3>2, <3>3, ZenonT(60)
  <2> QED BY <1>8, <1>10, <2>1, <2>2, <2>3, <2>4, <2>5, ChainsStep, ZenonT(60)
<1>13. Once(ListPages', entries', used')
  <2>1. ListPages' = ListPages \union {p}
    BY <1>3, <1>4, <1>11, <1>12, Zenon DEF others
  <2>2. \A q \in ListPages : entries'[q] = entries[q]
    BY <1>5, <1>7, ListPagesArePages, Zenon
  <2>3. Once(ListPages \union {p}, entries', used \ {p})
    BY <1>2, <1>7, <2>2, OncePushPage, Zenon
  <2> QED BY <1>1, <2>1, <2>3, Zenon
<1>14. PutsLast(l, p)
  <2>1. entries \in [Pages -> Seq(Pages)] /\ entries' \in [Pages -> Seq(Pages)]
    BY <1>2, <1>8, Zenon DEF TypeOK
  <2>2. Joined(a, entries') = Joined(c, entries') \o <<p>> \o entries'[p]
    BY <1>2, <1>6, <2>1, JoinedAppend, ZenonT(60) DEF a
  <2>3. Joined(c, entries') = Joined(c, entries)
    <3>1. \A q \in Range(c) : entries'[q] = entries[q]
      BY <1>9, Zenon
    <3> QED BY <1>6, <2>1, <3>1, JoinedAgrees, ZenonT(60)
  <2>4. Joined(c, entries) \in Seq(Pages)
    BY <1>6, <2>1, JoinedType, ZenonT(60)
  <2>5. Joined(c, entries) \o <<p>> \o <<>> = Append(Joined(c, entries), p)
    BY <1>2, <2>4, ConcatEmpty, ZenonT(60)
  <2>6. Contents(l)' = Append(Contents(l), p)
    BY <1>6, <1>7, <1>12, <2>2, <2>3, <2>5, SMTT(30)
  <2> QED BY <1>1, <1>12, <2>6, Zenon DEF PutsLast
<1> QED BY <1>8, <1>12, <1>13, <1>14, ZenonT(60) DEF IInv

=============================================================================
