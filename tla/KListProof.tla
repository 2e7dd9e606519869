----------------------------- MODULE KListProof -----------------------------
(***************************************************************************)
(* What the list functions preserve: the elements, that no element is in   *)
(* the list twice, and the order of their keys.                            *)
(***************************************************************************)
EXTENDS KList, FiniteSetTheorems, TLAPS

\* list_insert_ordered(): the place found is a place of the list.
LEMMA InsertPosInRange ==
  ASSUME NEW S, NEW l \in Seq(S), NEW x, NEW key
  PROVE  InsertPos(l, x, key) \in 1..(Len(l) + 1)
<1> DEFINE P == {i \in 1..Len(l) : \A j \in 1..i : key[x] <= key[l[j]]}
<1>1. Len(l) \in Nat
  OBVIOUS
<1>2. IsFiniteSet(1..Len(l)) /\ Cardinality(1..Len(l)) = Len(l)
  BY <1>1, FS_Interval
<1>3. P \in SUBSET (1..Len(l))
  OBVIOUS
<1>4. IsFiniteSet(P) /\ Cardinality(P) <= Len(l)
  BY <1>2, <1>3, FS_Subset
<1>5. Cardinality(P) \in Nat
  BY <1>4, FS_CardinalityType
<1> QED
  BY <1>1, <1>4, <1>5 DEF InsertPos

\* An insertion adds its element to the list, once, wherever it is put.
LEMMA InsertAnywhere ==
  ASSUME NEW S, NEW l \in Seq(S), NEW x \in S, NEW p \in 1..(Len(l) + 1)
  PROVE  LET r == InsertAt(l, p, x)
         IN /\ r \in Seq(S)
            /\ ToSet(r) = ToSet(l) \cup {x}
            /\ IsInjective(l) /\ x \notin ToSet(l) => IsInjective(r)
<1> DEFINE a == SubSeq(l, 1, p - 1)
           b == SubSeq(l, p, Len(l))
           r == InsertAt(l, p, x)
<1>1. p \in 1..(Len(l) + 1) /\ Len(l) \in Nat
  OBVIOUS
<1>2. a \in Seq(S) /\ Len(a) = p - 1 /\ \A i \in 1..(p - 1) : a[i] = l[i]
  BY <1>1
<1>3. /\ b \in Seq(S) /\ Len(b) = Len(l) - p + 1
      /\ \A i \in 1..(Len(l) - p + 1) : b[i] = l[i + p - 1]
  BY <1>1
<1>4. r = a \o <<x>> \o b
  BY DEF InsertAt
<1> HIDE DEF a, b, r
<1>5. /\ r \in Seq(S) /\ Len(r) = Len(l) + 1
      /\ \A i \in 1..(Len(l) + 1) :
           r[i] = IF i < p THEN l[i] ELSE IF i = p THEN x ELSE l[i - 1]
  <2> DEFINE c == a \o <<x>>
  <2>1. /\ c \in Seq(S) /\ Len(c) = p
        /\ \A i \in 1..(p - 1) : c[i] = a[i]
        /\ c[p] = x
    BY <1>1, <1>2
  <2> HIDE DEF c
  <2>2. r = c \o b
    BY <1>4 DEF c
  <2>3. /\ r \in Seq(S) /\ Len(r) = Len(c) + Len(b)
        /\ \A i \in 1..(Len(c) + Len(b)) :
             r[i] = IF i <= Len(c) THEN c[i] ELSE b[i - Len(c)]
    <3>1. b \in Seq(S) /\ c \in Seq(S)
      BY <1>3, <2>1
    <3> QED
      BY <2>2, <3>1
  <2>4. Len(r) = Len(l) + 1
    BY <1>1, <1>3, <2>1, <2>3
  <2>5. ASSUME NEW i \in 1..(Len(l) + 1)
        PROVE  r[i] = IF i < p THEN l[i] ELSE IF i = p THEN x ELSE l[i - 1]
    <3>1. CASE i <= p
      BY <1>1, <1>2, <1>3, <2>1, <2>3, <3>1
    <3>2. CASE i > p
      <4>1. r[i] = b[i - p] /\ i - p \in 1..(Len(l) - p + 1)
        BY <1>1, <1>3, <2>1, <2>3, <3>2
      <4>2. b[i - p] = l[(i - p) + p - 1]
        BY <1>3, <4>1
      <4>3. (i - p) + p - 1 = i - 1
        BY <1>1
      <4> QED
        BY <1>1, <3>2, <4>1, <4>2, <4>3
    <3> QED
      BY <1>1, <3>1, <3>2
  <2> QED
    BY <2>3, <2>4, <2>5
<1>6. DOMAIN r = 1..(Len(l) + 1) /\ DOMAIN l = 1..Len(l)
  BY <1>5
<1>7. ToSet(r) \subseteq ToSet(l) \cup {x}
  <2>1. ASSUME NEW i \in 1..(Len(l) + 1)
        PROVE  r[i] = x \/ \E j \in 1..Len(l) : r[i] = l[j]
    <3>1. i \in 1..Len(l) \/ i = p \/ i - 1 \in 1..Len(l)
      BY <1>1
    <3> QED
      BY <1>1, <1>5
  <2> QED
    BY <1>6, <2>1 DEF ToSet
<1>8. x \in ToSet(r)
  BY <1>1, <1>5, <1>6 DEF ToSet
<1>9. ASSUME NEW i \in 1..Len(l)
      PROVE  l[i] \in ToSet(r)
  <2>1. CASE i < p
    <3>1. i \in DOMAIN r /\ r[i] = l[i]
      BY <1>5, <1>6, <2>1
    <3> QED
      BY <3>1 DEF ToSet
  <2>2. CASE ~(i < p)
    <3>1. i + 1 \in DOMAIN r /\ r[i + 1] = l[i]
      BY <1>1, <1>5, <1>6, <2>2
    <3> QED
      BY <3>1 DEF ToSet
  <2> QED
    BY <2>1, <2>2
<1>10. ToSet(r) = ToSet(l) \cup {x}
  BY <1>6, <1>7, <1>8, <1>9 DEF ToSet
<1>11. ASSUME IsInjective(l), x \notin ToSet(l)
       PROVE  IsInjective(r)
  <2>1. \A i, j \in 1..Len(l) : l[i] = l[j] => i = j
    BY <1>6, <1>11 DEF IsInjective
  <2>2. \A i \in 1..Len(l) : l[i] # x
    BY <1>6, <1>11 DEF ToSet
  <2>3. ASSUME NEW i \in 1..(Len(l) + 1), NEW j \in 1..(Len(l) + 1), r[i] = r[j]
        PROVE  i = j
    <3>1. \A k \in 1..(Len(l) + 1) :
            \/ k < p /\ k \in 1..Len(l) /\ r[k] = l[k]
            \/ k = p /\ r[k] = x
            \/ k > p /\ k - 1 \in 1..Len(l) /\ r[k] = l[k - 1]
      BY <1>1, <1>5
    <3>2. CASE i < p
      <4>1. i \in 1..Len(l) /\ r[i] = l[i]
        BY <1>1, <3>1, <3>2
      <4>2. CASE j < p
        <5>1. j \in 1..Len(l) /\ r[j] = l[j]
          BY <1>1, <3>1, <4>2
        <5> QED
          BY <2>1, <2>3, <4>1, <5>1
      <4>3. CASE j = p
        <5>1. r[j] = x
          BY <1>1, <3>1, <4>3
        <5> QED
          BY <2>2, <2>3, <4>1, <5>1
      <4>4. CASE j > p
        <5>1. j - 1 \in 1..Len(l) /\ r[j] = l[j - 1]
          BY <1>1, <3>1, <4>4
        <5>2. i = j - 1
          BY <2>1, <2>3, <4>1, <5>1
        <5> QED
          BY <1>1, <3>2, <4>4, <5>2
      <4> QED
        BY <1>1, <4>2, <4>3, <4>4
    <3>3. CASE i = p
      <4>1. r[i] = x
        BY <1>1, <3>1, <3>3
      <4>2. CASE j < p
        <5>1. j \in 1..Len(l) /\ r[j] = l[j]
          BY <1>1, <3>1, <4>2
        <5> QED
          BY <2>2, <2>3, <4>1, <5>1
      <4>3. CASE j = p
        BY <3>3, <4>3
      <4>4. CASE j > p
        <5>1. j - 1 \in 1..Len(l) /\ r[j] = l[j - 1]
          BY <1>1, <3>1, <4>4
        <5> QED
          BY <2>2, <2>3, <4>1, <5>1
      <4> QED
        BY <1>1, <4>2, <4>3, <4>4
    <3>4. CASE i > p
      <4>1. i - 1 \in 1..Len(l) /\ r[i] = l[i - 1]
        BY <1>1, <3>1, <3>4
      <4>2. CASE j < p
        <5>1. j \in 1..Len(l) /\ r[j] = l[j]
          BY <1>1, <3>1, <4>2
        <5>2. i - 1 = j
          BY <2>1, <2>3, <4>1, <5>1
        <5> QED
          BY <1>1, <3>4, <4>2, <5>2
      <4>3. CASE j = p
        <5>1. r[j] = x
          BY <1>1, <3>1, <4>3
        <5> QED
          BY <2>2, <2>3, <4>1, <5>1
      <4>4. CASE j > p
        <5>1. j - 1 \in 1..Len(l) /\ r[j] = l[j - 1]
          BY <1>1, <3>1, <4>4
        <5>2. i - 1 = j - 1
          BY <2>1, <2>3, <4>1, <5>1
        <5> QED
          BY <5>2
      <4> QED
        BY <1>1, <4>2, <4>3, <4>4
    <3> QED
      BY <1>1, <3>2, <3>3, <3>4
  <2> QED
    BY <1>6, <2>3 DEF IsInjective
<1> QED
  BY <1>5, <1>10, <1>11 DEF r

\* list_insert_ordered() adds its element to the list, once.
LEMMA InsertOrdered ==
  ASSUME NEW S, NEW l \in Seq(S), NEW x \in S, NEW key
  PROVE  LET r == list_insert_ordered(l, x, key)
         IN /\ r \in Seq(S)
            /\ ToSet(r) = ToSet(l) \cup {x}
            /\ IsInjective(l) /\ x \notin ToSet(l) => IsInjective(r)
<1> DEFINE p == InsertPos(l, x, key)
<1>1. p \in 1..(Len(l) + 1)
  BY InsertPosInRange
<1> HIDE DEF p
<1>2. list_insert_ordered(l, x, key) = InsertAt(l, p, x)
  BY DEF list_insert_ordered, p
<1> QED
  BY <1>1, <1>2, InsertAnywhere

\* Ranks in a strict total order number the members of a finite set.
LEMMA EnumerateBijection ==
  ASSUME NEW I, IsFiniteSet(I), NEW R,
         \A i \in I : <<i, i>> \notin R,
         \A i, j, k \in I : <<i, j>> \in R /\ <<j, k>> \in R => <<i, k>> \in R,
         \A i, j \in I : i = j \/ <<i, j>> \in R \/ <<j, i>> \in R
  PROVE  LET e == Enumerate(I, R)
             n == Cardinality(I)
         IN /\ n \in Nat
            /\ e \in [1..n -> I]
            /\ \A k, m \in 1..n : e[k] = e[m] => k = m
            /\ \A i \in I : \E k \in 1..n : e[k] = i
            /\ \A k, m \in 1..n : <<e[k], e[m]>> \in R => k < m
<1> DEFINE n == Cardinality(I)
           Before(i) == {j \in I : <<j, i>> \in R}
           f == [i \in I |-> Rank(I, R, i)]
           e == Enumerate(I, R)
<1>1. n \in Nat
  BY FS_CardinalityType
<1>2. ASSUME NEW i \in I
      PROVE  IsFiniteSet(Before(i)) /\ Cardinality(Before(i)) \in Nat
  <2>1. Before(i) \in SUBSET I
    OBVIOUS
  <2> QED
    BY <2>1, FS_Subset, FS_CardinalityType
<1>3. \A i \in I : Rank(I, R, i) = 1 + Cardinality(Before(i))
  BY DEF Rank
<1>4. ASSUME NEW i \in I
      PROVE  Cardinality(Before(i)) <= n - 1
  <2>1. Before(i) \in SUBSET (I \ {i})
    OBVIOUS
  <2>2. IsFiniteSet(I \ {i}) /\ Cardinality(I \ {i}) = n - 1
    BY FS_RemoveElement
  <2>3. Cardinality(Before(i)) <= Cardinality(I \ {i})
    BY <2>1, <2>2, FS_Subset
  <2> QED
    BY <2>2, <2>3
<1>5. ASSUME NEW i \in I, NEW j \in I, <<j, i>> \in R
      PROVE  Cardinality(Before(j)) < Cardinality(Before(i))
  <2>1. Before(j) \cup {j} \in SUBSET Before(i)
    BY <1>5
  <2>2. j \notin Before(j)
    OBVIOUS
  <2>3. Cardinality(Before(j) \cup {j}) = Cardinality(Before(j)) + 1
    BY <1>2, <2>2, FS_AddElement
  <2>4. Cardinality(Before(j) \cup {j}) <= Cardinality(Before(i))
    BY <1>2, <2>1, FS_Subset
  <2> QED
    BY <1>2, <2>3, <2>4
<1>6. f \in [I -> 1..n]
  <2>1. ASSUME NEW i \in I
        PROVE  Rank(I, R, i) \in 1..n
    <3> HIDE DEF Before, n
    <3> QED
      BY <1>1, <1>2, <1>3, <1>4
  <2> QED
    BY <2>1
<1>7. \A i, j \in I : f[i] = f[j] => i = j
  <2>1. ASSUME NEW i \in I, NEW j \in I, f[i] = f[j], i # j
        PROVE  FALSE
    <3>1. Cardinality(Before(i)) = Cardinality(Before(j))
      <4> DEFINE a == Cardinality(Before(i))
                 b == Cardinality(Before(j))
      <4>1. 1 + a = 1 + b
        BY <1>3, <2>1
      <4>2. a \in Nat /\ b \in Nat
        BY <1>2
      <4> HIDE DEF a, b
      <4>3. a = b
        BY <4>1, <4>2
      <4> QED
        BY <4>3 DEF a, b
    <3>2. <<i, j>> \in R \/ <<j, i>> \in R
      BY <2>1
    <3> HIDE DEF Before
    <3> QED
      BY <1>2, <1>5, <3>1, <3>2
  <2> QED
    BY <2>1
<1>8. f \in Injection(I, 1..n)
  BY <1>6, <1>7 DEF Injection, IsInjective
<1>9. IsFiniteSet(1..n) /\ Cardinality(1..n) = n
  BY <1>1, FS_Interval
<1>10. f \in Surjection(I, 1..n)
  BY <1>8, <1>9, FS_Injection
<1>11. ASSUME NEW k \in 1..n
       PROVE  e[k] \in I /\ f[e[k]] = k
  <2>1. \E i \in I : f[i] = k
    BY <1>10 DEF Surjection
  <2>2. \E i \in I : Rank(I, R, i) = k
    BY <2>1
  <2>3. e[k] = CHOOSE i \in I : Rank(I, R, i) = k
    BY DEF Enumerate
  <2>4. e[k] \in I /\ Rank(I, R, e[k]) = k
    BY <2>2, <2>3
  <2> QED
    BY <2>4
<1>12. e \in [1..n -> I]
  <2>1. e = [k \in 1..n |-> e[k]]
    BY DEF Enumerate
  <2> HIDE DEF e
  <2> QED
    BY <1>11, <2>1
<1>13. \A i \in I : \E k \in 1..n : e[k] = i
  <2>1. ASSUME NEW i \in I
        PROVE  f[i] \in 1..n /\ e[f[i]] = i
    <3> HIDE DEF f, e
    <3> QED
      BY <1>6, <1>7, <1>11
  <2> HIDE DEF f, e
  <2> QED
    BY <2>1
<1>14. ASSUME NEW k \in 1..n, NEW m \in 1..n, <<e[k], e[m]>> \in R
       PROVE  k < m
  <2> DEFINE a == Cardinality(Before(e[k]))
             b == Cardinality(Before(e[m]))
  <2> HIDE DEF e
  <2>1. e[k] \in I /\ e[m] \in I /\ f[e[k]] = k /\ f[e[m]] = m
    BY <1>11
  <2>2. f[e[k]] = 1 + a /\ f[e[m]] = 1 + b
    BY <1>3, <2>1
  <2>3. a \in Nat /\ b \in Nat
    BY <1>2, <2>1
  <2>4. a < b
    BY <1>5, <1>14, <2>1
  <2> HIDE DEF a, b, f
  <2> QED
    BY <2>1, <2>2, <2>3, <2>4
<1> HIDE DEF f, e
<1>15. \A k, m \in 1..n : e[k] = e[m] => k = m
  BY <1>11
<1> QED
  BY <1>1, <1>12, <1>13, <1>14, <1>15 DEF e

\* list_sort() permutes the list so that no key is followed by a greater one.
LEMMA SortPermutes ==
  ASSUME NEW S, NEW l \in Seq(S), NEW key, \A x \in S : key[x] \in Int
  PROVE  LET r == list_sort(l, key)
         IN /\ r \in Seq(S) /\ Len(r) = Len(l)
            /\ ToSet(r) = ToSet(l)
            /\ IsInjective(l) => IsInjective(r)
            /\ \A k, m \in 1..Len(l) : k < m => key[r[m]] <= key[r[k]]
<1> DEFINE I == 1..Len(l)
           R == SortOrder(l, key)
           e == Enumerate(I, R)
           r == list_sort(l, key)
<1>1. Len(l) \in Nat /\ \A i \in I : l[i] \in S /\ key[l[i]] \in Int
  OBVIOUS
<1>2. IsFiniteSet(I) /\ Cardinality(I) = Len(l)
  <2>1. Len(l) \in Nat
    OBVIOUS
  <2> QED
    BY ONLY <2>1, FS_Interval
<1>3. \A i, j \in I : <<i, j>> \in R <=>
        \/ key[l[i]] > key[l[j]]
        \/ key[l[i]] = key[l[j]] /\ i < j
  BY DEF SortOrder
<1>4. r = [k \in I |-> l[e[k]]]
  BY DEF list_sort
<1> HIDE DEF R, r
<1>5. \A i \in I : <<i, i>> \notin R
  BY <1>1, <1>3
<1>6. \A i, j, k \in I : <<i, j>> \in R /\ <<j, k>> \in R => <<i, k>> \in R
  BY <1>1, <1>3
<1>7. \A i, j \in I : i = j \/ <<i, j>> \in R \/ <<j, i>> \in R
  <2>1. ASSUME NEW i \in I, NEW j \in I, i # j
        PROVE  <<i, j>> \in R \/ <<j, i>> \in R
    <3>1. i \in Int /\ j \in Int /\ (i < j \/ j < i)
      BY <2>1
    <3>2. key[l[i]] \in Int /\ key[l[j]] \in Int
      BY <1>1
    <3> QED
      BY <1>3, <3>1, <3>2
  <2> QED
    BY <2>1
<1>8. /\ e \in [I -> I]
      /\ \A k, m \in I : e[k] = e[m] => k = m
      /\ \A i \in I : \E k \in I : e[k] = i
      /\ \A k, m \in I : <<e[k], e[m]>> \in R => k < m
  <2> HIDE DEF I
  <2>1. LET d == Enumerate(I, R)
            n == Cardinality(I)
        IN /\ n \in Nat
           /\ d \in [1..n -> I]
           /\ \A k, m \in 1..n : d[k] = d[m] => k = m
           /\ \A i \in I : \E k \in 1..n : d[k] = i
           /\ \A k, m \in 1..n : <<d[k], d[m]>> \in R => k < m
    BY <1>2, <1>5, <1>6, <1>7, EnumerateBijection
  <2> QED
    BY <1>2, <2>1 DEF I
<1> HIDE DEF e
<1>9. r \in [I -> S]
  BY <1>1, <1>4, <1>8
<1>10. r \in Seq(S) /\ Len(r) = Len(l) /\ DOMAIN r = I /\ DOMAIN l = I
  BY <1>1, <1>9
<1> HIDE DEF I
<1>11. ToSet(r) = ToSet(l)
  <2>1. \A k \in I : r[k] = l[e[k]] /\ e[k] \in I
    BY <1>4, <1>8
  <2>2. ASSUME NEW i \in I
        PROVE  \E k \in I : r[k] = l[i]
    BY <1>8, <2>1
  <2>3. ToSet(r) = {r[k] : k \in I} /\ ToSet(l) = {l[i] : i \in I}
    BY <1>10 DEF ToSet
  <2> QED
    BY <2>1, <2>2, <2>3
<1>12. IsInjective(l) => IsInjective(r)
  <2>1. \A k \in I : r[k] = l[e[k]] /\ e[k] \in I
    BY <1>4, <1>8
  <2>2. ASSUME NEW k \in I, NEW m \in I, r[k] = r[m],
               \A i, j \in I : l[i] = l[j] => i = j
        PROVE  k = m
    <3>1. e[k] = e[m]
      BY <2>1, <2>2
    <3> QED
      BY <1>8, <3>1
  <2> QED
    BY <1>10, <2>2 DEF IsInjective
<1>13. ASSUME NEW k \in 1..Len(l), NEW m \in 1..Len(l), k < m
       PROVE  key[r[m]] <= key[r[k]]
  <2>1. k \in I /\ m \in I
    BY DEF I
  <2>2. e[k] \in I /\ e[m] \in I /\ r[k] = l[e[k]] /\ r[m] = l[e[m]]
    BY <1>4, <1>8, <2>1
  <2>3. <<e[m], e[k]>> \notin R
    <3>1. ~(m < k)
      BY <1>1, <1>13
    <3> QED
      BY <1>8, <2>1, <3>1
  <2>4. ~(key[l[e[m]]] > key[l[e[k]]])
    BY <1>3, <2>2, <2>3
  <2>5. key[l[e[m]]] \in Int /\ key[l[e[k]]] \in Int
    BY <1>1, <2>2
  <2> QED
    BY <2>2, <2>4, <2>5
<1> QED
  BY <1>10, <1>11, <1>12, <1>13 DEF r

\* What is left after removals is in the list, in its order, once each.
LEMMA RemoveAllKeeps ==
  ASSUME NEW S, NEW l \in Seq(S), NEW gone
  PROVE  LET r == list_remove_all(l, gone)
         IN /\ r \in Seq(S) /\ ToSet(r) = ToSet(l) \ gone
            /\ IsInjective(l) => IsInjective(r)
<1> DEFINE I == {i \in 1..Len(l) : l[i] \notin gone}
           R == {p \in I \X I : p[1] < p[2]}
           n == Cardinality(I)
           e == Enumerate(I, R)
           r == list_remove_all(l, gone)
<1>1. Len(l) \in Nat /\ \A i \in I : i \in 1..Len(l) /\ l[i] \in S
  OBVIOUS
<1>2. IsFiniteSet(I)
  <2>1. IsFiniteSet(1..Len(l))
    BY <1>1, FS_Interval
  <2>2. I \in SUBSET (1..Len(l))
    OBVIOUS
  <2> QED
    BY <2>1, <2>2, FS_Subset
<1>3. \A i, j \in I : <<i, j>> \in R <=> i < j
  OBVIOUS
<1>4. r = [k \in 1..n |-> l[e[k]]]
  BY DEF list_remove_all
<1>5. DOMAIN l = 1..Len(l) /\ \A i \in 1..Len(l) : i \in I <=> l[i] \notin gone
  OBVIOUS
<1> HIDE DEF I, R, n, r
<1>6. \A i \in I : <<i, i>> \notin R
  BY <1>1, <1>3
<1>7. \A i, j, k \in I : <<i, j>> \in R /\ <<j, k>> \in R => <<i, k>> \in R
  BY <1>1, <1>3
<1>8. \A i, j \in I : i = j \/ <<i, j>> \in R \/ <<j, i>> \in R
  <2>1. ASSUME NEW i \in I, NEW j \in I, i # j
        PROVE  <<i, j>> \in R \/ <<j, i>> \in R
    <3>1. i < j \/ j < i
      BY <1>1, <2>1
    <3> QED
      BY <1>3, <3>1
  <2> QED
    BY <2>1
<1>9. /\ n \in Nat
      /\ e \in [1..n -> I]
      /\ \A i \in I : \E k \in 1..n : e[k] = i
      /\ \A j, k \in 1..n : e[j] = e[k] => j = k
  BY <1>2, <1>6, <1>7, <1>8, EnumerateBijection DEF n
<1> HIDE DEF e
<1>10. r \in [1..n -> S]
  BY <1>1, <1>4, <1>9
<1>11. r \in Seq(S) /\ DOMAIN r = 1..n
  BY <1>9, <1>10
<1>12. ToSet(r) = ToSet(l) \ gone
  <2>1. ToSet(r) \subseteq ToSet(l) \ gone
    BY <1>1, <1>4, <1>5, <1>9, <1>11 DEF ToSet
  <2>2. ToSet(l) \ gone \subseteq ToSet(r)
    BY <1>4, <1>5, <1>9, <1>11 DEF ToSet
  <2> QED
    BY <2>1, <2>2
<1>13. ASSUME IsInjective(l)
       PROVE  IsInjective(r)
  <2>1. \A i, j \in 1..Len(l) : l[i] = l[j] => i = j
    BY <1>5, <1>13 DEF IsInjective
  <2>2. \A k \in 1..n : e[k] \in I /\ e[k] \in 1..Len(l) /\ r[k] = l[e[k]]
    BY <1>1, <1>4, <1>9
  <2>3. \A j, k \in 1..n : r[j] = r[k] => j = k
    BY <1>9, <2>1, <2>2
  <2> QED
    BY <1>11, <2>3 DEF IsInjective
<1> QED
  BY <1>11, <1>12, <1>13 DEF r

\* Popping the front of a list takes one element off it.
LEMMA HeadAndTail ==
  ASSUME NEW S, NEW l \in Seq(S), l # <<>>, IsInjective(l)
  PROVE  /\ Head(l) \in ToSet(l) /\ ToSet(l) \subseteq S
         /\ Tail(l) \in Seq(S) /\ IsInjective(Tail(l))
         /\ ToSet(Tail(l)) = ToSet(l) \ {Head(l)}
<1>0. /\ Len(l) \in Nat /\ Len(l) > 0 /\ DOMAIN l = 1..Len(l)
      /\ \A i \in 1..Len(l) : l[i] \in S
      /\ Head(l) = l[1]
  OBVIOUS
<1>1. /\ Tail(l) \in Seq(S) /\ Len(Tail(l)) = Len(l) - 1 /\ DOMAIN Tail(l) = 1..(Len(l) - 1)
      /\ \A i \in 1..(Len(l) - 1) : Tail(l)[i] = l[i + 1]
  BY <1>0
<1>2. \A i, j \in 1..Len(l) : l[i] = l[j] => i = j
  BY <1>0 DEF IsInjective
<1>3. IsInjective(Tail(l))
  BY <1>0, <1>1, <1>2 DEF IsInjective
<1>4. ToSet(l) = {l[i] : i \in 1..Len(l)} /\ ToSet(Tail(l)) = {Tail(l)[i] : i \in 1..(Len(l) - 1)}
  BY <1>0, <1>1 DEF ToSet
<1>5. ASSUME NEW x \in ToSet(Tail(l))
      PROVE  x \in ToSet(l) \ {Head(l)}
  <2>1. PICK i \in 1..(Len(l) - 1) : x = l[i + 1]
    BY <1>1, <1>4
  <2>2. i + 1 \in 1..Len(l) /\ i + 1 # 1 /\ 1 \in 1..Len(l)
    BY <1>0
  <2> QED
    BY <1>0, <1>2, <1>4, <2>1, <2>2
<1>6. ASSUME NEW x \in ToSet(l) \ {Head(l)}
      PROVE  x \in ToSet(Tail(l))
  <2>1. PICK i \in 1..Len(l) : x = l[i] /\ i # 1
    BY <1>0, <1>4
  <2>2. i - 1 \in 1..(Len(l) - 1) /\ Tail(l)[i - 1] = l[(i - 1) + 1] /\ (i - 1) + 1 = i
    BY <1>0, <1>1, <2>1
  <2> QED
    BY <1>4, <2>1, <2>2
<1>7. Head(l) \in ToSet(l) /\ ToSet(l) \subseteq S
  BY <1>0, <1>4
<1> QED
  BY <1>1, <1>3, <1>5, <1>6, <1>7

\* The head of a sorted list has the greatest key.
LEMMA SortHead ==
  ASSUME NEW S, NEW l \in Seq(S), NEW key, \A x \in S : key[x] \in Int, NEW u \in ToSet(l)
  PROVE  key[u] <= key[Head(list_sort(l, key))]
<1> DEFINE r == list_sort(l, key)
<1>1. /\ r \in Seq(S) /\ Len(r) = Len(l) /\ ToSet(r) = ToSet(l)
      /\ \A k, m \in 1..Len(l) : k < m => key[r[m]] <= key[r[k]]
  BY SortPermutes
<1> HIDE DEF r
<1>2. DOMAIN r = 1..Len(l) /\ Len(l) \in Nat
  BY <1>1
<1>3. PICK m \in 1..Len(l) : u = r[m]
  BY <1>1, <1>2 DEF ToSet
<1>4. Head(r) = r[1] /\ 1 \in 1..Len(l) /\ r[1] \in S
  BY <1>1, <1>2, <1>3
<1>5. CASE m = 1
  BY <1>3, <1>4, <1>5 DEF r
<1>6. CASE 1 < m
  BY <1>1, <1>3, <1>4, <1>6 DEF r
<1> QED
  BY <1>2, <1>3, <1>5, <1>6

\* An arrangement of a set has each member once.
LEMMA Arrangement ==
  ASSUME NEW S, IsFiniteSet(S), NEW q \in SetToSeqs(S)
  PROVE  q \in Seq(S) /\ IsInjective(q) /\ ToSet(q) = S
<1> DEFINE n == Cardinality(S)
<1>1. n \in Nat
  BY FS_CardinalityType
<1>2. q \in [1..n -> S] /\ \A i, j \in 1..n : q[i] = q[j] => i = j
  BY DEF SetToSeqs
<1>3. IsFiniteSet(1..n) /\ Cardinality(1..n) = n
  BY <1>1, FS_Interval
<1> HIDE DEF n
<1>4. q \in Injection(1..n, S)
  BY <1>2 DEF Injection, IsInjective
<1>5. q \in Surjection(1..n, S)
  BY <1>3, <1>4, FS_Injection DEF n
<1>6. ToSet(q) = S
  BY <1>2, <1>5 DEF Surjection, ToSet
<1>7. q \in Seq(S)
  BY <1>1, <1>2
<1> QED
  BY <1>2, <1>6, <1>7 DEF IsInjective

\* A list in which each element is once is as long as there are elements in it.
LEMMA QueueLength ==
  ASSUME NEW S, NEW q \in Seq(S), IsInjective(q)
  PROVE  IsFiniteSet(ToSet(q)) /\ Cardinality(ToSet(q)) = Len(q) /\ Len(q) \in Nat
<1> DEFINE n == Len(q)
<1>1. n \in Nat /\ DOMAIN q = 1..n /\ q \in [1..n -> S]
  OBVIOUS
<1>2. IsFiniteSet(1..n) /\ Cardinality(1..n) = n
  BY <1>1, FS_Interval
<1>3. ToSet(q) = {q[i] : i \in 1..n}
  BY <1>1 DEF ToSet
<1>4. \A i, j \in 1..n : q[i] = q[j] => i = j
  BY <1>1 DEF IsInjective
<1> HIDE DEF n
<1>5. q \in [1..n -> ToSet(q)]
  BY <1>1, <1>3
<1>6. q \in Bijection(1..n, ToSet(q))
  BY <1>3, <1>4, <1>5 DEF Bijection, Injection, Surjection, IsInjective
<1>7. Cardinality(ToSet(q)) = n /\ IsFiniteSet(ToSet(q))
  BY <1>2, <1>6, FS_Bijection DEF ExistsBijection
<1> QED
  BY <1>1, <1>7 DEF n
=============================================================================
