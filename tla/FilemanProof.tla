---------------------------- MODULE FilemanProof ----------------------------
(***************************************************************************)
(* Theorems about Fileman.                                                 *)
(***************************************************************************)
EXTENDS Fileman, SequenceTheorems, WellFoundedInduction, TLAPS

----------------------------------------------------------------------------
(* Least and greatest members *)

\* A set of numbers has a least one, which Min() returns.
LEMMA MinOf ==
  ASSUME NEW S \in SUBSET Nat, S # {}
  PROVE  Min(S) \in S /\ \A k \in S : Min(S) <= k
<1>1. PICK i \in S : \A k \in S : <<k, i>> \notin OpToRel(<, Nat)
  BY NatLessThanWellFounded, WFMin
<1>2. \A k \in S : ~(k < i)
  BY <1>1 DEF OpToRel
<1>3. \A k \in S : i <= k
  BY <1>2
<1> QED
  BY <1>3 DEF Min

\* A set of numbers with a bound has a greatest one, which Max() returns.
LEMMA MaxOf ==
  ASSUME NEW S \in SUBSET Nat, S # {}, NEW n \in Nat, \A k \in S : k <= n
  PROVE  Max(S) \in S /\ \A k \in S : k <= Max(S)
<1> DEFINE B == {b \in Nat : \A k \in S : k <= b}
<1>1. Min(B) \in B /\ \A b \in B : Min(B) <= b
  <2>1. B \in SUBSET Nat /\ n \in B
    OBVIOUS
  <2> QED
    BY <2>1, MinOf
<1> DEFINE m == Min(B)
<1> HIDE DEF m
<1>2. m \in Nat /\ (\A k \in S : k <= m) /\ \A b \in Nat : (\A k \in S : k <= b) => m <= b
  BY <1>1 DEF m
<1>3. m \in S
  <2>1. SUFFICES ASSUME m \notin S
                 PROVE  FALSE
    OBVIOUS
  <2>2. \A k \in S : k <= m - 1
    BY <1>2, <2>1
  <2>3. m # 0
    <3>1. PICK k \in S : TRUE
      OBVIOUS
    <3> QED
      BY <1>2, <2>2, <3>1
  <2>4. m - 1 \in Nat
    BY <1>2, <2>3
  <2> QED
    BY <1>2, <2>2, <2>4
<1> QED
  BY <1>2, <1>3 DEF Max

----------------------------------------------------------------------------
(* Trees *)

LEMMA TreeRows ==
  ASSUME NEW rows, IsTree(rows)
  PROVE  /\ Len(rows) \in Nat /\ \A i \in 1..Len(rows) : rows[i] \in 0..MaxLevel /\ rows[i] \in Nat
         /\ Len(rows) # 0 => rows[1] = 0
         /\ \A i \in 2..Len(rows) : rows[i] <= rows[i - 1] + 1
<1>1. rows \in Seq(0..MaxLevel)
  BY DEF IsTree
<1>2. Len(rows) \in Nat /\ rows \in [1..Len(rows) -> 0..MaxLevel]
  BY <1>1, LenProperties
<1>3. ASSUME NEW i \in 1..Len(rows)
      PROVE  rows[i] \in 0..MaxLevel /\ rows[i] \in Nat
  <2>1. rows[i] \in 0..MaxLevel
    BY <1>2
  <2>2. \A r \in 0..MaxLevel : r \in Nat
    BY DEF MaxLevel
  <2> QED
    BY <2>1, <2>2
<1>4. Len(rows) # 0 => rows # <<>>
  BY <1>1
<1> QED
  BY <1>2, <1>3, <1>4 DEF IsTree

\* The directory an entry is in comes before it, and nothing between the two is
\* above the entry.
LEMMA ParentIs ==
  ASSUME NEW rows, IsTree(rows), NEW e \in 1..Len(rows)
  PROVE  /\ Parent(rows, e) \in 0..(e - 1)
         /\ Parent(rows, e) # 0 => rows[Parent(rows, e)] < rows[e]
         /\ \A k \in (Parent(rows, e) + 1)..(e - 1) : rows[k] >= rows[e]
<1> DEFINE S == {0} \cup {k \in 1..(e - 1) : rows[k] < rows[e]}
<1>1. Len(rows) \in Nat /\ \A k \in 1..Len(rows) : rows[k] \in Nat
  BY TreeRows
<1>2. S \in SUBSET Nat /\ S # {} /\ e - 1 \in Nat /\ \A k \in S : k <= e - 1
  OBVIOUS
<1>3. Max(S) \in S /\ \A k \in S : k <= Max(S)
  BY <1>2, MaxOf
<1>4. Parent(rows, e) = Max(S)
  BY DEF Parent
<1> DEFINE m == Max(S)
<1> HIDE DEF m
<1>5. m \in S /\ \A k \in S : k <= m
  BY <1>3 DEF m
<1>6. \A k \in (m + 1)..(e - 1) : rows[k] >= rows[e]
  BY <1>1, <1>5
<1> QED
  BY <1>4, <1>5, <1>6 DEF m

\* An entry is one level below the directory it is in.
LEMMA ParentRow ==
  ASSUME NEW rows, IsTree(rows), NEW e \in 1..Len(rows)
  PROVE  /\ Parent(rows, e) = 0 => rows[e] = 0
         /\ Parent(rows, e) # 0 => rows[e] = rows[Parent(rows, e)] + 1
<1> DEFINE d == Parent(rows, e)
<1>1. /\ Len(rows) \in Nat /\ \A k \in 1..Len(rows) : rows[k] \in Nat
      /\ rows[1] = 0 /\ \A k \in 2..Len(rows) : rows[k] <= rows[k - 1] + 1
  BY TreeRows
<1>2. /\ d \in 0..(e - 1) /\ (d # 0 => rows[d] < rows[e])
      /\ \A k \in (d + 1)..(e - 1) : rows[k] >= rows[e]
  BY ParentIs
<1> HIDE DEF d
<1>3. rows[d + 1] >= rows[e]
  BY <1>1, <1>2
<1>4. CASE d = 0
  BY <1>1, <1>2, <1>3, <1>4 DEF d
<1>5. CASE d # 0
  <2>1. rows[d + 1] <= rows[d] + 1
    <3>1. d + 1 \in 2..Len(rows) /\ (d + 1) - 1 = d
      BY <1>1, <1>2, <1>5
    <3> QED
      BY <1>1, <3>1
  <2>2. rows[d] \in Nat /\ rows[d + 1] \in Nat /\ rows[e] \in Nat
    BY <1>1, <1>2, <1>5
  <2> QED
    BY <1>2, <1>3, <1>5, <2>1, <2>2 DEF d
<1> QED
  BY <1>4, <1>5

\* Entries of one directory, and what is between them.
LEMMA Siblings ==
  ASSUME NEW rows, IsTree(rows), NEW a \in 1..Len(rows), NEW b \in 1..Len(rows),
         Parent(rows, a) = Parent(rows, b)
  PROVE  rows[a] = rows[b]
BY ParentRow

\* At each level above an entry's there is one directory it is in.
LEMMA OneAncestor ==
  ASSUME NEW rows, IsTree(rows), NEW e \in 1..Len(rows), NEW k \in Nat, k < rows[e]
  PROVE  /\ \E m \in Ancestors(rows, e) \ {e} : rows[m] = k
         /\ \A m, n \in Ancestors(rows, e) : rows[m] = k /\ rows[n] = k => m = n
<1>1. /\ Len(rows) \in Nat /\ \A i \in 1..Len(rows) : rows[i] \in Nat
      /\ rows[1] = 0 /\ \A i \in 2..Len(rows) : rows[i] <= rows[i - 1] + 1
  BY TreeRows
<1> DEFINE S == {i \in 1..e : rows[i] <= k}
<1>2. S \in SUBSET Nat /\ 1 \in S /\ e \in Nat /\ \A i \in S : i <= e
  BY <1>1
<1> DEFINE m == Max(S)
<1>3. m \in S /\ \A i \in S : i <= m
  BY <1>2, MaxOf
<1> HIDE DEF m
<1>4. m \in 1..e /\ rows[m] <= k /\ m # e
  <2>1. m \in 1..e /\ rows[m] <= k
    BY <1>3
  <2>2. rows[e] \in Nat /\ ~(rows[e] <= k)
    BY <1>1
  <2> QED
    BY <2>1, <2>2
<1>5. ASSUME NEW i \in (m + 1)..e
      PROVE  rows[i] > k
  <2>1. i \in 1..e /\ ~(i <= m) /\ rows[i] \in Nat
    BY <1>1, <1>4
  <2> QED
    BY <1>3, <2>1
<1>6. rows[m] = k
  <2>1. m + 1 \in 2..Len(rows) /\ (m + 1) - 1 = m /\ m + 1 \in (m + 1)..e
    BY <1>1, <1>4
  <2>2. rows[m + 1] <= rows[m] + 1 /\ rows[m + 1] > k /\ rows[m] \in Nat /\ rows[m + 1] \in Nat
    BY <1>1, <1>4, <1>5, <2>1
  <2> QED
    BY <1>4, <2>2
<1>7. m \in Ancestors(rows, e) \ {e}
  BY <1>4, <1>5, <1>6 DEF Ancestors
<1>8. ASSUME NEW i \in Ancestors(rows, e), NEW j \in Ancestors(rows, e), rows[i] = k, rows[j] = k
      PROVE  i = j
  BY <1>8 DEF Ancestors
<1> QED
  BY <1>6, <1>7, <1>8

\* The directories an entry is in are its directory, and those that is in.
LEMMA AncestorsOfEntry ==
  ASSUME NEW rows, IsTree(rows), NEW b \in 1..Len(rows), NEW m \in Ancestors(rows, b) \ {b}
  PROVE  /\ Parent(rows, b) # 0
         /\ m \in Ancestors(rows, Parent(rows, b))
         /\ m \in 1..(b - 1) /\ rows[m] < rows[b]
<1>1. Len(rows) \in Nat /\ \A i \in 1..Len(rows) : rows[i] \in Nat
  BY TreeRows
<1> DEFINE d == Parent(rows, b)
<1>2. /\ d \in 0..(b - 1) /\ \A k \in (d + 1)..(b - 1) : rows[k] >= rows[b]
  BY ParentIs
<1> HIDE DEF d
<1>3. m \in 1..(b - 1) /\ \A i \in (m + 1)..b : rows[i] > rows[m]
  BY DEF Ancestors
<1>4. rows[m] < rows[b]
  BY <1>1, <1>3
<1>5. m <= d
  BY <1>1, <1>2, <1>3, <1>4
<1>6. d \in 1..(b - 1) /\ m \in 1..d /\ \A i \in (m + 1)..d : rows[i] > rows[m]
  BY <1>2, <1>3, <1>5
<1>7. m \in Ancestors(rows, d)
  BY <1>6 DEF Ancestors
<1> QED
  BY <1>3, <1>4, <1>6, <1>7 DEF d

----------------------------------------------------------------------------
(* What a view has still to draw *)

\* A sequence without its last element.
LEMMA FrontIs ==
  ASSUME NEW S, NEW s \in Seq(S), s # <<>>
  PROVE  /\ Front(s) \in Seq(S) /\ Len(Front(s)) = Len(s) - 1
         /\ \A j \in 1..(Len(s) - 1) : Front(s)[j] = s[j]
<1> DEFINE f == Front(s)
<1>1. Len(s) \in Nat \ {0} /\ s \in [1..Len(s) -> S]
  BY LenProperties, EmptySeq
<1>2. f \in Seq(S) /\ Len(f) = Len(s) - 1 /\ \A j \in 1..(Len(s) - 1) : f[j] = s[j]
  <2>1. f = SubSeq(s, 1, Len(s) - 1)
    BY DEF Front
  <2>2. \A i \in 1..(Len(s) - 1) : s[i] \in S
    BY <1>1
  <2>3. /\ SubSeq(s, 1, Len(s) - 1) \in Seq(S)
        /\ Len(SubSeq(s, 1, Len(s) - 1)) = IF 1 <= Len(s) - 1 THEN (Len(s) - 1) - 1 + 1 ELSE 0
        /\ \A i \in 1..((Len(s) - 1) - 1 + 1) : SubSeq(s, 1, Len(s) - 1)[i] = s[1 + i - 1]
    BY <1>1, <2>2, SubSeqProperties
  <2> QED
    BY <1>1, <2>1, <2>3
<1> QED
  BY <1>2

\* A sequence whose last element is replaced.
LEMMA LastReplaced ==
  ASSUME NEW S, NEW s \in Seq(S), s # <<>>, NEW x \in S
  PROVE  /\ Append(Front(s), x) \in Seq(S)
         /\ Len(Append(Front(s), x)) = Len(s) /\ Len(s) \in Nat \ {0}
         /\ Append(Front(s), x)[Len(s)] = x
         /\ \A j \in 1..(Len(s) - 1) : Append(Front(s), x)[j] = s[j]
<1> DEFINE f == Front(s)
<1>1. Len(s) \in Nat \ {0}
  BY EmptySeq
<1>2. f \in Seq(S) /\ Len(f) = Len(s) - 1 /\ \A j \in 1..(Len(s) - 1) : f[j] = s[j]
  BY FrontIs
<1> HIDE DEF f
<1>3. /\ Append(f, x) \in Seq(S) /\ Len(Append(f, x)) = Len(f) + 1
      /\ \A i \in 1..Len(f) : Append(f, x)[i] = f[i]
      /\ Append(f, x)[Len(f) + 1] = x
  BY <1>2, AppendProperties
<1> QED
  BY <1>1, <1>2, <1>3 DEF f

\* The entries at each of the levels that are open, none of which has been drawn,
\* in a view that has drawn those of D: the deeper ones come first, and of a
\* directory those from one on are left.
StackOK(rows, st, D) ==
  /\ st \in Seq(SUBSET (1..Len(rows)))
  /\ D \subseteq 1..Len(rows)
  /\ \A i \in 1..Len(st) : \A a \in st[i] :
       /\ rows[a] = i - 1
       /\ \A d \in D : d < a
       /\ Parent(rows, a) \in D \cup {0}
       /\ \A b \in 1..Len(rows) : a < b /\ Parent(rows, b) = Parent(rows, a) => b \in st[i]
       /\ \A b \in st[i] : Parent(rows, b) = Parent(rows, a)
  /\ \A i, j \in 1..Len(st) : i < j => \A a \in st[i], b \in st[j] : b < a

LEMMA StackFirst ==
  ASSUME NEW rows, IsTree(rows)
  PROVE  StackOK(rows, <<Entries(rows, 0)>>, {})
<1> DEFINE s == Entries(rows, 0)
<1>1. s \in SUBSET (1..Len(rows)) /\ \A b \in 1..Len(rows) : b \in s <=> Parent(rows, b) = 0
  BY DEF Entries
<1>2. \A a \in s : rows[a] = 0
  BY <1>1, ParentRow
<1> HIDE DEF s
<1>3. <<s>> \in Seq(SUBSET (1..Len(rows))) /\ Len(<<s>>) = 1 /\ <<s>>[1] = s
  BY <1>1
<1> QED
  BY <1>1, <1>2, <1>3 DEF StackOK, s

\* The entry that a turn draws, and its directory's that are left.
LEMMA StackTurn ==
  ASSUME NEW rows, IsTree(rows), NEW st, NEW D, StackOK(rows, st, D), st # <<>>, Last(st) # {}
  PROVE  LET e == Min(Last(st))
             rest == Append(Front(st), Last(st) \ {e})
         IN /\ e \in 1..Len(rows) /\ rows[e] = Len(st) - 1 /\ Len(st) \in Nat \ {0}
            /\ \A d \in D : d < e
            /\ Parent(rows, e) \in D \cup {0}
            /\ Last(st) = {e} <=> LastOfDir(rows, e)
            /\ StackOK(rows, rest, D \cup {e})
            /\ Len(rest) = Len(st) /\ \A i \in 1..Len(st) : rest[i] \subseteq st[i]
<1> DEFINE L == Len(st)
           e == Min(Last(st))
           rest == Append(Front(st), Last(st) \ {e})
<1>1. L \in Nat \ {0} /\ st \in Seq(SUBSET (1..Len(rows))) /\ Last(st) = st[L] /\ Len(rows) \in Nat
      /\ st[L] \in SUBSET (1..Len(rows))
  <2>1. st \in Seq(SUBSET (1..Len(rows)))
    BY DEF StackOK
  <2>2. L \in Nat \ {0} /\ st \in [1..L -> SUBSET (1..Len(rows))]
    BY <2>1, LenProperties, EmptySeq
  <2> QED
    BY <2>1, <2>2, TreeRows DEF Last
<1>2. e \in st[L] /\ \A a \in st[L] : e <= a
  <2>1. Last(st) \in SUBSET Nat
    BY <1>1
  <2> QED
    BY <1>1, <2>1, MinOf
<1> HIDE DEF e
<1>3. /\ rest \in Seq(SUBSET (1..Len(rows))) /\ Len(rest) = L /\ rest[L] = st[L] \ {e}
      /\ \A j \in 1..(L - 1) : rest[j] = st[j]
  <2>1. Last(st) \ {e} \in SUBSET (1..Len(rows))
    BY <1>1
  <2> QED
    BY <1>1, <2>1, LastReplaced
<1> HIDE DEF rest, L
<1>4. e \in 1..Len(rows) /\ rows[e] = L - 1 /\ (\A d \in D : d < e) /\ Parent(rows, e) \in D \cup {0}
  BY <1>1, <1>2 DEF StackOK, L
<1>5. Last(st) = {e} <=> LastOfDir(rows, e)
  <2> DEFINE E == Entries(rows, Parent(rows, e))
  <2>1. E \in SUBSET Nat /\ e \in E /\ \A b \in 1..Len(rows) : b \in E <=> Parent(rows, b) = Parent(rows, e)
    BY <1>4 DEF Entries
  <2>2. \A b \in E : b \in 1..Len(rows) /\ b <= Len(rows)
    BY <1>1 DEF Entries
  <2>3. Max(E) \in E /\ \A b \in E : b <= Max(E)
    BY <1>1, <2>1, <2>2, MaxOf
  <2>4. \A b \in 1..Len(rows) : b \in st[L] <=> b \in E /\ e <= b
    <3>1. \A b \in st[L] : b \in 1..Len(rows) /\ Parent(rows, b) = Parent(rows, e) /\ e <= b
      BY <1>1, <1>2 DEF StackOK, L
    <3>2. \A b \in 1..Len(rows) : e < b /\ Parent(rows, b) = Parent(rows, e) => b \in st[L]
      BY <1>1, <1>2 DEF StackOK, L
    <3> QED
      BY <1>2, <1>4, <2>1, <3>1, <3>2
  <2>5. LastOfDir(rows, e) <=> e = Max(E)
    BY DEF LastOfDir
  <2> DEFINE m == Max(E)
  <2>6. m \in E /\ (\A b \in E : b <= m) /\ m \in 1..Len(rows)
    BY <2>2, <2>3
  <2> HIDE DEF E, m
  <2>7. ASSUME e = m
        PROVE  st[L] = {e}
    <3>1. \A b \in st[L] : b = e
      BY <1>1, <1>4, <2>4, <2>6, <2>7
    <3> QED
      BY <1>2, <3>1
  <2>8. ASSUME st[L] = {e}
        PROVE  e = m
    BY <1>4, <2>1, <2>4, <2>6, <2>8
  <2> QED
    BY <1>1, <2>5, <2>7, <2>8 DEF m
<1>6. StackOK(rows, rest, D \cup {e})
  <2>1. ASSUME NEW i \in 1..L, NEW a \in rest[i]
        PROVE  /\ a \in st[i] /\ a # e
               /\ rows[a] = i - 1
               /\ \A d \in D \cup {e} : d < a
               /\ Parent(rows, a) \in D \cup {0}
               /\ \A b \in 1..Len(rows) : a < b /\ Parent(rows, b) = Parent(rows, a) => b \in rest[i]
               /\ \A b \in rest[i] : Parent(rows, b) = Parent(rows, a)
    <3>1. a \in st[i] /\ rest[i] \subseteq st[i] /\ (i = L => rest[i] = st[i] \ {e}) /\ (i # L => rest[i] = st[i])
      BY <1>1, <1>3, <2>1
    <3>2. /\ rows[a] = i - 1
          /\ \A d \in D : d < a
          /\ Parent(rows, a) \in D \cup {0}
          /\ \A b \in 1..Len(rows) : a < b /\ Parent(rows, b) = Parent(rows, a) => b \in st[i]
          /\ \A b \in st[i] : Parent(rows, b) = Parent(rows, a)
          /\ a \in 1..Len(rows)
      BY <3>1 DEF StackOK, L
    <3>3. e < a
      <4>1. CASE i = L
        BY <1>2, <1>4, <2>1, <3>1, <3>2, <4>1
      <4>2. CASE i # L
        BY <1>1, <1>2, <3>1, <4>2 DEF StackOK, L
      <4> QED
        BY <4>1, <4>2
    <3>4. \A b \in 1..Len(rows) : a < b /\ Parent(rows, b) = Parent(rows, a) => b \in rest[i]
      <4> SUFFICES ASSUME NEW b \in 1..Len(rows), a < b, Parent(rows, b) = Parent(rows, a)
                   PROVE  b \in rest[i]
        OBVIOUS
      <4>1. b \in st[i] /\ b # e
        BY <1>4, <3>2, <3>3
      <4> QED
        BY <3>1, <4>1
    <3> QED
      BY <3>1, <3>2, <3>3, <3>4
  <2>2. ASSUME NEW i \in 1..L, NEW j \in 1..L, i < j, NEW a \in rest[i], NEW b \in rest[j]
        PROVE  b < a
    <3>1. a \in st[i] /\ b \in st[j]
      BY <2>1, <2>2
    <3> QED
      BY <2>2, <3>1 DEF StackOK, L
  <2>3. D \cup {e} \subseteq 1..Len(rows)
    BY <1>4 DEF StackOK
  <2> QED
    BY <1>3, <2>1, <2>2, <2>3 DEF StackOK
<1>7. \A i \in 1..L : rest[i] \subseteq st[i]
  BY <1>1, <1>3
<1> QED
  BY <1>1, <1>3, <1>4, <1>5, <1>6, <1>7 DEF e, rest, L

\* The call for the directory that a turn has drawn.
LEMMA StackCall ==
  ASSUME NEW rows, IsTree(rows), NEW st, NEW D, NEW e \in D,
         StackOK(rows, st, D), st # <<>>, rows[e] = Len(st) - 1, \A d \in D : d <= e
  PROVE  /\ StackOK(rows, Append(st, Entries(rows, e)), D)
         /\ Len(Append(st, Entries(rows, e))) = Len(st) + 1
         /\ \A i \in 1..Len(st) : Append(st, Entries(rows, e))[i] = st[i]
         /\ Append(st, Entries(rows, e))[Len(st) + 1] = Entries(rows, e)
<1> DEFINE L == Len(st)
           E == Entries(rows, e)
           n == Append(st, E)
<1>1. /\ st \in Seq(SUBSET (1..Len(rows))) /\ L \in Nat \ {0} /\ Len(rows) \in Nat
      /\ e \in 1..Len(rows) /\ D \subseteq 1..Len(rows)
      /\ \A i \in 1..L : st[i] \subseteq 1..Len(rows)
  <2>1. st \in Seq(SUBSET (1..Len(rows))) /\ e \in 1..Len(rows) /\ D \subseteq 1..Len(rows)
    BY DEF StackOK
  <2>2. L \in Nat \ {0} /\ st \in [1..L -> SUBSET (1..Len(rows))]
    BY <2>1, LenProperties, EmptySeq
  <2> QED
    BY <2>1, <2>2, TreeRows
<1>2. E \in SUBSET (1..Len(rows)) /\ \A b \in 1..Len(rows) : b \in E <=> Parent(rows, b) = e
  BY DEF Entries
<1>3. ASSUME NEW b \in E
      PROVE  b \in 1..Len(rows) /\ e < b /\ rows[b] = L /\ \A k \in (e + 1)..(b - 1) : rows[k] >= L
  <2>1. b \in 1..Len(rows) /\ Parent(rows, b) = e /\ e # 0
    BY <1>1, <1>2, <1>3
  <2>2. e \in 0..(b - 1) /\ \A k \in (e + 1)..(b - 1) : rows[k] >= rows[b]
    BY <2>1, ParentIs
  <2>3. rows[b] = rows[e] + 1
    BY <2>1, ParentRow
  <2> QED
    BY <1>1, <2>1, <2>2, <2>3
<1> HIDE DEF E
<1>4. /\ n \in Seq(SUBSET (1..Len(rows))) /\ Len(n) = L + 1 /\ n[L + 1] = E
      /\ \A i \in 1..L : n[i] = st[i]
  BY <1>1, <1>2, AppendProperties
<1> HIDE DEF n, L
<1>5. ASSUME NEW i \in 1..(L + 1), NEW a \in n[i]
      PROVE  /\ rows[a] = i - 1
             /\ \A d \in D : d < a
             /\ Parent(rows, a) \in D \cup {0}
             /\ \A b \in 1..Len(rows) : a < b /\ Parent(rows, b) = Parent(rows, a) => b \in n[i]
             /\ \A b \in n[i] : Parent(rows, b) = Parent(rows, a)
  <2>1. CASE i = L + 1
    <3>1. n[i] = E /\ a \in 1..Len(rows) /\ Parent(rows, a) = e /\ e < a /\ rows[a] = L
      BY <1>2, <1>3, <1>4, <1>5, <2>1
    <3>2. \A d \in D : d < a
      BY <1>1, <3>1
    <3>3. L = i - 1
      BY <1>1, <2>1
    <3> QED
      BY <1>2, <3>1, <3>2, <3>3
  <2>2. CASE i # L + 1
    <3>1. i \in 1..L /\ n[i] = st[i]
      BY <1>1, <1>4, <2>2
    <3> QED
      BY <1>5, <3>1 DEF StackOK, L
  <2> QED
    BY <2>1, <2>2
<1>6. ASSUME NEW i \in 1..(L + 1), NEW j \in 1..(L + 1), i < j, NEW a \in n[i], NEW b \in n[j]
      PROVE  b < a
  <2>1. i \in 1..L /\ a \in st[i]
    BY <1>1, <1>4, <1>6
  <2>2. CASE j = L + 1
    <3>1. b \in E /\ a \in 1..Len(rows) /\ e < a /\ rows[a] = i - 1
      BY <1>1, <1>4, <1>6, <2>1, <2>2 DEF StackOK, L
    <3>2. b \in 1..Len(rows) /\ e < b /\ rows[b] = L /\ \A k \in (e + 1)..(b - 1) : rows[k] >= L
      BY <1>3, <3>1
    <3> QED
      BY <1>1, <2>1, <3>1, <3>2
  <2>3. CASE j # L + 1
    <3>1. j \in 1..L /\ b \in st[j]
      BY <1>1, <1>4, <1>6, <2>3
    <3> QED
      BY <1>6, <2>1, <3>1 DEF StackOK, L
  <2> QED
    BY <2>2, <2>3
<1>7. StackOK(rows, n, D)
  BY <1>1, <1>4, <1>5, <1>6 DEF StackOK
<1> QED
  BY <1>4, <1>7 DEF n, L, E

\* The end of a loop.
LEMMA StackReturn ==
  ASSUME NEW rows, NEW st, NEW D, StackOK(rows, st, D), st # <<>>
  PROVE  /\ StackOK(rows, Front(st), D)
         /\ Len(Front(st)) \in Nat /\ Len(Front(st)) = Len(st) - 1
         /\ \A i \in 1..Len(Front(st)) : i \in 1..Len(st) /\ Front(st)[i] = st[i]
<1> DEFINE f == Front(st)
<1>1. st \in Seq(SUBSET (1..Len(rows))) /\ Len(st) \in Nat \ {0}
  <2>1. st \in Seq(SUBSET (1..Len(rows)))
    BY DEF StackOK
  <2> QED
    BY <2>1, EmptySeq
<1>2. f \in Seq(SUBSET (1..Len(rows))) /\ Len(f) = Len(st) - 1 /\ \A j \in 1..(Len(st) - 1) : f[j] = st[j]
  BY <1>1, FrontIs
<1> HIDE DEF f
<1>3. \A i \in 1..Len(f) : i \in 1..Len(st) /\ f[i] = st[i]
  BY <1>1, <1>2
<1>4. StackOK(rows, f, D)
  <2>1. /\ D \subseteq 1..Len(rows)
        /\ \A i \in 1..Len(st) : \A a \in st[i] :
             /\ rows[a] = i - 1
             /\ \A d \in D : d < a
             /\ Parent(rows, a) \in D \cup {0}
             /\ \A b \in 1..Len(rows) : a < b /\ Parent(rows, b) = Parent(rows, a) => b \in st[i]
             /\ \A b \in st[i] : Parent(rows, b) = Parent(rows, a)
    BY DEF StackOK
  <2>2. \A i, j \in 1..Len(f) : i < j => \A a \in f[i], b \in f[j] : b < a
    BY <1>3 DEF StackOK
  <2>3. \A i \in 1..Len(f) : \A a \in f[i] :
             /\ rows[a] = i - 1
             /\ \A d \in D : d < a
             /\ Parent(rows, a) \in D \cup {0}
             /\ \A b \in 1..Len(rows) : a < b /\ Parent(rows, b) = Parent(rows, a) => b \in f[i]
             /\ \A b \in f[i] : Parent(rows, b) = Parent(rows, a)
    BY <1>3, <2>1
  <2> QED
    BY <1>2, <2>1, <2>2, <2>3 DEF StackOK
<1> QED
  BY <1>1, <1>2, <1>3, <1>4 DEF f

----------------------------------------------------------------------------
(* What a view has drawn *)

Ents(dr) == {dr[i].entry : i \in 1..Len(dr)}

\* The entries are in their order, each below its directory.
DrawnOK(rows, dr, S) ==
  /\ dr \in Seq(S)
  /\ \A i \in 1..Len(dr) :
       /\ dr[i].entry \in 1..Len(rows)
       /\ \A j \in 1..(i - 1) : dr[j].entry < dr[i].entry
       /\ \/ Parent(rows, dr[i].entry) = 0
          \/ \E j \in 1..(i - 1) : dr[j].entry = Parent(rows, dr[i].entry)

LEMMA DrawnMore ==
  ASSUME NEW rows, NEW S, NEW dr, DrawnOK(rows, dr, S), NEW l \in S,
         l.entry \in 1..Len(rows), \A d \in Ents(dr) : d < l.entry,
         Parent(rows, l.entry) \in Ents(dr) \cup {0}
  PROVE  /\ DrawnOK(rows, Append(dr, l), S)
         /\ Ents(Append(dr, l)) = Ents(dr) \cup {l.entry}
         /\ Len(dr) \in Nat /\ Len(Append(dr, l)) = Len(dr) + 1
         /\ \A i \in 1..Len(dr) : Append(dr, l)[i] = dr[i]
         /\ Append(dr, l)[Len(dr) + 1] = l
<1> DEFINE n == Append(dr, l)
           k == Len(dr)
<1>1. dr \in Seq(S)
  BY DEF DrawnOK
<1>2. k \in Nat
  BY <1>1, LenProperties
<1>3. n \in Seq(S) /\ Len(n) = k + 1 /\ (\A i \in 1..k : n[i] = dr[i]) /\ n[k + 1] = l
  BY <1>1, AppendProperties
<1> HIDE DEF n, k
<1>4. Ents(n) = Ents(dr) \cup {l.entry}
  <2>1. \A x : x \in Ents(n) <=> \E i \in 1..(k + 1) : x = n[i].entry
    BY <1>3 DEF Ents
  <2>2. \A x : x \in Ents(dr) <=> \E i \in 1..k : x = dr[i].entry
    BY DEF Ents, k
  <2>3. \A i \in 1..(k + 1) : i \in 1..k \/ i = k + 1
    BY <1>2
  <2>4. \A i \in 1..k : i \in 1..(k + 1)
    BY <1>2
  <2>5. k + 1 \in 1..(k + 1)
    BY <1>2
  <2>6. \A x : x \in Ents(n) <=> x \in Ents(dr) \/ x = l.entry
    BY <1>3, <2>1, <2>2, <2>3, <2>4, <2>5
  <2> QED
    BY <2>6
<1>5. ASSUME NEW i \in 1..(k + 1)
      PROVE  /\ n[i].entry \in 1..Len(rows)
             /\ \A j \in 1..(i - 1) : n[j].entry < n[i].entry
             /\ \/ Parent(rows, n[i].entry) = 0
                \/ \E j \in 1..(i - 1) : n[j].entry = Parent(rows, n[i].entry)
  <2>1. CASE i = k + 1
    <3>1. n[i] = l /\ i - 1 = k
      BY <1>2, <1>3, <2>1
    <3>2. \A j \in 1..k : n[j].entry \in Ents(dr) /\ n[j].entry < l.entry
      BY <1>3 DEF Ents, k
    <3>3. Parent(rows, l.entry) = 0 \/ \E j \in 1..k : n[j].entry = Parent(rows, l.entry)
      BY <1>3 DEF Ents, k
    <3> QED
      BY <3>1, <3>2, <3>3
  <2>2. CASE i # k + 1
    <3>1. i \in 1..k /\ \A j \in 1..(i - 1) : j \in 1..k
      BY <1>2, <2>2
    <3>2. n[i] = dr[i] /\ \A j \in 1..(i - 1) : n[j] = dr[j]
      BY <1>3, <3>1
    <3> QED
      BY <3>1, <3>2 DEF DrawnOK, k
  <2> QED
    BY <2>1, <2>2
<1>6. DrawnOK(rows, n, S)
  BY <1>3, <1>5 DEF DrawnOK
<1> QED
  BY <1>2, <1>3, <1>4, <1>6 DEF n, k

\* The directory an entry is in is the last before it that is indented less.
Reads(rows, dr, i) ==
  LET less == {k \in 1..(i - 1) : dr[k].indent < dr[i].indent}
  IN Parent(rows, dr[i].entry) = IF less = {} THEN 0 ELSE dr[Max(less)].entry

LEMMA DirRead ==
  ASSUME NEW rows, IsTree(rows), NEW S, NEW dr, DrawnOK(rows, dr, S),
         \A i \in 1..Len(dr) : dr[i].indent = 4 * rows[dr[i].entry] + 4,
         NEW i \in 1..Len(dr)
  PROVE  Reads(rows, dr, i)
<1> DEFINE less == {k \in 1..(i - 1) : dr[k].indent < dr[i].indent}
           e == dr[i].entry
           d == Parent(rows, e)
<1>1. dr \in Seq(S) /\ Len(dr) \in Nat
  <2>1. dr \in Seq(S)
    BY DEF DrawnOK
  <2> QED
    BY <2>1, LenProperties
<1>2. e \in 1..Len(rows) /\ \A k \in 1..(i - 1) : dr[k].entry \in 1..Len(rows) /\ dr[k].entry < e
  BY <1>1 DEF DrawnOK
<1>3. Len(rows) \in Nat /\ \A k \in 1..Len(rows) : rows[k] \in Nat
  BY TreeRows
<1>4. /\ d \in 0..(e - 1) /\ (d # 0 => rows[d] < rows[e])
      /\ \A k \in (d + 1)..(e - 1) : rows[k] >= rows[e]
  BY <1>2, ParentIs
<1>5. \A k \in 1..(i - 1) : k \in less <=> rows[dr[k].entry] < rows[e]
  <2> SUFFICES ASSUME NEW k \in 1..(i - 1)
               PROVE  dr[k].indent < dr[i].indent <=> rows[dr[k].entry] < rows[e]
    OBVIOUS
  <2> DEFINE a == rows[dr[k].entry]
             b == rows[e]
  <2>1. dr[k].indent = 4 * a + 4 /\ dr[i].indent = 4 * b + 4
    BY <1>1
  <2>2. a \in Nat /\ b \in Nat
    BY <1>2, <1>3
  <2> HIDE DEF a, b
  <2>3. dr[k].indent < dr[i].indent <=> a < b
    BY <2>1, <2>2
  <2> QED
    BY <2>3 DEF a, b
<1>6. \A k \in less : dr[k].entry <= d /\ k \in 1..(i - 1)
  <2> SUFFICES ASSUME NEW k \in less
               PROVE  dr[k].entry <= d /\ k \in 1..(i - 1)
    OBVIOUS
  <2>1. k \in 1..(i - 1) /\ rows[dr[k].entry] < rows[e]
    BY <1>5
  <2>2. dr[k].entry \in 1..(e - 1) /\ rows[dr[k].entry] \in Nat /\ rows[e] \in Nat
    BY <1>2, <1>3, <2>1
  <2> DEFINE a == dr[k].entry
  <2>3. a \notin (d + 1)..(e - 1)
    BY <1>4, <2>1, <2>2
  <2>4. d \in Nat /\ e \in Nat /\ a \in 1..(e - 1)
    BY <1>2, <1>3, <1>4, <2>2
  <2> HIDE DEF a, d, e
  <2>5. a <= d
    BY <2>3, <2>4
  <2> QED
    BY <2>1, <2>5 DEF a
<1>7. CASE d = 0
  <2>1. less = {}
    BY <1>2, <1>6, <1>7
  <2> QED
    BY <1>7, <2>1 DEF Reads
<1>8. CASE d # 0
  <2>1. PICK j \in 1..(i - 1) : dr[j].entry = d
    BY <1>8 DEF DrawnOK
  <2>2. j \in less
    BY <1>4, <1>5, <1>8, <2>1
  <2>3. less \in SUBSET Nat /\ i - 1 \in Nat /\ \A k \in less : k <= i - 1
    OBVIOUS
  <2>4. Max(less) \in less /\ \A k \in less : k <= Max(less)
    BY <2>2, <2>3, MaxOf
  <2> DEFINE m == Max(less)
  <2>5. m \in 1..(i - 1) /\ j <= m /\ dr[m].entry <= d
    BY <1>6, <2>2, <2>4
  <2> HIDE DEF m
  <2>6. m = j
    <3>1. SUFFICES ASSUME j < m
                   PROVE  FALSE
      BY <2>5
    <3>2. dr[j].entry < dr[m].entry
      BY <2>1, <2>5, <3>1 DEF DrawnOK
    <3>3. dr[m].entry \in Nat /\ d \in Nat
      BY <1>2, <1>4, <2>5
    <3> QED
      BY <2>1, <2>5, <3>2, <3>3
  <2> QED
    BY <2>1, <2>2, <2>6 DEF m, Reads
<1> QED
  BY <1>7, <1>8

----------------------------------------------------------------------------
(* The views *)

\* A line leads down at each level whose directory has entries left.
Bits(rows, st, bits) ==
  \A i \in 1..Len(st) : \A a \in st[i] : \A m \in Ancestors(rows, a) \ {a} :
    bits[rows[m]] = ~LastOfDir(rows, m)

LineOK(rows, l) ==
  /\ l.lines = {rows[k] : k \in {k \in Ancestors(rows, l.entry) \ {l.entry} : ~LastOfDir(rows, k)}}
  /\ l.elb = LastOfDir(rows, l.entry)

DirLines == [entry : Nat, indent : Nat]
TreeLines == [entry : Nat, lines : SUBSET Nat, elb : BOOLEAN]

DirOK(rows, dr) ==
  /\ DrawnOK(rows, dr, DirLines)
  /\ \A i \in 1..Len(dr) : dr[i].indent = 4 * rows[dr[i].entry] + 4

TreeOK(rows, dr, st, bits) ==
  /\ DrawnOK(rows, dr, TreeLines)
  /\ \A i \in 1..Len(dr) : LineOK(rows, dr[i])
  /\ bits \in [0..MaxLevel -> BOOLEAN]
  /\ Bits(rows, st, bits)

ViewOK(p) ==
  /\ calls[p].op \notin Views => stack[p] = <<>>
  /\ calls[p].op \in Views =>
       /\ StackOK(calls[p].rows, stack[p], Ents(drawn[p]))
       /\ calls[p].op = "dir" => DirOK(calls[p].rows, drawn[p])
       /\ calls[p].op = "tree" => TreeOK(calls[p].rows, drawn[p], stack[p], bitmask[p])

Shape ==
  /\ calls \in Programs
  /\ DOMAIN stack = Procs /\ DOMAIN drawn = Procs /\ DOMAIN bitmask = Procs

ViewInv == Shape /\ \A p \in Procs : ViewOK(p)

LEMMA ViewTree ==
  ASSUME Shape, NEW p \in Procs, calls[p].op \in Views
  PROVE  IsTree(calls[p].rows)
<1>1. Fits(calls[p])
  BY FilemanAssumption DEF Shape, Procs
<1> QED
  BY <1>1 DEF Fits, Views

LEMMA ViewInit == Init => ViewInv
<1> SUFFICES ASSUME Init
             PROVE  ViewInv
  OBVIOUS
<1>1. Shape
  BY DEF Init, Shape, Procs
<1>2. ASSUME NEW p \in Procs, calls[p].op \in Views
      PROVE  ViewOK(p)
  <2> DEFINE rows == calls[p].rows
  <2>1. IsTree(rows)
    BY <1>1, <1>2, ViewTree
  <2>2. /\ stack[p] = <<Entries(rows, 0)>> /\ drawn[p] = <<>>
        /\ bitmask[p] = [k \in 0..MaxLevel |-> FALSE]
    BY <1>2 DEF Init, Procs
  <2>3. StackOK(rows, stack[p], {})
    BY <2>1, <2>2, StackFirst
  <2>4. Ents(<<>>) = {} /\ Len(<<>>) = 0
    BY DEF Ents
  <2>5. \A S : DrawnOK(rows, <<>>, S)
    BY <2>4 DEF DrawnOK
  <2>6. Bits(rows, stack[p], bitmask[p])
    <3> SUFFICES ASSUME NEW i \in 1..Len(stack[p]), NEW a \in stack[p][i], NEW m \in Ancestors(rows, a) \ {a}
                 PROVE  FALSE
      BY DEF Bits
    <3>1. a \in Entries(rows, 0)
      BY <2>2
    <3>2. a \in 1..Len(rows) /\ Parent(rows, a) = 0
      BY <3>1 DEF Entries
    <3> QED
      BY <2>1, <3>2, AncestorsOfEntry
  <2>7. bitmask[p] \in [0..MaxLevel -> BOOLEAN]
    BY <2>2
  <2>8. DirOK(rows, drawn[p])
    BY <2>2, <2>4, <2>5 DEF DirOK
  <2>9. TreeOK(rows, drawn[p], stack[p], bitmask[p])
    BY <2>2, <2>4, <2>5, <2>6, <2>7 DEF TreeOK
  <2> HIDE DEF rows
  <2> QED
    BY <1>2, <2>2, <2>3, <2>4, <2>8, <2>9 DEF ViewOK, rows
<1>3. \A p \in Procs : calls[p].op \notin Views => stack[p] = <<>>
  BY DEF Init, Procs
<1> QED
  BY <1>1, <1>2, <1>3 DEF ViewInv, ViewOK

\* What a turn of a loop does to the entries that are left.
Turned(p, op, line, isDir) ==
  LET rows == calls[p].rows
      e == Entry(p)
  IN /\ calls[p].op = op /\ IsTree(rows)
     /\ e \in 1..Len(rows) /\ rows[e] = Level(p) /\ Level(p) \in 0..MaxLevel
     /\ Len(stack[p]) \in Nat \ {0} /\ e \in stack[p][Len(stack[p])]
     /\ \A d \in Ents(drawn[p]) : d < e
     /\ Parent(rows, e) \in Ents(drawn[p]) \cup {0}
     /\ IsLast(p) <=> LastOfDir(rows, e)
     /\ drawn'[p] = Append(drawn[p], line)
     /\ StackOK(rows, stack'[p], Ents(drawn[p]) \cup {e})
     /\ \A i \in 1..Len(stack'[p]) : \A a \in stack'[p][i] :
          \/ i \in 1..Len(stack[p]) /\ a \in stack[p][i]
          \/ isDir /\ a \in Entries(rows, e)

LEMMA TurnStack ==
  ASSUME Shape, NEW p \in Procs, ViewOK(p), NEW op \in Views, NEW line, NEW isDir \in BOOLEAN,
         Turn(p, op, line, isDir), stack[p] # <<>>, Last(stack[p]) # {}, line.entry = Entry(p)
  PROVE  Turned(p, op, line, isDir)
<1> DEFINE rows == calls[p].rows
           e == Entry(p)
           D == Ents(drawn[p])
           rest == Append(Front(stack[p]), Last(stack[p]) \ {e})
<1>1. calls[p].op = op /\ IsTree(rows) /\ StackOK(rows, stack[p], D)
  <2>1. calls[p].op = op
    BY DEF Turn, At
  <2> QED
    BY <2>1, ViewTree DEF ViewOK
<1>2. /\ e \in 1..Len(rows) /\ rows[e] = Len(stack[p]) - 1 /\ Len(stack[p]) \in Nat \ {0}
      /\ \A d \in D : d < e
      /\ Parent(rows, e) \in D \cup {0}
      /\ Last(stack[p]) = {e} <=> LastOfDir(rows, e)
      /\ StackOK(rows, rest, D \cup {e})
      /\ Len(rest) = Len(stack[p]) /\ \A i \in 1..Len(stack[p]) : rest[i] \subseteq stack[p][i]
  BY <1>1, StackTurn DEF Entry
<1>3. Level(p) \in 0..MaxLevel /\ rows[e] = Level(p)
  BY <1>1, <1>2, TreeRows DEF Level
<1>4. e \in stack[p][Len(stack[p])]
  <2>1. stack[p] \in Seq(SUBSET (1..Len(rows)))
    BY <1>1 DEF StackOK
  <2>2. stack[p][Len(stack[p])] \in SUBSET Nat /\ Last(stack[p]) = stack[p][Len(stack[p])]
    BY <1>2, <2>1, ElementOfSeq DEF Last
  <2> QED
    BY <2>2, MinOf DEF Entry
<1> DEFINE more == Append(rest, Entries(rows, e))
<1>5. /\ drawn'[p] = Append(drawn[p], line)
      /\ \/ stack'[p] = rest
         \/ isDir /\ stack'[p] = more
  BY DEF Shape, Turn
<1>6. StackOK(rows, more, D \cup {e}) /\ Len(more) = Len(rest) + 1 /\ more[Len(rest) + 1] = Entries(rows, e)
      /\ \A i \in 1..Len(rest) : more[i] = rest[i]
  <2>1. rest # <<>>
    BY <1>2
  <2>2. e \in D \cup {e} /\ rows[e] = Len(rest) - 1
    BY <1>2
  <2>3. \A d \in D \cup {e} : d <= e
    <3>1. D \subseteq 1..Len(rows)
      BY <1>1 DEF StackOK
    <3> QED
      BY <1>2, <3>1
  <2> HIDE DEF rest, e, rows, D
  <2> QED
    BY <1>1, <1>2, <2>1, <2>2, <2>3, StackCall
<1>7. StackOK(rows, stack'[p], D \cup {e})
  BY <1>2, <1>5, <1>6
<1>8. ASSUME NEW i \in 1..Len(stack'[p]), NEW a \in stack'[p][i]
      PROVE  \/ i \in 1..Len(stack[p]) /\ a \in stack[p][i]
             \/ isDir /\ a \in Entries(rows, e)
  <2> HIDE DEF rest, e, rows
  <2>1. CASE stack'[p] = rest
    BY <1>2, <1>8, <2>1
  <2>2. CASE isDir /\ stack'[p] = more
    BY <1>2, <1>6, <1>8, <2>2
  <2> QED
    BY <1>5, <2>1, <2>2
<1> QED
  BY <1>1, <1>2, <1>3, <1>4, <1>5, <1>7, <1>8 DEF IsLast, Turned

LEMMA GetDir ==
  ASSUME Shape, NEW p \in Procs, ViewOK(p), get_dir(p)
  PROVE  ViewOK(p)'
<1>1. PICK isDir \in IsDir(calls[p].rows, Entry(p)) :
        Turn(p, "dir", [entry |-> Entry(p), indent |-> 4 * Level(p) + 4], isDir)
  BY DEF get_dir
<1> DEFINE rows == calls[p].rows
           line == [entry |-> Entry(p), indent |-> 4 * Level(p) + 4]
<1>2. isDir \in BOOLEAN /\ "dir" \in Views /\ line.entry = Entry(p) /\ calls' = calls
  BY <1>1 DEF IsDir, Views, Turn
<1>3. /\ calls[p].op = "dir" /\ IsTree(rows)
      /\ Entry(p) \in 1..Len(rows) /\ rows[Entry(p)] = Level(p) /\ Level(p) \in 0..MaxLevel
      /\ \A d \in Ents(drawn[p]) : d < Entry(p)
      /\ Parent(rows, Entry(p)) \in Ents(drawn[p]) \cup {0}
      /\ drawn'[p] = Append(drawn[p], line)
      /\ StackOK(rows, stack'[p], Ents(drawn[p]) \cup {Entry(p)})
  <2>1. stack[p] # <<>> /\ Last(stack[p]) # {} /\ Turn(p, "dir", line, isDir)
    BY <1>1 DEF get_dir
  <2> HIDE DEF line
  <2>2. Turned(p, "dir", line, isDir)
    BY <1>2, <2>1, TurnStack
  <2> QED
    BY <2>2 DEF Turned
<1> DEFINE e == Entry(p)
           k == Level(p)
<1>4. line = [entry |-> e, indent |-> 4 * k + 4] /\ k \in Nat /\ e \in Nat
  BY <1>3
<1>5. DirOK(rows, drawn[p])
  BY <1>2, <1>3 DEF ViewOK
<1> HIDE DEF e, k, line
<1>6. line \in DirLines /\ line.entry = e /\ line.indent = 4 * k + 4
  BY <1>4 DEF DirLines
<1>7. /\ DrawnOK(rows, Append(drawn[p], line), DirLines)
      /\ Ents(Append(drawn[p], line)) = Ents(drawn[p]) \cup {line.entry}
      /\ Len(drawn[p]) \in Nat /\ Len(Append(drawn[p], line)) = Len(drawn[p]) + 1
      /\ \A i \in 1..Len(drawn[p]) : Append(drawn[p], line)[i] = drawn[p][i]
      /\ Append(drawn[p], line)[Len(drawn[p]) + 1] = line
  BY <1>3, <1>5, <1>6, DrawnMore DEF DirOK, e
<1>8. DirOK(rows, drawn'[p])
  <2>1. ASSUME NEW i \in 1..Len(drawn'[p])
        PROVE  drawn'[p][i].indent = 4 * rows[drawn'[p][i].entry] + 4
    <3>1. CASE i = Len(drawn[p]) + 1
      BY <1>3, <1>6, <1>7, <3>1 DEF e, k
    <3>2. CASE i # Len(drawn[p]) + 1
      <4>1. i \in 1..Len(drawn[p]) /\ drawn'[p][i] = drawn[p][i]
        BY <1>3, <1>7, <3>2
      <4> QED
        BY <1>5, <4>1 DEF DirOK
    <3> QED
      BY <3>1, <3>2
  <2> QED
    BY <1>3, <1>7, <2>1 DEF DirOK
<1>9. StackOK(rows, stack'[p], Ents(drawn'[p]))
  BY <1>3, <1>6, <1>7 DEF e
<1> QED
  BY <1>2, <1>3, <1>8, <1>9 DEF ViewOK

LEMMA DrawTree ==
  ASSUME Shape, NEW p \in Procs, ViewOK(p), drawTree(p)
  PROVE  ViewOK(p)'
<1>1. PICK isDir \in IsDir(calls[p].rows, Entry(p)) :
        /\ Turn(p, "tree", Line(p), isDir)
        /\ bitmask' = [bitmask EXCEPT ![p][Level(p)] = IF isDir THEN ~IsLast(p) ELSE @]
  BY DEF drawTree
<1> DEFINE rows == calls[p].rows
           line == Line(p)
           e == Entry(p)
           k == Level(p)
           bits == bitmask[p]
<1>2. isDir \in BOOLEAN /\ "tree" \in Views /\ line.entry = e /\ calls' = calls
  BY <1>1 DEF IsDir, Views, Turn, Line
<1>3. /\ calls[p].op = "tree" /\ IsTree(rows)
      /\ e \in 1..Len(rows) /\ rows[e] = k /\ k \in 0..MaxLevel
      /\ Len(stack[p]) \in Nat \ {0} /\ e \in stack[p][Len(stack[p])]
      /\ \A d \in Ents(drawn[p]) : d < e
      /\ Parent(rows, e) \in Ents(drawn[p]) \cup {0}
      /\ IsLast(p) <=> LastOfDir(rows, e)
      /\ drawn'[p] = Append(drawn[p], line)
      /\ StackOK(rows, stack'[p], Ents(drawn[p]) \cup {e})
      /\ \A i \in 1..Len(stack'[p]) : \A a \in stack'[p][i] :
           \/ i \in 1..Len(stack[p]) /\ a \in stack[p][i]
           \/ isDir /\ a \in Entries(rows, e)
  <2>1. stack[p] # <<>> /\ Last(stack[p]) # {} /\ Turn(p, "tree", line, isDir)
    BY <1>1 DEF drawTree
  <2> HIDE DEF line
  <2>2. Turned(p, "tree", line, isDir)
    BY <1>2, <2>1, TurnStack
  <2> QED
    BY <2>2 DEF Turned
<1>4. TreeOK(rows, drawn[p], stack[p], bits)
  BY <1>2, <1>3 DEF ViewOK
<1>5. /\ bits \in [0..MaxLevel -> BOOLEAN]
      /\ bitmask'[p] = [bits EXCEPT ![k] = IF isDir THEN ~IsLast(p) ELSE bits[k]]
  BY <1>1, <1>4 DEF Shape, TreeOK
<1>6. line = [entry |-> e, lines |-> {i \in 0..(k - 1) : bits[i]}, elb |-> IsLast(p)]
  BY DEF Line
<1>7. IsLast(p) \in BOOLEAN
  BY DEF IsLast
<1>8. \A m \in Ancestors(rows, e) \ {e} : bits[rows[m]] = ~LastOfDir(rows, m) /\ rows[m] \in 0..(k - 1)
  <2> SUFFICES ASSUME NEW m \in Ancestors(rows, e) \ {e}
               PROVE  bits[rows[m]] = ~LastOfDir(rows, m) /\ rows[m] \in 0..(k - 1)
    OBVIOUS
  <2>1. bits[rows[m]] = ~LastOfDir(rows, m)
    BY <1>3, <1>4 DEF TreeOK, Bits
  <2>2. m \in 1..(e - 1) /\ rows[m] < rows[e]
    BY <1>3, AncestorsOfEntry
  <2>3. rows[m] \in Nat
    BY <1>3, <2>2, TreeRows
  <2> QED
    BY <1>3, <2>1, <2>2, <2>3
<1>9. line \in TreeLines /\ line.entry = e
  <2>1. {i \in 0..(k - 1) : bits[i]} \in SUBSET Nat /\ e \in Nat
    BY <1>3
  <2> QED
    BY <1>6, <1>7, <2>1 DEF TreeLines
<1>10. LineOK(rows, line)
  <2> DEFINE A == {m \in Ancestors(rows, e) \ {e} : ~LastOfDir(rows, m)}
  <2>1. \A m \in A : rows[m] \in 0..(k - 1) /\ bits[rows[m]]
    BY <1>8
  <2>2. ASSUME NEW i \in 0..(k - 1), bits[i]
        PROVE  \E m \in A : i = rows[m]
    <3>1. i \in Nat /\ i < rows[e]
      BY <1>3
    <3>2. PICK m \in Ancestors(rows, e) \ {e} : rows[m] = i
      BY <1>3, <3>1, OneAncestor
    <3>3. ~LastOfDir(rows, m)
      BY <1>8, <2>2, <3>2
    <3> QED
      BY <3>2, <3>3
  <2>3. {i \in 0..(k - 1) : bits[i]} = {rows[m] : m \in A}
    BY <2>1, <2>2
  <2>4. line.elb = LastOfDir(rows, e)
    <3>1. line.elb = IsLast(p)
      BY <1>6
    <3> QED
      BY <1>3, <3>1 DEF IsLast, LastOfDir
  <2> QED
    BY <1>6, <1>9, <2>3, <2>4 DEF LineOK
<1>11. Bits(rows, stack'[p], bitmask'[p])
  <2> SUFFICES ASSUME NEW i \in 1..Len(stack'[p]), NEW a \in stack'[p][i], NEW m \in Ancestors(rows, a) \ {a}
               PROVE  bitmask'[p][rows[m]] = ~LastOfDir(rows, m)
    BY DEF Bits
  <2>1. \A n \in Ancestors(rows, e) \ {e} : bitmask'[p][rows[n]] = ~LastOfDir(rows, n)
    BY <1>3, <1>5, <1>8
  <2>2. CASE i \in 1..Len(stack[p]) /\ a \in stack[p][i]
    <3>1. bits[rows[m]] = ~LastOfDir(rows, m)
      BY <1>4, <2>2 DEF TreeOK, Bits
    <3>2. rows[a] = i - 1 /\ a \in 1..Len(rows)
      <4>1. StackOK(rows, stack[p], Ents(drawn[p]))
        BY <1>2, <1>3 DEF ViewOK
      <4>2. stack[p][i] \in SUBSET (1..Len(rows))
        BY <2>2, <4>1, ElementOfSeq DEF StackOK
      <4> QED
        BY <2>2, <4>1, <4>2 DEF StackOK
    <3>3. rows[m] < rows[a] /\ m \in 1..(a - 1)
      BY <1>3, <3>2, AncestorsOfEntry
    <3>4. rows[m] \in Nat /\ rows[m] \in 0..MaxLevel
      BY <1>3, <3>2, <3>3, TreeRows
    <3>5. rows[m] # k
      BY <1>3, <2>2, <3>2, <3>3, <3>4 DEF Level
    <3> QED
      BY <1>5, <3>1, <3>4, <3>5
  <2>3. CASE isDir /\ a \in Entries(rows, e)
    <3>1. a \in 1..Len(rows) /\ Parent(rows, a) = e
      BY <2>3 DEF Entries
    <3>2. m \in Ancestors(rows, e)
      BY <1>3, <3>1, AncestorsOfEntry
    <3>3. CASE m = e
      <4>1. bitmask'[p][k] = ~IsLast(p)
        BY <1>3, <1>5, <2>3
      <4> QED
        BY <1>3, <3>3, <4>1 DEF IsLast, LastOfDir
    <3> QED
      BY <2>1, <3>2, <3>3
  <2> QED
    BY <1>3, <2>2, <2>3
<1> HIDE DEF line, e, k, bits
<1>12. /\ DrawnOK(rows, Append(drawn[p], line), TreeLines)
       /\ Ents(Append(drawn[p], line)) = Ents(drawn[p]) \cup {line.entry}
       /\ Len(drawn[p]) \in Nat /\ Len(Append(drawn[p], line)) = Len(drawn[p]) + 1
       /\ \A i \in 1..Len(drawn[p]) : Append(drawn[p], line)[i] = drawn[p][i]
       /\ Append(drawn[p], line)[Len(drawn[p]) + 1] = line
  BY <1>3, <1>4, <1>9, DrawnMore DEF TreeOK
<1>13. \A i \in 1..Len(drawn'[p]) : LineOK(rows, drawn'[p][i])
  <2>1. ASSUME NEW i \in 1..Len(drawn'[p])
        PROVE  LineOK(rows, drawn'[p][i])
    <3>1. CASE i = Len(drawn[p]) + 1
      BY <1>3, <1>10, <1>12, <3>1
    <3>2. CASE i # Len(drawn[p]) + 1
      <4>1. i \in 1..Len(drawn[p]) /\ drawn'[p][i] = drawn[p][i]
        BY <1>3, <1>12, <3>2
      <4> QED
        BY <1>4, <4>1 DEF TreeOK
    <3> QED
      BY <3>1, <3>2
  <2> QED
    BY <2>1
<1>14. bitmask'[p] \in [0..MaxLevel -> BOOLEAN]
  BY <1>5, <1>7
<1>15. TreeOK(rows, drawn'[p], stack'[p], bitmask'[p])
  BY <1>3, <1>11, <1>12, <1>13, <1>14 DEF TreeOK
<1>16. StackOK(rows, stack'[p], Ents(drawn'[p]))
  BY <1>3, <1>9, <1>12
<1> QED
  BY <1>2, <1>3, <1>15, <1>16 DEF ViewOK

LEMMA Listed ==
  ASSUME Shape, NEW p \in Procs, ViewOK(p), listed(p)
  PROVE  ViewOK(p)'
<1>0. calls[p].op \in Views
  BY DEF listed, ViewOK
<1>1. /\ stack'[p] = Front(stack[p]) /\ drawn' = drawn /\ bitmask' = bitmask /\ calls' = calls
      /\ stack[p] # <<>>
  BY DEF Shape, listed
<1>2. /\ StackOK(calls[p].rows, stack'[p], Ents(drawn[p]))
      /\ \A i \in 1..Len(stack'[p]) : i \in 1..Len(stack[p]) /\ stack'[p][i] = stack[p][i]
  BY <1>0, <1>1, StackReturn DEF ViewOK
<1>3. calls[p].op = "tree" => TreeOK(calls[p].rows, drawn[p], stack'[p], bitmask[p])
  BY <1>0, <1>2 DEF ViewOK, TreeOK, Bits
<1> QED
  BY <1>0, <1>1, <1>2, <1>3 DEF ViewOK

LEMMA ViewNext ==
  ASSUME ViewInv, [Next]_vars
  PROVE  ViewInv'
<1>1. Shape /\ \A p \in Procs : ViewOK(p)
  BY DEF ViewInv
<1>2. CASE UNCHANGED <<calls, treeVars>>
  BY <1>1, <1>2 DEF ViewInv, Shape, ViewOK, treeVars, Procs
<1>3. ASSUME NEW p \in Procs, get_dir(p) \/ drawTree(p) \/ listed(p)
      PROVE  ViewInv'
  <2>1. /\ calls' = calls /\ DOMAIN stack' = Procs /\ DOMAIN drawn' = Procs /\ DOMAIN bitmask' = Procs
        /\ \A q \in Procs : q # p => stack'[q] = stack[q] /\ drawn'[q] = drawn[q] /\ bitmask'[q] = bitmask[q]
    BY <1>1, <1>3 DEF Shape, get_dir, drawTree, listed, Turn
  <2>2. ViewOK(p)'
    BY <1>1, <1>3, GetDir, DrawTree, Listed
  <2>3. \A q \in Procs : ViewOK(q)'
    BY <1>1, <2>1, <2>2 DEF ViewOK
  <2> QED
    BY <1>1, <2>1, <2>3 DEF ViewInv, Shape, Procs
<1>4. ASSUME NEW p \in Procs, access(p) \/ fileman_read(p) \/ fileman_write(p) \/ fileman_append(p) \/ fileman_copy(p)
      PROVE  UNCHANGED <<calls, treeVars>>
  BY <1>4 DEF access, fileman_read, fileman_write, fileman_append, fileman_copy, copy_open, copy_read, copy_write
<1>5. CASE UNCHANGED vars
  BY <1>2, <1>5 DEF vars
<1> QED
  BY <1>2, <1>3, <1>4, <1>5 DEF Next

THEOREM TypedViews == Spec => []ViewInv
<1> QED
  BY ViewInit, ViewNext, PTL DEF Spec

\* A line leads down from each directory that has entries after the one that is
\* drawn, and from no other (fileman.c:321-352).
THEOREM SafeTreeDrawn == Spec => []TreeDrawn
<1>1. ASSUME ViewInv
      PROVE  TreeDrawn
  BY <1>1 DEF ViewInv, ViewOK, TreeOK, LineOK, TreeDrawn, Views
<1> QED
  BY <1>1, TypedViews, PTL

\* Which directory an entry is in can be told from the indentation alone
\* (fileman.c:254-270).
THEOREM SafeDirIndented == Spec => []DirIndented
<1>1. ASSUME ViewInv
      PROVE  DirIndented
  <2> SUFFICES ASSUME NEW p \in Procs, calls[p].op = "dir", NEW i \in 1..Len(drawn[p])
               PROVE  Reads(calls[p].rows, drawn[p], i)
    BY DEF DirIndented, Reads
  <2>1. Shape /\ calls[p].op \in Views /\ DirOK(calls[p].rows, drawn[p])
    BY <1>1 DEF ViewInv, ViewOK, Views
  <2>2. IsTree(calls[p].rows)
    BY <2>1, ViewTree
  <2>3. /\ DrawnOK(calls[p].rows, drawn[p], DirLines)
        /\ \A k \in 1..Len(drawn[p]) : drawn[p][k].indent = 4 * calls[p].rows[drawn[p][k].entry] + 4
    BY <2>1 DEF DirOK
  <2> QED
    BY <2>2, <2>3, DirRead
<1> QED
  BY <1>1, TypedViews, PTL

----------------------------------------------------------------------------
(* The files *)

\* What a write leaves in a file.
LEMMA WrittenIs ==
  ASSUME NEW s \in Seq(Bytes), NEW at \in Nat, NEW d \in Seq(Bytes)
  PROVE  /\ Written(s, at, d) \in Seq(Bytes)
         /\ d = <<>> => Written(s, at, d) = s
         /\ d # <<>> =>
              /\ Len(Written(s, at, d)) = IF Len(s) > at + Len(d) THEN Len(s) ELSE at + Len(d)
              /\ \A k \in 1..Len(Written(s, at, d)) : Written(s, at, d)[k] =
                   IF k \in (at + 1)..(at + Len(d)) THEN d[k - at] ELSE IF k <= Len(s) THEN s[k] ELSE 0
<1> DEFINE n == IF Len(s) > at + Len(d) THEN Len(s) ELSE at + Len(d)
           F(k) == IF k \in (at + 1)..(at + Len(d)) THEN d[k - at] ELSE IF k <= Len(s) THEN s[k] ELSE 0
<1>1. CASE d = <<>>
  BY <1>1 DEF Written
<1>2. CASE d # <<>>
  <2>1. Len(s) \in Nat /\ Len(d) \in Nat /\ n \in Nat
    BY LenProperties
  <2>2. \A k \in 1..n : F(k) \in Bytes
    <3> SUFFICES ASSUME NEW k \in 1..n
                 PROVE  F(k) \in Bytes
      OBVIOUS
    <3>1. CASE k \in (at + 1)..(at + Len(d))
      <4>1. k - at \in 1..Len(d)
        BY <2>1, <3>1
      <4>2. d[k - at] \in Bytes
        BY <4>1, ElementOfSeq
      <4> QED
        BY <3>1, <4>2
    <3>2. CASE k \notin (at + 1)..(at + Len(d)) /\ k <= Len(s)
      <4>1. k \in 1..Len(s)
        BY <2>1, <3>2
      <4>2. s[k] \in Bytes
        BY <4>1, ElementOfSeq
      <4> QED
        BY <3>2, <4>2
    <3>3. CASE k \notin (at + 1)..(at + Len(d)) /\ ~(k <= Len(s))
      BY <3>3, FilemanAssumption
    <3> QED
      BY <3>1, <3>2, <3>3
  <2>3. Written(s, at, d) = [k \in 1..n |-> F(k)]
    BY <1>2 DEF Written
  <2> HIDE DEF n, F
  <2>4. [k \in 1..n |-> F(k)] \in Seq(Bytes) /\ Len([k \in 1..n |-> F(k)]) = n
    <3>1. [k \in 1..n |-> F(k)] \in Seq(Bytes)
      BY <2>1, <2>2, IsASeq
    <3>2. DOMAIN [k \in 1..n |-> F(k)] = 1..n
      OBVIOUS
    <3> QED
      BY <2>1, <3>1, <3>2
  <2>5. \A k \in 1..n : Written(s, at, d)[k] = F(k)
    BY <2>3
  <2> QED
    BY <1>2, <2>3, <2>4, <2>5 DEF n, F
<1> QED
  BY <1>1, <1>2

\* The first bytes of a sequence, or those from one place to another.
LEMMA SubSeqIs ==
  ASSUME NEW s \in Seq(Bytes), NEW m \in Nat, NEW n \in Nat, n <= Len(s), m >= 1
  PROVE  /\ SubSeq(s, m, n) \in Seq(Bytes)
         /\ Len(SubSeq(s, m, n)) = IF m <= n THEN n - m + 1 ELSE 0
         /\ \A i \in 1..Len(SubSeq(s, m, n)) : SubSeq(s, m, n)[i] = s[m + i - 1]
<1>1. Len(s) \in Nat /\ \A i \in m..n : s[i] \in Bytes
  <2>1. Len(s) \in Nat
    BY LenProperties
  <2>2. \A i \in m..n : i \in 1..Len(s)
    BY <2>1
  <2> QED
    BY <2>1, <2>2, ElementOfSeq
<1>2. /\ SubSeq(s, m, n) \in Seq(Bytes)
      /\ Len(SubSeq(s, m, n)) = IF m <= n THEN n - m + 1 ELSE 0
      /\ \A i \in 1..(n - m + 1) : SubSeq(s, m, n)[i] = s[m + i - 1]
  BY <1>1, SubSeqProperties
<1> QED
  BY <1>1, <1>2

----------------------------------------------------------------------------
(* Types, and where a call can be *)

Copies(q) == calls[q].op = "copy"

\* A copy has opened its files.
Copying(q) ==
  /\ Copies(q)
  /\ \/ pc[q] \in {"read", "write"}
     \/ pc[q] = "done" /\ ret[q] >= 0

\* What it has read and not written yet.
Pending(q) == IF pc[q] = "write" THEN Len(buf[q]) ELSE 0

FileTypes ==
  /\ calls \in Programs
  /\ fs \in [Files -> Seq(Bytes) \cup {Absent}]
  /\ pc \in [Procs -> {"draw", "access", "open", "read", "write", "done"}]
  /\ buf \in [Procs -> Seq(Bytes)]
  /\ count \in [Procs -> Nat] /\ offset \in [Procs -> Nat]
  /\ ret \in [Procs -> Int]

PlaceOK(p) ==
  /\ pc[p] = "open" =>
       /\ calls[p].op = "append" => Exists(calls[p].file)
       /\ Copies(p) => Exists(calls[p].src)
  /\ pc[p] = "write" /\ calls[p].op = "write" => Exists(calls[p].file)
  /\ Copying(p) => Exists(calls[p].src) /\ Exists(calls[p].dest)
  /\ Copies(p) =>
       /\ pc[p] \in {"access", "open"} => offset[p] = 0 /\ count[p] = 0
       /\ offset[p] + Pending(p) <= count[p]
       /\ pc[p] = "done" => ret[p] \in {-1, count[p]}
  /\ calls[p].op = "append" /\ pc[p] = "done" /\ ret[p] >= 0 => ret[p] <= Len(calls[p].data)

FileInv == FileTypes /\ \A p \in Procs : PlaceOK(p)

LEMMA Called ==
  ASSUME FileTypes, NEW p \in Procs
  PROVE  Fits(calls[p])
BY FilemanAssumption DEF FileTypes, Procs

LEMMA FileInit == Init => FileInv
<1> SUFFICES ASSUME Init
             PROVE  FileInv
  OBVIOUS
<1>1. FileTypes
  BY FilemanAssumption DEF Init, FileTypes, Procs
<1>2. ASSUME NEW p \in Procs
      PROVE  PlaceOK(p)
  BY <1>2 DEF Init, Procs, PlaceOK, Pending, Copying
<1> QED
  BY <1>1, <1>2 DEF FileInv

\* A step of one call leaves the others where they are, and no file vanishes.
LEMMA PlacesKept ==
  ASSUME FileInv, NEW p \in Procs, FileTypes', calls' = calls,
         \A q \in Procs : q # p => /\ pc'[q] = pc[q] /\ buf'[q] = buf[q] /\ count'[q] = count[q]
                                   /\ offset'[q] = offset[q] /\ ret'[q] = ret[q],
         \A f \in Files : Exists(f) => Exists(f)',
         PlaceOK(p)'
  PROVE  FileInv'
<1>1. ASSUME NEW q \in Procs, q # p
      PROVE  PlaceOK(q)'
  <2>1. PlaceOK(q) /\ Fits(calls[q])
    BY Called DEF FileInv
  <2>2. /\ calls[q].op = "append" => calls[q].file \in Files
        /\ calls[q].op = "write" => calls[q].file \in Files
        /\ Copies(q) => calls[q].src \in Files /\ calls[q].dest \in Files
    BY <2>1 DEF Fits, Copies
  <2>3. Pending(q)' = Pending(q) /\ (Copies(q)' <=> Copies(q)) /\ (Copying(q)' <=> Copying(q))
        /\ (Copying(q) => Copies(q))
    BY <1>1 DEF Pending, Copies, Copying
  <2>4. /\ calls[q].op = "append" /\ Exists(calls[q].file) => Exists(calls[q].file)'
        /\ calls[q].op = "write" /\ Exists(calls[q].file) => Exists(calls[q].file)'
        /\ Copies(q) /\ Exists(calls[q].src) => Exists(calls[q].src)'
        /\ Copies(q) /\ Exists(calls[q].dest) => Exists(calls[q].dest)'
    BY <2>2 DEF Exists
  <2>5. /\ pc'[q] = pc[q] /\ offset'[q] = offset[q] /\ count'[q] = count[q] /\ ret'[q] = ret[q]
        /\ calls'[q] = calls[q]
    BY <1>1
  <2> QED
    BY <2>1, <2>3, <2>4, <2>5 DEF PlaceOK
<1> QED
  BY <1>1 DEF FileInv, Procs

LEMMA FileStep ==
  ASSUME FileInv, ViewInv, [Next]_vars
  PROVE  FileInv'
<1>0. FileTypes /\ fs \in [Files -> Seq(Bytes) \cup {Absent}]
      /\ pc \in [Procs -> {"draw", "access", "open", "read", "write", "done"}]
      /\ buf \in [Procs -> Seq(Bytes)] /\ count \in [Procs -> Nat] /\ offset \in [Procs -> Nat]
      /\ ret \in [Procs -> Int]
  BY DEF FileInv, FileTypes
<1>1. CASE UNCHANGED vars
  BY <1>0, <1>1 DEF vars, copyVars, FileInv, FileTypes, PlaceOK, Procs, Exists, Copies, Copying, Pending
<1> SUFFICES ASSUME NEW p \in Procs,
                    \/ access(p) \/ fileman_read(p) \/ fileman_write(p) \/ fileman_append(p)
                    \/ fileman_copy(p) \/ get_dir(p) \/ drawTree(p) \/ listed(p)
             PROVE  FileInv'
  BY <1>1 DEF Next
<1> DEFINE c == calls[p]
<1>2. PlaceOK(p) /\ Fits(c)
  BY <1>0, Called DEF FileInv
<1>3. CASE access(p)
  <2>1. /\ UNCHANGED <<calls, fs, buf, count, offset>>
        /\ pc[p] = "access"
        /\ \/ pc' = [pc EXCEPT ![p] = "done"] /\ ret' = [ret EXCEPT ![p] = -1]
           \/ /\ pc' = [pc EXCEPT ![p] = "open"] /\ ret' = ret
              /\ c.op = "append" => Exists(c.file)
              /\ c.op = "copy" => Exists(c.src)
    BY <1>3 DEF access, Returns, Goto, copyVars
  <2>2. FileTypes'
    <3>1. pc' \in [Procs -> {"draw", "access", "open", "read", "write", "done"}]
      BY <1>0, <2>1
    <3>2. ret' \in [Procs -> Int]
      BY <1>0, <2>1
    <3>3. fs' \in [Files -> Seq(Bytes) \cup {Absent}] /\ offset' \in [Procs -> Nat]
      BY <1>0, <2>1
    <3> QED
      BY <1>0, <2>1, <3>1, <3>2, <3>3 DEF FileTypes, Procs
  <2>3. PlaceOK(p)'
    BY <1>0, <1>2, <2>1 DEF PlaceOK, Exists, Copies, Copying, Pending
  <2> QED
    BY <1>0, <2>1, <2>2, <2>3, PlacesKept DEF Exists
<1>4. CASE fileman_read(p)
  <2>1. /\ UNCHANGED <<calls, fs, buf, count, offset>> /\ c.op = "read"
        /\ pc' = [pc EXCEPT ![p] = "done"] /\ ret' = [ret EXCEPT ![p] = c.size]
    BY <1>4 DEF fileman_read, Returns, Goto, At, copyVars
  <2>2. FileTypes'
    BY <1>0, <1>2, <2>1 DEF FileTypes, Procs, Fits
  <2>3. PlaceOK(p)'
    BY <1>0, <1>2, <2>1 DEF PlaceOK, Exists, Copies, Copying, Pending
  <2> QED
    BY <1>0, <2>1, <2>2, <2>3, PlacesKept DEF Exists
<1>5. CASE fileman_write(p)
  <2>1. /\ UNCHANGED <<calls, buf, count, offset>> /\ c.op = "write"
        /\ c.file \in Files /\ c.offset \in Nat /\ c.data \in Seq(Bytes)
    BY <1>2, <1>5 DEF fileman_write, At, Fits, copyVars
  <2>2. CASE pc[p] = "open"
    <3>1. /\ fs' = [fs EXCEPT ![c.file] = <<>>] /\ pc' = [pc EXCEPT ![p] = "write"] /\ ret' = ret
      BY <1>5, <2>2 DEF fileman_write, At, Store, Goto
    <3>2. FileTypes'
      BY <1>0, <2>1, <3>1 DEF FileTypes, Procs
    <3>3. <<>> # Absent
      BY FilemanAssumption, EmptySeq
    <3>4. PlaceOK(p)' /\ \A f \in Files : Exists(f) => Exists(f)'
      BY <1>0, <1>2, <2>1, <3>1, <3>3 DEF PlaceOK, Exists, Copies, Copying, Pending
    <3> QED
      BY <1>0, <2>1, <3>1, <3>2, <3>4, PlacesKept
  <2>3. CASE pc[p] = "write"
    <3> DEFINE s == Written(fs[c.file], c.offset, c.data)
    <3>1. /\ fs' = [fs EXCEPT ![c.file] = s] /\ pc' = [pc EXCEPT ![p] = "done"]
          /\ ret' = [ret EXCEPT ![p] = Len(c.data)]
      BY <1>5, <2>3 DEF fileman_write, At, Store, Returns, Goto
    <3>2. fs[c.file] \in Seq(Bytes)
      BY <1>0, <1>2, <2>1, <2>3 DEF PlaceOK, Exists
    <3>3. s \in Seq(Bytes) /\ s # Absent /\ Len(c.data) \in Nat
      BY <2>1, <3>2, WrittenIs, FilemanAssumption
    <3> HIDE DEF s
    <3>4. FileTypes'
      BY <1>0, <2>1, <3>1, <3>3 DEF FileTypes, Procs
    <3>5. PlaceOK(p)' /\ \A f \in Files : Exists(f) => Exists(f)'
      BY <1>0, <1>2, <2>1, <3>1, <3>3 DEF PlaceOK, Exists, Copies, Copying, Pending
    <3> QED
      BY <1>0, <2>1, <3>1, <3>4, <3>5, PlacesKept
  <2> QED
    BY <1>5, <2>2, <2>3 DEF fileman_write, At
<1>6. CASE fileman_append(p)
  <2>1. /\ UNCHANGED <<calls, buf, count, offset>> /\ c.op = "append" /\ pc[p] = "open"
        /\ c.file \in Files /\ c.data \in Seq(Bytes) /\ pc' = [pc EXCEPT ![p] = "done"]
    BY <1>2, <1>6 DEF fileman_append, At, Fits, copyVars, Returns, Goto
  <2>2. CASE fs' = fs /\ ret' = [ret EXCEPT ![p] = -1]
    <3>1. FileTypes'
      BY <1>0, <2>1, <2>2 DEF FileTypes, Procs
    <3>2. PlaceOK(p)'
      BY <1>0, <1>2, <2>1, <2>2 DEF PlaceOK, Exists, Copies, Copying, Pending
    <3> QED
      BY <1>0, <2>1, <2>2, <3>1, <3>2, PlacesKept DEF Exists
  <2>3. ASSUME NEW n \in 0..Len(c.data), Store(c.file, fs[c.file] \o SubSeq(c.data, 1, n)), Returns(p, n)
        PROVE  FileInv'
    <3> DEFINE s == fs[c.file] \o SubSeq(c.data, 1, n)
    <3>1. fs' = [fs EXCEPT ![c.file] = s] /\ ret' = [ret EXCEPT ![p] = n] /\ n \in Nat
      BY <2>3 DEF Store, Returns
    <3>2. fs[c.file] \in Seq(Bytes)
      BY <1>0, <1>2, <2>1 DEF PlaceOK, Exists
    <3>3. SubSeq(c.data, 1, n) \in Seq(Bytes)
      BY <2>1, <2>3, <3>1, SubSeqIs
    <3>4. s \in Seq(Bytes) /\ s # Absent
      <4>1. s \in Seq(Bytes)
        BY <3>2, <3>3, ConcatProperties
      <4> QED
        BY <4>1, FilemanAssumption
    <3> HIDE DEF s
    <3>5. FileTypes'
      BY <1>0, <2>1, <3>1, <3>4 DEF FileTypes, Procs
    <3>6. PlaceOK(p)' /\ \A f \in Files : Exists(f) => Exists(f)'
      BY <1>0, <1>2, <2>1, <2>3, <3>1, <3>4 DEF PlaceOK, Exists, Copies, Copying, Pending
    <3> QED
      BY <1>0, <2>1, <3>1, <3>5, <3>6, PlacesKept
  <2> QED
    BY <1>6, <2>2, <2>3 DEF fileman_append, Returns
<1>7. CASE copy_open(p)
  <2>1. /\ UNCHANGED <<calls, buf, count, offset>> /\ c.op = "copy" /\ pc[p] = "open"
        /\ c.src \in Files /\ c.dest \in Files
        /\ \/ fs' = fs /\ ret' = [ret EXCEPT ![p] = -1] /\ pc' = [pc EXCEPT ![p] = "done"]
           \/ fs' = [fs EXCEPT ![c.dest] = <<>>] /\ ret' = ret /\ pc' = [pc EXCEPT ![p] = "read"]
    BY <1>2, <1>7 DEF copy_open, At, Fits, copyVars, Returns, Goto, Store
  <2>2. FileTypes'
    <3>1. pc' \in [Procs -> {"draw", "access", "open", "read", "write", "done"}]
      BY <1>0, <2>1
    <3>2. ret' \in [Procs -> Int]
      BY <1>0, <2>1
    <3>4. <<>> \in Seq(Bytes)
      BY EmptySeq
    <3>3. fs' \in [Files -> Seq(Bytes) \cup {Absent}] /\ offset' \in [Procs -> Nat]
      BY <1>0, <2>1, <3>4
    <3> QED
      BY <1>0, <2>1, <3>1, <3>2, <3>3 DEF FileTypes, Procs
  <2>3. <<>> # Absent
    BY FilemanAssumption, EmptySeq
  <2>4. PlaceOK(p)' /\ \A f \in Files : Exists(f) => Exists(f)'
    BY <1>0, <1>2, <2>1, <2>3 DEF PlaceOK, Exists, Copies, Copying, Pending
  <2> QED
    BY <1>0, <2>1, <2>2, <2>4, PlacesKept
<1>8. CASE copy_read(p)
  <2> DEFINE s == fs[c.src]
             m == Least(Len(s), count[p] + BufSize)
             b == SubSeq(s, count[p] + 1, m)
  <2>1. /\ UNCHANGED <<calls, fs, offset, ret>> /\ c.op = "copy" /\ pc[p] = "read" /\ c.src \in Files
        /\ pc' = [pc EXCEPT ![p] = "write"] /\ buf' = [buf EXCEPT ![p] = b]
        /\ count' = [count EXCEPT ![p] = count[p] + Len(buf'[p])]
    BY <1>2, <1>8 DEF copy_read, At, Fits, Goto
  <2>2. s \in Seq(Bytes)
    BY <1>0, <1>2, <2>1 DEF PlaceOK, Exists, Copying, Copies
  <2>3. b \in Seq(Bytes) /\ Len(b) \in Nat
    <3>1. count[p] \in Nat /\ BufSize \in Nat /\ Len(s) \in Nat
      BY <1>0, <2>2, FilemanAssumption
    <3>2. m \in Nat /\ m <= Len(s)
      BY <3>1 DEF Least
    <3> HIDE DEF m, s
    <3> QED
      BY <2>2, <3>1, <3>2, SubSeqIs, LenProperties
  <2> HIDE DEF b
  <2>4. buf'[p] = b
    BY <1>0, <2>1
  <2>5. FileTypes'
    BY <1>0, <2>1, <2>3, <2>4 DEF FileTypes, Procs
  <2>6. PlaceOK(p)'
    BY <1>0, <1>2, <2>1, <2>3, <2>4 DEF PlaceOK, Exists, Copies, Copying, Pending
  <2> QED
    BY <1>0, <2>1, <2>5, <2>6, PlacesKept DEF Exists
<1>9. CASE copy_write(p)
  <2>1. PICK n \in 0..Len(buf[p]) :
          /\ Store(c.dest, Written(fs[c.dest], offset[p], SubSeq(buf[p], 1, n)))
          /\ offset' = [offset EXCEPT ![p] = offset[p] + n]
    BY <1>9 DEF copy_write
  <2> DEFINE s == Written(fs[c.dest], offset[p], SubSeq(buf[p], 1, n))
  <2>2. /\ UNCHANGED <<calls, buf, count>> /\ c.op = "copy" /\ pc[p] = "write" /\ c.dest \in Files
        /\ fs' = [fs EXCEPT ![c.dest] = s]
        /\ \/ pc' = [pc EXCEPT ![p] = "read"] /\ ret' = ret
           \/ pc' = [pc EXCEPT ![p] = "done"] /\ ret' = [ret EXCEPT ![p] = count[p]]
    BY <1>2, <1>9, <2>1 DEF copy_write, At, Fits, Store, Returns, Goto
  <2>3. fs[c.dest] \in Seq(Bytes) /\ buf[p] \in Seq(Bytes) /\ offset[p] \in Nat /\ n \in Nat /\ n <= Len(buf[p])
    BY <1>0, <1>2, <2>2 DEF PlaceOK, Exists, Copying, Copies
  <2>4. s \in Seq(Bytes) /\ s # Absent
    <3>1. SubSeq(buf[p], 1, n) \in Seq(Bytes)
      BY <2>3, SubSeqIs
    <3>2. s \in Seq(Bytes)
      BY <2>3, <3>1, WrittenIs
    <3> QED
      BY <3>2, FilemanAssumption
  <2> HIDE DEF s
  <2>5. FileTypes'
    <3>1. pc' \in [Procs -> {"draw", "access", "open", "read", "write", "done"}]
      BY <1>0, <2>1, <2>2
    <3>2. ret' \in [Procs -> Int]
      BY <1>0, <2>1, <2>2
    <3>3. fs' \in [Files -> Seq(Bytes) \cup {Absent}] /\ offset' \in [Procs -> Nat]
      BY <1>0, <2>1, <2>2, <2>3, <2>4
    <3> QED
      BY <1>0, <2>1, <2>2, <3>1, <3>2, <3>3 DEF FileTypes, Procs
  <2>6. PlaceOK(p)' /\ \A f \in Files : Exists(f) => Exists(f)'
    <3>1. count[p] \in Nat /\ offset[p] \in Nat /\ offset'[p] = offset[p] + n /\ offset[p] + Len(buf[p]) <= count[p]
          /\ Len(buf[p]) \in Nat
      BY <1>0, <1>2, <2>1, <2>2 DEF PlaceOK, Pending, Copies
    <3> QED
      BY <1>0, <1>2, <2>2, <2>3, <2>4, <3>1 DEF PlaceOK, Exists, Copies, Copying, Pending
  <2> QED
    BY <1>0, <2>1, <2>2, <2>5, <2>6, PlacesKept
<1>10. CASE get_dir(p) \/ drawTree(p)
  <2>1. UNCHANGED <<calls, fs, pc, copyVars, ret>>
    BY <1>10 DEF get_dir, drawTree, Turn
  <2> QED
    BY <1>0, <2>1 DEF copyVars, FileInv, FileTypes, PlaceOK, Procs, Exists, Copies, Copying, Pending
<1>11. CASE listed(p)
  <2>1. /\ UNCHANGED <<calls, fs, buf, count, offset>> /\ c.op \in Views
        /\ \/ pc' = [pc EXCEPT ![p] = "done"] /\ ret' = [ret EXCEPT ![p] = 0]
           \/ pc' = pc /\ ret' = ret
    BY <1>11 DEF listed, Returns, Goto, copyVars, ViewInv, ViewOK
  <2>2. FileTypes'
    <3>1. pc' \in [Procs -> {"draw", "access", "open", "read", "write", "done"}]
      BY <1>0, <2>1
    <3>2. ret' \in [Procs -> Int]
      BY <1>0, <2>1
    <3>3. fs' \in [Files -> Seq(Bytes) \cup {Absent}] /\ offset' \in [Procs -> Nat]
      BY <1>0, <2>1
    <3> QED
      BY <1>0, <2>1, <3>1, <3>2, <3>3 DEF FileTypes, Procs
  <2>3. PlaceOK(p)'
    BY <1>0, <1>2, <2>1 DEF PlaceOK, Exists, Copies, Copying, Pending, Views
  <2> QED
    BY <1>0, <2>1, <2>2, <2>3, PlacesKept DEF Exists
<1> QED
  BY <1>3, <1>4, <1>5, <1>6, <1>7, <1>8, <1>9, <1>10, <1>11 DEF fileman_copy

THEOREM TypedFiles == Spec => []FileInv
<1> QED
  BY FileInit, FileStep, TypedViews, PTL DEF Spec

----------------------------------------------------------------------------
(* Appending *)

StartsWith(s, t) ==
  /\ Len(t) <= Len(s)
  /\ \A k \in 1..Len(t) : s[k] = t[k]

LEMMA Concatenated ==
  ASSUME NEW s \in Seq(Bytes), NEW d \in Seq(Bytes)
  PROVE  /\ s \o d \in Seq(Bytes)
         /\ Len(s) \in Nat /\ Len(d) \in Nat /\ Len(s \o d) = Len(s) + Len(d)
         /\ \A k \in 1..Len(s) : (s \o d)[k] = s[k]
         /\ \A k \in 1..Len(d) : (s \o d)[Len(s) + k] = d[k]
<1>1. Len(s) \in Nat /\ Len(d) \in Nat
  BY LenProperties
<1>2. /\ s \o d \in Seq(Bytes) /\ Len(s \o d) = Len(s) + Len(d)
      /\ \A i \in 1..(Len(s) + Len(d)) : (s \o d)[i] = IF i <= Len(s) THEN s[i] ELSE d[i - Len(s)]
  BY ConcatProperties
<1>3. \A k \in 1..Len(s) : (s \o d)[k] = s[k]
  BY <1>1, <1>2
<1>4. ASSUME NEW k \in 1..Len(d)
      PROVE  (s \o d)[Len(s) + k] = d[k]
  <2>1. Len(s) + k \in 1..(Len(s) + Len(d)) /\ ~(Len(s) + k <= Len(s)) /\ Len(s) + k - Len(s) = k
    BY <1>1
  <2> QED
    BY <1>2, <2>1
<1> QED
  BY <1>1, <1>2, <1>3, <1>4

\* A part of a file, byte by byte.
LEMMA PartIs ==
  ASSUME NEW s \in Seq(Bytes), NEW d \in Seq(Bytes)
  PROVE  Part(s, d) <=> \E k \in 0..(Len(s) - Len(d)) : \A i \in 1..Len(d) : s[k + i] = d[i]
<1>1. Len(s) \in Nat /\ Len(d) \in Nat
  BY LenProperties
<1>2. ASSUME NEW k \in 0..(Len(s) - Len(d))
      PROVE  SubSeq(s, k + 1, k + Len(d)) = d <=> \A i \in 1..Len(d) : s[k + i] = d[i]
  <2> DEFINE u == SubSeq(s, k + 1, k + Len(d))
  <2>1. k + 1 \in Nat /\ k + Len(d) \in Nat /\ k + Len(d) <= Len(s) /\ k + 1 >= 1
    BY <1>1
  <2>2. /\ u \in Seq(Bytes)
        /\ Len(u) = IF k + 1 <= k + Len(d) THEN (k + Len(d)) - (k + 1) + 1 ELSE 0
        /\ \A i \in 1..Len(u) : u[i] = s[(k + 1) + i - 1]
    BY <2>1, SubSeqIs
  <2>3. Len(u) = Len(d)
    BY <1>1, <2>2
  <2>4. \A i \in 1..Len(d) : u[i] = s[k + i]
    <3> SUFFICES ASSUME NEW i \in 1..Len(d)
                 PROVE  u[i] = s[k + i]
      OBVIOUS
    <3>1. (k + 1) + i - 1 = k + i
      OBVIOUS
    <3> HIDE DEF u
    <3> QED
      BY <2>2, <2>3, <3>1
  <2> HIDE DEF u
  <2>5. (\A i \in 1..Len(d) : u[i] = d[i]) => u = d
    BY <2>2, <2>3, SeqEqual
  <2> QED
    BY <2>4, <2>5 DEF u
<1> QED
  BY <1>2 DEF Part

LEMMA PartKept ==
  ASSUME NEW s \in Seq(Bytes), NEW d \in Seq(Bytes), NEW e \in Seq(Bytes), Part(s, d)
  PROVE  Part(s \o e, d)
<1>1. /\ s \o e \in Seq(Bytes) /\ Len(s) \in Nat /\ Len(e) \in Nat /\ Len(s \o e) = Len(s) + Len(e)
      /\ \A k \in 1..Len(s) : (s \o e)[k] = s[k]
  BY Concatenated
<1>2. Len(d) \in Nat
  BY LenProperties
<1>3. PICK k \in 0..(Len(s) - Len(d)) : \A i \in 1..Len(d) : s[k + i] = d[i]
  BY PartIs
<1>4. k \in 0..(Len(s \o e) - Len(d)) /\ \A i \in 1..Len(d) : k + i \in 1..Len(s)
  BY <1>1, <1>2
<1>5. \A i \in 1..Len(d) : (s \o e)[k + i] = d[i]
  BY <1>1, <1>3, <1>4
<1> QED
  BY <1>1, <1>4, <1>5, PartIs

LEMMA PartAppended ==
  ASSUME NEW s \in Seq(Bytes), NEW d \in Seq(Bytes)
  PROVE  Part(s \o d, d)
<1>1. /\ s \o d \in Seq(Bytes) /\ Len(s) \in Nat /\ Len(d) \in Nat /\ Len(s \o d) = Len(s) + Len(d)
      /\ \A k \in 1..Len(d) : (s \o d)[Len(s) + k] = d[k]
  BY Concatenated
<1>2. Len(s) \in 0..(Len(s \o d) - Len(d))
  BY <1>1
<1> QED
  BY <1>1, <1>2, PartIs

\* A file that is only appended to grows.
LEMMA OnlyGrows ==
  ASSUME FileInv, [Next]_vars, NEW f \in Files, Only("append", f)
  PROVE  \/ fs'[f] = fs[f]
         \/ fs[f] \in Seq(Bytes) /\ \E d \in Seq(Bytes) : fs'[f] = fs[f] \o d
<1>0. FileTypes /\ fs \in [Files -> Seq(Bytes) \cup {Absent}]
  BY DEF FileInv, FileTypes
<1> SUFFICES ASSUME fs' # fs
             PROVE  \/ fs'[f] = fs[f]
                    \/ fs[f] \in Seq(Bytes) /\ \E d \in Seq(Bytes) : fs'[f] = fs[f] \o d
  OBVIOUS
<1>1. PICK p \in Procs : fileman_write(p) \/ fileman_append(p) \/ fileman_copy(p)
  <2>1. ~UNCHANGED vars
    BY DEF vars
  <2>2. \A p \in Procs : access(p) \/ fileman_read(p) \/ get_dir(p) \/ drawTree(p) \/ listed(p) => fs' = fs
    BY DEF access, fileman_read, get_dir, drawTree, listed, Turn
  <2> QED
    BY <2>1, <2>2 DEF Next
<1> DEFINE c == calls[p]
<1>2. PlaceOK(p) /\ Fits(c)
  BY <1>0, Called DEF FileInv
<1>3. CASE fileman_write(p)
  <2>1. c.op = "write" /\ c.file # f
    BY <1>3 DEF fileman_write, At, Only
  <2>2. \E s : fs' = [fs EXCEPT ![c.file] = s]
    BY <1>3 DEF fileman_write, Store
  <2> QED
    BY <1>0, <2>1, <2>2
<1>4. CASE fileman_append(p)
  <2>1. c.op = "append" /\ pc[p] = "open" /\ c.file \in Files /\ c.data \in Seq(Bytes)
    BY <1>2, <1>4 DEF fileman_append, At, Fits
  <2>2. PICK n \in 0..Len(c.data) : fs' = [fs EXCEPT ![c.file] = fs[c.file] \o SubSeq(c.data, 1, n)]
    BY <1>4 DEF fileman_append, Store
  <2>3. SubSeq(c.data, 1, n) \in Seq(Bytes)
    BY <2>1, SubSeqIs
  <2>4. fs[c.file] \in Seq(Bytes)
    BY <1>0, <1>2, <2>1 DEF PlaceOK, Exists
  <2>5. CASE c.file = f
    BY <1>0, <2>2, <2>3, <2>4, <2>5
  <2>6. CASE c.file # f
    BY <1>0, <2>2, <2>6
  <2> QED
    BY <2>5, <2>6
<1>5. CASE fileman_copy(p)
  <2>1. c.op = "copy" /\ c.dest # f
    BY <1>5 DEF fileman_copy, copy_open, copy_read, copy_write, At, Only
  <2>2. fs' = fs \/ \E s : fs' = [fs EXCEPT ![c.dest] = s]
    BY <1>5 DEF fileman_copy, copy_open, copy_read, copy_write, Store
  <2> QED
    BY <1>0, <2>1, <2>2
<1> QED
  BY <1>1, <1>3, <1>4, <1>5

\* The beginning of such a file is what it was at first, and what has been appended
\* is still there.
AppendOK(f) ==
  /\ Start[f] = Absent => fs[f] = Absent
  /\ Start[f] # Absent => fs[f] # Absent /\ StartsWith(fs[f], Start[f])
  /\ \A p \in Procs :
       calls[p].op = "append" /\ calls[p].file = f /\ pc[p] = "done" /\ ret[p] >= 0 =>
         fs[f] # Absent /\ Part(fs[f], SubSeq(calls[p].data, 1, ret[p]))

AppendInv == \A f \in Files : Only("append", f) => AppendOK(f)

LEMMA AppendInit == Init => AppendInv
<1> SUFFICES ASSUME Init, NEW f \in Files
             PROVE  AppendOK(f)
  BY DEF AppendInv
<1>1. fs = Start /\ \A p \in Procs : pc[p] # "done"
  BY DEF Init, Procs
<1>2. Start[f] # Absent => Len(Start[f]) \in Nat
  BY FilemanAssumption, LenProperties
<1> QED
  BY <1>1, <1>2 DEF AppendOK, StartsWith

LEMMA AppendStep ==
  ASSUME FileInv, ViewInv, AppendInv, [Next]_vars
  PROVE  AppendInv'
<1>0. FileTypes /\ fs \in [Files -> Seq(Bytes) \cup {Absent}]
  BY DEF FileInv, FileTypes
<1>1. calls' = calls /\ \A f : Only("append", f)' <=> Only("append", f)
  <2>1. calls' = calls
    BY DEF Next, vars, access, fileman_read, fileman_write, fileman_append, fileman_copy, copy_open,
           copy_read, copy_write, get_dir, drawTree, Turn, listed
  <2> QED
    BY <2>1 DEF Only, Procs
<1> SUFFICES ASSUME NEW f \in Files, Only("append", f)
             PROVE  AppendOK(f)'
  BY <1>1 DEF AppendInv
<1>2. AppendOK(f)
  BY DEF AppendInv
<1>3. \/ fs'[f] = fs[f]
      \/ fs[f] \in Seq(Bytes) /\ \E d \in Seq(Bytes) : fs'[f] = fs[f] \o d
  BY OnlyGrows
<1>4. Absent \notin Seq(Bytes) /\ Start[f] \in Seq(Bytes) \cup {Absent}
  BY FilemanAssumption
<1>5. Start[f] = Absent => fs'[f] = Absent
  BY <1>2, <1>3, <1>4 DEF AppendOK
<1>6. Start[f] # Absent => fs'[f] # Absent /\ StartsWith(fs'[f], Start[f])
  <2> SUFFICES ASSUME Start[f] # Absent, fs'[f] # fs[f]
               PROVE  fs'[f] # Absent /\ StartsWith(fs'[f], Start[f])
    BY <1>2 DEF AppendOK
  <2>1. PICK d \in Seq(Bytes) : fs[f] \in Seq(Bytes) /\ fs'[f] = fs[f] \o d
    BY <1>3
  <2>2. /\ fs'[f] \in Seq(Bytes)
        /\ Len(fs[f]) \in Nat /\ Len(d) \in Nat /\ Len(fs'[f]) = Len(fs[f]) + Len(d)
        /\ \A k \in 1..Len(fs[f]) : fs'[f][k] = fs[f][k]
    BY <2>1, Concatenated
  <2>3. StartsWith(fs[f], Start[f]) /\ Len(Start[f]) \in Nat
    BY <1>2, <1>4, LenProperties DEF AppendOK
  <2> QED
    BY <1>4, <2>2, <2>3 DEF StartsWith
<1>7. ASSUME NEW p \in Procs, calls[p].op = "append", calls[p].file = f, pc'[p] = "done", ret'[p] >= 0
      PROVE  fs'[f] # Absent /\ Part(fs'[f], SubSeq(calls[p].data, 1, ret'[p]))
  <2>0. PlaceOK(p) /\ calls[p].data \in Seq(Bytes) /\ ret[p] \in Int
    BY <1>0, <1>7, Called DEF FileInv, FileTypes, Fits
  <2>1. CASE pc[p] = "done" /\ ret'[p] = ret[p]
    <3> DEFINE b == SubSeq(calls[p].data, 1, ret[p])
    <3>1. ret[p] \in Nat /\ ret[p] <= Len(calls[p].data)
      BY <1>7, <2>0, <2>1 DEF PlaceOK
    <3>2. b \in Seq(Bytes)
      BY <2>0, <3>1, SubSeqIs
    <3>3. fs[f] # Absent /\ Part(fs[f], b)
      BY <1>2, <1>7, <2>1 DEF AppendOK
    <3> HIDE DEF b
    <3>4. CASE fs'[f] = fs[f]
      BY <2>1, <3>3, <3>4 DEF b
    <3>5. ASSUME NEW d \in Seq(Bytes), fs[f] \in Seq(Bytes), fs'[f] = fs[f] \o d
          PROVE  fs'[f] # Absent /\ Part(fs'[f], b)
      BY <1>4, <3>2, <3>3, <3>5, PartKept, Concatenated
    <3> QED
      BY <1>3, <2>1, <3>4, <3>5 DEF b
  <2>2. CASE fileman_append(p)
    <3>1. pc[p] = "open" /\ fs[f] \in Seq(Bytes)
      BY <1>0, <1>7, <2>0, <2>2 DEF fileman_append, At, PlaceOK, Exists
    <3>2. PICK n \in 0..Len(calls[p].data) :
            /\ fs' = [fs EXCEPT ![f] = fs[f] \o SubSeq(calls[p].data, 1, n)]
            /\ ret' = [ret EXCEPT ![p] = n]
      <4>1. ret \in [Procs -> Int]
        BY <1>0 DEF FileTypes
      <4> QED
        BY <1>7, <2>2, <4>1 DEF fileman_append, Store, Returns
    <3> DEFINE b == SubSeq(calls[p].data, 1, n)
    <3>3. b \in Seq(Bytes)
      BY <2>0, SubSeqIs
    <3>4. fs'[f] = fs[f] \o b /\ ret'[p] = n
      <4>1. ret \in [Procs -> Int]
        BY <1>0 DEF FileTypes
      <4> QED
        BY <1>0, <3>2, <4>1
    <3> HIDE DEF b
    <3>5. fs'[f] \in Seq(Bytes) /\ Part(fs'[f], b)
      BY <3>1, <3>3, <3>4, PartAppended, Concatenated
    <3> QED
      BY <1>4, <3>4, <3>5 DEF b
  <2>3. CASE access(p)
    <3>2. pc'[p] = "done" => ret'[p] = -1
      BY <1>0, <2>3 DEF access, Returns, Goto, FileTypes
    <3> QED
      BY <1>7, <3>2
  <2>4. ~fileman_read(p) /\ ~fileman_write(p) /\ ~fileman_copy(p) /\ ~get_dir(p) /\ ~drawTree(p) /\ ~listed(p)
    BY <1>7 DEF fileman_read, fileman_write, fileman_copy, copy_open, copy_read, copy_write, get_dir,
                drawTree, Turn, At, listed, ViewInv, ViewOK, Views
  <2>5. CASE \E q \in Procs \ {p} :
               \/ access(q) \/ fileman_read(q) \/ fileman_write(q) \/ fileman_append(q)
               \/ fileman_copy(q) \/ get_dir(q) \/ drawTree(q) \/ listed(q)
    <3>1. pc'[p] = pc[p] /\ ret'[p] = ret[p]
      <4>1. pc \in [Procs -> {"draw", "access", "open", "read", "write", "done"}] /\ ret \in [Procs -> Int]
        BY <1>0 DEF FileTypes
      <4> QED
        BY <2>5, <4>1 DEF access, fileman_read, fileman_write, fileman_append, fileman_copy, copy_open,
             copy_read, copy_write, get_dir, drawTree, Turn, listed, Returns, Goto
    <3> QED
      BY <1>7, <2>1, <3>1
  <2>6. CASE UNCHANGED vars
    BY <1>7, <2>1, <2>6 DEF vars
  <2> QED
    BY <2>2, <2>3, <2>4, <2>5, <2>6 DEF Next
<1> QED
  BY <1>1, <1>5, <1>6, <1>7 DEF AppendOK, Procs

THEOREM BytesAppended == Spec => []AppendInv
<1> QED
  BY AppendInit, AppendStep, TypedFiles, TypedViews, PTL DEF Spec

\* Processes that append to a file at the same time, and others that copy it, lose
\* no bytes: each finds what it says it has appended (fileman.c:184-187).
THEOREM SafeAppendsKept == Spec => []AppendsKept
<1>1. ASSUME FileInv, AppendInv
      PROVE  AppendsKept
  <2> SUFFICES ASSUME NEW p \in Procs, calls[p].op = "append", pc[p] = "done", ret[p] >= 0,
                      Only("append", calls[p].file)
               PROVE  /\ Part(fs[calls[p].file], SubSeq(calls[p].data, 1, ret[p]))
                      /\ SubSeq(fs[calls[p].file], 1, Len(Start[calls[p].file])) = Start[calls[p].file]
    BY DEF AppendsKept
  <2> DEFINE f == calls[p].file
  <2>1. f \in Files /\ fs[f] \in Seq(Bytes) \cup {Absent}
    BY <1>1, Called DEF FileInv, Fits, FileTypes
  <2>2. AppendOK(f)
    BY <1>1, <2>1 DEF AppendInv
  <2>3. fs[f] \in Seq(Bytes) /\ Part(fs[f], SubSeq(calls[p].data, 1, ret[p]))
    BY <2>1, <2>2 DEF AppendOK
  <2>4. Start[f] \in Seq(Bytes) /\ StartsWith(fs[f], Start[f])
    BY <2>1, <2>2, <2>3, FilemanAssumption DEF AppendOK
  <2> DEFINE s == fs[f]
             t == Start[f]
             u == SubSeq(s, 1, Len(t))
  <2>5. s \in Seq(Bytes) /\ t \in Seq(Bytes) /\ Len(t) \in Nat /\ StartsWith(s, t)
    BY <2>3, <2>4, LenProperties
  <2> HIDE DEF s, t
  <2>6. /\ u \in Seq(Bytes)
        /\ Len(u) = IF 1 <= Len(t) THEN Len(t) - 1 + 1 ELSE 0
        /\ \A i \in 1..Len(u) : u[i] = s[1 + i - 1]
    BY <2>5, SubSeqIs DEF StartsWith
  <2> HIDE DEF u
  <2>7. Len(u) = Len(t)
    BY <2>5, <2>6
  <2>8. ASSUME NEW i \in 1..Len(u)
        PROVE  u[i] = t[i]
    <3>1. i \in 1..Len(t) /\ 1 + i - 1 = i
      BY <2>5, <2>7
    <3> QED
      BY <2>5, <2>6, <3>1 DEF StartsWith
  <2>9. u = t
    BY <2>5, <2>6, <2>7, <2>8, SeqEqual
  <2> QED
    BY <2>3, <2>9 DEF u, s, t
<1> QED
  BY <1>1, TypedFiles, BytesAppended, PTL

----------------------------------------------------------------------------
(* Copying *)

\* The copies of one file that have opened another.
Copiers(f) == {q \in Procs : Copying(q) /\ calls[q].dest = f}

\* Only copies of S write f, S is only appended to, and no write has been short yet.
Whole(f, S) ==
  /\ Only("copy", f) /\ Only("append", S)
  /\ \A q \in Copiers(f) : calls[q].src = S /\ offset[q] + Pending(q) = count[q]

\* A copy that has read all there was, and how far one will write.
ReadAll(q) == pc[q] = "write" /\ Len(buf[q]) # BufSize
Reach(q, S) == IF ReadAll(q) THEN count[q] ELSE Len(fs[S])

Right(k, f, S) == k <= Len(fs[f]) /\ fs[f][k] = fs[S][k]

\* Another copy has truncated f and is yet to write byte k.
ToWrite(k, f, S) ==
  \E r \in Copiers(f) : pc[r] # "done" /\ offset[r] < k /\ k <= Reach(r, S)

CopyOK(f, S) ==
  /\ \A q \in Copiers(f) :
       /\ count[q] <= Len(fs[S])
       /\ pc[q] = "write" => \A i \in 1..Len(buf[q]) : buf[q][i] = fs[S][offset[q] + i]
       /\ ReadAll(q) \/ pc[q] = "done" => Len(Start[S]) <= count[q]
       /\ \A k \in 1..offset[q] : Right(k, f, S) \/ ToWrite(k, f, S)
  /\ Copiers(f) # {} => \E q \in Copiers(f) : Len(fs[f]) <= offset[q]

CopyInv == \A f, S \in Files : Whole(f, S) => CopyOK(f, S)

LEMMA CopierIs ==
  ASSUME FileInv, NEW f \in Files, NEW S \in Files, Whole(f, S), NEW q \in Copiers(f)
  PROVE  /\ q \in Procs /\ calls[q].op = "copy" /\ calls[q].dest = f /\ calls[q].src = S /\ S # f
         /\ pc[q] \in {"read", "write", "done"} /\ (pc[q] = "done" => ret[q] = count[q])
         /\ offset[q] \in Nat /\ count[q] \in Nat /\ buf[q] \in Seq(Bytes) /\ Len(buf[q]) \in Nat
         /\ offset[q] + Pending(q) = count[q] /\ offset[q] <= count[q]
         /\ fs[f] \in Seq(Bytes) /\ Len(fs[f]) \in Nat
         /\ fs[S] \in Seq(Bytes) /\ Len(fs[S]) \in Nat
<1>1. /\ q \in Procs /\ Copying(q) /\ calls[q].op = "copy" /\ calls[q].dest = f /\ calls[q].src = S
      /\ offset[q] + Pending(q) = count[q] /\ PlaceOK(q)
  BY DEF Copiers, Whole, Copying, Copies, FileInv
<1>2. S # f
  BY <1>1 DEF Whole, Only
<1>3. /\ offset[q] \in Nat /\ count[q] \in Nat /\ buf[q] \in Seq(Bytes)
      /\ fs[f] \in Seq(Bytes) \cup {Absent} /\ fs[S] \in Seq(Bytes) \cup {Absent}
  BY <1>1 DEF FileInv, FileTypes
<1>4. Len(buf[q]) \in Nat
  BY <1>3, LenProperties
<1>5. fs[f] \in Seq(Bytes) /\ fs[S] \in Seq(Bytes)
  BY <1>1, <1>3 DEF PlaceOK, Exists
<1>6. Len(fs[f]) \in Nat /\ Len(fs[S]) \in Nat
  BY <1>5, LenProperties
<1>7. pc[q] \in {"read", "write", "done"} /\ (pc[q] = "done" => ret[q] = count[q])
  BY <1>1, <1>3 DEF Copying, PlaceOK
<1>8. offset[q] <= count[q]
  BY <1>1, <1>3, <1>4 DEF Pending
<1> QED
  BY <1>1, <1>2, <1>3, <1>4, <1>5, <1>6, <1>7, <1>8

\* The file that is copied may grow.
LEMMA CopyKept ==
  ASSUME FileInv, NEW f \in Files, NEW S \in Files, Whole(f, S), CopyOK(f, S),
         Copiers(f)' = Copiers(f),
         \A q \in Copiers(f) : /\ pc'[q] = pc[q] /\ buf'[q] = buf[q]
                               /\ count'[q] = count[q] /\ offset'[q] = offset[q],
         fs'[f] = fs[f],
         fs'[S] = fs[S] \/ \E d \in Seq(Bytes) : fs'[S] = fs[S] \o d
  PROVE  CopyOK(f, S)'
<1> SUFFICES ASSUME Copiers(f) # {}
             PROVE  CopyOK(f, S)'
  BY DEF CopyOK
<1>1. PICK q0 \in Copiers(f) : Len(fs[f]) <= offset[q0]
  BY DEF CopyOK
<1>2. fs[S] \in Seq(Bytes) /\ Len(fs[S]) \in Nat /\ Len(fs[f]) \in Nat
  BY CopierIs
<1>3. /\ Len(fs'[S]) \in Nat /\ Len(fs[S]) <= Len(fs'[S])
      /\ \A k \in 1..Len(fs[S]) : fs'[S][k] = fs[S][k]
  <2>1. CASE fs'[S] = fs[S]
    BY <1>2, <2>1
  <2>2. ASSUME NEW d \in Seq(Bytes), fs'[S] = fs[S] \o d
        PROVE  /\ Len(fs'[S]) \in Nat /\ Len(fs[S]) <= Len(fs'[S])
               /\ \A k \in 1..Len(fs[S]) : fs'[S][k] = fs[S][k]
    <3>1. /\ Len(d) \in Nat /\ Len(fs[S] \o d) = Len(fs[S]) + Len(d)
          /\ \A k \in 1..Len(fs[S]) : (fs[S] \o d)[k] = fs[S][k]
      BY <1>2, Concatenated
    <3> QED
      BY <1>2, <2>2, <3>1
  <2> QED
    BY <2>1, <2>2
<1>4. ASSUME NEW q \in Copiers(f)
      PROVE  /\ (ReadAll(q)' <=> ReadAll(q)) /\ Reach(q, S) <= Reach(q, S)'
             /\ count[q] \in Nat /\ offset[q] \in Nat /\ Reach(q, S) \in Nat /\ Reach(q, S)' \in Nat
             /\ offset[q] + Pending(q) = count[q] /\ count[q] <= Len(fs[S]) /\ Len(buf[q]) \in Nat
             /\ offset[q] <= count[q]
  <2>1. /\ count[q] \in Nat /\ offset[q] \in Nat /\ Len(buf[q]) \in Nat
        /\ offset[q] + Pending(q) = count[q] /\ offset[q] <= count[q]
    BY CopierIs
  <2>2. ReadAll(q)' <=> ReadAll(q)
    BY DEF ReadAll
  <2>3. count[q] <= Len(fs[S])
    BY DEF CopyOK
  <2> QED
    BY <1>2, <1>3, <2>1, <2>2, <2>3 DEF Reach
<1>5. \A k \in Nat : ToWrite(k, f, S) => ToWrite(k, f, S)'
  <2> SUFFICES ASSUME NEW k \in Nat, NEW r \in Copiers(f), pc[r] # "done", offset[r] < k, k <= Reach(r, S)
               PROVE  ToWrite(k, f, S)'
    BY DEF ToWrite
  <2>1. r \in Copiers(f)' /\ pc'[r] # "done" /\ offset'[r] < k /\ k <= Reach(r, S)'
    BY <1>4
  <2> QED
    BY <2>1 DEF ToWrite
<1>6. ASSUME NEW q \in Copiers(f)
      PROVE  /\ count'[q] <= Len(fs'[S])
             /\ pc'[q] = "write" => \A i \in 1..Len(buf'[q]) : buf'[q][i] = fs'[S][offset'[q] + i]
             /\ ReadAll(q)' \/ pc'[q] = "done" => Len(Start[S]) <= count'[q]
             /\ \A k \in 1..offset'[q] : Right(k, f, S)' \/ ToWrite(k, f, S)'
  <2>1. count'[q] <= Len(fs'[S])
    <3>1. count'[q] = count[q] /\ count[q] \in Nat /\ count[q] <= Len(fs[S])
      BY <1>4
    <3>2. Len(fs[S]) \in Nat /\ Len(fs'[S]) \in Nat /\ Len(fs[S]) <= Len(fs'[S])
      BY <1>2, <1>3
    <3> QED
      BY <3>1, <3>2
  <2>2. ASSUME NEW i \in 1..Len(buf[q]), pc[q] = "write"
        PROVE  buf[q][i] = fs'[S][offset[q] + i]
    <3>1. Pending(q) = Len(buf[q])
      BY <2>2 DEF Pending
    <3>2. offset[q] + i \in 1..Len(fs[S])
      <4>1. offset[q] + Len(buf[q]) <= Len(fs[S])
        BY <1>4, <3>1
      <4>2. offset[q] \in Nat /\ Len(buf[q]) \in Nat /\ Len(fs[S]) \in Nat
        BY <1>2, <1>4
      <4> QED
        BY <4>1, <4>2
    <3> QED
      BY <1>3, <2>2, <3>2 DEF CopyOK
  <2>3. ReadAll(q)' \/ pc'[q] = "done" => Len(Start[S]) <= count'[q]
    BY <1>4 DEF CopyOK
  <2>4. ASSUME NEW k \in 1..offset[q]
        PROVE  Right(k, f, S)' \/ ToWrite(k, f, S)'
    <3>1. k \in 1..Len(fs[S]) /\ k \in Nat
      BY <1>2, <1>4
    <3>2. Right(k, f, S) \/ ToWrite(k, f, S)
      BY DEF CopyOK
    <3> QED
      BY <1>3, <1>5, <3>1, <3>2 DEF Right
  <2> QED
    BY <2>1, <2>2, <2>3, <2>4
<1> QED
  BY <1>1, <1>6 DEF CopyOK

\* The others go on while p makes a step of its copy.
CopyOf(p, f, S) ==
  /\ calls' = calls /\ fs'[S] = fs[S]
  /\ \A q \in Copiers(f) : q # p => /\ pc'[q] = pc[q] /\ buf'[q] = buf[q]
                                    /\ count'[q] = count[q] /\ offset'[q] = offset[q]

LEMMA CopyOpened ==
  ASSUME FileInv, NEW f \in Files, NEW S \in Files, Whole(f, S), CopyOK(f, S),
         NEW p \in Procs, CopyOf(p, f, S), p \notin Copiers(f), Copiers(f)' = Copiers(f) \cup {p},
         pc'[p] = "read", fs'[f] = <<>>, offset'[p] = 0, count'[p] = 0, fs[S] \in Seq(Bytes)
  PROVE  CopyOK(f, S)'
<1>1. Len(fs[S]) \in Nat /\ Len(fs'[f]) = 0 /\ fs'[S] = fs[S]
  BY LenProperties, EmptySeq DEF CopyOf
<1>2. ~ReadAll(p)' /\ Reach(p, S)' = Len(fs[S])
  BY <1>1 DEF ReadAll, Reach
<1>3. ASSUME NEW k \in 1..Len(fs[S])
      PROVE  ToWrite(k, f, S)'
  <2>1. offset'[p] < k /\ k <= Reach(p, S)' /\ pc'[p] # "done"
    BY <1>1, <1>2
  <2> QED
    BY <2>1 DEF ToWrite
<1>4. ASSUME NEW q \in Copiers(f), q # p
      PROVE  /\ count'[q] <= Len(fs'[S])
             /\ pc'[q] = "write" => \A i \in 1..Len(buf'[q]) : buf'[q][i] = fs'[S][offset'[q] + i]
             /\ ReadAll(q)' \/ pc'[q] = "done" => Len(Start[S]) <= count'[q]
             /\ \A k \in 1..offset'[q] : ToWrite(k, f, S)'
  <2>1. pc'[q] = pc[q] /\ buf'[q] = buf[q] /\ count'[q] = count[q] /\ offset'[q] = offset[q]
    BY <1>4 DEF CopyOf
  <2>2. offset[q] \in Nat /\ count[q] \in Nat /\ offset[q] <= count[q] /\ count[q] <= Len(fs[S])
    BY CopierIs DEF CopyOK
  <2>3. \A k \in 1..offset[q] : k \in 1..Len(fs[S])
    BY <1>1, <2>2
  <2>4. ReadAll(q)' <=> ReadAll(q)
    BY <2>1 DEF ReadAll
  <2> QED
    BY <1>1, <1>3, <2>1, <2>2, <2>3, <2>4 DEF CopyOK
<1>5. /\ count'[p] <= Len(fs'[S]) /\ pc'[p] # "write" /\ pc'[p] # "done" /\ ~ReadAll(p)'
      /\ \A k \in 1..offset'[p] : FALSE
  BY <1>1, <1>2
<1>6. Len(fs'[f]) <= offset'[p]
  BY <1>1
<1> QED
  BY <1>4, <1>5, <1>6 DEF CopyOK

LEMMA CopyReads ==
  ASSUME FileInv, NEW f \in Files, NEW S \in Files, Whole(f, S), CopyOK(f, S), AppendOK(S),
         NEW p \in Copiers(f), CopyOf(p, f, S), Copiers(f)' = Copiers(f),
         pc[p] = "read", pc'[p] = "write", fs'[f] = fs[f], offset'[p] = offset[p],
         buf'[p] = SubSeq(fs[S], count[p] + 1, Least(Len(fs[S]), count[p] + BufSize)),
         count'[p] = count[p] + Len(buf'[p])
  PROVE  CopyOK(f, S)'
<1> DEFINE m == Least(Len(fs[S]), count[p] + BufSize)
           s == fs[S]
           b == buf'[p]
           n == count[p]
<1>1. /\ n \in Nat /\ offset[p] = n /\ n <= Len(s) /\ s \in Seq(Bytes) /\ Len(s) \in Nat
      /\ BufSize \in Nat /\ S # f
  <2>1. offset[p] + Pending(p) = count[p] /\ Pending(p) = 0
    BY CopierIs DEF Pending
  <2> QED
    BY <2>1, CopierIs, FilemanAssumption DEF CopyOK
<1>2. m \in Nat /\ n <= m /\ m <= Len(s) /\ (m = Len(s) \/ m = n + BufSize)
  BY <1>1 DEF Least
<1> HIDE DEF m, s
<1>3. b = SubSeq(s, n + 1, m)
  BY DEF m, s
<1> HIDE DEF b, n
<1>4. Len(b) = m - n /\ \A i \in 1..Len(b) : b[i] = s[n + i]
  <2>1. /\ Len(b) = IF n + 1 <= m THEN m - (n + 1) + 1 ELSE 0
        /\ \A i \in 1..Len(b) : b[i] = s[(n + 1) + i - 1]
    BY <1>1, <1>2, <1>3, SubSeqIs
  <2>2. \A i \in 1..Len(b) : (n + 1) + i - 1 = n + i
    BY <1>1, <1>2, <2>1
  <2> QED
    BY <1>1, <1>2, <2>1, <2>2
<1>5. count'[p] = m /\ fs'[S] = s /\ fs[S] = s
  <2>1. count'[p] = n + Len(b)
    BY DEF n, b
  <2>2. fs'[S] = s /\ fs[S] = s
    BY DEF s, CopyOf
  <2>3. n + Len(b) = m
    <3>1. n \in Nat /\ m \in Nat /\ Len(b) = m - n
      BY <1>1, <1>2, <1>4
    <3> QED
      BY <3>1
  <2> QED
    BY <2>1, <2>2, <2>3
<1>6. ReadAll(p)' => m = Len(s)
  <2>1. ReadAll(p)' => Len(b) # BufSize
    BY DEF ReadAll, b
  <2> QED
    BY <1>1, <1>2, <1>4, <2>1
<1>7. Reach(p, S)' = Len(s) /\ Reach(p, S) = Len(s)
  BY <1>5, <1>6 DEF Reach, ReadAll
<1>8. Len(Start[S]) <= Len(s)
  <2>1. fs[S] # Absent
    BY <1>1, <1>5, FilemanAssumption
  <2> QED
    BY <1>5, <2>1 DEF AppendOK, StartsWith
<1>9. \A q \in Copiers(f) : q # p => /\ pc'[q] = pc[q] /\ buf'[q] = buf[q]
                                     /\ count'[q] = count[q] /\ offset'[q] = offset[q]
  BY DEF CopyOf
<1>10. \A q \in Copiers(f) : q # p => Reach(q, S)' = Reach(q, S) /\ (ReadAll(q)' <=> ReadAll(q))
  BY <1>5, <1>9 DEF Reach, ReadAll
<1>11. \A k : ToWrite(k, f, S) => ToWrite(k, f, S)'
  <2> SUFFICES ASSUME NEW k, NEW r \in Copiers(f), pc[r] # "done", offset[r] < k, k <= Reach(r, S)
               PROVE  ToWrite(k, f, S)'
    BY DEF ToWrite
  <2>1. pc'[r] # "done" /\ offset'[r] < k /\ k <= Reach(r, S)'
    BY <1>7, <1>9, <1>10
  <2> QED
    BY <2>1 DEF ToWrite
<1>12. \A k : Right(k, f, S)' <=> Right(k, f, S)
  BY <1>5 DEF Right
<1>13. ASSUME NEW q \in Copiers(f)
       PROVE  /\ count'[q] <= Len(fs'[S])
              /\ pc'[q] = "write" => \A i \in 1..Len(buf'[q]) : buf'[q][i] = fs'[S][offset'[q] + i]
              /\ ReadAll(q)' \/ pc'[q] = "done" => Len(Start[S]) <= count'[q]
              /\ \A k \in 1..offset'[q] : Right(k, f, S)' \/ ToWrite(k, f, S)'
  <2>1. \A k \in 1..offset'[q] : Right(k, f, S)' \/ ToWrite(k, f, S)'
    <3>1. offset'[q] = offset[q]
      BY <1>9
    <3> QED
      BY <1>11, <1>12, <3>1 DEF CopyOK
  <2>2. CASE q = p
    BY <1>1, <1>2, <1>4, <1>5, <1>6, <1>8, <2>1, <2>2 DEF b, n
  <2>3. CASE q # p
    BY <1>5, <1>9, <1>10, <2>1, <2>3 DEF CopyOK
  <2> QED
    BY <2>2, <2>3
<1>14. \E q \in Copiers(f) : Len(fs'[f]) <= offset'[q]
  BY <1>9 DEF CopyOK
<1> QED
  BY <1>13, <1>14 DEF CopyOK

LEMMA CopyWrites ==
  ASSUME FileInv, NEW f \in Files, NEW S \in Files, Whole(f, S), CopyOK(f, S),
         NEW p \in Copiers(f), CopyOf(p, f, S), Copiers(f)' = Copiers(f),
         pc[p] = "write", pc'[p] = IF Len(buf[p]) = BufSize THEN "read" ELSE "done",
         buf'[p] = buf[p], count'[p] = count[p], NEW n \in 0..Len(buf[p]), n = Len(buf[p]),
         fs'[f] = Written(fs[f], offset[p], SubSeq(buf[p], 1, n)), offset'[p] = offset[p] + n
  PROVE  CopyOK(f, S)'
<1> DEFINE b == buf[p]
           at == offset[p]
           s == fs[f]
           d == SubSeq(b, 1, n)
           w == Written(s, at, d)
<1>1. /\ at \in Nat /\ b \in Seq(Bytes) /\ n \in Nat /\ s \in Seq(Bytes) /\ Len(s) \in Nat
      /\ fs[S] \in Seq(Bytes) /\ Len(fs[S]) \in Nat /\ fs'[S] = fs[S] /\ n = Len(b)
      /\ count[p] = at + n /\ count[p] <= Len(fs[S]) /\ offset'[p] = at + n /\ fs'[f] = w
      /\ \A i \in 1..n : b[i] = fs[S][at + i]
  <2>1. Pending(p) = n
    BY DEF Pending
  <2> QED
    BY <2>1, CopierIs DEF CopyOK, CopyOf
<1> HIDE DEF b, at, s
<1>2. d \in Seq(Bytes) /\ Len(d) = n /\ \A i \in 1..n : d[i] = b[i]
  <2>1. /\ d \in Seq(Bytes) /\ Len(d) = IF 1 <= n THEN n - 1 + 1 ELSE 0
        /\ \A i \in 1..Len(d) : d[i] = b[1 + i - 1]
    BY <1>1, SubSeqIs
  <2> HIDE DEF d
  <2>2. Len(d) = n /\ \A i \in 1..n : 1 + i - 1 = i
    BY <1>1, <2>1
  <2> QED
    BY <2>1, <2>2
<1> HIDE DEF d
\* What was written is right, what was there is kept, and the rest is a gap.
<1>3. /\ w \in Seq(Bytes) /\ Len(w) \in Nat /\ Len(s) <= Len(w)
      /\ n # 0 => at + n <= Len(w)
      /\ Len(w) <= Len(s) \/ Len(w) <= at + n
      /\ \A k \in (at + 1)..(at + n) : k <= Len(w) /\ w[k] = fs[S][k]
      /\ \A k \in 1..Len(s) : k \in (at + 1)..(at + n) \/ w[k] = s[k]
  <2>1. CASE n = 0
    <3>1. w = s
      <4>1. d = <<>>
        BY <1>2, <2>1, EmptySeq
      <4>2. w = s
        BY <4>1 DEF Written
      <4> QED
        BY <4>2
    <3> QED
      BY <1>1, <2>1, <3>1
  <2>2. CASE n # 0
    <3>1. d # <<>>
      BY <1>1, <1>2, <2>2, EmptySeq
    <3>2. /\ w \in Seq(Bytes)
          /\ Len(w) = IF Len(s) > at + n THEN Len(s) ELSE at + n
          /\ \A k \in 1..Len(w) : w[k] =
               IF k \in (at + 1)..(at + n) THEN d[k - at] ELSE IF k <= Len(s) THEN s[k] ELSE 0
      BY <1>1, <1>2, <3>1, WrittenIs
    <3> HIDE DEF w
    <3>3. ASSUME NEW k \in (at + 1)..(at + n)
          PROVE  k <= Len(w) /\ w[k] = fs[S][k]
      <4>1. k \in 1..Len(w) /\ k - at \in 1..n /\ at + (k - at) = k
        <5>1. at \in Nat /\ n \in Nat /\ Len(s) \in Nat
          BY <1>1
        <5>2. Len(w) \in Nat /\ at + n <= Len(w)
          BY <3>2, <5>1
        <5> QED
          BY <5>1, <5>2
      <4>2. w[k] = d[k - at] /\ d[k - at] = b[k - at]
        BY <1>2, <3>2, <4>1
      <4>3. b[k - at] = fs[S][k]
        BY <1>1, <4>1
      <4> QED
        BY <4>1, <4>2, <4>3
    <3>4. ASSUME NEW k \in 1..Len(s)
          PROVE  k \in (at + 1)..(at + n) \/ w[k] = s[k]
      <4>1. k \in 1..Len(w) /\ k <= Len(s)
        BY <1>1, <3>2
      <4> QED
        BY <3>2, <4>1
    <3> QED
      BY <1>1, <2>2, <3>2, <3>3, <3>4
  <2> QED
    BY <1>1, <2>1, <2>2
<1> HIDE DEF w
<1>4. \A q \in Copiers(f) : q # p => /\ pc'[q] = pc[q] /\ buf'[q] = buf[q]
                                     /\ count'[q] = count[q] /\ offset'[q] = offset[q]
  BY DEF CopyOf
<1>5. ASSUME NEW q \in Copiers(f)
      PROVE  /\ offset[q] \in Nat /\ count[q] \in Nat /\ offset[q] <= count[q] /\ count[q] <= Len(fs[S])
             /\ Reach(q, S) \in Nat /\ (q # p => Reach(q, S)' = Reach(q, S) /\ (ReadAll(q)' <=> ReadAll(q)))
             /\ offset'[q] \in Nat
  <2>1. offset[q] \in Nat /\ count[q] \in Nat /\ offset[q] <= count[q] /\ count[q] <= Len(fs[S])
    BY CopierIs DEF CopyOK
  <2>2. q # p => Reach(q, S)' = Reach(q, S) /\ (ReadAll(q)' <=> ReadAll(q))
    BY <1>1, <1>4 DEF Reach, ReadAll
  <2> QED
    BY <1>1, <1>4, <2>1, <2>2 DEF Reach
<1>6. \A k \in (at + 1)..(at + n) : Right(k, f, S)'
  BY <1>1, <1>3 DEF Right
<1>7. ASSUME NEW k \in 1..Len(fs[S]), Right(k, f, S)
      PROVE  Right(k, f, S)'
  <2>1. k \in 1..Len(s) /\ s[k] = fs[S][k]
    BY <1>1, <1>7 DEF Right, s
  <2> QED
    BY <1>1, <1>3, <1>6, <2>1 DEF Right
\* What p was to write it has now written, or will write later.
<1>8. ASSUME NEW k \in 1..Len(fs[S]), ToWrite(k, f, S)
      PROVE  Right(k, f, S)' \/ ToWrite(k, f, S)'
  <2>1. PICK r \in Copiers(f) : pc[r] # "done" /\ offset[r] < k /\ k <= Reach(r, S)
    BY <1>8 DEF ToWrite
  <2>2. CASE r # p
    BY <1>4, <1>5, <2>1, <2>2 DEF ToWrite
  <2>3. CASE r = p /\ k <= at + n
    <3>1. k \in (at + 1)..(at + n)
      BY <1>1, <2>1, <2>3 DEF at
    <3> QED
      BY <1>6, <3>1
  <2>4. CASE r = p /\ ~(k <= at + n)
    <3>1. Len(buf[p]) = BufSize
      BY <1>1, <2>1, <2>4 DEF Reach, ReadAll
    <3>2. pc'[p] = "read"
      BY <3>1
    <3>3. k <= Reach(p, S)' /\ offset'[p] < k /\ pc'[p] # "done"
      BY <1>1, <2>4, <3>2 DEF Reach, ReadAll
    <3> QED
      BY <3>3 DEF ToWrite
  <2> QED
    BY <2>2, <2>3, <2>4
<1>9. ASSUME NEW q \in Copiers(f), NEW k \in 1..offset'[q]
      PROVE  Right(k, f, S)' \/ ToWrite(k, f, S)'
  <2>1. k \in 1..Len(fs[S])
    BY <1>1, <1>4, <1>5
  <2>2. CASE k \in 1..offset[q]
    <3>1. Right(k, f, S) \/ ToWrite(k, f, S)
      BY <2>2 DEF CopyOK
    <3> QED
      BY <1>7, <1>8, <2>1, <3>1
  <2>3. CASE k \notin 1..offset[q]
    <3>1. k \in (at + 1)..(at + n)
      BY <1>1, <1>4, <1>5, <2>3 DEF at
    <3> QED
      BY <1>6, <3>1
  <2> QED
    BY <2>2, <2>3
<1>10. ASSUME NEW q \in Copiers(f)
       PROVE  /\ count'[q] <= Len(fs'[S])
              /\ pc'[q] = "write" => \A i \in 1..Len(buf'[q]) : buf'[q][i] = fs'[S][offset'[q] + i]
              /\ ReadAll(q)' \/ pc'[q] = "done" => Len(Start[S]) <= count'[q]
  <2>1. CASE q = p
    <3>1. pc'[p] # "write" /\ ~ReadAll(p)' /\ (pc'[p] = "done" => ReadAll(p))
      BY DEF ReadAll
    <3> QED
      BY <1>1, <2>1, <3>1 DEF CopyOK
  <2>2. CASE q # p
    <3>1. /\ count[q] <= Len(fs[S])
          /\ pc[q] = "write" => \A i \in 1..Len(buf[q]) : buf[q][i] = fs[S][offset[q] + i]
          /\ ReadAll(q) \/ pc[q] = "done" => Len(Start[S]) <= count[q]
      BY DEF CopyOK
    <3>2. /\ pc'[q] = pc[q] /\ buf'[q] = buf[q] /\ count'[q] = count[q] /\ offset'[q] = offset[q]
          /\ fs'[S] = fs[S] /\ (ReadAll(q)' <=> ReadAll(q))
      BY <1>1, <1>4, <1>5, <2>2
    <3> QED
      BY <3>1, <3>2
  <2> QED
    BY <2>1, <2>2
<1>11. \E q \in Copiers(f) : Len(fs'[f]) <= offset'[q]
  <2>1. PICK q \in Copiers(f) : Len(fs[f]) <= offset[q]
    BY DEF CopyOK
  <2>2. CASE Len(w) <= at + n
    BY <1>1, <2>2
  <2>3. CASE Len(w) <= Len(s)
    <3>1. Len(w) \in Nat /\ Len(s) \in Nat /\ Len(s) <= offset[q] /\ at \in Nat /\ n \in Nat
      BY <1>1, <1>3, <2>1 DEF s
    <3>2. offset[q] \in Nat /\ offset'[q] \in Nat /\ offset[q] <= offset'[q]
      <4>1. CASE q = p
        BY <1>1, <1>5, <4>1 DEF at
      <4>2. CASE q # p
        BY <1>4, <1>5, <4>2
      <4> QED
        BY <4>1, <4>2
    <3>3. Len(w) <= offset'[q]
      BY <2>3, <3>1, <3>2
    <3> QED
      BY <1>1, <3>3
  <2> QED
    BY <1>3, <2>2, <2>3
<1> QED
  BY <1>9, <1>10, <1>11 DEF CopyOK

LEMMA CopyInit == Init => CopyInv
<1> SUFFICES ASSUME Init, NEW f \in Files, NEW S \in Files
             PROVE  CopyOK(f, S)
  BY DEF CopyInv
<1>1. \A q \in Procs : pc[q] \in {"draw", "access"}
  BY DEF Init, Procs
<1>2. Copiers(f) = {}
  BY <1>1 DEF Copiers, Copying
<1> QED
  BY <1>2 DEF CopyOK

LEMMA CallsKept ==
  ASSUME [Next]_vars
  PROVE  calls' = calls /\ \A op, f : Only(op, f)' <=> Only(op, f)
<1>1. calls' = calls
  BY DEF Next, vars, access, fileman_read, fileman_write, fileman_append, fileman_copy, copy_open,
         copy_read, copy_write, get_dir, drawTree, Turn, listed
<1> QED
  BY <1>1 DEF Only, Procs

\* A step that is not one of a copy to f.
Same(f) ==
  /\ Copiers(f)' = Copiers(f) /\ fs'[f] = fs[f]
  /\ \A q \in Copiers(f) : /\ pc'[q] = pc[q] /\ buf'[q] = buf[q]
                           /\ count'[q] = count[q] /\ offset'[q] = offset[q]

LEMMA NotCopied ==
  ASSUME FileInv, ViewInv, NEW p \in Procs, NEW f \in Files, Only("copy", f),
         access(p) \/ fileman_read(p) \/ fileman_write(p) \/ fileman_append(p)
           \/ get_dir(p) \/ drawTree(p) \/ listed(p)
  PROVE  Same(f)
<1>0. /\ fs \in [Files -> Seq(Bytes) \cup {Absent}]
      /\ pc \in [Procs -> {"draw", "access", "open", "read", "write", "done"}] /\ ret \in [Procs -> Int]
  BY DEF FileInv, FileTypes
<1>1. calls' = calls /\ Procs' = Procs /\ UNCHANGED <<buf, count, offset>>
  BY DEF Procs, access, fileman_read, fileman_write, fileman_append, get_dir, drawTree, Turn, listed,
         copyVars
<1>2. fs'[f] = fs[f]
  <2>1. CASE fileman_write(p) \/ fileman_append(p)
    <3>1. calls[p].file # f
      BY <2>1 DEF fileman_write, fileman_append, At, Only
    <3>2. fs' = fs \/ \E s : fs' = [fs EXCEPT ![calls[p].file] = s]
      BY <2>1 DEF fileman_write, fileman_append, Store
    <3> QED
      BY <1>0, <3>1, <3>2
  <2>2. CASE ~(fileman_write(p) \/ fileman_append(p))
    BY <2>2 DEF access, fileman_read, get_dir, drawTree, Turn, listed
  <2> QED
    BY <2>1, <2>2
<1>3. \A q \in Procs : q # p => pc'[q] = pc[q] /\ ret'[q] = ret[q]
  BY <1>0 DEF access, fileman_read, fileman_write, fileman_append, get_dir, drawTree, Turn, listed,
              Returns, Goto
<1>4. Copies(p) => access(p)
  BY DEF Copies, fileman_read, fileman_write, fileman_append, get_dir, drawTree, Turn, listed, At,
         ViewInv, ViewOK, Views
<1>5. access(p) => pc[p] = "access" /\ (pc'[p] = "open" \/ (pc'[p] = "done" /\ ret'[p] = -1))
  BY <1>0 DEF access, Returns, Goto
<1>6. ~Copying(p) /\ ~Copying(p)'
  BY <1>1, <1>4, <1>5 DEF Copying, Copies
<1>7. \A q \in Procs : Copying(q)' <=> Copying(q)
  <2> SUFFICES ASSUME NEW q \in Procs, q # p
               PROVE  Copying(q)' <=> Copying(q)
    BY <1>6
  <2> QED
    BY <1>1, <1>3 DEF Copying, Copies
<1>8. Copiers(f)' = Copiers(f)
  BY <1>1, <1>7 DEF Copiers
<1>9. \A q \in Copiers(f) : q \in Procs /\ q # p
  BY <1>6 DEF Copiers
<1> QED
  BY <1>1, <1>2, <1>3, <1>8, <1>9 DEF Same

\* What a step of a copy leaves alone.
LEMMA CopyAlone ==
  ASSUME FileInv, NEW p \in Procs, NEW f \in Files, fileman_copy(p)
  PROVE  /\ calls' = calls /\ Procs' = Procs /\ calls[p].op = "copy"
         /\ fs' = fs \/ \E s : fs' = [fs EXCEPT ![calls[p].dest] = s]
         /\ \A q \in Procs : q # p =>
              /\ pc'[q] = pc[q] /\ ret'[q] = ret[q] /\ (Copying(q)' <=> Copying(q))
              /\ buf'[q] = buf[q] /\ count'[q] = count[q] /\ offset'[q] = offset[q]
         /\ Copiers(f)' \ {p} = Copiers(f) \ {p}
         /\ calls[p].dest # f => Same(f)
<1>0. /\ fs \in [Files -> Seq(Bytes) \cup {Absent}]
      /\ pc \in [Procs -> {"draw", "access", "open", "read", "write", "done"}]
      /\ buf \in [Procs -> Seq(Bytes)] /\ count \in [Procs -> Nat] /\ offset \in [Procs -> Nat]
      /\ ret \in [Procs -> Int]
  BY DEF FileInv, FileTypes
<1>1. calls' = calls /\ Procs' = Procs /\ calls[p].op = "copy"
  BY DEF fileman_copy, copy_open, copy_read, copy_write, At, Procs
<1>2. fs' = fs \/ \E s : fs' = [fs EXCEPT ![calls[p].dest] = s]
  BY DEF fileman_copy, copy_open, copy_read, copy_write, Store
<1>3. ASSUME NEW q \in Procs, q # p
      PROVE  /\ pc'[q] = pc[q] /\ ret'[q] = ret[q]
             /\ buf'[q] = buf[q] /\ count'[q] = count[q] /\ offset'[q] = offset[q]
  <2>1. CASE copy_open(p)
    BY <1>0, <1>3, <2>1 DEF copy_open, Returns, Goto, copyVars
  <2>2. CASE copy_read(p)
    BY <1>0, <1>3, <2>2 DEF copy_read, Goto
  <2>3. CASE copy_write(p)
    BY <1>0, <1>3, <2>3 DEF copy_write, Returns, Goto
  <2> QED
    BY <2>1, <2>2, <2>3 DEF fileman_copy
<1>4. \A q \in Procs : q # p => (Copying(q)' <=> Copying(q))
  BY <1>1, <1>3 DEF Copying, Copies
<1>5. Copiers(f)' \ {p} = Copiers(f) \ {p}
  BY <1>1, <1>4 DEF Copiers
<1>6. ASSUME calls[p].dest # f
      PROVE  Same(f)
  <2>1. Copiers(f)' = Copiers(f) /\ \A q \in Copiers(f) : q \in Procs /\ q # p
    BY <1>1, <1>5, <1>6 DEF Copiers
  <2>2. fs'[f] = fs[f]
    BY <1>0, <1>2, <1>6
  <2> QED
    BY <1>3, <2>1, <2>2 DEF Same
<1> QED
  BY <1>1, <1>2, <1>3, <1>4, <1>5, <1>6

\* If no write has been short after a step, none had been before.
LEMMA WholeBefore ==
  ASSUME FileInv, NEW f \in Files, NEW S \in Files, calls' = calls,
         \A op, g : Only(op, g)' <=> Only(op, g), Whole(f, S)',
         \A q \in Copiers(f) : /\ q \in Copiers(f)'
                               /\ offset'[q] + Pending(q)' = count'[q] => offset[q] + Pending(q) = count[q]
  PROVE  Whole(f, S)
BY DEF Whole

LEMMA SameBut ==
  ASSUME NEW A, NEW B, NEW p, A \ {p} = B \ {p}, p \in A <=> p \in B
  PROVE  A = B
<1>1. \A x : x \in A <=> x \in B
  <2> SUFFICES ASSUME NEW x, x # p
               PROVE  x \in A <=> x \in B
    OBVIOUS
  <2>1. (x \in A <=> x \in A \ {p}) /\ (x \in B <=> x \in B \ {p})
    OBVIOUS
  <2> QED
    BY <2>1
<1> QED
  BY <1>1

LEMMA CopyStep ==
  ASSUME FileInv, FileInv', ViewInv, AppendInv, CopyInv, [Next]_vars
  PROVE  CopyInv'
<1>0. /\ fs \in [Files -> Seq(Bytes) \cup {Absent}]
      /\ pc \in [Procs -> {"draw", "access", "open", "read", "write", "done"}]
      /\ buf \in [Procs -> Seq(Bytes)] /\ count \in [Procs -> Nat] /\ offset \in [Procs -> Nat]
      /\ ret \in [Procs -> Int]
  BY DEF FileInv, FileTypes
<1>1. calls' = calls /\ Procs' = Procs /\ \A op, g : Only(op, g)' <=> Only(op, g)
  BY CallsKept DEF Procs
<1> SUFFICES ASSUME NEW f \in Files, NEW S \in Files, Whole(f, S)'
             PROVE  CopyOK(f, S)'
  BY DEF CopyInv
<1>2. Only("copy", f) /\ Only("append", S)
  BY <1>1 DEF Whole
<1>3. fs'[S] = fs[S] \/ \E d \in Seq(Bytes) : fs'[S] = fs[S] \o d
  BY <1>2, OnlyGrows
<1>4. Whole(f, S) => CopyOK(f, S)
  BY DEF CopyInv
<1>5. CASE Same(f)
  <2>1. Whole(f, S)
    <3>1. \A q \in Copiers(f) : q \in Copiers(f)' /\ Pending(q)' = Pending(q)
      BY <1>5 DEF Same, Pending
    <3> QED
      BY <1>1, <1>5, <3>1, WholeBefore DEF Same
  <2> QED
    BY <1>3, <1>4, <1>5, <2>1, CopyKept DEF Same
<1>6. ASSUME NEW p \in Procs, fileman_copy(p), calls[p].dest = f
      PROVE  CopyOK(f, S)'
  <2>1. /\ calls[p].op = "copy" /\ S # f
        /\ fs' = fs \/ \E s : fs' = [fs EXCEPT ![f] = s]
        /\ \A q \in Procs : q # p =>
              /\ pc'[q] = pc[q] /\ ret'[q] = ret[q] /\ (Copying(q)' <=> Copying(q))
              /\ buf'[q] = buf[q] /\ count'[q] = count[q] /\ offset'[q] = offset[q]
        /\ Copiers(f)' \ {p} = Copiers(f) \ {p}
    BY <1>2, <1>6, CopyAlone DEF Only
  <2>2. fs'[S] = fs[S]
    BY <1>0, <2>1
  <2>3. CopyOf(p, f, S)
    BY <1>1, <2>1, <2>2 DEF CopyOf, Copiers
  <2>4. \A q \in Copiers(f) : q # p => q \in Copiers(f)' /\ Pending(q)' = Pending(q)
                                       /\ offset'[q] = offset[q] /\ count'[q] = count[q]
    BY <2>1 DEF Copiers, Pending
  <2>5. CASE copy_open(p)
    <3>1. /\ pc[p] = "open" /\ UNCHANGED <<buf, count, offset>> /\ p \notin Copiers(f)
          /\ \/ pc' = [pc EXCEPT ![p] = "done"] /\ ret' = [ret EXCEPT ![p] = -1] /\ fs' = fs
             \/ pc' = [pc EXCEPT ![p] = "read"] /\ fs' = [fs EXCEPT ![f] = <<>>]
      BY <1>6, <2>5 DEF copy_open, At, copyVars, Returns, Goto, Store, Copiers, Copying
    <3>2. Whole(f, S)
      BY <1>1, <2>4, <3>1, WholeBefore
    <3>3. CASE pc'[p] = "done" /\ ret'[p] = -1 /\ fs' = fs
      <4>1. p \notin Copiers(f)'
        BY <3>3 DEF Copiers, Copying
      <4>2. Copiers(f)' = Copiers(f)
        BY <2>1, <3>1, <4>1, SameBut
      <4>3. Same(f)
        BY <2>1, <3>1, <3>3, <4>2 DEF Same, Copiers
      <4> QED
        BY <1>5, <4>3
    <3>4. CASE pc'[p] = "read" /\ fs' = [fs EXCEPT ![f] = <<>>]
      <4>1. p \in Copiers(f)'
        BY <1>1, <1>6, <2>1, <3>4 DEF Copiers, Copying, Copies
      <4>2. Copiers(f)' = Copiers(f) \cup {p}
        BY <2>1, <3>1, <4>1
      <4>3. calls[p].src = S
        BY <1>1, <4>1 DEF Whole
      <4>4. PlaceOK(p)
        BY DEF FileInv
      <4>5. fs[S] \in Seq(Bytes) /\ offset'[p] = 0 /\ count'[p] = 0
        BY <1>0, <2>1, <3>1, <4>3, <4>4 DEF PlaceOK, Exists, Copies
      <4>6. fs'[f] = <<>>
        BY <1>0, <3>4
      <4> QED
        BY <1>4, <2>3, <3>1, <3>2, <3>4, <4>2, <4>5, <4>6, CopyOpened
    <3> QED
      BY <1>0, <3>1, <3>3, <3>4
  <2>6. CASE copy_read(p)
    <3> DEFINE b == SubSeq(fs[calls[p].src], count[p] + 1, Least(Len(fs[calls[p].src]), count[p] + BufSize))
    <3>1. /\ pc[p] = "read" /\ UNCHANGED <<fs, offset>> /\ pc' = [pc EXCEPT ![p] = "write"]
          /\ buf' = [buf EXCEPT ![p] = b] /\ count' = [count EXCEPT ![p] = count[p] + Len(buf'[p])]
      BY <2>6 DEF copy_read, At, Goto
    <3> HIDE DEF b
    <3>2. pc'[p] = "write" /\ buf'[p] = b /\ count'[p] = count[p] + Len(buf'[p]) /\ offset'[p] = offset[p]
      BY <1>0, <3>1
    <3>3. p \in Copiers(f) /\ p \in Copiers(f)'
      BY <1>1, <1>6, <2>1, <3>1, <3>2 DEF Copiers, Copying, Copies
    <3>4. Copiers(f)' = Copiers(f) /\ calls[p].src = S
      <4>1. calls[p].src = S
        BY <1>1, <3>3 DEF Whole
      <4> QED
        BY <2>1, <3>3, <4>1, SameBut
    <3>5. offset'[p] + Pending(p)' = count'[p] => offset[p] + Pending(p) = count[p]
      <4>1. buf'[p] \in Seq(Bytes)
        BY <1>1 DEF FileInv, FileTypes
      <4>2. Len(buf'[p]) \in Nat /\ offset[p] \in Nat /\ count[p] \in Nat
        BY <1>0, <4>1, LenProperties
      <4>3. Pending(p)' = Len(buf'[p]) /\ Pending(p) = 0
        BY <3>1, <3>2 DEF Pending
      <4> QED
        BY <3>2, <4>2, <4>3
    <3>6. Whole(f, S)
      BY <1>1, <2>4, <3>3, <3>5, WholeBefore
    <3>7. AppendOK(S)
      BY <1>2 DEF AppendInv
    <3> QED
      BY <1>4, <2>3, <3>1, <3>2, <3>3, <3>4, <3>6, <3>7, CopyReads DEF b
  <2>7. CASE copy_write(p)
    <3>1. PICK n \in 0..Len(buf[p]) :
             /\ fs' = [fs EXCEPT ![f] = Written(fs[f], offset[p], SubSeq(buf[p], 1, n))]
             /\ offset' = [offset EXCEPT ![p] = offset[p] + n]
      BY <1>6, <2>7 DEF copy_write, Store
    <3>2. /\ pc[p] = "write" /\ UNCHANGED <<buf, count>>
          /\ IF Len(buf[p]) = BufSize THEN pc' = [pc EXCEPT ![p] = "read"]
             ELSE pc' = [pc EXCEPT ![p] = "done"] /\ ret' = [ret EXCEPT ![p] = count[p]]
      BY <2>7 DEF copy_write, At, Goto, Returns
    <3>3. /\ pc'[p] = IF Len(buf[p]) = BufSize THEN "read" ELSE "done"
          /\ pc'[p] = "done" => ret'[p] = count[p]
          /\ offset'[p] = offset[p] + n /\ count[p] \in Nat
      BY <1>0, <3>1, <3>2
    <3>4. p \in Copiers(f) /\ p \in Copiers(f)'
      BY <1>1, <1>6, <2>1, <3>2, <3>3 DEF Copiers, Copying, Copies
    <3>5. Copiers(f)' = Copiers(f)
      BY <2>1, <3>4, SameBut
    <3>6. /\ n = Len(buf[p])
          /\ offset'[p] + Pending(p)' = count'[p] => offset[p] + Pending(p) = count[p]
      <4>1. PlaceOK(p) /\ Copies(p) /\ buf[p] \in Seq(Bytes) /\ offset[p] \in Nat
        BY <1>0, <2>1 DEF FileInv, Copies
      <4>2. Len(buf[p]) \in Nat /\ offset[p] + Len(buf[p]) <= count[p]
        BY <3>2, <4>1, LenProperties DEF PlaceOK, Pending
      <4>3. Pending(p)' = 0 /\ Pending(p) = Len(buf[p])
        BY <3>2, <3>3 DEF Pending
      <4>4. offset'[p] + Pending(p)' = count'[p]
        BY <3>4 DEF Whole
      <4>5. offset[p] + n = count[p]
        BY <3>2, <3>3, <4>1, <4>3, <4>4
      <4> QED
        BY <3>3, <4>1, <4>2, <4>3, <4>5
    <3>7. Whole(f, S)
      BY <1>1, <2>4, <3>4, <3>6, WholeBefore
    <3>8. fs'[f] = Written(fs[f], offset[p], SubSeq(buf[p], 1, n)) /\ buf'[p] = buf[p] /\ count'[p] = count[p]
      BY <1>0, <3>1, <3>2
    <3> QED
      BY <1>4, <2>3, <3>2, <3>3, <3>4, <3>5, <3>6, <3>7, <3>8, CopyWrites
  <2> QED
    BY <1>6, <2>5, <2>6, <2>7 DEF fileman_copy
<1>7. CASE UNCHANGED vars
  <2>1. Same(f)
    BY <1>7 DEF vars, copyVars, Same, Copiers, Copying, Copies, Procs
  <2> QED
    BY <1>5, <2>1
<1> QED
  BY <1>2, <1>5, <1>6, <1>7, NotCopied, CopyAlone DEF Next

THEOREM BytesCopied == Spec => []CopyInv
<1> QED
  BY CopyInit, CopyStep, TypedFiles, TypedViews, BytesAppended, PTL DEF Spec

\* In the end a file that is only made by copies of one other, which grows meanwhile,
\* is a beginning of it (fileman.c:216-224).
THEOREM SafeCopyIsPrefix == Spec => []CopyIsPrefix
<1>1. ASSUME FileInv, AppendInv, CopyInv
      PROVE  CopyIsPrefix
  <2> SUFFICES ASSUME Done, NEW f \in Files, NEW p \in Procs,
                      calls[p].op = "copy", calls[p].dest = f, ret[p] >= 0,
                      Only("copy", f), Only("append", calls[p].src),
                      \A q \in Procs : calls[q].op = "copy" /\ calls[q].dest = f /\ ret[q] >= 0 =>
                        calls[q].src = calls[p].src /\ offset[q] = count[q]
               PROVE  LET copies == {q \in Procs : calls[q].op = "copy" /\ calls[q].dest = f /\ ret[q] >= 0}
                          S == calls[p].src
                      IN /\ fs[f] = SubSeq(fs[S], 1, Len(fs[f]))
                         /\ \E q \in copies : ret[q] = Len(fs[f])
                         /\ \A q \in copies : ret[q] \in Len(Start[S])..Len(fs[f])
    BY DEF CopyIsPrefix
  <2> DEFINE S == calls[p].src
             copies == {q \in Procs : calls[q].op = "copy" /\ calls[q].dest = f /\ ret[q] >= 0}
  <2>1. \A q \in Procs : pc[q] = "done"
    BY DEF Done
  <2>2. copies = Copiers(f) /\ p \in Copiers(f)
    BY <2>1 DEF Copiers, Copying, Copies
  <2>3. S \in Files
    BY <1>1, Called DEF FileInv, Fits
  <2>4. \A q \in Procs : offset[q] \in Nat
    BY <1>1 DEF FileInv, FileTypes
  <2>5. Whole(f, S)
    BY <2>1, <2>2, <2>4 DEF Whole, Pending
  <2> HIDE DEF copies, S
  <2>6. CopyOK(f, S)
    BY <1>1, <2>3, <2>5 DEF CopyInv
  <2>7. /\ fs[f] \in Seq(Bytes) /\ Len(fs[f]) \in Nat /\ fs[S] \in Seq(Bytes) /\ Len(fs[S]) \in Nat
        /\ \A q \in Copiers(f) : /\ offset[q] \in Nat /\ ret[q] = count[q] /\ count[q] = offset[q]
                                 /\ pc[q] = "done"
    <3>1. \A q \in Copiers(f) : pc[q] = "done" /\ Pending(q) = 0
      BY <2>1 DEF Copiers, Pending
    <3> QED
      BY <1>1, <2>2, <2>3, <2>5, <3>1, CopierIs
  <2>8. \A q \in Copiers(f) : \A k \in 1..offset[q] : k <= Len(fs[f]) /\ fs[f][k] = fs[S][k]
    BY <2>6, <2>7 DEF CopyOK, Right, ToWrite
  <2>9. ASSUME NEW q \in Copiers(f)
        PROVE  offset[q] <= Len(fs[f]) /\ offset[q] <= Len(fs[S]) /\ Len(Start[S]) <= ret[q]
    <3>1. offset[q] <= Len(fs[S]) /\ Len(Start[S]) <= ret[q]
      BY <2>6, <2>7 DEF CopyOK
    <3>2. offset[q] <= Len(fs[f])
      BY <2>7, <2>8
    <3> QED
      BY <3>1, <3>2
  <2>10. PICK q0 \in Copiers(f) : Len(fs[f]) <= offset[q0]
    BY <2>2, <2>6 DEF CopyOK
  <2>11. offset[q0] = Len(fs[f])
    BY <2>7, <2>9, <2>10
  <2> DEFINE n == Len(fs[f])
             u == SubSeq(fs[S], 1, n)
  <2>12. n \in Nat /\ n <= Len(fs[S])
    BY <2>7, <2>9, <2>11
  <2>13. u \in Seq(Bytes) /\ Len(u) = (IF 1 <= n THEN n - 1 + 1 ELSE 0)
         /\ \A i \in 1..Len(u) : u[i] = fs[S][1 + i - 1]
    BY <2>7, <2>12, SubSeqIs
  <2> HIDE DEF u
  <2>14. Len(u) = n
    BY <2>12, <2>13
  <2>15. ASSUME NEW i \in 1..n
         PROVE  u[i] = fs[f][i]
    <3>1. 1 + i - 1 = i
      OBVIOUS
    <3>2. fs[f][i] = fs[S][i]
      BY <2>8, <2>11
    <3> QED
      BY <2>13, <2>14, <3>1, <3>2
  <2>16. u = fs[f]
    BY <2>7, <2>13, <2>14, <2>15, SeqEqual
  <2>17. ASSUME NEW q \in copies
         PROVE  ret[q] \in Len(Start[S])..Len(fs[f])
    <3>1. fs[S] # Absent
      BY <2>7, FilemanAssumption
    <3>2. Len(Start[S]) \in Nat
      <4>1. Start[S] \in Seq(Bytes)
        <5>1. AppendOK(S)
          BY <1>1, <2>3, <2>5 DEF AppendInv, Whole
        <5> QED
          BY <2>3, <3>1, <5>1, FilemanAssumption DEF AppendOK
      <4> QED
        BY <4>1, LenProperties
    <3> QED
      BY <2>2, <2>7, <2>9, <3>2
  <2> QED
    BY <2>2, <2>7, <2>11, <2>16, <2>17 DEF u, copies, S
<1> QED
  BY <1>1, TypedFiles, BytesAppended, BytesCopied, PTL

=============================================================================
