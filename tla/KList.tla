------------------------------- MODULE KList -------------------------------
(***************************************************************************)
(* The kernel lists (lib/kernel/list.c, not part of the repository) as the *)
(* thread system uses them: every comparator passed to them in Lab2 has    *)
(* the form  key(a) > key(b), so a list function takes the key, a function *)
(* from elements to numbers, in place of the comparator.  Places are       *)
(* counted rather than found by recursion, so that facts about them can be *)
(* proved.                                                                 *)
(***************************************************************************)
EXTENDS Integers, Sequences, FiniteSets, SequencesExt

\* list_insert_ordered(): x goes before the first element that it precedes,
\* hence behind the elements with an equal key.
InsertPos(l, x, key) ==
  1 + Cardinality({i \in 1..Len(l) : \A j \in 1..i : key[x] <= key[l[j]]})

list_insert_ordered(l, x, key) == InsertAt(l, InsertPos(l, x, key), x)

\* The members of I in the order of R, a strict total order on I.
Rank(I, R, i) == 1 + Cardinality({j \in I : <<j, i>> \in R})

Enumerate(I, R) == [k \in 1..Cardinality(I) |-> CHOOSE i \in I : Rank(I, R, i) = k]

\* list_sort() is stable.
SortOrder(l, key) ==
  {p \in (1..Len(l)) \X (1..Len(l)) :
     \/ key[l[p[1]]] > key[l[p[2]]]
     \/ key[l[p[1]]] = key[l[p[2]]] /\ p[1] < p[2]}

list_sort(l, key) ==
  LET place == Enumerate(1..Len(l), SortOrder(l, key))
  IN [k \in 1..Len(l) |-> l[place[k]]]

\* The list without its elements in gone: list_remove() on each of them.
list_remove_all(l, gone) ==
  LET kept == {i \in 1..Len(l) : l[i] \notin gone}
      place == Enumerate(kept, {p \in kept \X kept : p[1] < p[2]})
  IN [k \in 1..Cardinality(kept) |-> l[place[k]]]
=============================================================================
