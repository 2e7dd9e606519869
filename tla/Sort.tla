-------------------------------- MODULE Sort --------------------------------
(***************************************************************************)
(* The merge sorts of Assignment1 (psort.c and usort.c, a process and its  *)
(* child on shared memory) and Assignment2 (sort.c, threads that create    *)
(* threads, with a global count of them).  A process or thread is named by *)
(* the path to it from the first: the first or second it creates, and so   *)
(* on.  merge() is not part of the repository.                             *)
(***************************************************************************)
EXTENDS Integers, SequencesExt

CONSTANTS
  size,          \* the size of the array
  Versions,      \* which programs run
  Inputs,        \* the arrays that each sorts
  THREAD_COUNT   \* the size of thread_id[]

ASSUME SortAssumption ==
  /\ size \in Nat \ {0}
  /\ Versions \subseteq {"processes", "threads"}
  /\ \A v \in Versions : Inputs[v] \subseteq [0..(size - 1) -> Int]
  /\ THREAD_COUNT \in Nat

VARIABLES
  version, input,
  arr,         \* the caller's array
  mem,         \* the shared memory of the processes
  thread_num,  \* the global count of threads
  place,       \* where each process or thread is
  todo,        \* the merges that its single-threaded sort has left
  f,           \* whether the threads it creates create threads
  id,          \* the id of the thread it is about to create, in arg1 or arg2
  crash        \* a thread will be joined under an id that is not its own, or
               \* beyond thread_id[]: behaviour is undefined, the model stops

locals == <<todo, f, id>>
sortVars == <<version, input, arr, mem, thread_num, place, locals, crash>>

MaxDepth == 3
Root == <<>>
Workers == UNION {[1..d -> {1, 2}] : d \in 0..MaxDepth}

Mid(s) == (s[1] + s[2]) \div 2

\* The part of the array that each sorts, from and to an index.
Part[w \in Workers] ==
  IF w = Root THEN <<0, size - 1>>
  ELSE LET s == Part[Front(w)]
       IN IF Last(w) = 1 THEN <<s[1], Mid(s)>> ELSE <<Mid(s) + 1, s[2]>>

\* The elements c[1] of the left half and c[2] of the right one come next.
TakesLeft(a, m, r, c) == c[1] <= m /\ (c[2] > r \/ a[c[1]] <= a[c[2]])

\* Where merge(a, l, m, r) is in the halves when it fills a[k].
Cursors(a, l, m, r) ==
  LET cursor[k \in l..r] ==
        IF k = l THEN <<l, m + 1>>
        ELSE LET c == cursor[k - 1]
             IN IF TakesLeft(a, m, r, c) THEN <<c[1] + 1, c[2]>> ELSE <<c[1], c[2] + 1>>
  IN cursor

Takes(a, m, r, c) == IF TakesLeft(a, m, r, c) THEN c[1] ELSE c[2]

\* What it makes of the array a.
Merge(a, l, m, r) ==
  LET cursor == Cursors(a, l, m, r)
  IN [k \in DOMAIN a |-> IF k \in l..r THEN a[Takes(a, m, r, cursor[k])] ELSE a[k]]

\* The merges of singleThreadedMergeSort(arr, l, r), in their order.
Merges[s \in (0..size) \X (-1..(size - 1))] ==
  IF s[1] >= s[2] THEN <<>>
  ELSE Merges[<<s[1], Mid(s)>>] \o Merges[<<Mid(s) + 1, s[2]>>] \o << <<s[1], Mid(s), s[2]>> >>

SortInit ==
  /\ version \in Versions /\ input \in Inputs[version]
  /\ arr = input
  /\ mem = [k \in 0..(size - 1) |-> 0]
  /\ thread_num = 0
  /\ place = [w \in Workers |-> IF w # Root THEN "none" ELSE IF version = "threads" THEN "which" ELSE "fork"]
  /\ todo = [w \in Workers |-> <<>>]
  /\ f = [w \in Workers |-> FALSE]
  /\ id = [w \in Workers |-> 0]
  /\ crash = FALSE

Is(w, from) == ~crash /\ place[w] = from
Goto(w, to) == place' = [place EXCEPT ![w] = to]

----------------------------------------------------------------------------
(* Assignment1: the child sorts the left half, the parent the right one. *)

Child == <<1>>

\* The next merge of a single-threaded sort makes of a what is then in b.
Step(a, b, w) ==
  LET s == Head(todo[w]) IN
  /\ b = Merge(a, s[1], s[2], s[3])
  /\ todo' = [todo EXCEPT ![w] = Tail(@)]

\* Up to the switch: the array is copied to shared memory, and fork() may fail.
fork ==
  /\ Is(Root, "fork")
  /\ mem' = arr
  /\ \/ Goto(Root, "exit") /\ UNCHANGED todo
     \/ /\ place' = [place EXCEPT ![Root] = "sort", ![Child] = "sort"]
        /\ todo' = [todo EXCEPT ![Root] = Merges[Part[<<2>>]], ![Child] = Merges[Part[Child]]]
  /\ UNCHANGED <<version, input, arr, thread_num, f, id, crash>>

singleProcessMergeSort(w) ==
  /\ Is(w, "sort") /\ version = "processes"
  /\ IF todo[w] = <<>>
       THEN Goto(w, IF w = Root THEN "wait" ELSE "exit") /\ UNCHANGED <<mem, todo>>
       ELSE Step(mem, mem', w) /\ UNCHANGED place
  /\ UNCHANGED <<version, input, arr, thread_num, f, id, crash>>

\* Mutant: the parent does not wait.
wait_Not ==
  /\ Is(Root, "wait")
  /\ LET s == Part[Root] IN mem' = Merge(mem, s[1], Mid(s), s[2])
  /\ Goto(Root, "copy")
  /\ UNCHANGED <<version, input, arr, thread_num, locals, crash>>

\* wait() and the last merge.
wait ==
  /\ Is(Root, "wait")
  /\ place[Child] = "exit"
  /\ LET s == Part[Root] IN mem' = Merge(mem, s[1], Mid(s), s[2])
  /\ Goto(Root, "copy")
  /\ UNCHANGED <<version, input, arr, thread_num, locals, crash>>

copy ==
  /\ Is(Root, "copy")
  /\ arr' = mem
  /\ Goto(Root, "done")
  /\ UNCHANGED <<version, input, mem, thread_num, locals, crash>>

----------------------------------------------------------------------------
(* Assignment2.  thread_num is read and written by several threads. *)

singleThreadedMergeSort(w) ==
  /\ Is(w, "sort") /\ version = "threads"
  /\ IF todo[w] = <<>>
       THEN Goto(w, "done") /\ UNCHANGED <<arr, todo>>
       ELSE Step(arr, arr', w) /\ UNCHANGED place
  /\ UNCHANGED <<version, input, mem, thread_num, f, id, crash>>

\* Mutant: the first threads' threads create threads, too.
which_Two(w) ==
  /\ Is(w, "which")
  /\ f' = [f EXCEPT ![w] = thread_num <= 2]
  /\ Goto(w, "id1")
  /\ UNCHANGED <<version, input, arr, mem, thread_num, todo, id, crash>>

which(w) ==
  /\ Is(w, "which")
  /\ f' = [f EXCEPT ![w] = thread_num <= 1]
  /\ Goto(w, "id1")
  /\ UNCHANGED <<version, input, arr, mem, thread_num, todo, id, crash>>

\* The count is read for the id in arg1 or arg2, and again to be incremented and
\* for the index under which pthread_create() stores the thread.
read(w) ==
  \/ /\ \/ Is(w, "id1") /\ Goto(w, "idx1")
        \/ Is(w, "id2") /\ Goto(w, "idx2")
     /\ id' = [id EXCEPT ![w] = thread_num]
     /\ UNCHANGED <<version, input, arr, mem, thread_num, todo, f, crash>>
  \/ /\ \/ Is(w, "idx1") /\ Goto(w, "create1")
        \/ Is(w, "idx2") /\ Goto(w, "create2")
     /\ crash' = (thread_num # id[w] \/ thread_num >= THREAD_COUNT)
     /\ UNCHANGED <<version, input, arr, mem, thread_num, locals>>

\* The incremented count is stored and the thread created.
create(w, n, from, to) ==
  LET c == Append(w, n) IN
  /\ Is(w, from)
  /\ thread_num' = id[w] + 1
  /\ place' = [place EXCEPT ![w] = to, ![c] = IF f[w] THEN "which" ELSE "sort"]
  /\ todo' = [todo EXCEPT ![c] = IF f[w] THEN <<>> ELSE Merges[Part[c]]]
  /\ id' = [id EXCEPT ![w] = 0]
  /\ UNCHANGED <<version, input, arr, mem, f, crash>>

join(w, n, from, to) ==
  /\ Is(w, from)
  /\ place[Append(w, n)] = "done"
  /\ Goto(w, to)
  /\ UNCHANGED <<version, input, arr, mem, thread_num, locals, crash>>

merge(w) ==
  /\ Is(w, "merge")
  /\ LET s == Part[w] IN arr' = Merge(arr, s[1], Mid(s), s[2])
  /\ Goto(w, "done")
  /\ UNCHANGED <<version, input, mem, thread_num, locals, crash>>

multiThreadedMergeSort(w) ==
  \/ which(w) \/ read(w)
  \/ create(w, 1, "create1", "id2") \/ create(w, 2, "create2", "join1")
  \/ join(w, 1, "join1", "join2") \/ join(w, 2, "join2", "merge")
  \/ merge(w)

----------------------------------------------------------------------------
SortNext ==
  \/ fork \/ wait \/ copy
  \/ \E w \in Workers :
       \/ singleProcessMergeSort(w)
       \/ singleThreadedMergeSort(w) \/ multiThreadedMergeSort(w)

SortSpec == SortInit /\ [][SortNext]_sortVars

----------------------------------------------------------------------------
(* Properties *)

Count(a, x) == Cardinality({k \in DOMAIN a : a[k] = x})

\* When the sort returns the array is sorted: processes and threads have waited
\* for each other's parts and merged them in the shared memory, which is copied
\* back (psort.c:72-76, sort.c:69-74).
Sorts ==
  place[Root] = "done" =>
    /\ \A k \in 1..(size - 1) : arr[k - 1] <= arr[k]
    /\ \A k \in DOMAIN arr : Count(arr, arr[k]) = Count(input, arr[k])

\* The threads that create threads that create threads are the first and one
\* that it creates, though they are told apart by a count that is incremented
\* without a lock (sort.c:62): there is an end to it.
RecursionEnds == \A w \in Workers : f[w] => Len(w) <= 1
=============================================================================
