-------------------------- MODULE AssignmentsProof --------------------------
(***************************************************************************)
(* Assignment 3, two programs with semaphores of the C library: the order  *)
(* of manpage's paragraphs, for any number of them, and exclusion at       *)
(* cartman's junctions, for all numbers of tracks that the code has room   *)
(* for and any number of carts and arrivals.  Assignments 1 and 2, the     *)
(* merge sorts: that they sort, and that their threads come to an end, for *)
(* arrays of any size.                                                     *)
(***************************************************************************)
EXTENDS Manpage, Cartman, Sort, FiniteSetTheorems, SequenceTheorems, WellFoundedInduction, TLAPS

----------------------------------------------------------------------------
(* manpage: one turn goes round.  It is a thread's that may show its
   paragraph, then a thread's that is about to post, then a semaphore's with
   value 1. *)

\* Nobody has the turn.
NoTurn ==
  /\ \A k \in Ids : semaphores[k] = 0
  /\ \A t \in Ids : thread[t] \notin {"show", "post"}

\* Ids that were dealt out are distinct.
PidsDistinct ==
  \A t, u \in Ids :
    thread[t] \notin {"new", "start"} /\ thread[u] \notin {"new", "start"} /\ pid[t] = pid[u] => t = u

\* Where the turn is, it is the turn of the next paragraph, and nowhere else.
Turn ==
  /\ \A k \in Ids : semaphores[k] # 0 =>
       /\ semaphores[k] = 1 /\ k = Len(shown)
       /\ \A j \in Ids : semaphores[j] # 0 => j = k
       /\ \A t \in Ids : thread[t] \notin {"show", "post"}
  /\ \A t \in Ids : thread[t] \in {"show", "post"} =>
       /\ pid[t] = IF thread[t] = "show" THEN Len(shown) ELSE Len(shown) - 1
       /\ thread[t] = "post" => pid[t] < N - 1
       /\ \A k \in Ids : semaphores[k] = 0
       /\ \A u \in Ids : thread[u] \in {"show", "post"} => u = t

\* The first turn comes with the id 0; a thread that waits has another one.
First ==
  /\ 0 \notin Taken => NoTurn /\ shown = <<>>
  /\ \A t \in Ids : thread[t] = "wait" => pid[t] # 0

\* Threads that were not created yet.
Created == \A i \in Ids : i >= main => thread[i] = "new"

ManpageInv == ManpageTypeOK /\ PidsDistinct /\ Turn /\ First /\ InOrder /\ Created

LEMMA ManpageInitInv == ManpageInit => ManpageInv
<1> SUFFICES ASSUME ManpageInit
             PROVE  ManpageInv
  OBVIOUS
<1>1. 0 \in Ids /\ N \in Nat
  BY ManpageAssumption DEF Ids
<1>2. ManpageTypeOK
  BY <1>1 DEF ManpageInit, ManpageTypeOK
<1>3. PidsDistinct /\ Turn /\ First /\ InOrder /\ Created
  BY DEF ManpageInit, PidsDistinct, Turn, First, NoTurn, InOrder, Created
<1> QED
  BY <1>2, <1>3 DEF ManpageInv

\* A thread that gets the id 0 gets the first turn.
LEMMA IdInv ==
  ASSUME ManpageInv, NEW t \in Ids, getParagraphId(t)
  PROVE  ManpageInv'
<1>0. PICK p \in Ids \ Taken :
         /\ pid' = [pid EXCEPT ![t] = p]
         /\ thread' = [thread EXCEPT ![t] = IF p > 0 THEN "wait" ELSE "show"]
  BY DEF getParagraphId
<1>1. ManpageTypeOK' /\ InOrder'
  BY <1>0 DEF ManpageInv, getParagraphId, ManpageTypeOK, InOrder
<1>2. Taken' = Taken \cup {p}
  BY <1>0 DEF ManpageInv, ManpageTypeOK, getParagraphId, Taken
<1>3. \A u \in Ids : u # t => thread'[u] = thread[u] /\ pid'[u] = pid[u]
  BY <1>0 DEF ManpageInv, ManpageTypeOK
<1>4. pid'[t] = p /\ thread'[t] = (IF p > 0 THEN "wait" ELSE "show") /\ thread[t] = "start"
  BY <1>0 DEF ManpageInv, ManpageTypeOK, getParagraphId
<1>5. \A u \in Ids : thread[u] \notin {"new", "start"} => pid[u] # p
  BY <1>0 DEF Taken
<1>6. PidsDistinct'
  BY <1>3, <1>4, <1>5 DEF ManpageInv, PidsDistinct
<1>7. p \in Nat /\ semaphores' = semaphores /\ shown' = shown /\ Created'
  BY <1>3, <1>4, ManpageAssumption DEF Ids, getParagraphId, ManpageInv, Created
<1>8. CASE p = 0
  <2>1. NoTurn /\ shown = <<>>
    BY <1>0, <1>8 DEF ManpageInv, First
  <2>2. Turn'
    BY <1>3, <1>4, <1>7, <1>8, <2>1 DEF NoTurn, Turn
  <2>3. First'
    BY <1>2, <1>3, <1>4, <1>8 DEF ManpageInv, First
  <2> QED
    BY <1>1, <1>6, <1>7, <2>2, <2>3 DEF ManpageInv
<1>9. CASE p # 0
  <2>1. thread'[t] = "wait"
    BY <1>4, <1>7, <1>9
  <2>2. Turn'
    BY <1>3, <1>4, <1>7, <2>1 DEF ManpageInv, Turn
  <2>3. First'
    BY <1>2, <1>3, <1>4, <1>7, <1>9, <2>1 DEF ManpageInv, First, NoTurn
  <2> QED
    BY <1>1, <1>6, <1>7, <2>2, <2>3 DEF ManpageInv
<1> QED
  BY <1>8, <1>9

\* A step of t that keeps the ids.
LEMMA TakenSame ==
  ASSUME NEW t \in Ids, pid' = pid, thread[t] \notin {"new", "start"}, thread'[t] \notin {"new", "start"},
         \A u \in Ids : u # t => thread'[u] = thread[u]
  PROVE  Taken' = Taken
<1>1. \A u \in Ids : thread'[u] \notin {"new", "start"} <=> thread[u] \notin {"new", "start"}
  OBVIOUS
<1> QED
  BY <1>1 DEF Taken

LEMMA ThreadInv ==
  ASSUME ManpageInv, NEW t \in Ids, sem_wait(t) \/ showParagraph(t) \/ sem_post(t)
  PROVE  ManpageInv'
<1>0. /\ pid' = pid /\ main' = main
      /\ thread[t] \in {"wait", "show", "post"} /\ thread'[t] \in {"show", "post", "done"}
      /\ \A u \in Ids : u # t => thread'[u] = thread[u]
      /\ pid[t] \in Ids /\ N \in Nat /\ Ids \subseteq Nat
  <2>1. pid[t] \in Ids /\ N \in Nat /\ Ids \subseteq Nat
    <3>1. N \in Nat /\ Ids \subseteq Nat
      BY ManpageAssumption DEF Ids
    <3>2. pid[t] \in Ids
      BY DEF ManpageInv, ManpageTypeOK
    <3> QED
      BY <3>1, <3>2
  <2>2. CASE sem_wait(t)
    BY <2>1, <2>2 DEF ManpageInv, ManpageTypeOK, sem_wait
  <2>3. CASE showParagraph(t)
    BY <2>1, <2>3 DEF ManpageInv, ManpageTypeOK, showParagraph
  <2>4. CASE sem_post(t)
    BY <2>1, <2>4 DEF ManpageInv, ManpageTypeOK, sem_post
  <2> QED
    BY <2>1, <2>2, <2>3, <2>4
<1>1. Taken' = Taken
  BY <1>0, TakenSame
<1>2. PidsDistinct'
  BY <1>0 DEF ManpageInv, PidsDistinct
<1>3. 0 \in Taken
  <2>1. CASE thread[t] = "wait"
    <3>1. semaphores[pid[t]] > 0
      BY <2>1 DEF sem_wait, showParagraph, sem_post
    <3>2. semaphores[pid[t]] # 0
      BY <3>1
    <3>3. ~NoTurn
      BY <1>0, <3>2 DEF NoTurn
    <3> QED
      BY <3>3 DEF ManpageInv, First
  <2>2. CASE thread[t] # "wait"
    BY <2>2, <1>0 DEF ManpageInv, First, NoTurn
  <2> QED
    BY <2>1, <2>2
<1>4. First' /\ Created'
  BY <1>0, <1>1, <1>3 DEF ManpageInv, First, Created
<1>5. CASE sem_wait(t)
  <2>1. /\ semaphores[pid[t]] = 1 /\ pid[t] = Len(shown) /\ shown' = shown /\ thread'[t] = "show"
        /\ \A k \in Ids : semaphores'[k] = 0
        /\ \A u \in Ids : thread[u] \notin {"show", "post"}
    <3>1. /\ semaphores[pid[t]] # 0 /\ shown' = shown /\ thread'[t] = "show"
          /\ semaphores' = [semaphores EXCEPT ![pid[t]] = @ - 1]
      BY <1>0, <1>5 DEF ManpageInv, ManpageTypeOK, sem_wait
    <3>2. /\ semaphores[pid[t]] = 1 /\ pid[t] = Len(shown)
          /\ \A j \in Ids : semaphores[j] # 0 => j = pid[t]
          /\ \A u \in Ids : thread[u] \notin {"show", "post"}
      BY <1>0, <3>1 DEF ManpageInv, Turn
    <3> QED
      BY <1>0, <3>1, <3>2 DEF ManpageInv, ManpageTypeOK
  <2>2. ManpageTypeOK' /\ InOrder'
    BY <1>0, <1>5, <2>1 DEF ManpageInv, ManpageTypeOK, InOrder, sem_wait
  <2>3. Turn'
    BY <1>0, <2>1 DEF Turn
  <2> QED
    BY <1>2, <1>4, <2>2, <2>3 DEF ManpageInv
<1>6. CASE showParagraph(t)
  <2>1. /\ pid[t] = Len(shown) /\ semaphores' = semaphores /\ shown' = Append(shown, pid[t])
        /\ thread'[t] = IF pid[t] < N - 1 THEN "post" ELSE "done"
        /\ \A k \in Ids : semaphores[k] = 0
        /\ \A u \in Ids : u # t => thread[u] \notin {"show", "post"}
        /\ shown \in Seq(Ids)
    BY <1>0, <1>6 DEF ManpageInv, ManpageTypeOK, Turn, showParagraph
  <2>2. ManpageTypeOK' /\ InOrder'
    BY <1>0, <1>6, <2>1 DEF ManpageInv, ManpageTypeOK, InOrder, showParagraph
  <2>3. Len(shown') = Len(shown) + 1 /\ Len(shown) \in Nat
    BY <2>1
  <2>4. Turn'
    BY <1>0, <2>1, <2>3 DEF Turn
  <2> QED
    BY <1>2, <1>4, <2>2, <2>4 DEF ManpageInv
<1>7. CASE sem_post(t)
  <2>1. /\ pid[t] = Len(shown) - 1 /\ pid[t] < N - 1 /\ shown' = shown /\ thread'[t] = "done"
        /\ \A k \in Ids : semaphores[k] = 0
        /\ \A u \in Ids : u # t => thread[u] \notin {"show", "post"}
    <3>1. thread[t] = "post" /\ thread'[t] = "done" /\ shown' = shown
      BY <1>0, <1>7 DEF ManpageInv, ManpageTypeOK, sem_post
    <3> QED
      BY <1>0, <3>1 DEF ManpageInv, Turn
  <2>2. pid[t] + 1 \in Ids
    BY <1>0, <2>1 DEF Ids
  <2>3. semaphores' = [semaphores EXCEPT ![pid[t] + 1] = 1]
    <3>1. semaphores' = [semaphores EXCEPT ![pid[t] + 1] = semaphores[pid[t] + 1] + 1]
      BY <1>7 DEF sem_post
    <3>2. semaphores[pid[t] + 1] + 1 = 1
      BY <2>1, <2>2
    <3> QED
      BY <3>1, <3>2
  <2>4. ManpageTypeOK' /\ InOrder'
    <3>1. InOrder' /\ shown' \in Seq(Ids) /\ pid' \in [Ids -> Ids] /\ main' \in 0..(2 * N)
      BY <1>0, <2>1 DEF ManpageInv, ManpageTypeOK, InOrder
    <3>2. semaphores' \in [Ids -> Nat]
      BY <2>3 DEF ManpageInv, ManpageTypeOK
    <3>3. thread' = [thread EXCEPT ![t] = "done"]
      BY <1>7 DEF sem_post
    <3> QED
      BY <3>1, <3>2, <3>3 DEF ManpageInv, ManpageTypeOK
  <2>5. Len(shown) \in Nat
    BY DEF ManpageInv, ManpageTypeOK
  <2>6. Turn'
    BY <1>0, <2>1, <2>2, <2>3, <2>5 DEF Turn, ManpageInv, ManpageTypeOK
  <2> QED
    BY <1>2, <1>4, <2>4, <2>6 DEF ManpageInv
<1> QED
  BY <1>5, <1>6, <1>7

LEMMA MainInv ==
  ASSUME ManpageInv, manpage \/ UNCHANGED manpageVars
  PROVE  ManpageInv'
<1>0. N \in Nat /\ Ids = 0..(N - 1)
  BY ManpageAssumption DEF Ids
<1>1. CASE pthread_create
  <2>1. main \in Ids /\ thread[main] = "new" /\ thread' = [thread EXCEPT ![main] = "start"]
    BY <1>0, <1>1 DEF ManpageInv, ManpageTypeOK, Created, pthread_create
  <2>2. /\ \A u \in Ids : thread'[u] \in {"new", "start"} <=> thread[u] \in {"new", "start"}
        /\ \A u \in Ids : thread'[u] \notin {"new", "start"} => thread'[u] = thread[u]
        /\ UNCHANGED <<semaphores, pid, shown>>
    BY <1>1, <2>1 DEF ManpageInv, ManpageTypeOK, pthread_create
  <2>3. ManpageTypeOK' /\ InOrder' /\ Created'
    <3>1. main' = main + 1 /\ main' \in 0..(2 * N)
      BY <1>0, <1>1 DEF ManpageInv, ManpageTypeOK, pthread_create
    <3>2. Created'
      BY <1>0, <2>1, <2>2, <3>1 DEF ManpageInv, ManpageTypeOK, Created
    <3>3. ManpageTypeOK'
      BY <2>1, <2>2, <3>1 DEF ManpageInv, ManpageTypeOK
    <3>4. InOrder'
      BY <2>2 DEF ManpageInv, InOrder
    <3> QED
      BY <3>2, <3>3, <3>4
  <2>4. Taken' = Taken
    BY <2>2 DEF Taken
  <2>5. PidsDistinct'
    BY <2>2 DEF ManpageInv, PidsDistinct
  <2>6. Turn'
    BY <2>2 DEF ManpageInv, Turn
  <2>7. First'
    BY <2>2, <2>4 DEF ManpageInv, First, NoTurn
  <2> QED
    BY <2>3, <2>5, <2>6, <2>7 DEF ManpageInv
<1>2. CASE pthread_join
  <2>1. main' \in 0..(2 * N) /\ main' > main /\ UNCHANGED <<semaphores, thread, pid, shown>>
    BY <1>0, <1>2 DEF ManpageInv, ManpageTypeOK, pthread_join
  <2>2. ManpageTypeOK' /\ InOrder' /\ Created'
    <3>1. ManpageTypeOK'
      BY <2>1 DEF ManpageInv, ManpageTypeOK
    <3>2. InOrder'
      BY <2>1 DEF ManpageInv, InOrder
    <3>3. Created'
      <4> SUFFICES ASSUME NEW i \in Ids, i >= main'
                   PROVE  thread'[i] = "new"
        BY DEF Created
      <4>1. main \in Int /\ main' \in Int /\ i \in Int
        BY <1>0, <2>1 DEF ManpageInv, ManpageTypeOK
      <4>2. i >= main
        BY <2>1, <4>1
      <4> QED
        BY <2>1, <4>2 DEF ManpageInv, Created
    <3> QED
      BY <3>1, <3>2, <3>3
  <2> QED
    BY <2>1, <2>2 DEF ManpageInv, PidsDistinct, Turn, First, NoTurn, Taken
<1>3. CASE UNCHANGED manpageVars
  BY <1>3 DEF manpageVars, ManpageInv, ManpageTypeOK, PidsDistinct, Turn, First, NoTurn, Taken, InOrder, Created
<1> QED
  BY <1>1, <1>2, <1>3 DEF manpage

\* However many paragraphs there are, whatever ids the threads get and in
\* whatever order they run, the paragraphs are shown in order (manpage.c:47-57).
THEOREM ShownInOrder == ManpageSpec => []InOrder
<1>1. ManpageInv /\ [ManpageNext]_manpageVars => ManpageInv'
  BY IdInv, ThreadInv, MainInv DEF ManpageNext, thread_func, Returned
<1>2. ManpageInv => InOrder
  BY DEF ManpageInv
<1> QED
  BY ManpageInitInv, <1>1, <1>2, PTL DEF ManpageSpec

----------------------------------------------------------------------------
(* cartman: a junction's semaphore is 1, or one thread has taken it and not
   given it back; a cart has reserved just the junctions whose semaphores a
   thread of its holds between reserve() and release(). *)

Labels == {"wait1", "wait2", "reserve1", "reserve2", "cross", "release1", "release2", "post1",
           "post2", "done"}

CartmanTypeOK ==
  /\ sems \in [Junctions -> {0, 1}]
  /\ arg \in [Started -> Arrivals]
  /\ pc \in [Started -> Labels]
  /\ reserved \subseteq Carts \X Junctions
  /\ \E n \in Nat : Started = 1..n

\* Thread i has taken sems[j] and not given it back.
Holds(i, j) ==
  \/ /\ j = J1(arg[i])
     /\ pc[i] \in {"wait2", "reserve1", "reserve2", "cross", "release1", "release2", "post1"}
  \/ /\ j = J2(arg[i])
     /\ pc[i] \in {"reserve1", "reserve2", "cross", "release1", "release2", "post1", "post2"}

\* Thread i has reserved j for its cart and not released it.
Reserving(i, j) ==
  \/ j = J1(arg[i]) /\ pc[i] \in {"reserve2", "cross", "release1"}
  \/ j = J2(arg[i]) /\ pc[i] \in {"cross", "release1", "release2"}

\* The semaphore of a junction is 1 only while nobody holds it.
SemsOK == \A j \in Junctions : sems[j] = 1 => \A i \in Started : ~Holds(i, j)

HoldsExclusive ==
  \A i, k \in Started, j \in Junctions : Holds(i, j) /\ Holds(k, j) => i = k

ReservedOK ==
  /\ \A p \in reserved : \E i \in Started : arg[i].C = p[1] /\ Reserving(i, p[2])
  /\ \A i \in Started, j \in Junctions : Reserving(i, j) => <<arg[i].C, j>> \in reserved

CartmanInv == CartmanTypeOK /\ SemsOK /\ HoldsExclusive /\ ReservedOK

\* A cart waits for two different junctions.
LEMMA TwoJunctions ==
  ASSUME NEW a \in Arrivals
  PROVE  /\ J1(a) \in Junctions /\ J2(a) \in Junctions /\ J1(a) # J2(a)
         /\ {J1(a), J2(a)} = {a.J, Other(a)}
<1> DEFINE n == tracknum
<1>1. n \in Int /\ 2 <= n /\ a.J \in 0..(n - 1) /\ a.T \in 0..(n - 1)
  BY CartmanAssumption
<1>2. Other(a) \in 0..(n - 1) /\ Other(a) # a.J
  <2>1. CASE a.J = a.T + 1
    <3>1. Offset(a) = -1 /\ a.J - 1 >= 0 /\ a.J - 1 < n
      BY <1>1, <2>1 DEF Offset
    <3>2. (a.J - 1) % n = a.J - 1
      BY <1>1, <3>1
    <3> QED
      BY <1>1, <3>1, <3>2 DEF Other
  <2>2. CASE a.J # a.T + 1
    <3>1. Offset(a) = 1 /\ a.J + 1 > 0
      BY <1>1, <2>2 DEF Offset
    <3>2. (a.J + 1) % n = IF a.J = n - 1 THEN 0 ELSE a.J + 1
      <4>1. CASE a.J = n - 1
        BY <1>1, <4>1
      <4>2. CASE a.J # n - 1
        BY <1>1, <4>2
      <4> QED
        BY <4>1, <4>2
    <3> QED
      BY <1>1, <3>1, <3>2 DEF Other
  <2> QED
    BY <2>1, <2>2
<1> QED
  BY <1>1, <1>2 DEF J1, J2, Junctions

\* Initially every junction is free.
LEMMA CartmanInitInv == CartmanInit => CartmanInv
<1> SUFFICES ASSUME CartmanInit
             PROVE  CartmanInv
  OBVIOUS
<1>1. DOMAIN arg = {} /\ DOMAIN pc = {}
  BY DEF CartmanInit
<1>2. arg \in [Started -> Arrivals] /\ pc \in [Started -> Labels] /\ Started = 1..0
  BY <1>1 DEF CartmanInit, Started
<1>3. CartmanTypeOK
  BY <1>2 DEF CartmanInit, CartmanTypeOK
<1> QED
  BY <1>1, <1>3 DEF CartmanInit, CartmanInv, Started, SemsOK, HoldsExclusive, ReservedOK

\* A new thread holds nothing.
LEMMA ArriveInv ==
  ASSUME CartmanInv, NEW a \in Arrivals, arrive(a)
  PROVE  CartmanInv'
<1>1. PICK n \in Nat : Started = 1..n
  BY DEF CartmanInv, CartmanTypeOK
<1>2. Cardinality(Started) = n
  BY <1>1, FS_Interval
<1>3. /\ arg' = [i \in 1..n \cup {n + 1} |-> IF i \in 1..n THEN arg[i] ELSE a]
      /\ pc' = [i \in 1..n \cup {n + 1} |-> IF i \in 1..n THEN pc[i] ELSE "wait1"]
      /\ sems' = sems /\ reserved' = reserved
  BY <1>1, <1>2 DEF arrive
<1>4. Started' = 1..(n + 1) /\ 1..(n + 1) = 1..n \cup {n + 1} /\ n + 1 \notin 1..n
  BY <1>3 DEF Started
<1>5. /\ \A i \in 1..n : arg'[i] = arg[i] /\ pc'[i] = pc[i]
      /\ arg'[n + 1] = a /\ pc'[n + 1] = "wait1"
  BY <1>3, <1>4
<1>6. CartmanTypeOK'
  <2>1. arg' \in [Started' -> Arrivals] /\ pc' \in [Started' -> Labels]
    BY <1>1, <1>3, <1>4 DEF CartmanInv, CartmanTypeOK, Labels
  <2> QED
    BY <1>3, <1>4, <2>1 DEF CartmanInv, CartmanTypeOK
<1>7. /\ \A i \in 1..n, j \in Junctions : Holds(i, j)' = Holds(i, j) /\ Reserving(i, j)' = Reserving(i, j)
      /\ \A j \in Junctions : ~Holds(n + 1, j)' /\ ~Reserving(n + 1, j)'
  BY <1>5 DEF Holds, Reserving
<1>8. SemsOK' /\ HoldsExclusive'
  BY <1>1, <1>3, <1>4, <1>7 DEF CartmanInv, SemsOK, HoldsExclusive
<1>9. ReservedOK'
  <2>1. ASSUME NEW p \in reserved
        PROVE  \E i \in Started' : arg'[i].C = p[1] /\ Reserving(i, p[2])'
    <3>1. p[2] \in Junctions
      BY DEF CartmanInv, CartmanTypeOK
    <3>2. PICK i \in 1..n : arg[i].C = p[1] /\ Reserving(i, p[2])
      BY <1>1 DEF CartmanInv, ReservedOK
    <3> QED
      BY <1>4, <1>5, <1>7, <3>1, <3>2
  <2>2. ASSUME NEW i \in Started', NEW j \in Junctions, Reserving(i, j)'
        PROVE  <<arg'[i].C, j>> \in reserved
    <3>1. i \in 1..n
      BY <1>4, <1>7, <2>2
    <3> QED
      BY <1>1, <1>5, <1>7, <2>2, <3>1 DEF CartmanInv, ReservedOK
  <2> QED
    BY <1>3, <2>1, <2>2 DEF ReservedOK
<1> QED
  BY <1>6, <1>8, <1>9 DEF CartmanInv

\* What a step of thread i leaves to the others.
LEMMA StepKeeps ==
  ASSUME CartmanInv, NEW i \in Started, NEW from, NEW to \in Labels, At(i, from, to)
  PROVE  /\ Started' = Started /\ arg' = arg /\ pc[i] = from /\ pc'[i] = to
         /\ pc' \in [Started -> Labels]
         /\ \A k \in Started, j \in Junctions :
              k # i => (Holds(k, j)' <=> Holds(k, j)) /\ (Reserving(k, j)' <=> Reserving(k, j))
BY DEF CartmanInv, CartmanTypeOK, At, Started, Holds, Reserving

\* Wait() returns: i has the junction j.
LEMMA WaitInv ==
  ASSUME CartmanInv, NEW i \in Started, NEW from, NEW to \in Labels, At(i, from, to),
         NEW j \in Junctions, Wait(j), reserved' = reserved,
         \A x \in Junctions : Holds(i, x)' <=> Holds(i, x) \/ x = j,
         \A x \in Junctions : Reserving(i, x)' <=> Reserving(i, x)
  PROVE  CartmanInv'
<1>1. /\ Started' = Started /\ arg' = arg /\ pc[i] = from /\ pc'[i] = to
      /\ pc' \in [Started -> Labels]
      /\ \A k \in Started, x \in Junctions :
           k # i => (Holds(k, x)' <=> Holds(k, x)) /\ (Reserving(k, x)' <=> Reserving(k, x))
  BY StepKeeps
<1>2. sems[j] = 1 /\ sems' = [sems EXCEPT ![j] = 0]
  <2>1. sems[j] \in {0, 1}
    BY DEF CartmanInv, CartmanTypeOK
  <2>2. sems[j] = 1
    BY <2>1 DEF Wait
  <2> QED
    BY <2>2 DEF Wait
<1>3. \A k \in Started : ~Holds(k, j)
  BY <1>2 DEF CartmanInv, SemsOK
<1>4. CartmanTypeOK'
  BY <1>1, <1>2 DEF CartmanInv, CartmanTypeOK
<1>5. SemsOK'
  BY <1>1, <1>2, <1>3 DEF CartmanInv, CartmanTypeOK, SemsOK
<1>6. HoldsExclusive'
  BY <1>1, <1>3 DEF CartmanInv, HoldsExclusive
<1>7. \A k \in Started, x \in Junctions : Reserving(k, x)' <=> Reserving(k, x)
  BY <1>1
<1>8. ReservedOK'
  <2>1. \A p \in reserved : p[2] \in Junctions
    BY DEF CartmanInv, CartmanTypeOK
  <2> QED
    BY <1>1, <1>7, <2>1 DEF CartmanInv, ReservedOK
<1> QED
  BY <1>4, <1>5, <1>6, <1>8 DEF CartmanInv

\* Post(): i gives up the junction j, which it has released.
LEMMA PostInv ==
  ASSUME CartmanInv, NEW i \in Started, NEW from, NEW to \in Labels, At(i, from, to),
         NEW j \in Junctions, Post(j), reserved' = reserved, Holds(i, j),
         \A x \in Junctions : Holds(i, x)' <=> Holds(i, x) /\ x # j,
         \A x \in Junctions : Reserving(i, x)' <=> Reserving(i, x)
  PROVE  CartmanInv'
<1>1. /\ Started' = Started /\ arg' = arg /\ pc[i] = from /\ pc'[i] = to
      /\ pc' \in [Started -> Labels]
      /\ \A k \in Started, x \in Junctions :
           k # i => (Holds(k, x)' <=> Holds(k, x)) /\ (Reserving(k, x)' <=> Reserving(k, x))
  BY StepKeeps
<1>2. sems[j] = 0
  BY DEF CartmanInv, CartmanTypeOK, SemsOK
<1>3. sems' = [sems EXCEPT ![j] = 1]
  BY <1>2 DEF Post
<1>4. \A k \in Started : k # i => ~Holds(k, j)
  BY DEF CartmanInv, HoldsExclusive
<1>5. CartmanTypeOK'
  BY <1>1, <1>3 DEF CartmanInv, CartmanTypeOK
<1>6. SemsOK'
  BY <1>1, <1>3, <1>4 DEF CartmanInv, CartmanTypeOK, SemsOK
<1>7. HoldsExclusive'
  BY <1>1 DEF CartmanInv, HoldsExclusive
<1>8. \A k \in Started, x \in Junctions : Reserving(k, x)' <=> Reserving(k, x)
  BY <1>1
<1>9. ReservedOK'
  <2>1. \A p \in reserved : p[2] \in Junctions
    BY DEF CartmanInv, CartmanTypeOK
  <2> QED
    BY <1>1, <1>8, <2>1 DEF CartmanInv, ReservedOK
<1> QED
  BY <1>5, <1>6, <1>7, <1>9 DEF CartmanInv

\* reserve(): i reserves a junction that it holds.
LEMMA ReserveInv ==
  ASSUME CartmanInv, NEW i \in Started, NEW from, NEW to \in Labels, At(i, from, to),
         NEW j \in Junctions, reserve(arg[i].C, j), sems' = sems,
         \A x \in Junctions : Holds(i, x)' <=> Holds(i, x),
         \A x \in Junctions : Reserving(i, x)' <=> Reserving(i, x) \/ x = j
  PROVE  CartmanInv'
<1>1. /\ Started' = Started /\ arg' = arg /\ pc[i] = from /\ pc'[i] = to
      /\ pc' \in [Started -> Labels]
      /\ \A k \in Started, x \in Junctions :
           k # i => (Holds(k, x)' <=> Holds(k, x)) /\ (Reserving(k, x)' <=> Reserving(k, x))
  BY StepKeeps
<1>2. reserved' = reserved \cup {<<arg[i].C, j>>} /\ arg[i].C \in Carts
  BY CartmanAssumption DEF reserve, CartmanInv, CartmanTypeOK
<1>3. CartmanTypeOK'
  BY <1>1, <1>2 DEF CartmanInv, CartmanTypeOK
<1>4. SemsOK' /\ HoldsExclusive'
  BY <1>1 DEF CartmanInv, SemsOK, HoldsExclusive
<1>5. ASSUME NEW p \in reserved'
      PROVE  \E k \in Started : arg[k].C = p[1] /\ Reserving(k, p[2])'
  <2>1. CASE p \in reserved
    <3>1. p[2] \in Junctions
      BY <2>1 DEF CartmanInv, CartmanTypeOK
    <3>2. PICK k \in Started : arg[k].C = p[1] /\ Reserving(k, p[2])
      BY <2>1 DEF CartmanInv, ReservedOK
    <3>3. Reserving(k, p[2])'
      BY <1>1, <3>1, <3>2
    <3> QED
      BY <3>2, <3>3
  <2>2. CASE p = <<arg[i].C, j>>
    BY <2>2
  <2> QED
    BY <1>2, <2>1, <2>2
<1>6. ASSUME NEW k \in Started, NEW x \in Junctions, Reserving(k, x)'
      PROVE  <<arg[k].C, x>> \in reserved'
  BY <1>1, <1>2, <1>6 DEF CartmanInv, ReservedOK
<1> QED
  BY <1>1, <1>3, <1>4, <1>5, <1>6 DEF CartmanInv, ReservedOK

\* release(): i releases a junction that it holds, so no other thread has it
\* reserved for the same cart.
LEMMA ReleaseInv ==
  ASSUME CartmanInv, NEW i \in Started, NEW from, NEW to \in Labels, At(i, from, to),
         NEW j \in Junctions, release(arg[i].C, j), sems' = sems, Holds(i, j),
         \A x \in Junctions : Holds(i, x)' <=> Holds(i, x),
         \A x \in Junctions : Reserving(i, x)' <=> Reserving(i, x) /\ x # j
  PROVE  CartmanInv'
<1>1. /\ Started' = Started /\ arg' = arg /\ pc[i] = from /\ pc'[i] = to
      /\ pc' \in [Started -> Labels]
      /\ \A k \in Started, x \in Junctions :
           k # i => (Holds(k, x)' <=> Holds(k, x)) /\ (Reserving(k, x)' <=> Reserving(k, x))
  BY StepKeeps
<1>2. reserved' = reserved \ {<<arg[i].C, j>>}
  BY DEF release
<1>3. CartmanTypeOK'
  BY <1>1, <1>2 DEF CartmanInv, CartmanTypeOK
<1>4. SemsOK' /\ HoldsExclusive'
  BY <1>1 DEF CartmanInv, SemsOK, HoldsExclusive
<1>5. \A k \in Started, x \in Junctions : Reserving(k, x) => Holds(k, x)
  BY DEF Reserving, Holds
<1>6. \A k \in Started : k # i => ~Reserving(k, j)
  BY <1>5 DEF CartmanInv, HoldsExclusive
<1>7. ASSUME NEW p \in reserved'
      PROVE  \E k \in Started : arg[k].C = p[1] /\ Reserving(k, p[2])'
  <2>1. p \in reserved /\ p[2] \in Junctions /\ p = <<p[1], p[2]>>
    BY <1>2 DEF CartmanInv, CartmanTypeOK
  <2>2. PICK k \in Started : arg[k].C = p[1] /\ Reserving(k, p[2])
    BY <2>1 DEF CartmanInv, ReservedOK
  <2>3. ~(k = i /\ p[2] = j)
    BY <1>2, <2>1, <2>2
  <2>4. Reserving(k, p[2])'
    BY <1>1, <2>1, <2>2, <2>3
  <2> QED
    BY <2>2, <2>4
<1>8. ASSUME NEW k \in Started, NEW x \in Junctions, Reserving(k, x)'
      PROVE  <<arg[k].C, x>> \in reserved'
  <2>1. Reserving(k, x) /\ x # j
    BY <1>1, <1>6, <1>8
  <2> QED
    BY <1>2, <2>1 DEF CartmanInv, ReservedOK
<1> QED
  BY <1>1, <1>3, <1>4, <1>7, <1>8 DEF CartmanInv, ReservedOK

\* A step of no one's junctions keeps the invariant.
LEMMA SameInv ==
  ASSUME CartmanInv, Started' = Started, arg' = arg, pc' \in [Started -> Labels], sems' = sems,
         reserved' = reserved,
         \A m \in Started, x \in Junctions :
           (Holds(m, x)' <=> Holds(m, x)) /\ (Reserving(m, x)' <=> Reserving(m, x))
  PROVE  CartmanInv'
<1>1. CartmanTypeOK'
  BY DEF CartmanInv, CartmanTypeOK
<1>2. \A p \in reserved : p[2] \in Junctions
  BY DEF CartmanInv, CartmanTypeOK
<1>3. ReservedOK'
  BY <1>2 DEF CartmanInv, ReservedOK
<1> QED
  BY <1>1, <1>3 DEF CartmanInv, SemsOK, HoldsExclusive

LEMMA MakeCartInv ==
  ASSUME CartmanInv, NEW i \in Started, make_cart(i)
  PROVE  CartmanInv'
<1> DEFINE j == J1(arg[i])
           k == J2(arg[i])
<1>1. arg[i] \in Arrivals /\ j \in Junctions /\ k \in Junctions /\ j # k
  BY TwoJunctions DEF CartmanInv, CartmanTypeOK
<1>2. ASSUME NEW from, NEW to \in Labels, At(i, from, to)
      PROVE  arg' = arg /\ pc[i] = from /\ pc'[i] = to
  BY <1>2, StepKeeps
<1> USE DEF Labels, Holds, Reserving
<1>3. CASE At(i, "wait1", "wait2") /\ Wait(j) /\ UNCHANGED reserved
  BY <1>1, <1>2, <1>3, WaitInv
<1>4. CASE At(i, "wait2", "reserve1") /\ Wait(k) /\ UNCHANGED reserved
  BY <1>1, <1>2, <1>4, WaitInv
<1>5. CASE At(i, "reserve1", "reserve2") /\ reserve(arg[i].C, j) /\ UNCHANGED sems
  BY <1>1, <1>2, <1>5, ReserveInv
<1>6. CASE At(i, "reserve2", "cross") /\ reserve(arg[i].C, k) /\ UNCHANGED sems
  BY <1>1, <1>2, <1>6, ReserveInv
<1>7. CASE cross(i)
  <2>1. At(i, "cross", "release1") /\ sems' = sems /\ reserved' = reserved
    BY <1>7 DEF cross
  <2>2. /\ Started' = Started /\ pc' \in [Started -> Labels] /\ arg' = arg
        /\ \A m \in Started, x \in Junctions :
             (Holds(m, x)' <=> Holds(m, x)) /\ (Reserving(m, x)' <=> Reserving(m, x))
    BY <1>2, <2>1, StepKeeps
  <2> QED
    BY <2>1, <2>2, SameInv
<1>8. CASE At(i, "release1", "release2") /\ release(arg[i].C, j) /\ UNCHANGED sems
  BY <1>1, <1>2, <1>8, ReleaseInv
<1>9. CASE At(i, "release2", "post1") /\ release(arg[i].C, k) /\ UNCHANGED sems
  BY <1>1, <1>2, <1>9, ReleaseInv
<1>10. CASE At(i, "post1", "post2") /\ Post(j) /\ UNCHANGED reserved
  BY <1>1, <1>2, <1>10, PostInv
<1>11. CASE At(i, "post2", "done") /\ Post(k) /\ UNCHANGED reserved
  BY <1>1, <1>2, <1>11, PostInv
<1> QED
  BY <1>3, <1>4, <1>5, <1>6, <1>7, <1>8, <1>9, <1>10, <1>11 DEF make_cart, Entry, Exit

LEMMA NextInv == CartmanInv /\ [CartmanNext]_cartmanVars => CartmanInv'
<1> SUFFICES ASSUME CartmanInv, [CartmanNext]_cartmanVars
             PROVE  CartmanInv'
  OBVIOUS
<1>1. CASE Idle \/ UNCHANGED cartmanVars
  <2>1. sems' = sems /\ arg' = arg /\ pc' = pc /\ reserved' = reserved
    BY <1>1 DEF Idle, cartmanVars
  <2> QED
    BY <2>1, SameInv DEF CartmanInv, CartmanTypeOK, Started, Holds, Reserving
<1> QED
  BY <1>1, ArriveInv, MakeCartInv DEF CartmanNext

LEMMA SpecInv == CartmanSpec => []CartmanInv
BY CartmanInitInv, NextInv, PTL DEF CartmanSpec

\* A junction is never reserved by two carts (cartman.c:49-57): each has waited
\* for the junction's semaphore and has not posted it.
THEOREM JunctionsExcluded == CartmanSpec => []JunctionExclusive
<1>1. CartmanInv => JunctionExclusive
  <2> SUFFICES ASSUME CartmanInv, NEW p \in reserved, NEW q \in reserved, p[2] = q[2]
               PROVE  p[1] = q[1]
    BY DEF JunctionExclusive
  <2>1. PICK i \in Started : arg[i].C = p[1] /\ Reserving(i, p[2])
    BY DEF CartmanInv, ReservedOK
  <2>2. PICK k \in Started : arg[k].C = q[1] /\ Reserving(k, q[2])
    BY DEF CartmanInv, ReservedOK
  <2>3. p[2] \in Junctions /\ Holds(i, p[2]) /\ Holds(k, p[2])
    BY <2>1, <2>2 DEF CartmanInv, CartmanTypeOK, Reserving, Holds
  <2>4. i = k
    BY <2>3 DEF CartmanInv, HoldsExclusive
  <2> QED
    BY <2>1, <2>2, <2>4
<1> QED
  BY <1>1, SpecInv, PTL

\* A cart arrives at an end of its track.
ArriveAtEnds == \A a \in Arrivals : a.J \in {a.T, (a.T + 1) % tracknum}

\* A cart that crosses has reserved both ends of its track, and their semaphores
\* are down, whichever way it goes (cartman.c:25-52); not so for a cart that
\* arrives at the far end of the last track.
THEOREM TracksReserved ==
  ASSUME ArriveAtEnds
  PROVE  CartmanSpec => []OwnTrackReserved
<1>1. CartmanInv => OwnTrackReserved
  <2> SUFFICES ASSUME CartmanInv, NEW i \in Started, pc[i] = "cross",
                      arg[i].J = arg[i].T \/ arg[i].T # tracknum - 1,
                      NEW j \in {arg[i].T, (arg[i].T + 1) % tracknum}
               PROVE  <<arg[i].C, j>> \in reserved /\ sems[j] = 0
    BY DEF OwnTrackReserved
  <2> DEFINE a == arg[i]
  <2>1. a \in Arrivals
    BY DEF CartmanInv, CartmanTypeOK
  <2>2. /\ tracknum \in Int /\ 2 <= tracknum
        /\ a.J \in 0..(tracknum - 1) /\ a.T \in 0..(tracknum - 1)
        /\ a.J \in {a.T, (a.T + 1) % tracknum}
    BY <2>1, CartmanAssumption DEF ArriveAtEnds
  <2> HIDE DEF a
  <2>3. j \in {a.J, Other(a)}
    <3>1. CASE a.J = a.T
      <4>1. Offset(a) = 1 /\ ~(a.J + 1 < 0)
        BY <2>2, <3>1 DEF Offset
      <4>2. Other(a) = (a.T + 1) % tracknum
        BY <3>1, <4>1 DEF Other
      <4> QED
        BY <3>1, <4>2 DEF a
    <3>2. CASE a.J # a.T
      <4>1. a.T # tracknum - 1 /\ a.J = (a.T + 1) % tracknum
        BY <2>2, <3>2 DEF a
      <4>2. a.J = a.T + 1
        BY <2>2, <4>1
      <4>3. Offset(a) = -1 /\ a.J + -1 = a.T /\ a.T % tracknum = a.T /\ ~(a.T < 0)
        BY <2>2, <4>2 DEF Offset
      <4>4. Other(a) = a.T
        BY <4>3 DEF Other
      <4> QED
        BY <4>1, <4>4 DEF a
    <3> QED
      BY <3>1, <3>2
  <2>4. j \in {J1(a), J2(a)} /\ j \in Junctions
    BY <2>1, <2>3, TwoJunctions
  <2>5. Reserving(i, j) /\ Holds(i, j)
    BY <2>4 DEF Reserving, Holds, a
  <2>6. sems[j] \in {0, 1} /\ sems[j] # 1
    BY <2>4, <2>5 DEF CartmanInv, CartmanTypeOK, SemsOK
  <2> QED
    BY <2>4, <2>5, <2>6 DEF CartmanInv, ReservedOK
<1> QED
  BY <1>1, SpecInv, PTL

----------------------------------------------------------------------------
(* The merge sorts: where their processes and threads are, and the count.   *)

ProcessPlaces == {"none", "fork", "sort", "wait", "copy", "done", "exit"}
ThreadPlaces == {"none", "which", "id1", "idx1", "create1", "id2", "idx2", "create2", "join1",
                 "join2", "merge", "sort", "done"}

\* Before a thread that is to create others has done so.
Early == {"which", "id1", "idx1", "create1"}

PlacesOK ==
  /\ version \in Versions
  /\ thread_num \in Nat /\ id \in [Workers -> Nat] /\ f \in [Workers -> BOOLEAN]
  /\ DOMAIN todo = Workers
  /\ place \in [Workers -> IF version = "processes" THEN ProcessPlaces ELSE ThreadPlaces]
  /\ version = "processes" => \A w \in Workers : ~f[w]

\* The count is at least 1 when there is a second thread, and so are the ids it
\* and others after it read, and at least 2 when there is a thread's thread's thread.
Counting ==
  version = "threads" =>
    /\ \A w \in Workers : f[w] => Len(w) <= 1
    /\ \A w \in Workers : place[w] # "none" /\ Len(w) >= 2 => thread_num >= 2
    /\ \A w \in Workers : place[w] # "none" /\ w # Root => thread_num >= 1
    /\ \A w \in Workers : place[w] \in {"idx1", "create1"} /\ w # Root => id[w] >= 1
    /\ \A w \in Workers : place[w] \in {"idx2", "create2"} => id[w] >= 1
    /\ place[Root] \notin {"none", "sort"}
    /\ place[Root] \notin Early => thread_num >= 1
    /\ place[Root] \in Early => \A w \in Workers : w # Root => place[w] = "none"

CountInv == PlacesOK /\ Counting

\* Workers are sequences of ones and twos.
LEMMA WorkerFacts ==
  /\ Root \in Workers /\ <<1>> \in Workers /\ <<2>> \in Workers
  /\ Root # <<1>> /\ Root # <<2>> /\ <<1>> # <<2>>
  /\ \A w \in Workers : w \in Seq({1, 2}) /\ Len(w) \in 0..3 /\ (w # Root => Len(w) # 0)
  /\ \A w \in Seq({1, 2}) : Len(w) <= 3 => w \in Workers
  /\ \A w \in Workers, n \in {1, 2} : Append(w, n) # w /\ Append(w, n) # Root
<1>1. Root \in Workers /\ <<1>> \in Workers /\ <<2>> \in Workers
  BY DEF Root, Workers, MaxDepth
<1>2. ASSUME NEW w \in Workers
      PROVE  w \in Seq({1, 2}) /\ Len(w) \in 0..3 /\ (w # Root => Len(w) # 0)
  <2>1. PICK d \in 0..3 : w \in [1..d -> {1, 2}]
    BY DEF Workers, MaxDepth
  <2> QED
    BY <2>1 DEF Root
<1>3. ASSUME NEW w \in Seq({1, 2}), Len(w) <= 3
      PROVE  w \in Workers
  <2>1. Len(w) \in Nat /\ w \in [1..Len(w) -> {1, 2}]
    BY LenProperties
  <2>2. Len(w) \in 0..3
    BY <1>3, <2>1
  <2> QED
    BY <2>1, <2>2 DEF Workers, MaxDepth
<1>4. ASSUME NEW w \in Workers, NEW n \in {1, 2}
      PROVE  Append(w, n) # w /\ Append(w, n) # Root
  <2>1. w \in Seq({1, 2})
    BY <1>2
  <2>2. Len(Append(w, n)) = Len(w) + 1 /\ Len(w) \in Nat
    BY <2>1
  <2>3. Len(Root) = 0
    BY DEF Root
  <2>4. Len(Append(w, n)) # Len(w) /\ Len(Append(w, n)) # 0
    BY <2>2
  <2> QED
    BY <2>3, <2>4
<1>5. Root # <<1>> /\ Root # <<2>> /\ <<1>> # <<2>>
  BY DEF Root
<1> QED
  BY <1>1, <1>2, <1>3, <1>4, <1>5

LEMMA CountInit == SortInit => CountInv
<1> SUFFICES ASSUME SortInit
             PROVE  CountInv
  OBVIOUS
<1>1. version \in {"processes", "threads"}
  BY SortAssumption DEF SortInit
<1>2. PlacesOK
  BY <1>1, WorkerFacts DEF SortInit, PlacesOK, ProcessPlaces, ThreadPlaces
<1>3. Counting
  <2>1. \A w \in Workers : /\ f[w] = FALSE /\ (w # Root => place[w] = "none")
                          /\ place[w] \in {"none", "which", "fork"}
    BY DEF SortInit
  <2>2. version = "threads" => place[Root] = "which"
    BY WorkerFacts DEF SortInit
  <2>3. Len(Root) = 0
    BY DEF Root
  <2> QED
    BY <2>1, <2>2, <2>3 DEF Counting, Early
<1> QED
  BY <1>2, <1>3 DEF CountInv

\* A step that moves one worker and touches neither the count nor what is read from it.
LEMMA CountFrame ==
  ASSUME CountInv, NEW w \in Workers, place[w] # "none",
         NEW to \in IF version = "processes" THEN ProcessPlaces ELSE ThreadPlaces,
         place' = [place EXCEPT ![w] = to] \/ place' = place,
         to \notin {"none", "idx1", "idx2"},
         to = "create1" => place[w] = "idx1",
         to = "create2" => place[w] = "idx2",
         w = Root => to # "sort" /\ ((place[w] \in Early) <=> (to \in Early)),
         UNCHANGED <<version, thread_num, id, f>>, DOMAIN todo' = Workers
  PROVE  CountInv'
<1> USE WorkerFacts
<1>1. PlacesOK'
  <2>1. place' \in [Workers -> IF version = "processes" THEN ProcessPlaces ELSE ThreadPlaces]
    BY DEF CountInv, PlacesOK
  <2> QED
    BY <2>1 DEF CountInv, PlacesOK
<1>2. \A v \in Workers : place'[v] = place[v] \/ (v = w /\ place'[v] = to)
  BY DEF CountInv, PlacesOK
<1>3. \A v \in Workers : place'[v] # "none" => place[v] # "none"
  BY <1>2
<1>4. \A v \in Workers : place'[v] \in {"idx1", "create1"} => place[v] \in {"idx1", "create1"}
  BY <1>2
<1>5. \A v \in Workers : place'[v] \in {"idx2", "create2"} => place[v] \in {"idx2", "create2"}
  BY <1>2
<1>6. /\ place'[Root] \in Early <=> place[Root] \in Early
      /\ place[Root] \notin {"none", "sort"} => place'[Root] \notin {"none", "sort"}
  BY <1>2
<1>7. \A v \in Workers : place[v] = "none" => place'[v] = "none"
  BY <1>2
<1> QED
  BY <1>1, <1>3, <1>4, <1>5, <1>6, <1>7 DEF CountInv, Counting

LEMMA CreateCount ==
  ASSUME CountInv, NEW w \in Workers, NEW n \in {1, 2}, NEW from, NEW to, create(w, n, from, to),
         <<from, to>> \in {<<"create1", "id2">>, <<"create2", "join1">>}
  PROVE  CountInv'
<1> USE WorkerFacts
<1> DEFINE c == Append(w, n)
           new == IF f[w] THEN "which" ELSE "sort"
<1>1. /\ place[w] = from /\ thread_num' = id[w] + 1
      /\ place' = [place EXCEPT ![w] = to, ![c] = new]
      /\ DOMAIN todo' = DOMAIN todo
      /\ id' = [id EXCEPT ![w] = 0]
      /\ UNCHANGED <<version, f>>
  BY DEF create, Is
<1>2. PlacesOK
  BY DEF CountInv
<1>3. version = "threads"
  <2>1. place[w] \notin ProcessPlaces
    BY <1>1 DEF ProcessPlaces
  <2>2. version \in {"processes", "threads"}
    BY <1>2, SortAssumption DEF PlacesOK
  <2> QED
    BY <1>2, <2>1, <2>2 DEF PlacesOK
<1>4. c # w /\ c # Root /\ Len(c) = Len(w) + 1 /\ Len(w) \in Nat
  <2>1. w \in Seq({1, 2})
    OBVIOUS
  <2> QED
    BY <2>1
<1>5. \A v \in Workers : place'[v] = IF v = c THEN new ELSE IF v = w THEN to ELSE place[v]
  BY <1>1, <1>2, <1>4 DEF PlacesOK
<1>6. Counting /\ id[w] \in Nat
  BY <1>2 DEF CountInv, PlacesOK
<1>7. PlacesOK'
  <2>1. to \in ThreadPlaces /\ new \in ThreadPlaces
    BY DEF ThreadPlaces
  <2>2. place \in [Workers -> ThreadPlaces]
    BY <1>2, <1>3 DEF PlacesOK
  <2>3. place' \in [Workers -> ThreadPlaces]
    BY <1>1, <2>1, <2>2
  <2>4. id' \in [Workers -> Nat] /\ thread_num' \in Nat
    BY <1>1, <1>2, <1>6 DEF PlacesOK
  <2> QED
    BY <1>1, <1>2, <1>3, <2>3, <2>4 DEF PlacesOK
<1>8. id[w] = 0 => w = Root /\ from = "create1"
  BY <1>1, <1>3, <1>6 DEF Counting
<1>9. thread_num' >= 1 /\ (id[w] # 0 => thread_num' >= 2)
  BY <1>1, <1>6
<1>10. ASSUME NEW v \in Workers, place'[v] # "none", Len(v) >= 2
       PROVE  thread_num' >= 2
  <2> SUFFICES ASSUME id[w] = 0
               PROVE  FALSE
    BY <1>9
  <2>1. \A u \in Workers : u # Root => place[u] = "none"
    BY <1>1, <1>3, <1>6, <1>8 DEF Counting, Early
  <2>2. Len(Root) = 0
    BY DEF Root
  <2>3. Len(c) = 1
    BY <1>4, <1>8, <2>2
  <2>4. v # c /\ v # w
    <3>1. Len(v) # 0 /\ Len(v) # 1
      <4>1. Len(v) \in 0..3
        OBVIOUS
      <4>2. \A x \in 0..3 : x >= 2 => x # 0 /\ x # 1
        OBVIOUS
      <4> QED
        BY <1>10, <4>1, <4>2
    <3> HIDE DEF c
    <3> QED
      BY <1>8, <2>2, <2>3, <3>1
  <2>5. place'[v] = place[v] /\ v # Root
    BY <1>5, <1>8, <2>4
  <2> QED
    BY <1>10, <2>1, <2>5
<1>11. \A v \in Workers : place'[v] \in {"idx1", "create1", "idx2", "create2"} => v # w /\ place'[v] = place[v]
  BY <1>4, <1>5
<1>12. \A v \in Workers : v # w => id'[v] = id[v]
  BY <1>1, <1>2 DEF PlacesOK
<1>13. place'[Root] \notin Early
  <2>1. CASE Root = w
    BY <1>4, <1>5, <2>1 DEF Early
  <2>2. CASE Root # w
    <3>1. place[w] # "none"
      BY <1>1
    <3>2. place[Root] \notin Early
      BY <1>3, <1>6, <2>2, <3>1 DEF Counting
    <3> QED
      BY <1>4, <1>5, <2>2, <3>2
  <2> QED
    BY <2>1, <2>2
<1>14. Counting'
  <2>1. f' = f
    BY <1>1
  <2>2. \A v \in Workers : f'[v] => Len(v) <= 1
    BY <1>3, <1>6, <2>1 DEF Counting
  <2>3. /\ \A v \in Workers : place'[v] \in {"idx1", "create1"} /\ v # Root => id'[v] >= 1
        /\ \A v \in Workers : place'[v] \in {"idx2", "create2"} => id'[v] >= 1
    BY <1>3, <1>6, <1>11, <1>12 DEF Counting
  <2>4. place'[Root] \notin {"none", "sort"}
    <3>1. place[Root] \notin {"none", "sort"}
      BY <1>3, <1>6 DEF Counting
    <3>2. to \notin {"none", "sort"}
      OBVIOUS
    <3> QED
      BY <1>4, <1>5, <3>1, <3>2
  <2> QED
    BY <1>9, <1>10, <1>13, <2>2, <2>3, <2>4 DEF Counting
<1> QED
  BY <1>7, <1>14 DEF CountInv

LEMMA CountStep == CountInv /\ [SortNext]_sortVars => CountInv'
<1> SUFFICES ASSUME CountInv, [SortNext]_sortVars
             PROVE  CountInv'
  OBVIOUS
<1> USE WorkerFacts
<1>0. /\ PlacesOK /\ Counting
      /\ thread_num \in Nat /\ place \in [Workers -> IF version = "processes" THEN ProcessPlaces ELSE ThreadPlaces]
  BY DEF CountInv, PlacesOK
<1>1. CASE UNCHANGED sortVars
  BY <1>0, <1>1 DEF sortVars, locals, CountInv, PlacesOK, Counting
<1>2. ASSUME NEW w \in Workers, place[w] \in {"which", "id1", "idx1", "create1", "id2", "idx2", "create2",
                                              "join1", "join2", "merge"}
      PROVE  version = "threads" /\ version # "processes"
  <2>1. place[w] \notin ProcessPlaces
    BY <1>2 DEF ProcessPlaces
  <2>2. version \in {"processes", "threads"}
    BY <1>0, SortAssumption DEF PlacesOK
  <2> QED
    BY <1>0, <2>1, <2>2
<1>3. ASSUME place[Root] \in {"fork", "wait", "copy"}
      PROVE  version = "processes"
  <2>1. place[Root] \notin ThreadPlaces
    BY <1>3 DEF ThreadPlaces
  <2> QED
    BY <1>0, <2>1
<1>4. ASSUME version = "processes", place' \in [Workers -> ProcessPlaces], DOMAIN todo' = Workers,
             UNCHANGED <<version, thread_num, f, id>>
      PROVE  CountInv'
  BY <1>0, <1>4 DEF CountInv, PlacesOK, Counting
<1>5. CASE fork
  <2>1. /\ place[Root] = "fork" /\ UNCHANGED <<version, thread_num, f, id>>
        /\ \/ place' = [place EXCEPT ![Root] = "exit"] /\ todo' = todo
           \/ /\ place' = [place EXCEPT ![Root] = "sort", ![Child] = "sort"]
              /\ DOMAIN todo' = DOMAIN todo
    BY <1>5 DEF fork, Is, Goto
  <2>2. place' \in [Workers -> ProcessPlaces]
    BY <1>0, <1>3, <2>1 DEF ProcessPlaces
  <2> QED
    BY <1>0, <1>3, <1>4, <2>1, <2>2 DEF PlacesOK
<1>6. CASE wait \/ copy
  <2>1. /\ place[Root] \in {"wait", "copy"} /\ UNCHANGED <<version, thread_num, f, id, todo>>
        /\ place' = [place EXCEPT ![Root] = "copy"] \/ place' = [place EXCEPT ![Root] = "done"]
    BY <1>6 DEF wait, copy, Is, Goto, locals
  <2>2. place' \in [Workers -> ProcessPlaces]
    BY <1>0, <1>3, <2>1 DEF ProcessPlaces
  <2> QED
    BY <1>0, <1>3, <1>4, <2>1, <2>2 DEF PlacesOK
<1>7. ASSUME NEW w \in Workers, singleProcessMergeSort(w)
      PROVE  CountInv'
  <2>1. /\ version = "processes" /\ UNCHANGED <<version, thread_num, f, id>> /\ DOMAIN todo' = DOMAIN todo
        /\ \/ place' = [place EXCEPT ![w] = "wait"] \/ place' = [place EXCEPT ![w] = "exit"]
           \/ place' = place
    BY <1>7 DEF singleProcessMergeSort, Goto, Step
  <2>2. place' \in [Workers -> ProcessPlaces]
    BY <1>0, <2>1 DEF ProcessPlaces
  <2> QED
    BY <1>0, <1>4, <2>1, <2>2 DEF PlacesOK
<1>8. ASSUME NEW w \in Workers, NEW to \in ThreadPlaces, place[w] # "none", version = "threads",
             Goto(w, to), to \notin {"none", "idx1", "idx2"},
             to = "create1" => place[w] = "idx1", to = "create2" => place[w] = "idx2",
             w = Root => to # "sort" /\ ((place[w] \in Early) <=> (to \in Early)),
             UNCHANGED <<version, thread_num, id, f>>, DOMAIN todo' = Workers
      PROVE  CountInv'
  <2>1. to \in IF version = "processes" THEN ProcessPlaces ELSE ThreadPlaces
    BY <1>8
  <2>2. place' = [place EXCEPT ![w] = to]
    BY <1>8 DEF Goto
  <2> QED
    BY <1>8, <2>1, <2>2, CountFrame
<1>9. DOMAIN todo = Workers
  BY <1>0 DEF PlacesOK
<1>10. ASSUME NEW w \in Workers, singleThreadedMergeSort(w)
       PROVE  CountInv'
  <2>1. /\ version = "threads" /\ place[w] = "sort" /\ UNCHANGED <<version, thread_num, f, id>>
        /\ DOMAIN todo' = DOMAIN todo
        /\ place' = [place EXCEPT ![w] = "done"] \/ place' = place
    BY <1>10 DEF singleThreadedMergeSort, Is, Goto, Step
  <2>2. CASE place' = place
    BY <1>0, <1>9, <2>1, <2>2 DEF CountInv, PlacesOK, Counting
  <2>3. CASE place' = [place EXCEPT ![w] = "done"]
    <3>1. w # Root
      BY <1>0, <2>1 DEF Counting
    <3>2. "done" \in ThreadPlaces
      BY DEF ThreadPlaces
    <3> QED
      BY <1>8, <1>9, <2>1, <2>3, <3>1, <3>2 DEF Goto
  <2> QED
    BY <2>1, <2>2, <2>3
<1>11. ASSUME NEW w \in Workers, which(w)
       PROVE  CountInv'
  <2>1. /\ place[w] = "which" /\ f' = [f EXCEPT ![w] = thread_num <= 1]
        /\ place' = [place EXCEPT ![w] = "id1"]
        /\ UNCHANGED <<version, thread_num, todo, id>>
    BY <1>11 DEF which, Is, Goto
  <2>2. version = "threads"
    BY <1>2, <2>1
  <2>3. thread_num <= 1 => Len(w) <= 1
    <3>1. Len(w) >= 2 => thread_num >= 2
      BY <1>0, <2>1, <2>2 DEF Counting
    <3>2. Len(w) \in 0..3
      OBVIOUS
    <3> QED
      BY <1>0, <3>1, <3>2
  <2>4. \A v \in Workers : f'[v] => Len(v) <= 1
    <3>1. \A v \in Workers : f'[v] = IF v = w THEN thread_num <= 1 ELSE f[v]
      BY <1>0, <2>1 DEF PlacesOK
    <3>2. \A v \in Workers : f[v] => Len(v) <= 1
      BY <1>0, <2>2 DEF Counting
    <3> QED
      BY <2>3, <3>1, <3>2
  <2>5. PlacesOK'
    <3>1. place' \in [Workers -> ThreadPlaces]
      BY <1>0, <1>2, <2>1 DEF ThreadPlaces
    <3>2. f' \in [Workers -> BOOLEAN]
      <4>1. (thread_num <= 1) \in BOOLEAN
        OBVIOUS
      <4> QED
        BY <1>0, <2>1, <4>1 DEF PlacesOK
    <3> QED
      BY <1>0, <1>2, <2>1, <3>1, <3>2 DEF PlacesOK
  <2>6. \A v \in Workers : place'[v] = IF v = w THEN "id1" ELSE place[v]
    BY <1>0, <2>1
  <2>7. \A v \in Workers : /\ (place'[v] # "none") <=> (place[v] # "none")
                           /\ (place'[v] \in Early) <=> (place[v] \in Early)
                           /\ place'[v] \in {"idx1", "create1", "idx2", "create2", "sort"} => place'[v] = place[v]
    BY <2>1, <2>6 DEF Early
  <2> QED
    BY <1>0, <2>1, <2>2, <2>4, <2>5, <2>7 DEF CountInv, Counting
<1>12. ASSUME NEW w \in Workers, read(w)
       PROVE  CountInv'
  <2>1. /\ UNCHANGED <<version, thread_num, todo, f>>
        /\ \/ place[w] = "id1" /\ Goto(w, "idx1") /\ id' = [id EXCEPT ![w] = thread_num]
           \/ place[w] = "id2" /\ Goto(w, "idx2") /\ id' = [id EXCEPT ![w] = thread_num]
           \/ place[w] = "idx1" /\ Goto(w, "create1") /\ id' = id
           \/ place[w] = "idx2" /\ Goto(w, "create2") /\ id' = id
    BY <1>12 DEF read, Is, locals
  <2>2. version = "threads"
    BY <1>2, <2>1
  <2>3. ASSUME NEW to \in {"create1", "create2"}, Goto(w, to), id' = id,
               to = "create1" => place[w] = "idx1", to = "create2" => place[w] = "idx2",
               place[w] \in {"idx1", "idx2"}
        PROVE  CountInv'
    <3>1. to \in ThreadPlaces /\ ((place[w] \in Early) <=> (to \in Early))
      BY <2>3 DEF ThreadPlaces, Early
    <3> QED
      BY <1>8, <1>9, <2>1, <2>2, <2>3, <3>1
  <2>4. ASSUME NEW to \in {"idx1", "idx2"}, Goto(w, to), id' = [id EXCEPT ![w] = thread_num],
               to = "idx1" => place[w] = "id1", to = "idx2" => place[w] = "id2",
               place[w] \in {"id1", "id2"}
        PROVE  CountInv'
    <3>1. PlacesOK'
      <4>1. place' \in [Workers -> ThreadPlaces]
        BY <1>0, <1>2, <2>1, <2>4 DEF Goto, ThreadPlaces
      <4>2. id' \in [Workers -> Nat]
        BY <1>0, <2>4 DEF PlacesOK
      <4> QED
        BY <1>0, <1>2, <2>1, <2>2, <4>1, <4>2 DEF PlacesOK
    <3>2. \A v \in Workers : /\ place'[v] = IF v = w THEN to ELSE place[v]
                             /\ id'[v] = IF v = w THEN thread_num ELSE id[v]
      BY <1>0, <2>4 DEF PlacesOK, Goto
    <3>3. w # Root => thread_num >= 1
      BY <1>0, <2>2, <2>4 DEF Counting
    <3>4. to = "idx2" => thread_num >= 1
      <4>1. w = Root /\ to = "idx2" => place[Root] \notin Early
        BY <2>4 DEF Early
      <4> QED
        BY <1>0, <2>2, <3>3, <4>1 DEF Counting
    <3>5. /\ \A v \in Workers : place'[v] \in {"idx1", "create1"} /\ v # Root => id'[v] >= 1
          /\ \A v \in Workers : place'[v] \in {"idx2", "create2"} => id'[v] >= 1
      BY <1>0, <2>2, <3>2, <3>3, <3>4 DEF Counting
    <3>6. \A v \in Workers : /\ (place'[v] # "none") <=> (place[v] # "none")
                             /\ (place'[v] \in Early) <=> (place[v] \in Early)
                             /\ place'[v] = "sort" => place[v] = "sort"
      BY <2>4, <3>2 DEF Early
    <3> QED
      BY <1>0, <2>1, <2>2, <3>1, <3>5, <3>6 DEF CountInv, Counting
  <2> QED
    BY <2>1, <2>3, <2>4
<1>13. ASSUME NEW w \in Workers, NEW n \in {1, 2}, NEW from, NEW to,
              <<from, to>> \in {<<"join1", "join2">>, <<"join2", "merge">>}, join(w, n, from, to)
       PROVE  CountInv'
  <2>1. place[w] = from /\ Goto(w, to) /\ UNCHANGED <<version, thread_num, id, f, todo>>
    BY <1>13 DEF join, Is, locals
  <2>2. from \in {"join1", "join2"} /\ to \in {"join2", "merge"}
    BY <1>13
  <2>3. to \in ThreadPlaces /\ ((from \in Early) <=> (to \in Early))
    BY <2>2 DEF ThreadPlaces, Early
  <2> QED
    BY <1>2, <1>8, <1>9, <2>1, <2>2, <2>3
<1>14. ASSUME NEW w \in Workers, merge(w)
       PROVE  CountInv'
  <2>1. place[w] = "merge" /\ Goto(w, "done") /\ UNCHANGED <<version, thread_num, id, f, todo>>
    BY <1>14 DEF merge, Is, locals
  <2>2. "done" \in ThreadPlaces /\ (("merge" \in Early) <=> ("done" \in Early))
    BY DEF ThreadPlaces, Early
  <2> QED
    BY <1>2, <1>8, <1>9, <2>1, <2>2
<1>15. ASSUME NEW w \in Workers, multiThreadedMergeSort(w)
       PROVE  CountInv'
  <2>1. CASE create(w, 1, "create1", "id2") \/ create(w, 2, "create2", "join1")
    BY <2>1, CreateCount
  <2>2. CASE join(w, 1, "join1", "join2") \/ join(w, 2, "join2", "merge")
    BY <1>13, <2>2
  <2> QED
    BY <1>11, <1>12, <1>14, <1>15, <2>1, <2>2 DEF multiThreadedMergeSort
<1> QED
  BY <1>1, <1>5, <1>6, <1>7, <1>10, <1>15 DEF SortNext

LEMMA CountInvariant == SortSpec => []CountInv
BY CountInit, CountStep, PTL DEF SortSpec

\* Whoever creates threads that create threads is the first thread or one that it
\* created, for any size of the array and of thread_id[], in every order in which
\* the threads read and store their count: a thread's thread reads at least 2.
THEOREM CreationEnds == SortSpec => []RecursionEnds
<1>1. CountInv => RecursionEnds
  <2> SUFFICES ASSUME CountInv, NEW w \in Workers, f[w]
               PROVE  Len(w) <= 1
    BY DEF RecursionEnds
  <2>1. version \in {"processes", "threads"}
    BY SortAssumption DEF CountInv, PlacesOK
  <2> QED
    BY <2>1 DEF CountInv, PlacesOK, Counting
<1> QED
  BY <1>1, CountInvariant, PTL

----------------------------------------------------------------------------
(* What merge() and the single-threaded sorts make of an array.  Induction  *)
(* is over sets of numbers: a set that has 0, and the next of each number   *)
(* in it, has them all.                                                     *)

LEMMA Induct ==
  ASSUME NEW S \in SUBSET Nat, 0 \in S, \A n \in S : n + 1 \in S
  PROVE  \A n \in Nat : n \in S
<1> DEFINE Bad == Nat \ S
<1> SUFFICES ASSUME Bad # {}
             PROVE  FALSE
  OBVIOUS
<1>1. PICK i \in Bad : \A k \in Bad : <<k, i>> \notin OpToRel(<, Nat)
  BY NatLessThanWellFounded, WFMin
<1>2. i \in Nat /\ i \notin S /\ i # 0 /\ \A k \in Bad : ~(k < i)
  BY <1>1 DEF OpToRel
<1>3. i - 1 \in Nat /\ i - 1 < i /\ i - 1 + 1 = i
  BY <1>2
<1>4. i - 1 \in S
  BY <1>2, <1>3
<1> QED
  BY <1>2, <1>3, <1>4

Indices == 0..(size - 1)
Arrays == [Indices -> Int]

\* Bounds that merge() is called with.
Bounds(l, m, r) == l \in Int /\ m \in Int /\ r \in Int /\ 0 <= l /\ l <= m + 1 /\ m <= r /\ r < size

Following(a, m, r, c) == IF TakesLeft(a, m, r, c) THEN <<c[1] + 1, c[2]>> ELSE <<c[1], c[2] + 1>>

LEMMA CursorsStep ==
  ASSUME NEW a, NEW l \in Int, NEW m, NEW r \in Int, l <= r
  PROVE  LET c == Cursors(a, l, m, r)
         IN /\ c[l] = <<l, m + 1>>
            /\ \A k \in (l + 1)..r : c[k] = Following(a, m, r, c[k - 1])
<1> DEFINE R(g, d) == g = [k \in l..(l + d) |-> IF k = l THEN <<l, m + 1>> ELSE Following(a, m, r, g[k - 1])]
           Good == {d \in Nat : \E g : R(g, d)}
<1>1. 0 \in Good
  <2> DEFINE g == [k \in l..(l + 0) |-> <<l, m + 1>>]
  <2>1. R(g, 0)
    OBVIOUS
  <2> QED
    BY <2>1
<1>2. ASSUME NEW d \in Good
      PROVE  d + 1 \in Good
  <2>1. PICK g : R(g, d)
    OBVIOUS
  <2> DEFINE h == [k \in l..(l + (d + 1)) |-> IF k <= l + d THEN g[k] ELSE Following(a, m, r, g[l + d])]
  <2>2. ASSUME NEW k \in l..(l + (d + 1))
        PROVE  h[k] = IF k = l THEN <<l, m + 1>> ELSE Following(a, m, r, h[k - 1])
    <3>1. CASE k = l
      <4>1. l \in l..(l + (d + 1)) /\ l <= l + d /\ l \in l..(l + d)
        OBVIOUS
      <4>2. h[l] = g[l] /\ g[l] = <<l, m + 1>>
        BY <2>1, <4>1
      <4> QED
        BY <3>1, <4>2
    <3>2. CASE k \in (l + 1)..(l + d)
      <4>1. k \in l..(l + d) /\ k - 1 \in l..(l + (d + 1)) /\ k - 1 <= l + d /\ k <= l + d /\ k # l
        BY <3>2
      <4>2. h[k] = g[k] /\ h[k - 1] = g[k - 1]
        BY <4>1
      <4>3. g[k] = Following(a, m, r, g[k - 1])
        BY <2>1, <4>1
      <4> QED
        BY <4>1, <4>2, <4>3
    <3>3. CASE k = l + (d + 1)
      <4>1. l + d \in l..(l + (d + 1)) /\ ~(k <= l + d) /\ k - 1 = l + d /\ l + d <= l + d /\ k # l
        BY <3>3
      <4>2. h[k] = Following(a, m, r, g[l + d]) /\ h[l + d] = g[l + d]
        BY <4>1
      <4> QED
        BY <4>1, <4>2
    <3>4. k = l \/ k \in (l + 1)..(l + d) \/ k = l + (d + 1)
      OBVIOUS
    <3> QED
      BY <3>1, <3>2, <3>3, <3>4
  <2>3. R(h, d + 1)
    BY <2>2
  <2> HIDE DEF h
  <2>4. \E x : R(x, d + 1)
    BY <2>3
  <2>5. d + 1 \in Nat
    OBVIOUS
  <2> QED
    BY <2>4, <2>5
<1>3. \E g : g = [k \in l..r |-> IF k = l THEN <<l, m + 1>> ELSE Following(a, m, r, g[k - 1])]
  <2>1. r - l \in Nat /\ l + (r - l) = r
    OBVIOUS
  <2>2. Good \in SUBSET Nat
    OBVIOUS
  <2>3. r - l \in Good
    <3> HIDE DEF Good
    <3> QED
      BY <1>1, <1>2, <2>1, <2>2, Induct
  <2> QED
    BY <2>1, <2>3
<1> DEFINE c == Cursors(a, l, m, r)
<1>4. c = [k \in l..r |-> IF k = l THEN <<l, m + 1>> ELSE Following(a, m, r, c[k - 1])]
  <2>1. c = CHOOSE g : g = [k \in l..r |-> IF k = l THEN <<l, m + 1>> ELSE Following(a, m, r, g[k - 1])]
    BY DEF Cursors, Following
  <2> QED
    BY <1>3, <2>1
<1>5. l \in l..r /\ \A k \in (l + 1)..r : k \in l..r /\ k # l
  OBVIOUS
<1> HIDE DEF c
<1>6. c[l] = <<l, m + 1>> /\ \A k \in (l + 1)..r : c[k] = Following(a, m, r, c[k - 1])
  BY <1>4, <1>5
<1> QED
  BY <1>6 DEF c

\* The cursors are in the halves, or just beyond them, and move with what is filled.
CursorOK(l, m, r, k, c) ==
  /\ c = <<c[1], c[2]>> /\ c[1] \in l..(m + 1) /\ c[2] \in (m + 1)..(r + 1)
  /\ c[1] + c[2] = k + m + 1

LEMMA CursorMoves ==
  ASSUME NEW a, NEW l, NEW m, NEW r, Bounds(l, m, r),
         NEW k \in l..r, NEW c, CursorOK(l, m, r, k, c)
  PROVE  /\ CursorOK(l, m, r, k + 1, Following(a, m, r, c))
         /\ IF TakesLeft(a, m, r, c)
              THEN c[1] \in l..m /\ Following(a, m, r, c) = <<c[1] + 1, c[2]>>
              ELSE c[2] \in (m + 1)..r /\ Following(a, m, r, c) = <<c[1], c[2] + 1>>
<1> DEFINE i == c[1]
           j == c[2]
<1>1. /\ i \in l..(m + 1) /\ j \in (m + 1)..(r + 1) /\ i + j = k + m + 1
      /\ l \in Int /\ m \in Int /\ r \in Int /\ k \in l..r
  BY DEF CursorOK, Bounds
<1>2. CASE TakesLeft(a, m, r, c)
  <2>1. i <= m
    BY <1>2 DEF TakesLeft
  <2>2. Following(a, m, r, c) = <<i + 1, j>>
    BY <1>2 DEF Following
  <2> HIDE DEF i, j
  <2>3. i \in l..m /\ i + 1 \in l..(m + 1) /\ i + 1 + j = k + 1 + m + 1
    BY <1>1, <2>1
  <2> QED
    BY <1>1, <1>2, <2>2, <2>3 DEF CursorOK, i, j
<1>3. CASE ~TakesLeft(a, m, r, c)
  <2>1. ~(i <= m) \/ ~(j > r)
    BY <1>3 DEF TakesLeft
  <2>2. Following(a, m, r, c) = <<i, j + 1>>
    BY <1>3 DEF Following
  <2> HIDE DEF i, j
  <2>3. j \in (m + 1)..r /\ j + 1 \in (m + 1)..(r + 1) /\ i + (j + 1) = k + 1 + m + 1
    BY <1>1, <2>1
  <2> QED
    BY <1>1, <1>3, <2>2, <2>3 DEF CursorOK, i, j
<1> QED
  BY <1>2, <1>3

LEMMA CursorsOK ==
  ASSUME NEW a, NEW l, NEW m, NEW r, Bounds(l, m, r)
  PROVE  \A k \in l..r : CursorOK(l, m, r, k, Cursors(a, l, m, r)[k])
<1> DEFINE c == Cursors(a, l, m, r)
           Good == {d \in Nat : l + d <= r => CursorOK(l, m, r, l + d, c[l + d])}
<1> SUFFICES ASSUME l <= r
             PROVE  \A k \in l..r : CursorOK(l, m, r, k, c[k])
  BY DEF Bounds
<1>1. l \in Int /\ m \in Int /\ r \in Int /\ l <= m + 1 /\ m <= r
  BY DEF Bounds
<1>2. c[l] = <<l, m + 1>> /\ \A k \in (l + 1)..r : c[k] = Following(a, m, r, c[k - 1])
  BY <1>1, CursorsStep
<1> HIDE DEF c
<1>3. 0 \in Good
  <2>1. l + 0 = l /\ l \in l..(m + 1) /\ m + 1 \in (m + 1)..(r + 1) /\ l + (m + 1) = l + m + 1
    BY <1>1
  <2>2. CursorOK(l, m, r, l, c[l])
    BY <1>2, <2>1 DEF CursorOK
  <2> QED
    BY <2>1, <2>2
<1>4. ASSUME NEW d \in Good
      PROVE  d + 1 \in Good
  <2> SUFFICES ASSUME l + (d + 1) <= r
               PROVE  CursorOK(l, m, r, l + (d + 1), c[l + (d + 1)])
    OBVIOUS
  <2>1. d \in Nat /\ l + d <= r /\ l + d \in l..r /\ l + (d + 1) \in (l + 1)..r
        /\ l + (d + 1) - 1 = l + d /\ l + d + 1 = l + (d + 1)
    BY <1>1
  <2>2. CursorOK(l, m, r, l + d, c[l + d])
    BY <2>1
  <2>3. c[l + (d + 1)] = Following(a, m, r, c[l + d])
    BY <1>2, <2>1
  <2>4. CursorOK(l, m, r, l + d + 1, Following(a, m, r, c[l + d]))
    BY <2>1, <2>2, CursorMoves
  <2> QED
    BY <2>1, <2>3, <2>4
<1>5. ASSUME NEW k \in l..r
      PROVE  CursorOK(l, m, r, k, c[k])
  <2>1. Good \in SUBSET Nat
    OBVIOUS
  <2>2. k - l \in Nat /\ l + (k - l) = k /\ k <= r
    BY <1>1
  <2>3. k - l \in Good
    <3> HIDE DEF Good
    <3> QED
      BY <1>3, <1>4, <2>1, <2>2, Induct
  <2> QED
    BY <2>2, <2>3
<1> QED
  BY <1>5

\* Of cursors, each goes forwards only.
LEMMA CursorsForwards ==
  ASSUME NEW a, NEW l, NEW m, NEW r, Bounds(l, m, r), NEW k \in l..r, NEW n \in k..r
  PROVE  LET c == Cursors(a, l, m, r) IN c[k][1] <= c[n][1] /\ c[k][2] <= c[n][2]
<1> DEFINE c == Cursors(a, l, m, r)
           Good == {d \in Nat : k + d <= r => c[k][1] <= c[k + d][1] /\ c[k][2] <= c[k + d][2]}
<1>1. l \in Int /\ m \in Int /\ r \in Int /\ k \in Int /\ l <= k /\ k <= r /\ l <= r
  BY DEF Bounds
<1>2. \A i \in (l + 1)..r : c[i] = Following(a, m, r, c[i - 1])
  BY <1>1, CursorsStep
<1>3. \A i \in l..r : CursorOK(l, m, r, i, c[i]) /\ c[i][1] \in Int /\ c[i][2] \in Int
  <2>1. \A i \in l..r : CursorOK(l, m, r, i, c[i])
    BY CursorsOK
  <2> QED
    BY <1>1, <2>1 DEF CursorOK
<1> HIDE DEF c
<1>4. 0 \in Good
  <2>1. k + 0 = k /\ k \in l..r
    BY <1>1
  <2> QED
    BY <1>3, <2>1
<1>5. ASSUME NEW d \in Good
      PROVE  d + 1 \in Good
  <2> SUFFICES ASSUME k + (d + 1) <= r
               PROVE  c[k][1] <= c[k + (d + 1)][1] /\ c[k][2] <= c[k + (d + 1)][2]
    OBVIOUS
  <2> DEFINE i == k + d
  <2>1. d \in Nat /\ i <= r /\ i \in l..r /\ i + 1 \in (l + 1)..r /\ i + 1 \in l..r
        /\ i + 1 - 1 = i /\ i + 1 = k + (d + 1)
    BY <1>1
  <2>2. c[k][1] <= c[i][1] /\ c[k][2] <= c[i][2]
    BY <2>1
  <2> HIDE DEF i
  <2>3. c[i + 1] = Following(a, m, r, c[i])
    BY <1>2, <2>1
  <2>4. c[i + 1] = <<c[i][1] + 1, c[i][2]>> \/ c[i + 1] = <<c[i][1], c[i][2] + 1>>
    BY <2>3 DEF Following
  <2>5. c[i][1] <= c[i + 1][1] /\ c[i][2] <= c[i + 1][2]
    <3>1. c[i][1] \in Int /\ c[i][2] \in Int
      BY <1>3, <2>1
    <3> QED
      BY <2>4, <3>1
  <2>6. /\ c[k][1] \in Int /\ c[k][2] \in Int /\ c[i][1] \in Int /\ c[i][2] \in Int
        /\ c[i + 1][1] \in Int /\ c[i + 1][2] \in Int
    BY <1>1, <1>3, <2>1
  <2>7. c[k][1] <= c[i + 1][1] /\ c[k][2] <= c[i + 1][2]
    BY <2>2, <2>5, <2>6
  <2> QED
    BY <2>1, <2>7
<1>6. n - k \in Nat /\ k + (n - k) = n /\ n <= r
  BY <1>1
<1>7. Good \in SUBSET Nat
  OBVIOUS
<1>8. n - k \in Good
  <2> HIDE DEF Good
  <2> QED
    BY <1>4, <1>5, <1>6, <1>7, Induct
<1>9. c[k][1] <= c[n][1] /\ c[k][2] <= c[n][2]
  BY <1>6, <1>8
<1> QED
  BY <1>9 DEF c

\* No element is taken twice.
LEMMA TakenOnce ==
  ASSUME NEW a, NEW l, NEW m, NEW r, Bounds(l, m, r)
  PROVE  LET c == Cursors(a, l, m, r)
         IN /\ \A k \in l..r : Takes(a, m, r, c[k]) \in l..r
            /\ \A k, n \in l..r : k < n => Takes(a, m, r, c[k]) # Takes(a, m, r, c[n])
<1> DEFINE c == Cursors(a, l, m, r)
           T(k) == Takes(a, m, r, c[k])
<1>1. l \in Int /\ m \in Int /\ r \in Int /\ l <= m + 1 /\ m <= r
  BY DEF Bounds
<1>2. ASSUME NEW k \in l..r
      PROVE  /\ CursorOK(l, m, r, k, c[k])
             /\ c[k][1] \in Int /\ c[k][2] \in Int /\ c[k][1] >= l /\ c[k][2] >= m + 1
             /\ IF TakesLeft(a, m, r, c[k])
                  THEN T(k) = c[k][1] /\ c[k][1] \in l..m
                  ELSE T(k) = c[k][2] /\ c[k][2] \in (m + 1)..r
  <2>1. CursorOK(l, m, r, k, c[k])
    BY CursorsOK
  <2> HIDE DEF c
  <2>2. c[k][1] \in Int /\ c[k][2] \in Int /\ c[k][1] >= l /\ c[k][2] >= m + 1
    BY <1>1, <2>1 DEF CursorOK
  <2>3. IF TakesLeft(a, m, r, c[k]) THEN c[k][1] \in l..m ELSE c[k][2] \in (m + 1)..r
    BY <2>1, CursorMoves
  <2> QED
    BY <2>1, <2>2, <2>3 DEF Takes
<1>3. ASSUME NEW k \in l..r
      PROVE  T(k) \in l..r
  <2> HIDE DEF c
  <2>1. T(k) \in l..m \/ T(k) \in (m + 1)..r
    BY <1>2
  <2> HIDE DEF T
  <2> QED
    BY <1>1, <2>1
<1>4. ASSUME NEW k \in l..r, NEW n \in l..r, k < n
      PROVE  T(k) # T(n)
  <2>1. k \in Int /\ n \in Int /\ l <= k /\ n <= r /\ l <= r
    BY <1>1
  <2>2. k + 1 \in (l + 1)..r /\ k + 1 \in l..r /\ n \in (k + 1)..r /\ k + 1 - 1 = k
    BY <1>1, <1>4, <2>1
  <2>3. c[k + 1] = Following(a, m, r, c[k])
    <3>1. c[k + 1] = Following(a, m, r, c[k + 1 - 1])
      BY <1>1, <2>1, <2>2, CursorsStep
    <3> QED
      BY <2>2, <3>1
  <2>4. c[k + 1][1] <= c[n][1] /\ c[k + 1][2] <= c[n][2]
    BY <2>2, CursorsForwards
  <2> HIDE DEF c
  <2>5. /\ c[k][1] \in Int /\ c[k][2] \in Int /\ c[n][1] \in Int /\ c[n][2] \in Int
        /\ c[n][2] >= m + 1
    BY <1>2
  <2>6. T(n) = c[n][1] \/ T(n) = c[n][2]
    BY <1>2
  <2>7. CASE TakesLeft(a, m, r, c[k])
    <3>1. T(k) = c[k][1] /\ c[k][1] \in l..m /\ c[k + 1][1] = c[k][1] + 1
      BY <1>2, <2>3, <2>7 DEF Following
    <3> HIDE DEF T
    <3> QED
      BY <1>1, <2>4, <2>5, <2>6, <3>1
  <2>8. CASE ~TakesLeft(a, m, r, c[k])
    <3>1. T(k) = c[k][2] /\ c[k][2] \in (m + 1)..r /\ c[k + 1][2] = c[k][2] + 1
      BY <1>2, <2>3, <2>8 DEF Following
    <3>2. T(n) = c[n][2] \/ T(n) \in l..m
      BY <1>2
    <3> HIDE DEF T
    <3> QED
      BY <1>1, <2>4, <2>5, <3>1, <3>2
  <2> QED
    BY <2>7, <2>8
<1> QED
  BY <1>3, <1>4 DEF c

\* a is sorted from l to r.
SortedOn(a, l, r) == \A k \in (l + 1)..r : a[k - 1] <= a[k]

\* b has the elements of a, in another order.
Reordered(b, a) ==
  \E g \in [Indices -> Indices] :
    /\ \A k \in Indices, n \in Indices : g[k] = g[n] => k = n
    /\ \A k \in Indices : b[k] = a[g[k]]

\* merge() touches nothing but the part that it is given, and loses nothing there.
LEMMA MergeReorders ==
  ASSUME NEW a \in Arrays, NEW l, NEW m, NEW r, Bounds(l, m, r)
  PROVE  LET b == Merge(a, l, m, r)
         IN /\ b \in Arrays /\ Reordered(b, a)
            /\ \A k \in Indices : k \notin l..r => b[k] = a[k]
<1> DEFINE c == Cursors(a, l, m, r)
           b == Merge(a, l, m, r)
           g == [k \in Indices |-> IF k \in l..r THEN Takes(a, m, r, c[k]) ELSE k]
<1>1. size \in Nat /\ l \in Int /\ r \in Int /\ 0 <= l /\ r < size
  BY SortAssumption DEF Bounds
<1>2. \A k \in l..r : k \in Indices
  BY <1>1 DEF Indices
<1>3. /\ \A k \in l..r : Takes(a, m, r, c[k]) \in l..r
      /\ \A k, n \in l..r : k < n => Takes(a, m, r, c[k]) # Takes(a, m, r, c[n])
  BY TakenOnce
<1>4. DOMAIN a = Indices
  BY DEF Arrays
<1>5. b = [k \in Indices |-> IF k \in l..r THEN a[Takes(a, m, r, c[k])] ELSE a[k]]
  BY <1>4 DEF Merge
<1> HIDE DEF b, c
<1>6. g \in [Indices -> Indices]
  BY <1>2, <1>3
<1>7. \A k \in Indices : b[k] = a[g[k]]
  BY <1>5
<1>8. b \in Arrays
  <2>1. \A k \in Indices : b[k] \in Int
    <3> HIDE DEF g
    <3> QED
      BY <1>6, <1>7 DEF Arrays
  <2>2. b \in [Indices -> Int]
    BY <1>5, <2>1
  <2> QED
    BY <2>2 DEF Arrays
<1>9. ASSUME NEW k \in Indices, NEW n \in Indices, g[k] = g[n]
      PROVE  k = n
  <2>1. k \in Int /\ n \in Int
    BY DEF Indices
  <2>2. CASE k \in l..r /\ n \in l..r
    <3>1. Takes(a, m, r, c[k]) = Takes(a, m, r, c[n])
      BY <1>9, <2>2
    <3>2. ~(k < n) /\ ~(n < k)
      BY <1>3, <2>2, <3>1
    <3> QED
      BY <2>1, <3>2
  <2>3. CASE ~(k \in l..r) \/ ~(n \in l..r)
    BY <1>3, <1>9, <2>3
  <2> QED
    BY <2>2, <2>3
<1>10. \A k \in Indices : k \notin l..r => b[k] = a[k]
  BY <1>5
<1>11. Reordered(b, a)
  <2> HIDE DEF g
  <2> QED
    BY <1>6, <1>7, <1>9 DEF Reordered
<1> QED
  BY <1>8, <1>10, <1>11 DEF b

\* It makes one sorted part of two.
LEMMA MergeSorts ==
  ASSUME NEW a \in Arrays, NEW l, NEW m, NEW r, Bounds(l, m, r),
         SortedOn(a, l, m), SortedOn(a, m + 1, r)
  PROVE  SortedOn(Merge(a, l, m, r), l, r)
<1> DEFINE c == Cursors(a, l, m, r)
           b == Merge(a, l, m, r)
<1> SUFFICES ASSUME NEW k \in (l + 1)..r
             PROVE  b[k - 1] <= b[k]
  BY DEF SortedOn
<1>1. size \in Nat /\ l \in Int /\ m \in Int /\ r \in Int /\ 0 <= l /\ l <= m + 1 /\ m <= r /\ r < size
  BY SortAssumption DEF Bounds
<1>2. k - 1 \in l..r /\ k \in l..r /\ k - 1 \in Indices /\ k \in Indices /\ l <= r
  BY <1>1 DEF Indices
<1>3. DOMAIN a = Indices /\ \A i \in l..r : a[i] \in Int
  BY <1>1 DEF Arrays, Indices
<1>4. b = [i \in Indices |-> IF i \in l..r THEN a[Takes(a, m, r, c[i])] ELSE a[i]]
  BY <1>3 DEF Merge
<1>5. c[k] = Following(a, m, r, c[k - 1])
  <2>1. \A n \in (l + 1)..r : c[n] = Following(a, m, r, c[n - 1])
    BY <1>1, <1>2, CursorsStep
  <2> HIDE DEF c
  <2> QED
    BY <2>1
<1>6. CursorOK(l, m, r, k - 1, c[k - 1]) /\ CursorOK(l, m, r, k, c[k])
  BY <1>2, CursorsOK
<1> HIDE DEF b, c
<1>7. b[k - 1] = a[Takes(a, m, r, c[k - 1])] /\ b[k] = a[Takes(a, m, r, c[k])]
  BY <1>2, <1>4
<1> DEFINE i == c[k - 1][1]
           j == c[k - 1][2]
<1>8. i \in l..(m + 1) /\ j \in (m + 1)..(r + 1) /\ i \in Int /\ j \in Int
  BY <1>1, <1>6 DEF CursorOK
<1>9. IF TakesLeft(a, m, r, c[k]) THEN c[k][1] \in l..m ELSE c[k][2] \in (m + 1)..r
  BY <1>2, <1>6, CursorMoves
<1>10. IF TakesLeft(a, m, r, c[k - 1])
         THEN i \in l..m /\ Following(a, m, r, c[k - 1]) = <<i + 1, j>>
         ELSE j \in (m + 1)..r /\ Following(a, m, r, c[k - 1]) = <<i, j + 1>>
  BY <1>2, <1>6, CursorMoves
<1>11. /\ \A x \in (l + 1)..m : a[x - 1] <= a[x]
       /\ \A x \in (m + 1 + 1)..r : a[x - 1] <= a[x]
  BY DEF SortedOn
<1>12. \A x \in l..(m - 1) : a[x] <= a[x + 1]
  <2> TAKE x \in l..(m - 1)
  <2>1. x + 1 \in (l + 1)..m /\ x + 1 - 1 = x
    BY <1>1
  <2>2. a[x + 1 - 1] <= a[x + 1]
    BY <1>11, <2>1
  <2> QED
    BY <2>1, <2>2
<1>13. \A x \in (m + 1)..(r - 1) : a[x] <= a[x + 1]
  <2> TAKE x \in (m + 1)..(r - 1)
  <2>1. x + 1 \in (m + 1 + 1)..r /\ x + 1 - 1 = x
    BY <1>1
  <2>2. a[x + 1 - 1] <= a[x + 1]
    BY <1>11, <2>1
  <2> QED
    BY <2>1, <2>2
<1>14. CASE TakesLeft(a, m, r, c[k - 1])
  <2>1. i \in l..m /\ c[k] = <<i + 1, j>>
    BY <1>5, <1>14, <1>10
  <2>2. b[k - 1] = a[i]
    BY <1>7, <1>14 DEF Takes
  <2>3. CASE TakesLeft(a, m, r, c[k])
    <3>1. b[k] = a[i + 1] /\ i + 1 \in l..m
      BY <1>7, <1>9, <2>1, <2>3 DEF Takes
    <3> HIDE DEF i
    <3>2. i \in l..(m - 1)
      BY <1>1, <1>8, <2>1, <3>1
    <3> QED
      BY <1>12, <2>2, <3>1, <3>2
  <2>4. CASE ~TakesLeft(a, m, r, c[k])
    <3>1. b[k] = a[j] /\ j \in (m + 1)..r
      BY <1>7, <1>9, <2>1, <2>4 DEF Takes
    <3>2. j > r \/ a[i] <= a[j]
      BY <1>14 DEF TakesLeft
    <3> HIDE DEF i, j
    <3> QED
      BY <1>1, <2>2, <3>1, <3>2
  <2> QED
    BY <2>3, <2>4
<1>15. CASE ~TakesLeft(a, m, r, c[k - 1])
  <2>1. j \in (m + 1)..r /\ c[k] = <<i, j + 1>>
    BY <1>5, <1>15, <1>10
  <2>2. b[k - 1] = a[j]
    BY <1>7, <1>15 DEF Takes
  <2>3. CASE TakesLeft(a, m, r, c[k])
    <3>1. b[k] = a[i] /\ i \in l..m
      BY <1>7, <1>9, <2>1, <2>3 DEF Takes
    <3>2. ~(i <= m) \/ ~(a[i] <= a[j])
      BY <1>15 DEF TakesLeft
    <3> HIDE DEF i, j
    <3>3. i <= m /\ i \in l..r /\ j \in l..r
      BY <1>1, <1>8, <2>1, <3>1
    <3>4. a[i] \in Int /\ a[j] \in Int
      BY <1>3, <3>3
    <3> QED
      BY <2>2, <3>1, <3>2, <3>3, <3>4
  <2>4. CASE ~TakesLeft(a, m, r, c[k])
    <3>1. b[k] = a[j + 1] /\ j + 1 \in (m + 1)..r
      BY <1>7, <1>9, <2>1, <2>4 DEF Takes
    <3> HIDE DEF j
    <3>2. j \in (m + 1)..(r - 1)
      BY <1>1, <1>8, <2>1, <3>1
    <3> QED
      BY <1>13, <2>2, <3>1, <3>2
  <2> QED
    BY <2>3, <2>4
<1>16. b[k - 1] <= b[k]
  BY <1>14, <1>15
<1> QED
  BY <1>16

LEMMA ReorderedSame ==
  ASSUME NEW a
  PROVE  Reordered(a, a)
<1> DEFINE g == [k \in Indices |-> k]
<1>1. g \in [Indices -> Indices]
  OBVIOUS
<1>2. \A k \in Indices : g[k] = k
  OBVIOUS
<1> HIDE DEF g
<1> QED
  BY <1>1, <1>2 DEF Reordered

LEMMA ReorderedAgain ==
  ASSUME NEW a, NEW b, NEW c, Reordered(b, a), Reordered(c, b)
  PROVE  Reordered(c, a)
<1>1. PICK g \in [Indices -> Indices] :
        /\ \A k \in Indices, n \in Indices : g[k] = g[n] => k = n
        /\ \A k \in Indices : b[k] = a[g[k]]
  BY DEF Reordered
<1>2. PICK h \in [Indices -> Indices] :
        /\ \A k \in Indices, n \in Indices : h[k] = h[n] => k = n
        /\ \A k \in Indices : c[k] = b[h[k]]
  BY DEF Reordered
<1> DEFINE o == [k \in Indices |-> g[h[k]]]
<1>3. o \in [Indices -> Indices]
  OBVIOUS
<1>4. \A k \in Indices : o[k] = g[h[k]] /\ h[k] \in Indices
  OBVIOUS
<1> HIDE DEF o
<1>5. \A k \in Indices, n \in Indices : o[k] = o[n] => k = n
  BY <1>1, <1>2, <1>4
<1>6. \A k \in Indices : c[k] = a[o[k]]
  BY <1>1, <1>2, <1>4
<1> QED
  BY <1>3, <1>5, <1>6 DEF Reordered

\* An array that is reordered has each element as often.
LEMMA ReorderedCounts ==
  ASSUME NEW a \in Arrays, NEW b \in Arrays, Reordered(b, a), NEW x
  PROVE  Count(b, x) = Count(a, x)
<1>1. DOMAIN a = Indices /\ DOMAIN b = Indices
  BY DEF Arrays
<1>2. PICK g \in [Indices -> Indices] :
        /\ \A k \in Indices, n \in Indices : g[k] = g[n] => k = n
        /\ \A k \in Indices : b[k] = a[g[k]]
  BY DEF Reordered
<1>3. IsFiniteSet(Indices)
  BY SortAssumption, FS_Interval DEF Indices
<1>4. g \in Surjection(Indices, Indices)
  <2>1. g \in Injection(Indices, Indices)
    BY <1>2 DEF Injection, IsInjective
  <2> QED
    BY <1>3, <2>1, FS_Injection
<1> DEFINE S == {k \in Indices : b[k] = x}
           T == {k \in Indices : a[k] = x}
           h == [k \in S |-> g[k]]
<1>5. h \in [S -> T]
  BY <1>2
<1>6. \A k \in S, n \in S : h[k] = h[n] => k = n
  BY <1>2
<1>7. ASSUME NEW n \in T
      PROVE  \E k \in S : h[k] = n
  <2>1. PICK k \in Indices : g[k] = n
    BY <1>4 DEF Surjection
  <2>2. k \in S
    BY <1>2, <2>1
  <2> QED
    BY <2>1, <2>2
<1>8. IsFiniteSet(S)
  BY <1>3, FS_Subset
<1> HIDE DEF h, S, T
<1>9. DOMAIN h = S
  BY <1>5
<1>10. h \in Bijection(S, T)
  BY <1>5, <1>6, <1>7, <1>9 DEF Bijection, Injection, Surjection, IsInjective
<1>11. Cardinality(S) = Cardinality(T)
  BY <1>8, <1>10, FS_Bijection DEF ExistsBijection
<1> QED
  BY <1>1, <1>11 DEF Count, S, T

----------------------------------------------------------------------------
(* The merges of a single-threaded sort, in their order: each is of parts   *)
(* that are one element or the result of a merge before, and no other merge *)
(* has torn these apart.                                                    *)

Parts == (0..size) \X (-1..(size - 1))

MergesOf(g, s) ==
  IF s[1] >= s[2] THEN <<>>
  ELSE g[<<s[1], Mid(s)>>] \o g[<<Mid(s) + 1, s[2]>>] \o << <<s[1], Mid(s), s[2]>> >>

LEMMA Halves ==
  ASSUME NEW s \in Parts, s[1] < s[2]
  PROVE  /\ Mid(s) \in s[1]..(s[2] - 1) /\ s[1] \in 0..size /\ s[2] \in -1..(size - 1)
         /\ <<s[1], Mid(s)>> \in Parts /\ <<Mid(s) + 1, s[2]>> \in Parts
<1> DEFINE l == s[1]
           r == s[2]
<1>1. l \in 0..size /\ r \in -1..(size - 1) /\ size \in Nat
  BY SortAssumption DEF Parts
<1>2. l < r
  OBVIOUS
<1> HIDE DEF l, r
<1>3. (l + r) \div 2 \in l..(r - 1)
  BY <1>1, <1>2
<1>4. Mid(s) = (l + r) \div 2
  BY DEF Mid, l, r
<1>5. Mid(s) \in l..(r - 1) /\ Mid(s) \in -1..(size - 1) /\ Mid(s) + 1 \in 0..size
  BY <1>1, <1>3, <1>4
<1> QED
  BY <1>1, <1>5 DEF Parts, l, r

LEMMA MergesStep ==
  \A s \in Parts : Merges[s] = MergesOf(Merges, s)
<1> DEFINE Sz(s) == s[2] - s[1]
           R(g, d) == g = [s \in Parts |-> IF Sz(s) > d THEN <<>> ELSE MergesOf(g, s)]
           Good == {d \in Nat : \E g : R(g, d)}
<1>0. size \in Nat /\ \A s \in Parts : s[1] \in Int /\ s[2] \in Int /\ Sz(s) \in Int /\ Sz(s) < size
  BY SortAssumption DEF Parts
<1>1. 0 \in Good
  <2> DEFINE g == [s \in Parts |-> <<>>]
  <2>1. ASSUME NEW s \in Parts, ~(Sz(s) > 0)
        PROVE  MergesOf(g, s) = <<>>
    BY <1>0, <2>1 DEF MergesOf
  <2>2. \A s \in Parts : g[s] = IF Sz(s) > 0 THEN <<>> ELSE MergesOf(g, s)
    BY <2>1
  <2>3. R(g, 0)
    BY <2>2
  <2> HIDE DEF g
  <2> QED
    BY <2>3
<1>2. ASSUME NEW d \in Good
      PROVE  d + 1 \in Good
  <2>1. PICK g : R(g, d)
    OBVIOUS
  <2> DEFINE h == [s \in Parts |-> IF Sz(s) > d + 1 THEN <<>> ELSE MergesOf(g, s)]
  <2>0. d \in Nat
    OBVIOUS
  <2>2. ASSUME NEW s \in Parts, ~(Sz(s) > d)
        PROVE  h[s] = g[s]
    <3>1. ~(Sz(s) > d + 1)
      BY <1>0, <2>0, <2>2
    <3>2. g[s] = MergesOf(g, s)
      BY <2>1, <2>2
    <3>3. h[s] = MergesOf(g, s)
      BY <3>1
    <3> QED
      BY <3>2, <3>3
  <2>3. ASSUME NEW s \in Parts, ~(Sz(s) > d + 1)
        PROVE  MergesOf(g, s) = MergesOf(h, s)
    <3>1. CASE s[1] >= s[2]
      BY <3>1 DEF MergesOf
    <3>2. CASE ~(s[1] >= s[2])
      <4> DEFINE t == <<s[1], Mid(s)>>
                 u == <<Mid(s) + 1, s[2]>>
      <4>1. s[1] < s[2]
        BY <1>0, <3>2
      <4>2. Mid(s) \in s[1]..(s[2] - 1) /\ t \in Parts /\ u \in Parts
        BY <4>1, Halves
      <4>3. ~(Sz(t) > d) /\ ~(Sz(u) > d)
        <5>1. s[1] \in Int /\ s[2] \in Int /\ Mid(s) \in Int /\ s[1] <= Mid(s) /\ Mid(s) <= s[2] - 1
          BY <1>0, <4>2
        <5>2. s[2] - s[1] <= d + 1
          BY <2>0, <2>3, <5>1
        <5>3. Mid(s) - s[1] <= d /\ s[2] - (Mid(s) + 1) <= d
          BY <2>0, <5>1, <5>2
        <5> QED
          BY <2>0, <5>1, <5>3
      <4>4. h[t] = g[t] /\ h[u] = g[u]
        BY <2>2, <4>2, <4>3
      <4> HIDE DEF h
      <4> QED
        BY <4>4 DEF MergesOf
    <3> QED
      BY <3>1, <3>2
  <2>4. \A s \in Parts : h[s] = IF Sz(s) > d + 1 THEN <<>> ELSE MergesOf(h, s)
    <3> TAKE s \in Parts
    <3>1. h[s] = IF Sz(s) > d + 1 THEN <<>> ELSE MergesOf(g, s)
      OBVIOUS
    <3> HIDE DEF h, Sz
    <3> QED
      BY <2>3, <3>1
  <2>5. DOMAIN h = Parts /\ h = [s \in Parts |-> h[s]]
    OBVIOUS
  <2> HIDE DEF h
  <2>6. R(h, d + 1)
    <3> HIDE DEF Sz
    <3> QED
      BY <2>4, <2>5
  <2>7. \E x : R(x, d + 1)
    <3> HIDE DEF R
    <3> QED
      BY <2>6
  <2>8. d + 1 \in Nat
    BY <2>0
  <2> HIDE DEF R
  <2> QED
    BY <2>7, <2>8
<1>3. size \in Good
  <2>1. Good \in SUBSET Nat
    OBVIOUS
  <2> HIDE DEF Good
  <2> QED
    BY <1>0, <1>1, <1>2, <2>1, Induct
<1>4. PICK g : R(g, size)
  BY <1>3
<1>5. g = [s \in Parts |-> MergesOf(g, s)]
  <2>1. \A s \in Parts : ~(Sz(s) > size)
    BY <1>0
  <2> HIDE DEF Sz
  <2> QED
    BY <1>4, <2>1
<1>6. Merges = CHOOSE x : x = [s \in Parts |-> MergesOf(x, s)]
  BY DEF Merges, MergesOf, Parts
<1>7. Merges = [s \in Parts |-> MergesOf(Merges, s)]
  BY <1>5, <1>6
<1> QED
  BY <1>7

\* Of the first n merges of q one makes the part from x to y, or it needs none.
Made(q, n, x, y) == x >= y \/ (\E j \in 1..n : q[j][1] = x /\ q[j][3] = y)

Apart(e, g) == e[3] < g[1] \/ g[3] < e[1]
Inside(e, g) == g[1] <= e[1] /\ e[3] <= g[3]
Within(e, l, r) == e \in Int \X Int \X Int /\ l <= e[1] /\ e[1] <= e[2] /\ e[2] < e[3] /\ e[3] <= r

PostOrder(q, l, r) ==
  /\ q \in Seq(Int \X Int \X Int)
  /\ \A k \in 1..Len(q) : /\ Within(q[k], l, r)
                          /\ Made(q, k - 1, q[k][1], q[k][2]) /\ Made(q, k - 1, q[k][2] + 1, q[k][3])
                          /\ \A j \in 1..(k - 1) : Apart(q[j], q[k]) \/ Inside(q[j], q[k])
  /\ Made(q, Len(q), l, r)

\* The elements of what two sequences and an element are joined to.
LEMMA JoinedElements ==
  ASSUME NEW T, NEW q1 \in Seq(T), NEW q2 \in Seq(T), NEW e \in T
  PROVE  LET q == q1 \o q2 \o <<e>>
         IN /\ q \in Seq(T) /\ Len(q) = Len(q1) + Len(q2) + 1
            /\ \A k \in 1..Len(q1) : q[k] = q1[k]
            /\ \A k \in 1..Len(q2) : q[Len(q1) + k] = q2[k]
            /\ q[Len(q1) + Len(q2) + 1] = e
<1> DEFINE u == q1 \o q2
           q == u \o <<e>>
           n1 == Len(q1)
           n2 == Len(q2)
<1>1. n1 \in Nat /\ n2 \in Nat
  OBVIOUS
<1>2. u \in Seq(T) /\ Len(u) = n1 + n2
  OBVIOUS
<1>3. \A k \in 1..n1 : u[k] = q1[k]
  OBVIOUS
<1>4. \A k \in 1..n2 : u[n1 + k] = q2[k]
  OBVIOUS
<1> HIDE DEF u
<1>5. q \in Seq(T) /\ Len(q) = n1 + n2 + 1
  BY <1>2
<1>6. \A k \in 1..(n1 + n2) : q[k] = u[k]
  BY <1>2
<1>7. q[n1 + n2 + 1] = e
  BY <1>1, <1>2
<1>8. /\ \A k \in 1..n1 : k \in 1..(n1 + n2)
      /\ \A k \in 1..n2 : n1 + k \in 1..(n1 + n2)
  BY <1>1
<1> HIDE DEF q, n1, n2
<1>9. \A k \in 1..n1 : q[k] = q1[k]
  BY <1>3, <1>6, <1>8
<1>10. \A k \in 1..n2 : q[n1 + k] = q2[k]
  BY <1>4, <1>6, <1>8
<1> QED
  BY <1>5, <1>7, <1>9, <1>10 DEF q, u, n1, n2

LEMMA PostOrderJoined ==
  ASSUME NEW l \in Int, NEW m \in Int, NEW r \in Int, l <= m, m < r,
         NEW q1, NEW q2, PostOrder(q1, l, m), PostOrder(q2, m + 1, r)
  PROVE  PostOrder(q1 \o q2 \o << <<l, m, r>> >>, l, r)
<1> DEFINE e == <<l, m, r>>
           q == q1 \o q2 \o <<e>>
           n1 == Len(q1)
           n2 == Len(q2)
           T == Int \X Int \X Int
<1>1. q1 \in Seq(T) /\ q2 \in Seq(T) /\ e \in T
  BY DEF PostOrder
<1>2. n1 \in Nat /\ n2 \in Nat
  BY <1>1
<1>3. /\ q \in Seq(T) /\ Len(q) = n1 + n2 + 1
      /\ \A k \in 1..n1 : q[k] = q1[k]
      /\ \A k \in 1..n2 : q[n1 + k] = q2[k]
      /\ q[n1 + n2 + 1] = e
  <2> HIDE DEF T, e
  <2> QED
    BY <1>1, JoinedElements
<1>4. \A k \in 1..n1 : /\ Within(q1[k], l, m)
                       /\ Made(q1, k - 1, q1[k][1], q1[k][2]) /\ Made(q1, k - 1, q1[k][2] + 1, q1[k][3])
                       /\ \A j \in 1..(k - 1) : Apart(q1[j], q1[k]) \/ Inside(q1[j], q1[k])
  BY DEF PostOrder
<1>5. \A k \in 1..n2 : /\ Within(q2[k], m + 1, r)
                       /\ Made(q2, k - 1, q2[k][1], q2[k][2]) /\ Made(q2, k - 1, q2[k][2] + 1, q2[k][3])
                       /\ \A j \in 1..(k - 1) : Apart(q2[j], q2[k]) \/ Inside(q2[j], q2[k])
  BY DEF PostOrder
<1>6. Made(q1, n1, l, m) /\ Made(q2, n2, m + 1, r)
  BY DEF PostOrder
<1> HIDE DEF q, n1, n2
<1>7. ASSUME NEW n \in 0..n1, NEW x, NEW y, Made(q1, n, x, y), NEW i \in Nat, n <= i
      PROVE  Made(q, i, x, y)
  <2>1. \A j \in 1..n : j \in 1..n1 /\ j \in 1..i
    BY <1>2, <1>7
  <2> QED
    BY <1>3, <1>7, <2>1 DEF Made
<1>8. ASSUME NEW n \in 0..n2, NEW x, NEW y, Made(q2, n, x, y), NEW i \in Nat, n1 + n <= i
      PROVE  Made(q, i, x, y)
  <2>1. \A j \in 1..n : j \in 1..n2 /\ n1 + j \in 1..i
    BY <1>2, <1>8
  <2>2. CASE x >= y
    BY <2>2 DEF Made
  <2>3. CASE ~(x >= y)
    <3>1. PICK j \in 1..n : q2[j][1] = x /\ q2[j][3] = y
      BY <1>8, <2>3 DEF Made
    <3>2. j \in 1..n2 /\ n1 + j \in 1..i
      BY <2>1
    <3>3. q[n1 + j] = q2[j]
      BY <1>3, <3>2
    <3>4. q[n1 + j][1] = x /\ q[n1 + j][3] = y
      BY <3>1, <3>3
    <3> QED
      BY <3>2, <3>4 DEF Made
  <2> QED
    BY <2>2, <2>3
<1>9. ASSUME NEW k \in 1..n1
      PROVE  /\ Within(q[k], l, r)
             /\ Made(q, k - 1, q[k][1], q[k][2]) /\ Made(q, k - 1, q[k][2] + 1, q[k][3])
             /\ \A j \in 1..(k - 1) : Apart(q[j], q[k]) \/ Inside(q[j], q[k])
  <2>1. k - 1 \in 0..n1 /\ k - 1 \in Nat /\ k - 1 <= k - 1 /\ \A j \in 1..(k - 1) : j \in 1..n1
    BY <1>2
  <2>2. q[k] = q1[k] /\ \A j \in 1..(k - 1) : q[j] = q1[j]
    BY <1>3, <2>1
  <2>3. Within(q[k], l, r)
    <3>1. Within(q[k], l, m)
      BY <1>4, <2>2
    <3>2. q[k][3] \in Int
      BY <3>1 DEF Within
    <3> QED
      BY <3>1, <3>2 DEF Within
  <2>4. Made(q, k - 1, q[k][1], q[k][2]) /\ Made(q, k - 1, q[k][2] + 1, q[k][3])
    BY <1>4, <1>7, <2>1, <2>2
  <2> QED
    BY <1>4, <2>2, <2>3, <2>4
<1>10. ASSUME NEW i \in 1..n2
       PROVE  /\ Within(q[n1 + i], l, r)
              /\ Made(q, n1 + i - 1, q[n1 + i][1], q[n1 + i][2])
              /\ Made(q, n1 + i - 1, q[n1 + i][2] + 1, q[n1 + i][3])
              /\ \A j \in 1..(n1 + i - 1) : Apart(q[j], q[n1 + i]) \/ Inside(q[j], q[n1 + i])
  <2>1. i - 1 \in 0..n2 /\ n1 + i - 1 \in Nat /\ n1 + (i - 1) <= n1 + i - 1
    BY <1>2
  <2>2. q[n1 + i] = q2[i]
    BY <1>3
  <2>3. Within(q2[i], m + 1, r)
    BY <1>5
  <2>4. q2[i][1] \in Int /\ q2[i][2] \in Int /\ q2[i][3] \in Int
    BY <2>3 DEF Within
  <2>5. Within(q[n1 + i], l, r)
    BY <2>2, <2>3, <2>4 DEF Within
  <2>6. Made(q, n1 + i - 1, q2[i][1], q2[i][2]) /\ Made(q, n1 + i - 1, q2[i][2] + 1, q2[i][3])
    BY <1>5, <1>8, <2>1
  <2>7. ASSUME NEW j \in 1..(n1 + i - 1)
        PROVE  Apart(q[j], q2[i]) \/ Inside(q[j], q2[i])
    <3>1. CASE j <= n1
      <4>1. j \in 1..n1
        BY <1>2, <3>1
      <4>2. Within(q[j], l, m)
        BY <1>3, <1>4, <4>1
      <4>3. q[j][3] \in Int /\ q[j][3] <= m /\ m + 1 <= q2[i][1]
        BY <2>3, <4>2 DEF Within
      <4>4. q[j][3] < q2[i][1]
        BY <2>4, <4>3
      <4> QED
        BY <4>4 DEF Apart
    <3>2. CASE ~(j <= n1)
      <4>1. j - n1 \in 1..(i - 1) /\ j - n1 \in 1..n2 /\ n1 + (j - n1) = j
        BY <1>2, <3>2
      <4>2. q[j] = q2[j - n1]
        <5>1. q[n1 + (j - n1)] = q2[j - n1]
          BY <1>3, <4>1
        <5> QED
          BY <4>1, <5>1
      <4> QED
        BY <1>5, <4>1, <4>2
    <3> QED
      BY <3>1, <3>2
  <2> QED
    BY <2>2, <2>5, <2>6, <2>7
<1>11. /\ Within(e, l, r) /\ Made(q, n1 + n2 + 1 - 1, l, m) /\ Made(q, n1 + n2 + 1 - 1, m + 1, r)
       /\ \A j \in 1..(n1 + n2 + 1 - 1) : Apart(q[j], e) \/ Inside(q[j], e)
  <2>1. /\ n1 \in 0..n1 /\ n2 \in 0..n2 /\ n1 + n2 + 1 - 1 \in Nat
        /\ n1 <= n1 + n2 + 1 - 1 /\ n1 + n2 <= n1 + n2 + 1 - 1
    BY <1>2
  <2>2. Within(e, l, r)
    BY <1>1 DEF Within
  <2>3. ASSUME NEW j \in 1..(n1 + n2 + 1 - 1)
        PROVE  Inside(q[j], e)
    <3>1. j \in 1..n1 \/ (j - n1 \in 1..n2 /\ n1 + (j - n1) = j)
      BY <1>2
    <3>2. Within(q[j], l, r)
      BY <1>9, <1>10, <3>1
    <3> QED
      BY <3>2 DEF Within, Inside
  <2> QED
    BY <1>6, <1>7, <1>8, <2>1, <2>2, <2>3
<1>12. ASSUME NEW k \in 1..Len(q)
       PROVE  /\ Within(q[k], l, r)
              /\ Made(q, k - 1, q[k][1], q[k][2]) /\ Made(q, k - 1, q[k][2] + 1, q[k][3])
              /\ \A j \in 1..(k - 1) : Apart(q[j], q[k]) \/ Inside(q[j], q[k])
  <2>0. k \in 1..(n1 + n2 + 1)
    BY <1>3
  <2>1. k \in 1..n1 \/ (k - n1 \in 1..n2 /\ n1 + (k - n1) = k) \/ k = n1 + n2 + 1
    BY <1>2, <2>0
  <2>2. CASE k = n1 + n2 + 1
    <3>1. q[k] = e /\ e[1] = l /\ e[2] = m /\ e[3] = r
      BY <1>3, <2>2
    <3> HIDE DEF e
    <3>2. /\ Within(e, l, r) /\ Made(q, k - 1, e[1], e[2]) /\ Made(q, k - 1, e[2] + 1, e[3])
          /\ \A j \in 1..(k - 1) : Apart(q[j], e) \/ Inside(q[j], e)
      <4>1. n1 + n2 + 1 - 1 = k - 1
        BY <1>2, <2>2
      <4> QED
        BY <1>11, <3>1, <4>1, Zenon
    <3> QED
      BY <3>1, <3>2
  <2>3. CASE k \in 1..n1
    BY <1>9, <2>3
  <2>4. CASE k - n1 \in 1..n2 /\ n1 + (k - n1) = k
    <3> DEFINE i == k - n1
    <3>1. i \in 1..n2 /\ k = n1 + i
      BY <1>2, <2>4
    <3> HIDE DEF i
    <3>2. /\ Within(q[n1 + i], l, r)
          /\ Made(q, n1 + i - 1, q[n1 + i][1], q[n1 + i][2])
          /\ Made(q, n1 + i - 1, q[n1 + i][2] + 1, q[n1 + i][3])
          /\ \A j \in 1..(n1 + i - 1) : Apart(q[j], q[n1 + i]) \/ Inside(q[j], q[n1 + i])
      BY <1>10, <3>1
    <3>3. n1 + i - 1 = k - 1
      BY <1>2, <3>1
    <3> QED
      BY <3>1, <3>2, <3>3, Zenon
  <2> QED
    BY <2>1, <2>2, <2>3, <2>4
<1>13. Made(q, Len(q), l, r)
  <2>1. n1 + n2 + 1 \in 1..Len(q)
    BY <1>2, <1>3
  <2> QED
    BY <1>3, <2>1 DEF Made
<1>14. PostOrder(q, l, r)
  BY <1>3, <1>12, <1>13 DEF PostOrder
<1> QED
  BY <1>14 DEF q

LEMMA MergesPostOrder ==
  \A s \in Parts : PostOrder(Merges[s], s[1], s[2])
<1> DEFINE Good == {d \in Nat : \A s \in Parts : s[2] - s[1] <= d => PostOrder(Merges[s], s[1], s[2])}
<1>0. size \in Nat /\ \A s \in Parts : s[1] \in Int /\ s[2] \in Int /\ s[2] - s[1] <= size
  BY SortAssumption DEF Parts
<1>1. ASSUME NEW s \in Parts, s[1] >= s[2]
      PROVE  PostOrder(Merges[s], s[1], s[2])
  <2>1. Merges[s] = <<>>
    BY <1>1, MergesStep DEF MergesOf
  <2> QED
    BY <1>1, <2>1 DEF PostOrder, Made
<1>2. 0 \in Good
  <2>1. \A s \in Parts : s[2] - s[1] <= 0 => s[1] >= s[2]
    BY <1>0
  <2> QED
    BY <1>1, <2>1
<1>3. ASSUME NEW d \in Good
      PROVE  d + 1 \in Good
  <2> SUFFICES ASSUME NEW s \in Parts, s[2] - s[1] <= d + 1, ~(s[1] >= s[2])
               PROVE  PostOrder(Merges[s], s[1], s[2])
    BY <1>1
  <2> DEFINE t == <<s[1], Mid(s)>>
             u == <<Mid(s) + 1, s[2]>>
  <2>1. s[1] < s[2] /\ d \in Nat
    BY <1>0
  <2>2. Mid(s) \in s[1]..(s[2] - 1) /\ t \in Parts /\ u \in Parts
    BY <2>1, Halves
  <2>3. Mid(s) - s[1] <= d /\ s[2] - (Mid(s) + 1) <= d /\ Mid(s) \in Int /\ s[1] <= Mid(s) /\ Mid(s) < s[2]
    BY <1>0, <2>1, <2>2
  <2>4. t[1] = s[1] /\ t[2] = Mid(s) /\ u[1] = Mid(s) + 1 /\ u[2] = s[2]
    OBVIOUS
  <2>5. Merges[s] = Merges[t] \o Merges[u] \o << <<s[1], Mid(s), s[2]>> >>
    BY MergesStep DEF MergesOf
  <2> HIDE DEF t, u
  <2>6. PostOrder(Merges[t], s[1], Mid(s)) /\ PostOrder(Merges[u], Mid(s) + 1, s[2])
    BY <2>2, <2>3, <2>4
  <2> QED
    BY <1>0, <2>3, <2>5, <2>6, PostOrderJoined
<1>4. size \in Good
  <2>1. Good \in SUBSET Nat
    OBVIOUS
  <2> HIDE DEF Good
  <2> QED
    BY <1>0, <1>2, <1>3, <2>1, Induct
<1> QED
  BY <1>0, <1>4

\* With t left of the merges for the part s of a, those made have sorted what they merged.
Progress(a, t, s) ==
  \E p \in 0..Len(Merges[s]) :
    /\ t = SubSeq(Merges[s], p + 1, Len(Merges[s]))
    /\ \A k \in 1..p : SortedOn(a, Merges[s][k][1], Merges[s][k][3])

LEMMA SortedKept ==
  ASSUME NEW a, NEW b, NEW l \in Int, NEW r \in Int, SortedOn(a, l, r),
         NEW x \in Int, NEW y \in Int, l <= x, y <= r, \A k \in x..y : b[k] = a[k]
  PROVE  SortedOn(b, x, y)
<1> SUFFICES ASSUME NEW k \in (x + 1)..y
             PROVE  b[k - 1] <= b[k]
  BY DEF SortedOn
<1>1. k \in x..y /\ k - 1 \in x..y /\ k \in (l + 1)..r
  OBVIOUS
<1> QED
  BY <1>1 DEF SortedOn

LEMMA SeqSorted ==
  ASSUME NEW a, NEW x \in Int, NEW y \in Int, x >= y
  PROVE  SortedOn(a, x, y)
<1>1. \A k \in (x + 1)..y : FALSE
  OBVIOUS
<1> QED
  BY <1>1 DEF SortedOn

LEMMA ProgressStart ==
  ASSUME NEW a, NEW s \in Parts
  PROVE  Progress(a, Merges[s], s)
<1> DEFINE q == Merges[s]
<1>1. q \in Seq(Int \X Int \X Int)
  BY MergesPostOrder DEF PostOrder
<1>2. Len(q) \in Nat /\ q = SubSeq(q, 0 + 1, Len(q)) /\ 0 \in 0..Len(q) /\ \A k \in 1..0 : FALSE
  <2> DEFINE T == Int \X Int \X Int
  <2>1. q \in Seq(T)
    BY <1>1
  <2> HIDE DEF q, T
  <2>2. Len(q) \in Nat /\ q = SubSeq(q, 1, Len(q))
    BY <2>1
  <2> QED
    BY <2>2
<1> HIDE DEF q
<1>3. \E p \in 0..Len(q) : /\ q = SubSeq(q, p + 1, Len(q))
                           /\ \A k \in 1..p : SortedOn(a, q[k][1], q[k][3])
  BY <1>2
<1> QED
  BY <1>3 DEF Progress, q

LEMMA ProgressKept ==
  ASSUME NEW a, NEW b, NEW t, NEW s \in Parts, Progress(a, t, s),
         \A k \in s[1]..s[2] : b[k] = a[k]
  PROVE  Progress(b, t, s)
<1> DEFINE q == Merges[s]
<1>1. PICK p \in 0..Len(q) : /\ t = SubSeq(q, p + 1, Len(q))
                             /\ \A k \in 1..p : SortedOn(a, q[k][1], q[k][3])
  BY DEF Progress
<1>2. q \in Seq(Int \X Int \X Int) /\ \A k \in 1..Len(q) : Within(q[k], s[1], s[2])
  BY MergesPostOrder DEF PostOrder
<1>3. s[1] \in Int /\ s[2] \in Int
  BY SortAssumption DEF Parts
<1>4. Len(q) \in Nat
  BY <1>2
<1> HIDE DEF q
<1>5. ASSUME NEW k \in 1..p
      PROVE  SortedOn(b, q[k][1], q[k][3])
  <2>1. k \in 1..Len(q)
    BY <1>4
  <2>2. Within(q[k], s[1], s[2])
    BY <1>2, <2>1
  <2>3. q[k][1] \in Int /\ q[k][3] \in Int /\ s[1] <= q[k][1] /\ q[k][3] <= s[2]
    BY <1>3, <2>2 DEF Within
  <2>4. \A i \in q[k][1]..q[k][3] : i \in s[1]..s[2]
    BY <1>3, <2>3
  <2>5. q[k][1] <= q[k][1] /\ q[k][3] <= q[k][3]
    BY <2>3
  <2>6. \A i \in q[k][1]..q[k][3] : b[i] = a[i]
    BY <2>4
  <2>7. SortedOn(a, q[k][1], q[k][3])
    BY <1>1
  <2> QED
    BY <2>3, <2>5, <2>6, <2>7, SortedKept
<1> QED
  BY <1>1, <1>5 DEF Progress, q

LEMMA SubSeqLen ==
  ASSUME NEW S, NEW s \in Seq(S), NEW p \in Nat, p + 1 <= Len(s)
  PROVE  Len(SubSeq(s, p + 1, Len(s))) = Len(s) - (p + 1) + 1
OBVIOUS

LEMMA ProgressEnd ==
  ASSUME NEW a, NEW s \in Parts, Progress(a, <<>>, s)
  PROVE  SortedOn(a, s[1], s[2])
<1> DEFINE q == Merges[s]
           T == Int \X Int \X Int
<1>1. PICK p \in 0..Len(q) : /\ <<>> = SubSeq(q, p + 1, Len(q))
                             /\ \A k \in 1..p : SortedOn(a, q[k][1], q[k][3])
  BY DEF Progress
<1>2. q \in Seq(T) /\ Made(q, Len(q), s[1], s[2])
  BY MergesPostOrder DEF PostOrder
<1>3. s[1] \in Int /\ s[2] \in Int
  BY SortAssumption DEF Parts
<1> HIDE DEF q, T
<1>4. p = Len(q)
  <2> SUFFICES ASSUME p # Len(q)
               PROVE  FALSE
    OBVIOUS
  <2>1. Len(q) \in Nat
    BY <1>2
  <2>2. p \in Nat /\ p + 1 <= Len(q) /\ Len(q) - (p + 1) + 1 # 0
    BY <2>1
  <2>3. Len(SubSeq(q, p + 1, Len(q))) = Len(q) - (p + 1) + 1
    BY <1>2, <2>2, SubSeqLen
  <2>4. Len(SubSeq(q, p + 1, Len(q))) = 0
    <3>1. \A x : x = <<>> => Len(x) = 0
      OBVIOUS
    <3>2. SubSeq(q, p + 1, Len(q)) = <<>>
      BY <1>1, Zenon
    <3> QED
      BY <3>1, <3>2, Zenon
  <2> QED
    BY <2>2, <2>3, <2>4
<1>5. CASE s[1] >= s[2]
  BY <1>3, <1>5, SeqSorted
<1>6. CASE ~(s[1] >= s[2])
  BY <1>1, <1>2, <1>4, <1>6 DEF Made
<1> QED
  BY <1>5, <1>6

\* The next merge is of parts that those before it have sorted, and what they have
\* sorted is sorted after it.
LEMMA ProgressStep ==
  ASSUME NEW a \in Arrays, NEW t, NEW s \in Parts, Progress(a, t, s), t # <<>>
  PROVE  LET e == Head(t)
             b == Merge(a, e[1], e[2], e[3])
         IN /\ Bounds(e[1], e[2], e[3])
            /\ s[1] <= e[1] /\ e[3] <= s[2]
            /\ Progress(b, Tail(t), s)
<1> DEFINE q == Merges[s]
           T == Int \X Int \X Int
           e == Head(t)
           b == Merge(a, e[1], e[2], e[3])
<1>1. PICK p \in 0..Len(q) : /\ t = SubSeq(q, p + 1, Len(q))
                             /\ \A k \in 1..p : SortedOn(a, q[k][1], q[k][3])
  BY DEF Progress
<1>2. /\ q \in Seq(T)
      /\ \A k \in 1..Len(q) : /\ Within(q[k], s[1], s[2])
                              /\ Made(q, k - 1, q[k][1], q[k][2]) /\ Made(q, k - 1, q[k][2] + 1, q[k][3])
                              /\ \A j \in 1..(k - 1) : Apart(q[j], q[k]) \/ Inside(q[j], q[k])
  BY MergesPostOrder DEF PostOrder
<1>3. s[1] \in Int /\ s[2] \in Int /\ 0 <= s[1] /\ s[2] < size /\ size \in Nat
  BY SortAssumption DEF Parts
<1> HIDE DEF q
<1>4. Len(q) \in Nat /\ p + 1 \in 1..Len(q) /\ p + 1 - 1 = p
  <2> HIDE DEF T
  <2>1. Len(q) \in Nat
    BY <1>2
  <2>2. p # Len(q)
    <3> SUFFICES ASSUME p = Len(q)
                 PROVE  FALSE
      OBVIOUS
    <3>1. SubSeq(q, p + 1, Len(q)) = <<>>
      BY <1>2, <2>1
    <3> QED
      BY <1>1, <3>1
  <2> QED
    BY <2>1, <2>2
<1>5. e = q[p + 1] /\ Tail(t) = SubSeq(q, p + 1 + 1, Len(q))
  <2> HIDE DEF T
  <2> DEFINE n == Len(q)
             u == SubSeq(q, p + 1, n)
             v == SubSeq(q, p + 1 + 1, n)
  <2>0. p \in Nat /\ n \in Nat /\ p + 1 <= n /\ u = t
    BY <1>1, <1>4
  <2>1. u \in Seq(T) /\ Len(u) = n - p /\ \A i \in 1..(n - p) : u[i] = q[p + i]
    <3>1. Len(u) = n - (p + 1) + 1 /\ \A i \in 1..(n - (p + 1) + 1) : u[i] = q[p + 1 + i - 1]
      BY <1>2, <2>0
    <3>2. u \in Seq(T)
      BY <1>2, <2>0
    <3>3. n - (p + 1) + 1 = n - p /\ \A i \in 1..(n - p) : p + 1 + i - 1 = p + i
      BY <2>0
    <3> HIDE DEF u, n
    <3> QED
      BY <3>1, <3>2, <3>3
  <2>2. v \in Seq(T) /\ Len(v) = n - p - 1 /\ \A i \in 1..(n - p - 1) : v[i] = q[p + 1 + i]
    <3>1. CASE p + 1 + 1 <= n
      <4>1. Len(v) = n - (p + 1 + 1) + 1 /\ \A i \in 1..(n - (p + 1 + 1) + 1) : v[i] = q[p + 1 + 1 + i - 1]
        BY <1>2, <2>0, <3>1
      <4>2. v \in Seq(T)
        BY <1>2, <2>0, <3>1
      <4>3. n - (p + 1 + 1) + 1 = n - p - 1 /\ \A i \in 1..(n - p - 1) : p + 1 + 1 + i - 1 = p + 1 + i
        BY <2>0
      <4> HIDE DEF v, n
      <4> QED
        BY <4>1, <4>2, <4>3
    <3>2. CASE ~(p + 1 + 1 <= n)
      <4>1. v = <<>>
        BY <1>2, <2>0, <3>2
      <4>2. n - p - 1 = 0
        BY <2>0, <3>2
      <4> HIDE DEF v, n
      <4> QED
        BY <4>1, <4>2
    <3> QED
      BY <3>1, <3>2
  <2> HIDE DEF u, v, n
  <2>3. u # <<>> /\ Head(u) = u[1] /\ Tail(u) \in Seq(T) /\ Len(Tail(u)) = n - p - 1
        /\ \A i \in 1..(n - p - 1) : Tail(u)[i] = u[i + 1]
    <3>1. u # <<>> /\ Len(u) # 0
      BY <2>0, <2>1
    <3>2. Head(u) = u[1] /\ Tail(u) \in Seq(T) /\ Len(Tail(u)) = Len(u) - 1
      BY <2>1, <3>1
    <3>3. \A i \in 1..(Len(u) - 1) : Tail(u)[i] = u[i + 1]
      BY <2>1, <3>1
    <3> QED
      BY <2>0, <2>1, <3>1, <3>2, <3>3
  <2>4. \A i \in 1..(n - p - 1) : i + 1 \in 1..(n - p) /\ p + (i + 1) = p + 1 + i
    BY <2>0
  <2>5. \A i \in 1..(n - p - 1) : Tail(u)[i] = v[i]
    BY <2>1, <2>2, <2>3, <2>4
  <2>6. Tail(u) = v
    BY <2>2, <2>3, <2>5, SeqEqual
  <2>7. u[1] = q[p + 1]
    <3>1. 1 \in 1..(n - p)
      BY <2>0
    <3> QED
      BY <2>1, <3>1
  <2> QED
    BY <2>0, <2>3, <2>6, <2>7 DEF u, v, n
<1> HIDE DEF e, T
<1>6. /\ Within(e, s[1], s[2]) /\ Made(q, p, e[1], e[2]) /\ Made(q, p, e[2] + 1, e[3])
      /\ \A j \in 1..p : Apart(q[j], e) \/ Inside(q[j], e)
  BY <1>2, <1>4, <1>5
<1>7. /\ e[1] \in Int /\ e[2] \in Int /\ e[3] \in Int
      /\ s[1] <= e[1] /\ e[1] <= e[2] /\ e[2] < e[3] /\ e[3] <= s[2]
  BY <1>6 DEF Within
<1>8. Bounds(e[1], e[2], e[3])
  BY <1>3, <1>7 DEF Bounds
<1>9. SortedOn(a, e[1], e[2]) /\ SortedOn(a, e[2] + 1, e[3])
  <2>1. ASSUME NEW x \in Int, NEW y \in Int, Made(q, p, x, y)
        PROVE  SortedOn(a, x, y)
    BY <1>1, <2>1, SeqSorted DEF Made
  <2>2. e[2] + 1 \in Int
    BY <1>7
  <2> QED
    BY <1>6, <1>7, <2>1, <2>2
<1>10. SortedOn(b, e[1], e[3]) /\ \A k \in Indices : k \notin e[1]..e[3] => b[k] = a[k]
  BY <1>8, <1>9, MergeSorts, MergeReorders
<1> HIDE DEF b
<1>11. ASSUME NEW k \in 1..p
       PROVE  SortedOn(b, q[k][1], q[k][3])
  <2>1. k \in 1..Len(q)
    BY <1>4
  <2>2. Within(q[k], s[1], s[2])
    BY <1>2, <2>1
  <2>3. q[k][1] \in Int /\ q[k][3] \in Int /\ 0 <= q[k][1] /\ q[k][3] < size
    BY <1>3, <2>2 DEF Within
  <2>4. CASE Apart(q[k], e)
    <3>0. q[k][3] < e[1] \/ e[3] < q[k][1]
      BY <2>4 DEF Apart
    <3>1. ASSUME NEW i \in q[k][1]..q[k][3]
          PROVE  i \in Indices /\ i \notin e[1]..e[3]
      <4>1. i \in 0..(size - 1)
        BY <1>3, <2>3
      <4>2. i < e[1] \/ e[3] < i
        BY <1>7, <2>3, <3>0
      <4>3. i \notin e[1]..e[3]
        BY <1>7, <4>1, <4>2
      <4> QED
        BY <4>1, <4>3 DEF Indices
    <3>2. \A i \in q[k][1]..q[k][3] : b[i] = a[i]
      BY <1>10, <3>1
    <3>3. q[k][1] <= q[k][1] /\ q[k][3] <= q[k][3]
      BY <2>3
    <3> QED
      BY <1>1, <2>3, <3>2, <3>3, SortedKept
  <2>5. CASE Inside(q[k], e)
    BY <1>7, <1>10, <2>3, <2>5, SortedKept DEF Inside
  <2> QED
    BY <1>6, <2>4, <2>5
<1>12. \A k \in 1..(p + 1) : SortedOn(b, q[k][1], q[k][3])
  <2> TAKE k \in 1..(p + 1)
  <2>1. k \in 1..p \/ k = p + 1
    BY <1>4
  <2> QED
    BY <1>5, <1>10, <1>11, <2>1
<1>13. p + 1 \in 0..Len(q)
  BY <1>4
<1>14. Progress(b, Tail(t), s)
  BY <1>5, <1>12, <1>13 DEF Progress, q
<1> QED
  BY <1>7, <1>8, <1>14 DEF e, b

----------------------------------------------------------------------------
(* The parts of the array that processes and threads sort.                  *)

\* Who creates whom.
LEMMA CreatedWorker ==
  ASSUME NEW u \in Workers, Len(u) < 3, NEW n \in {1, 2}
  PROVE  LET v == Append(u, n)
         IN /\ v \in Workers /\ v # Root /\ Front(v) = u /\ Last(v) = n
            /\ Len(v) = Len(u) + 1 /\ v[Len(v)] = n /\ \A k \in 1..Len(u) : v[k] = u[k]
<1> DEFINE v == Append(u, n)
<1>1. u \in Seq({1, 2}) /\ Len(u) \in 0..3
  BY WorkerFacts
<1>2. /\ v \in Seq({1, 2}) /\ Len(v) = Len(u) + 1 /\ v[Len(u) + 1] = n
      /\ \A k \in 1..Len(u) : v[k] = u[k]
  BY <1>1
<1>3. Len(v) <= 3 /\ Len(v) - 1 = Len(u) /\ Len(v) # 0 /\ Len(u) \in Nat
  BY <1>1, <1>2
<1> HIDE DEF v
<1>4. v \in Workers /\ v # Root
  <2>1. v \in Workers
    BY <1>2, <1>3, WorkerFacts
  <2> QED
    BY <1>3, <2>1 DEF Root
<1>5. Front(v) = u
  <2> DEFINE s == SubSeq(v, 1, Len(u))
  <2>1. s \in Seq({1, 2}) /\ Len(s) = Len(u) /\ \A k \in 1..Len(u) : s[k] = v[k]
    <3>1. Len(u) <= Len(v)
      BY <1>1, <1>2
    <3> QED
      BY <1>1, <1>2, <1>3, <3>1
  <2> HIDE DEF s
  <2>2. s = u
    BY <1>1, <1>2, <2>1, SeqEqual
  <2> QED
    BY <1>3, <2>2 DEF Front, s
<1> QED
  BY <1>2, <1>3, <1>4, <1>5 DEF Last, v

LEMMA WorkersCreator ==
  ASSUME NEW v \in Workers, v # Root
  PROVE  \E u \in Workers, n \in {1, 2} : v = Append(u, n) /\ Len(u) < 3
<1> DEFINE d == Len(v)
           u == SubSeq(v, 1, d - 1)
<1>1. v \in Seq({1, 2}) /\ d \in 1..3
  <2>1. v \in Seq({1, 2}) /\ d \in 0..3 /\ d # 0
    BY WorkerFacts
  <2> QED
    BY <2>1
<1>2. v[d] \in {1, 2}
  <2>1. \A i \in 1..3 : i \in 1..i
    OBVIOUS
  <2>2. Len(v) \in 1..Len(v)
    <3> HIDE DEF u
    <3> QED
      BY <1>1, <2>1
  <2> QED
    BY <1>1, <2>2, ElementOfSeq
<1>3. u \in Seq({1, 2}) /\ Len(u) = d - 1 /\ \A k \in 1..(d - 1) : u[k] = v[k]
  <2>1. CASE d = 1
    <3>1. u = <<>>
      BY <1>1, <2>1
    <3> HIDE DEF u, d
    <3> QED
      BY <2>1, <3>1
  <2>2. CASE d # 1
    <3>1. 1 <= d - 1 /\ d - 1 \in Nat /\ d - 1 <= d /\ d - 1 - 1 + 1 = d - 1 /\ \A k \in 1..(d - 1) : 1 + k - 1 = k
      BY <1>1, <2>2
    <3>2. u \in Seq({1, 2}) /\ Len(u) = d - 1 - 1 + 1 /\ \A k \in 1..(d - 1 - 1 + 1) : u[k] = v[1 + k - 1]
      BY <1>1, <3>1
    <3> HIDE DEF u, d
    <3> QED
      BY <3>1, <3>2
  <2> QED
    BY <2>1, <2>2
<1> HIDE DEF u
<1>4. u \in Workers
  <2>1. Len(u) <= 3
    BY <1>1, <1>3
  <2> QED
    BY <1>3, <2>1, WorkerFacts
<1>5. v = Append(u, v[d])
  <2> DEFINE x == Append(u, v[d])
  <2>1. /\ x \in Seq({1, 2}) /\ Len(x) = d /\ x[d] = v[d]
        /\ \A k \in 1..(d - 1) : x[k] = u[k]
    <3>1. x \in Seq({1, 2}) /\ Len(x) = Len(u) + 1 /\ x[Len(u) + 1] = v[d] /\ \A k \in 1..Len(u) : x[k] = u[k]
      BY <1>2, <1>3
    <3>2. Len(u) + 1 = d
      BY <1>1, <1>3
    <3> HIDE DEF x, d
    <3> QED
      BY <1>3, <3>1, <3>2
  <2> HIDE DEF x
  <2>2. \A k \in 1..d : x[k] = v[k]
    <3> TAKE k \in 1..d
    <3>1. k = d \/ k \in 1..(d - 1)
      BY <1>1
    <3> QED
      BY <1>3, <2>1, <3>1
  <2> QED
    BY <1>1, <2>1, <2>2, SeqEqual DEF x, d
<1> QED
  <2>1. Len(u) < 3
    BY <1>1, <1>3
  <2> QED
    BY <1>2, <1>4, <1>5, <2>1

PartOf(g, w) ==
  IF w = Root THEN <<0, size - 1>>
  ELSE IF Last(w) = 1 THEN <<g[Front(w)][1], Mid(g[Front(w)])>>
  ELSE <<Mid(g[Front(w)]) + 1, g[Front(w)][2]>>

LEMMA PartStep ==
  \A w \in Workers : Part[w] = PartOf(Part, w)
<1> DEFINE R(g, d) == g = [w \in Workers |-> IF Len(w) > d THEN <<>> ELSE PartOf(g, w)]
           Good == {d \in Nat : \E g : R(g, d)}
<1>0. \A w \in Workers : Len(w) \in 0..3 /\ (w # Root => Len(w) # 0)
  BY WorkerFacts
<1>1. 0 \in Good
  <2> DEFINE g == [w \in Workers |-> IF Len(w) > 0 THEN <<>> ELSE <<0, size - 1>>]
  <2>1. \A w \in Workers : ~(Len(w) > 0) => w = Root
    BY <1>0
  <2>2. \A w \in Workers : g[w] = IF Len(w) > 0 THEN <<>> ELSE PartOf(g, w)
    BY <2>1 DEF PartOf
  <2>3. R(g, 0)
    BY <2>2
  <2> HIDE DEF g
  <2> QED
    BY <2>3
<1>2. ASSUME NEW d \in Good
      PROVE  d + 1 \in Good
  <2>1. PICK g : R(g, d)
    OBVIOUS
  <2> DEFINE h == [w \in Workers |-> IF Len(w) > d + 1 THEN <<>> ELSE PartOf(g, w)]
  <2>0. d \in Nat
    OBVIOUS
  <2>2. ASSUME NEW w \in Workers, ~(Len(w) > d)
        PROVE  h[w] = g[w]
    <3>1. ~(Len(w) > d + 1)
      BY <1>0, <2>0, <2>2
    <3>2. g[w] = PartOf(g, w)
      BY <2>1, <2>2
    <3>3. h[w] = PartOf(g, w)
      BY <3>1
    <3> QED
      BY <3>2, <3>3
  <2>3. ASSUME NEW w \in Workers, ~(Len(w) > d + 1)
        PROVE  PartOf(g, w) = PartOf(h, w)
    <3>1. CASE w = Root
      BY <3>1 DEF PartOf
    <3>2. CASE w # Root
      <4>1. PICK u \in Workers, n \in {1, 2} : w = Append(u, n) /\ Len(u) < 3
        BY <3>2, WorkersCreator
      <4>2. Front(w) = u /\ Len(w) = Len(u) + 1
        BY <4>1, CreatedWorker
      <4>3. ~(Len(u) > d)
        BY <1>0, <2>0, <2>3, <4>2
      <4>4. h[Front(w)] = g[Front(w)]
        BY <2>2, <4>2, <4>3
      <4> HIDE DEF h
      <4> QED
        BY <4>4 DEF PartOf
    <3> QED
      BY <3>1, <3>2
  <2>4. \A w \in Workers : h[w] = IF Len(w) > d + 1 THEN <<>> ELSE PartOf(h, w)
    <3> TAKE w \in Workers
    <3>1. h[w] = IF Len(w) > d + 1 THEN <<>> ELSE PartOf(g, w)
      OBVIOUS
    <3> HIDE DEF h
    <3> QED
      BY <2>3, <3>1
  <2>5. h = [w \in Workers |-> h[w]]
    OBVIOUS
  <2> HIDE DEF h
  <2>6. R(h, d + 1)
    BY <2>4, <2>5
  <2>7. \E x : R(x, d + 1)
    <3> HIDE DEF R
    <3> QED
      BY <2>6
  <2>8. d + 1 \in Nat
    BY <2>0
  <2> HIDE DEF R
  <2> QED
    BY <2>7, <2>8
<1>3. 3 \in Good
  <2>1. Good \in SUBSET Nat
    OBVIOUS
  <2> HIDE DEF Good
  <2> QED
    BY <1>1, <1>2, <2>1, Induct
<1>4. PICK g : R(g, 3)
  BY <1>3
<1>5. g = [w \in Workers |-> PartOf(g, w)]
  <2>1. \A w \in Workers : ~(Len(w) > 3)
    <3>1. \A n \in 0..3 : ~(n > 3)
      OBVIOUS
    <3> QED
      BY <1>0, <3>1
  <2> QED
    BY <1>4, <2>1
<1>6. Part = CHOOSE x : x = [w \in Workers |-> PartOf(x, w)]
  BY DEF Part, PartOf
<1>7. Part = [w \in Workers |-> PartOf(Part, w)]
  BY <1>5, <1>6
<1> QED
  BY <1>7

\* A part lies in the array, or is empty at its end.
PartIn(s) == s[1] \in Int /\ s[2] \in Int /\ 0 <= s[1] /\ s[1] <= s[2] + 1 /\ s[2] < size

LEMMA PartHalves ==
  ASSUME NEW s, PartIn(s)
  PROVE  s[1] <= Mid(s) + 1 /\ Mid(s) <= s[2] /\ Mid(s) \in Int
<1> DEFINE l == s[1]
           r == s[2]
<1>1. l \in Int /\ r \in Int /\ l <= r + 1
  BY DEF PartIn
<1> HIDE DEF l, r
<1>2. l <= (l + r) \div 2 + 1 /\ (l + r) \div 2 <= r /\ (l + r) \div 2 \in Int
  BY <1>1
<1> QED
  BY <1>2 DEF Mid, l, r

\* w creates v, or who creates v, and so on.
Under(w, v) == Len(w) <= Len(v) /\ \A k \in 1..Len(w) : v[k] = w[k]

LEMMA PartCreated ==
  ASSUME NEW u \in Workers, Len(u) < 3, NEW n \in {1, 2}
  PROVE  LET s == Part[u]
         IN Part[Append(u, n)] = IF n = 1 THEN <<s[1], Mid(s)>> ELSE <<Mid(s) + 1, s[2]>>
<1> DEFINE v == Append(u, n)
<1>1. v \in Workers /\ v # Root /\ Front(v) = u /\ Last(v) = n
  BY CreatedWorker
<1> HIDE DEF v
<1>2. Part[v] = IF n = 1 THEN <<Part[u][1], Mid(Part[u])>> ELSE <<Mid(Part[u]) + 1, Part[u][2]>>
  BY <1>1, PartStep DEF PartOf
<1> QED
  BY <1>2 DEF v

LEMMA PartsIn ==
  \A w \in Workers : PartIn(Part[w]) /\ Part[w] \in Parts
<1> DEFINE Good == {d \in Nat : \A w \in Workers : Len(w) = d => PartIn(Part[w]) /\ Part[w] = <<Part[w][1], Part[w][2]>>}
<1>0. size \in Nat /\ size # 0
  BY SortAssumption
<1>1. 0 \in Good
  <2>1. \A w \in Workers : Len(w) = 0 => w = Root
    BY WorkerFacts
  <2>2. Part[Root] = <<0, size - 1>>
    BY PartStep, WorkerFacts DEF PartOf
  <2>3. PartIn(Part[Root]) /\ Part[Root] = <<Part[Root][1], Part[Root][2]>>
    BY <1>0, <2>2 DEF PartIn
  <2> QED
    BY <2>1, <2>3
<1>2. ASSUME NEW d \in Good
      PROVE  d + 1 \in Good
  <2> SUFFICES ASSUME NEW w \in Workers, Len(w) = d + 1
               PROVE  PartIn(Part[w]) /\ Part[w] = <<Part[w][1], Part[w][2]>>
    OBVIOUS
  <2>1. w # Root
    <3>1. Len(Root) = 0 /\ d \in Nat
      BY DEF Root
    <3>2. d + 1 # 0
      BY <3>1
    <3> QED
      BY <3>1, <3>2
  <2>2. PICK u \in Workers, n \in {1, 2} : w = Append(u, n) /\ Len(u) < 3
    BY <2>1, WorkersCreator
  <2>3. Len(w) = Len(u) + 1 /\ Len(u) \in Int
    BY <2>2, CreatedWorker, WorkerFacts
  <2>4. Len(u) = d
    BY <2>3
  <2>5. PartIn(Part[u])
    BY <2>4
  <2>6. Part[w] = IF n = 1 THEN <<Part[u][1], Mid(Part[u])>> ELSE <<Mid(Part[u]) + 1, Part[u][2]>>
    BY <2>2, PartCreated
  <2>7. Part[u][1] <= Mid(Part[u]) + 1 /\ Mid(Part[u]) <= Part[u][2] /\ Mid(Part[u]) \in Int
    BY <2>5, PartHalves
  <2>8. CASE n = 1
    <3>1. Part[w] = <<Part[u][1], Mid(Part[u])>>
      BY <2>6, <2>8
    <3> QED
      BY <1>0, <2>5, <2>7, <3>1 DEF PartIn
  <2>9. CASE n # 1
    <3>1. Part[w] = <<Mid(Part[u]) + 1, Part[u][2]>>
      BY <2>6, <2>9
    <3> QED
      BY <1>0, <2>5, <2>7, <3>1 DEF PartIn
  <2> QED
    BY <2>8, <2>9
<1>3. \A d \in Nat : d \in Good
  <2>1. Good \in SUBSET Nat
    OBVIOUS
  <2> HIDE DEF Good
  <2> QED
    BY <1>1, <1>2, <2>1, Induct
<1>4. ASSUME NEW w \in Workers
      PROVE  PartIn(Part[w]) /\ Part[w] \in Parts
  <2>1. Len(w) \in Nat
    BY WorkerFacts
  <2>2. PartIn(Part[w]) /\ Part[w] = <<Part[w][1], Part[w][2]>>
    BY <1>3, <2>1
  <2>3. Part[w][1] \in 0..size /\ Part[w][2] \in -1..(size - 1)
    BY <1>0, <2>2 DEF PartIn
  <2> QED
    BY <2>2, <2>3 DEF Parts
<1> QED
  BY <1>4

\* Between w and one under it is whoever created the latter.
LEMMA UnderCreator ==
  ASSUME NEW w \in Workers, NEW u \in Workers, Len(u) < 3, NEW n \in {1, 2}
  PROVE  LET v == Append(u, n)
         IN /\ Under(w, u) => Under(w, v) /\ v # w
            /\ Under(w, v) => v = w \/ Under(w, u)
            /\ Under(u, v)
<1> DEFINE v == Append(u, n)
<1>1. /\ v \in Workers /\ Len(v) = Len(u) + 1 /\ \A k \in 1..Len(u) : v[k] = u[k]
  BY CreatedWorker
<1>2. Len(w) \in Nat /\ Len(u) \in Nat /\ v \in Seq({1, 2}) /\ w \in Seq({1, 2})
  BY <1>1, WorkerFacts
<1> HIDE DEF v
<1>3. ASSUME Under(w, u)
      PROVE  Under(w, v) /\ v # w
  <2>1. Len(w) <= Len(u) /\ \A k \in 1..Len(w) : k \in 1..Len(u)
    BY <1>2, <1>3 DEF Under
  <2>2. Len(w) <= Len(v) /\ Len(v) # Len(w)
    BY <1>1, <1>2, <2>1
  <2>3. \A k \in 1..Len(w) : v[k] = w[k]
    BY <1>1, <1>3, <2>1 DEF Under
  <2> QED
    BY <2>2, <2>3 DEF Under
<1>4. ASSUME Under(w, v), v # w
      PROVE  Under(w, u)
  <2>1. Len(w) <= Len(v) /\ \A k \in 1..Len(w) : v[k] = w[k]
    BY <1>4 DEF Under
  <2>2. Len(w) # Len(v)
    <3> SUFFICES ASSUME Len(w) = Len(v)
                 PROVE  FALSE
      OBVIOUS
    <3>1. v = w
      BY <1>2, <2>1, SeqEqual
    <3> QED
      BY <1>4, <3>1
  <2>3. Len(w) <= Len(u) /\ \A k \in 1..Len(w) : k \in 1..Len(u)
    BY <1>1, <1>2, <2>1, <2>2
  <2> QED
    BY <1>1, <2>1, <2>3 DEF Under
<1>5. Under(u, v)
  BY <1>1, <1>2 DEF Under
<1> QED
  BY <1>3, <1>4, <1>5 DEF v

LEMMA UnderSelf == \A w \in Workers : Under(w, w)
BY WorkerFacts DEF Under

\* What is sorted under a worker is in the worker's part.
LEMMA UnderInside ==
  ASSUME NEW w \in Workers, NEW v \in Workers, Under(w, v)
  PROVE  Part[w][1] <= Part[v][1] /\ Part[v][2] <= Part[w][2]
<1> DEFINE P(x) == Part[w][1] <= Part[x][1] /\ Part[x][2] <= Part[w][2]
           Good == {d \in Nat : \A x \in Workers : Under(w, x) /\ Len(x) = d => P(x)}
<1>0. Part[w][1] \in Int /\ Part[w][2] \in Int
  BY PartsIn DEF PartIn
<1>1. P(w)
  BY <1>0
<1>2. 0 \in Good
  <2>1. ASSUME NEW x \in Workers, Under(w, x), Len(x) = 0
        PROVE  x = w
    <3>1. Len(w) \in 0..3 /\ Len(w) <= Len(x)
      BY <2>1, WorkerFacts DEF Under
    <3>2. Len(w) = 0
      BY <2>1, <3>1
    <3> QED
      BY <2>1, <3>2, WorkerFacts
  <2> QED
    BY <1>1, <2>1
<1>3. ASSUME NEW d \in Good
      PROVE  d + 1 \in Good
  <2> SUFFICES ASSUME NEW x \in Workers, Under(w, x), Len(x) = d + 1, x # w
               PROVE  P(x)
    BY <1>1
  <2>1. x # Root
    <3>1. Len(Root) = 0 /\ d \in Nat
      BY DEF Root
    <3>2. d + 1 # 0
      BY <3>1
    <3> QED
      BY <3>1, <3>2
  <2>2. PICK u \in Workers, n \in {1, 2} : x = Append(u, n) /\ Len(u) < 3
    BY <2>1, WorkersCreator
  <2>3. Len(x) = Len(u) + 1 /\ Len(u) \in Int
    BY <2>2, CreatedWorker, WorkerFacts
  <2>4. Len(u) = d
    BY <2>3
  <2>5. Under(w, u)
    BY <2>2, UnderCreator
  <2>6. P(u)
    BY <2>4, <2>5
  <2>7. PartIn(Part[u])
    BY PartsIn
  <2>8. Part[x] = IF n = 1 THEN <<Part[u][1], Mid(Part[u])>> ELSE <<Mid(Part[u]) + 1, Part[u][2]>>
    BY <2>2, PartCreated
  <2>9. Part[u][1] <= Mid(Part[u]) + 1 /\ Mid(Part[u]) <= Part[u][2] /\ Mid(Part[u]) \in Int
    BY <2>7, PartHalves
  <2>10. CASE n = 1
    <3>1. Part[x][1] = Part[u][1] /\ Part[x][2] = Mid(Part[u])
      BY <2>8, <2>10
    <3> QED
      BY <1>0, <2>6, <2>7, <2>9, <3>1 DEF PartIn
  <2>11. CASE n # 1
    <3>1. Part[x][1] = Mid(Part[u]) + 1 /\ Part[x][2] = Part[u][2]
      BY <2>8, <2>11
    <3> QED
      BY <1>0, <2>6, <2>7, <2>9, <3>1 DEF PartIn
  <2> QED
    BY <2>10, <2>11
<1>4. Len(v) \in Nat
  BY WorkerFacts
<1>5. Len(v) \in Good
  <2>1. Good \in SUBSET Nat
    OBVIOUS
  <2> HIDE DEF Good
  <2> QED
    BY <1>2, <1>3, <1>4, <2>1, Induct
<1> QED
  BY <1>5

\* Whoever is under a worker, and is not it, is under one that it creates.
LEMMA UnderChild ==
  ASSUME NEW w \in Workers, NEW v \in Workers, Under(w, v), v # w
  PROVE  Len(w) < 3 /\ Len(w) < Len(v) /\ \E n \in {1, 2} : v[Len(w) + 1] = n /\ Under(Append(w, n), v)
<1> DEFINE k == Len(w) + 1
           y == Append(w, v[k])
<1>1. /\ Len(w) \in 0..3 /\ Len(v) \in 0..3 /\ w \in Seq({1, 2}) /\ v \in Seq({1, 2})
  BY WorkerFacts
<1>2. Len(w) <= Len(v) /\ \A i \in 1..Len(w) : v[i] = w[i]
  BY DEF Under
<1>3. Len(w) # Len(v)
  <2> SUFFICES ASSUME Len(w) = Len(v)
               PROVE  FALSE
    OBVIOUS
  <2>1. w = v
    BY <1>1, <1>2, SeqEqual
  <2> QED
    BY <2>1
<1>4. Len(w) < Len(v) /\ Len(w) < 3 /\ k \in 1..Len(v)
  <2>1. \A i \in 0..3, j \in 0..3 : i <= j /\ i # j => i < j /\ i < 3 /\ i + 1 \in 1..j
    OBVIOUS
  <2> QED
    BY <1>1, <1>2, <1>3, <2>1
<1>5. v[k] \in {1, 2}
  BY <1>1, <1>4
<1>6. y \in Workers /\ Len(y) = k /\ y[k] = v[k] /\ \A i \in 1..Len(w) : y[i] = w[i]
  BY <1>4, <1>5, CreatedWorker
<1>7. Under(y, v)
  <2>1. \A i \in 1..k : i = k \/ i \in 1..Len(w)
    BY <1>1
  <2>2. Len(y) <= Len(v)
    BY <1>1, <1>4, <1>6
  <2> HIDE DEF y, k
  <2> QED
    BY <1>2, <1>6, <2>1, <2>2 DEF Under
<1> QED
  BY <1>4, <1>5, <1>7

\* Workers neither of which is under the other have parts beside each other.
LEMMA UnderElse ==
  ASSUME NEW w \in Workers, NEW v \in Workers, ~Under(w, v), ~Under(v, w)
  PROVE  Part[w][2] < Part[v][1] \/ Part[v][2] < Part[w][1]
<1> DEFINE Good == {d \in Nat : \A x \in Workers : Len(x) = d /\ Under(x, w) => Under(x, v)}
<1>0. /\ Len(w) \in 0..3 /\ Len(v) \in 0..3 /\ w \in Seq({1, 2}) /\ v \in Seq({1, 2})
  BY WorkerFacts
<1>1. 0 \in Good
  <2>1. \A x \in Workers : Len(x) = 0 => Under(x, v)
    BY <1>0 DEF Under
  <2> QED
    BY <2>1
<1>2. Len(w) \notin Good
  BY <1>0, UnderSelf
<1>3. PICK d \in Good : d + 1 \notin Good
  <2>1. Good \in SUBSET Nat /\ Len(w) \in Nat
    BY <1>0
  <2> HIDE DEF Good
  <2> QED
    BY <1>1, <1>2, <2>1, Induct
<1>4. PICK x \in Workers : Len(x) = d + 1 /\ Under(x, w) /\ ~Under(x, v)
  BY <1>3
<1>5. x # Root
  <2>1. Len(Root) = 0 /\ d \in Nat
    BY DEF Root
  <2>2. d + 1 # 0
    BY <2>1
  <2> QED
    BY <1>4, <2>1, <2>2
<1>6. PICK u \in Workers, n \in {1, 2} : x = Append(u, n) /\ Len(u) < 3
  BY <1>5, WorkersCreator
<1>7. Len(x) = Len(u) + 1 /\ Len(u) \in Int /\ x[Len(x)] = n /\ \A k \in 1..Len(u) : x[k] = u[k]
  BY <1>6, CreatedWorker, WorkerFacts
<1>8. Len(u) = d /\ d \in Nat /\ Len(u) \in Nat
  BY <1>4, <1>7
<1>9. Under(u, w)
  <2>1. Len(x) <= Len(w) /\ \A k \in 1..Len(x) : w[k] = x[k]
    BY <1>4 DEF Under
  <2>2. Len(u) <= Len(w) /\ \A k \in 1..Len(u) : k \in 1..Len(x)
    BY <1>0, <1>7, <1>8, <2>1
  <2> QED
    BY <1>7, <2>1, <2>2 DEF Under
<1>10. Under(u, v)
  BY <1>8, <1>9
<1>11. u # v
  BY <1>9
<1> DEFINE k == Len(u) + 1
           y == Append(u, v[k])
<1>12. v[k] \in {1, 2} /\ Under(y, v)
  BY <1>10, <1>11, UnderChild
<1>13. y \in Workers
  BY <1>6, <1>12, CreatedWorker
<1>14. v[k] # n
  <2> SUFFICES ASSUME v[k] = n
               PROVE  FALSE
    OBVIOUS
  <2>1. y = x
    BY <1>6
  <2> QED
    BY <1>4, <1>12, <2>1
<1>15. /\ Part[x][1] <= Part[w][1] /\ Part[w][2] <= Part[x][2]
       /\ Part[y][1] <= Part[v][1] /\ Part[v][2] <= Part[y][2]
  BY <1>4, <1>12, <1>13, UnderInside
<1>16. Part[x][2] < Part[y][1] \/ Part[y][2] < Part[x][1]
  <2> DEFINE s == Part[u]
  <2>1. Part[x] = IF n = 1 THEN <<s[1], Mid(s)>> ELSE <<Mid(s) + 1, s[2]>>
    BY <1>6, PartCreated
  <2>2. Part[y] = IF v[k] = 1 THEN <<s[1], Mid(s)>> ELSE <<Mid(s) + 1, s[2]>>
    BY <1>6, <1>12, PartCreated
  <2>3. Mid(s) \in Int
    BY PartsIn, PartHalves
  <2>4. Mid(s) < Mid(s) + 1
    BY <2>3
  <2>5. (n = 1 /\ v[k] = 2) \/ (n = 2 /\ v[k] = 1)
    BY <1>12, <1>14
  <2> HIDE DEF s, y, k
  <2>6. CASE n = 1 /\ v[k] = 2
    <3>1. Part[x][2] = Mid(s) /\ Part[y][1] = Mid(s) + 1
      BY <2>1, <2>2, <2>6
    <3> QED
      BY <2>4, <3>1
  <2>7. CASE n = 2 /\ v[k] = 1
    <3>1. Part[y][2] = Mid(s) /\ Part[x][1] = Mid(s) + 1
      BY <2>1, <2>2, <2>7
    <3> QED
      BY <2>4, <3>1
  <2> QED
    BY <2>5, <2>6, <2>7
<1>17. /\ Part[x][1] \in Int /\ Part[x][2] \in Int /\ Part[y][1] \in Int /\ Part[y][2] \in Int
       /\ Part[v][1] \in Int /\ Part[v][2] \in Int /\ Part[w][1] \in Int /\ Part[w][2] \in Int
  BY <1>13, PartsIn DEF PartIn
<1> HIDE DEF y
<1> QED
  BY <1>15, <1>16, <1>17

----------------------------------------------------------------------------
(* The threads: whoever has threads under it that run waits for them.       *)

Waiting == {"id2", "idx2", "create2", "join1", "join2"}

TreeInv ==
  version = "threads" =>
    /\ \A w \in Workers, v \in Workers :
         Under(w, v) /\ v # w /\ place[v] \notin {"none", "done"} => place[w] \in Waiting
    /\ \A w \in Workers, v \in Workers :
         Under(w, v) /\ v # w /\ place[w] \in {"none", "sort"} \cup Early => place[v] = "none"
    /\ \A w \in Workers : place[w] \notin {"none", "sort", "done"} => Len(w) <= 2
    /\ \A w \in Workers : place[w] \in {"id2", "idx2", "create2"} => place[Append(w, 2)] = "none"
    /\ \A w \in Workers : place[w] \in {"join2", "merge"} => place[Append(w, 1)] = "done"
    /\ \A w \in Workers : place[w] = "merge" => place[Append(w, 2)] = "done"

LEMMA TreeInit == SortInit => TreeInv
<1> SUFFICES ASSUME SortInit, version = "threads"
             PROVE  TreeInv
  BY DEF TreeInv
<1>1. \A w \in Workers : place[w] = IF w = Root THEN "which" ELSE "none"
  BY DEF SortInit
<1>2. Len(Root) = 0
  BY DEF Root
<1>3. ASSUME NEW w \in Workers, NEW v \in Workers, Under(w, v), v # w
      PROVE  v # Root
  <2>1. Len(w) < Len(v) /\ Len(w) \in 0..3
    BY <1>3, UnderChild, WorkerFacts
  <2>2. Len(v) # 0
    BY <2>1, WorkerFacts
  <2> QED
    BY <1>2, <2>2
<1>4. \A w \in Workers : place[w] \in {"none", "which"} /\ (place[w] = "which" => Len(w) <= 2)
  BY <1>1, <1>2
<1> QED
  BY <1>1, <1>3, <1>4 DEF TreeInv

\* A step that moves one thread.
LEMMA TreeMove ==
  ASSUME TreeInv, version = "threads", version' = version, DOMAIN place = Workers,
         NEW w \in Workers, NEW to, place' = [place EXCEPT ![w] = to],
         place[w] \notin {"none", "done"}, to \notin {"none", "sort"},
         place[w] = "sort" => to = "done",
         to \in Early => place[w] \in Early,
         to \in {"id2", "idx2", "create2"} => place[w] \in {"id2", "idx2", "create2"},
         place[w] \in Waiting => \/ to \in Waiting
                                 \/ \A v \in Workers : Under(w, v) /\ v # w => place[v] \in {"none", "done"},
         to \in {"join2", "merge"} => place[Append(w, 1)] = "done",
         to = "merge" => place[Append(w, 2)] = "done"
  PROVE  TreeInv'
<1>1. \A v \in Workers : place'[v] = IF v = w THEN to ELSE place[v]
  OBVIOUS
<1>2. \A u \in Workers, n \in {1, 2} :
        Len(u) <= 2 => /\ place[Append(u, n)] = "done" => place'[Append(u, n)] = "done"
                       /\ place[Append(u, n)] = "none" => place'[Append(u, n)] = "none"
  <2> TAKE u \in Workers, n \in {1, 2}
  <2>1. Len(u) <= 2 => Len(u) < 3
    <3>1. Len(u) \in 0..3
      BY WorkerFacts
    <3> QED
      BY <3>1
  <2>2. Len(u) <= 2 => Append(u, n) \in Workers
    BY <2>1, CreatedWorker
  <2> QED
    BY <1>1, <2>2
<1>3. ASSUME NEW u \in Workers, NEW v \in Workers, Under(u, v), v # u, place'[v] \notin {"none", "done"}
      PROVE  place'[u] \in Waiting
  <2>1. place[v] \notin {"none", "done"}
    BY <1>1, <1>3
  <2>2. place[u] \in Waiting
    BY <1>3, <2>1 DEF TreeInv
  <2>3. CASE u = w
    BY <1>1, <1>3, <2>1, <2>2, <2>3
  <2> QED
    BY <1>1, <2>2, <2>3
<1>4. ASSUME NEW u \in Workers, NEW v \in Workers, Under(u, v), v # u,
             place'[u] \in {"none", "sort"} \cup Early
      PROVE  place'[v] = "none"
  <2>1. place[u] \in {"none", "sort"} \cup Early
    BY <1>1, <1>4
  <2>2. place[v] = "none"
    BY <1>4, <2>1 DEF TreeInv
  <2> QED
    BY <1>1, <2>2
<1>5. ASSUME NEW u \in Workers
      PROVE  /\ place'[u] \notin {"none", "sort", "done"} => Len(u) <= 2
             /\ place'[u] \in {"id2", "idx2", "create2"} => place'[Append(u, 2)] = "none"
             /\ place'[u] \in {"join2", "merge"} => place'[Append(u, 1)] = "done"
             /\ place'[u] = "merge" => place'[Append(u, 2)] = "done"
  <2>1. place'[u] \notin {"none", "sort", "done"} => place[u] \notin {"none", "sort", "done"}
    BY <1>1
  <2>2. place'[u] \in {"id2", "idx2", "create2"} => place[u] \in {"id2", "idx2", "create2"}
    BY <1>1
  <2>3. place'[u] \in {"join2", "merge"} => place[Append(u, 1)] = "done"
    BY <1>1 DEF TreeInv
  <2>4. place'[u] = "merge" => place[Append(u, 2)] = "done"
    BY <1>1 DEF TreeInv
  <2> QED
    BY <1>2, <2>1, <2>2, <2>3, <2>4 DEF TreeInv
<1> QED
  BY <1>3, <1>4, <1>5 DEF TreeInv

LEMMA TreeCreate ==
  ASSUME TreeInv, CountInv, version = "threads",
         NEW w \in Workers, NEW n \in {1, 2}, NEW from, NEW to, create(w, n, from, to),
         (n = 1 /\ from = "create1" /\ to = "id2") \/ (n = 2 /\ from = "create2" /\ to = "join1")
  PROVE  TreeInv' /\ Len(w) <= 2 /\ place[Append(w, n)] = "none"
<1> DEFINE c == Append(w, n)
           new == IF f[w] THEN "which" ELSE "sort"
<1>1. /\ place[w] = from /\ place' = [place EXCEPT ![w] = to, ![c] = new]
      /\ UNCHANGED <<version, f>>
  BY DEF create, Is
<1>2. Len(w) <= 2
  BY <1>1 DEF TreeInv
<1>3. Len(w) \in 0..3
  BY WorkerFacts
<1>4. /\ c \in Workers /\ c # w /\ Under(w, c) /\ Len(c) = Len(w) + 1
      /\ \A v \in Workers : Under(v, c) => c = v \/ Under(v, w)
  <2>1. Len(w) < 3
    BY <1>2, <1>3
  <2> QED
    BY <2>1, CreatedWorker, UnderCreator, UnderSelf
<1>5. place[c] = "none"
  <2>1. CASE n = 1
    BY <1>1, <1>4, <2>1 DEF TreeInv, Early
  <2>2. CASE n = 2
    BY <1>1, <2>2 DEF TreeInv
  <2> QED
    BY <2>1, <2>2
<1>6. f[w] => Len(c) <= 2
  <2>1. f[w] => Len(w) <= 1
    BY DEF CountInv, Counting
  <2> QED
    BY <1>3, <1>4, <2>1
<1>7. \A v \in Workers : place'[v] = IF v = c THEN new ELSE IF v = w THEN to ELSE place[v]
  BY <1>1, <1>4 DEF CountInv, PlacesOK
<1> HIDE DEF c
<1>8. \A v \in Workers : Under(c, v) /\ v # c => place[v] = "none" /\ place'[v] = "none"
  <2>1. \A v \in Workers : Under(c, v) /\ v # c => place[v] = "none"
    BY <1>4, <1>5 DEF TreeInv
  <2>2. place[w] # "none"
    BY <1>1
  <2> QED
    BY <1>7, <2>1, <2>2
<1>9. to \in Waiting /\ to \notin {"none", "sort"} \cup Early
  BY DEF Waiting, Early
<1>10. from \notin {"none", "done"} /\ from \notin {"none", "sort", "done"}
  OBVIOUS
<1>11. ASSUME NEW u \in Workers, NEW v \in Workers, Under(u, v), v # u, place'[v] \notin {"none", "done"}
       PROVE  place'[u] \in Waiting
  <2>1. u # c
    BY <1>8, <1>11
  <2>2. CASE u = w
    BY <1>7, <1>9, <2>1, <2>2
  <2>3. CASE u # w
    <3>1. place[u] \in Waiting
      <4>1. CASE v = c
        <5>1. Under(u, w)
          BY <1>4, <1>11, <4>1
        <5> QED
          BY <1>1, <1>10, <2>3, <5>1 DEF TreeInv
      <4>2. CASE v # c
        <5>1. place[v] \notin {"none", "done"}
          BY <1>1, <1>7, <1>10, <1>11, <4>2
        <5> QED
          BY <1>11, <5>1 DEF TreeInv
      <4> QED
        BY <4>1, <4>2
    <3> QED
      BY <1>7, <2>1, <2>3, <3>1
  <2> QED
    BY <2>2, <2>3
<1>12. ASSUME NEW u \in Workers, NEW v \in Workers, Under(u, v), v # u,
              place'[u] \in {"none", "sort"} \cup Early
       PROVE  place'[v] = "none"
  <2>1. CASE u = c
    BY <1>8, <1>12, <2>1
  <2>2. CASE u # c
    <3>1. u # w /\ place[u] \in {"none", "sort"} \cup Early
      BY <1>7, <1>9, <1>12, <2>2
    <3>2. place[v] = "none"
      BY <1>12, <3>1 DEF TreeInv
    <3>3. v # w
      BY <1>1, <1>10, <3>2
    <3>4. v # c
      <4> SUFFICES ASSUME v = c
                   PROVE  FALSE
        OBVIOUS
      <4>1. Under(u, w)
        BY <1>4, <1>12
      <4>2. place[w] = "none"
        BY <3>1, <4>1 DEF TreeInv
      <4> QED
        BY <1>1, <1>10, <4>2
    <3> QED
      BY <1>7, <3>2, <3>3, <3>4
  <2> QED
    BY <2>1, <2>2
<1>13. ASSUME NEW u \in Workers
       PROVE  /\ place'[u] \notin {"none", "sort", "done"} => Len(u) <= 2
              /\ place'[u] \in {"id2", "idx2", "create2"} => place'[Append(u, 2)] = "none"
              /\ place'[u] \in {"join2", "merge"} => place'[Append(u, 1)] = "done"
              /\ place'[u] = "merge" => place'[Append(u, 2)] = "done"
  <2>1. CASE u = c
    <3>1. place'[u] = new
      BY <1>7, <2>1
    <3> QED
      BY <1>6, <2>1, <3>1
  <2>2. CASE u = w
    <3>1. place'[u] = to
      BY <1>4, <1>7, <2>2
    <3>2. to = "id2" => place'[Append(u, 2)] = "none"
      <4> SUFFICES ASSUME to = "id2"
                   PROVE  place'[Append(w, 2)] = "none"
        BY <2>2
      <4> DEFINE d == Append(w, 2)
      <4>0. Len(w) < 3
        BY <1>2, <1>3
      <4>1. d \in Workers /\ d # w /\ Under(w, d) /\ Last(d) = 2
        BY <4>0, CreatedWorker, UnderCreator, UnderSelf
      <4>2. d # c
        <5>1. n = 1
          OBVIOUS
        <5>2. Last(c) = 1
          BY <4>0, <5>1, CreatedWorker DEF c
        <5> HIDE DEF d
        <5> QED
          BY <4>1, <5>2
      <4> HIDE DEF d
      <4>3. place[w] \in Early
        BY <1>1 DEF Early
      <4>4. place[d] = "none"
        BY <4>1, <4>3 DEF TreeInv
      <4>5. place'[d] = "none"
        BY <1>7, <4>1, <4>2, <4>4
      <4> QED
        BY <4>5 DEF d
    <3> QED
      BY <1>2, <2>2, <3>1, <3>2
  <2>3. CASE u # c /\ u # w
    <3>1. place'[u] = place[u]
      BY <1>7, <2>3
    <3>2. ASSUME NEW i \in {1, 2}, place[u] \notin {"none", "sort", "done"}
          PROVE  Append(u, i) \in Workers /\ Append(u, i) # c
      <4>1. Len(u) < 3
        <5>1. Len(u) <= 2 /\ Len(u) \in 0..3
          BY <3>2, WorkerFacts DEF TreeInv
        <5> QED
          BY <5>1
      <4>2. Append(u, i) \in Workers /\ Front(Append(u, i)) = u
        BY <4>1, CreatedWorker
      <4>3. Front(c) = w
        <5>1. Len(w) < 3
          BY <1>2, <1>3
        <5> QED
          BY <5>1, CreatedWorker DEF c
      <4> QED
        BY <2>3, <4>2, <4>3
    <3>3. ASSUME NEW i \in {1, 2}, place[u] \notin {"none", "sort", "done"}
          PROVE  /\ place[Append(u, i)] = "none" => place'[Append(u, i)] = "none"
                 /\ place[Append(u, i)] = "done" => place'[Append(u, i)] = "done"
      BY <1>1, <1>7, <1>10, <3>2, <3>3
    <3>4. place[u] \notin {"none", "sort", "done"} => Len(u) <= 2
      BY DEF TreeInv
    <3>5. place[u] \in {"id2", "idx2", "create2"} => place[Append(u, 2)] = "none"
      BY DEF TreeInv
    <3>6. place[u] \in {"join2", "merge"} => place[Append(u, 1)] = "done"
      BY DEF TreeInv
    <3>7. place[u] = "merge" => place[Append(u, 2)] = "done"
      BY DEF TreeInv
    <3> QED
      BY <3>1, <3>3, <3>4, <3>5, <3>6, <3>7
  <2> QED
    BY <2>1, <2>2, <2>3
<1>14. TreeInv'
  BY <1>11, <1>12, <1>13 DEF TreeInv
<1> QED
  BY <1>2, <1>5, <1>14 DEF c

LEMMA TreeStep == CountInv /\ TreeInv /\ [SortNext]_sortVars => TreeInv'
<1> SUFFICES ASSUME CountInv, TreeInv, [SortNext]_sortVars, version' = "threads"
             PROVE  TreeInv'
  BY DEF TreeInv
<1>1. version = "threads" /\ version' = version
  <2>1. version' = version
    BY DEF SortNext, sortVars, fork, wait, copy, singleProcessMergeSort, singleThreadedMergeSort,
           multiThreadedMergeSort, which, read, create, join, merge
  <2> QED
    BY <2>1
<1>2. place \in [Workers -> ThreadPlaces] /\ DOMAIN place = Workers
  BY <1>1 DEF CountInv, PlacesOK
<1>3. ~fork /\ ~wait /\ ~copy /\ \A w \in Workers : ~singleProcessMergeSort(w)
  <2>1. place[Root] \in ThreadPlaces
    BY <1>2, WorkerFacts
  <2>2. place[Root] \notin {"fork", "wait", "copy"}
    BY <2>1 DEF ThreadPlaces
  <2> QED
    BY <1>1, <2>2 DEF fork, wait, copy, singleProcessMergeSort, Is
<1>0. ASSUME NEW w \in Workers, NEW to \in {"join2", "merge", "done"}, place' = [place EXCEPT ![w] = to],
             place[w] \in {"sort", "join1", "join2", "merge"},
             place[w] = "sort" => to = "done",
             to = "join2" => place[Append(w, 1)] = "done",
             to = "merge" => place[Append(w, 1)] = "done" /\ place[Append(w, 2)] = "done",
             place[w] \in Waiting => \/ to \in Waiting
                                     \/ \A v \in Workers : Under(w, v) /\ v # w => place[v] \in {"none", "done"}
      PROVE  TreeInv'
  <2>1. to \notin Early
    BY DEF Early
  <2>2. place[w] \notin {"none", "done"} /\ to \notin {"none", "sort"} /\ to \notin {"id2", "idx2", "create2"}
    BY <1>0
  <2> QED
    BY <1>0, <1>1, <1>2, <2>1, <2>2, TreeMove
<1>4. CASE UNCHANGED sortVars
  BY <1>4 DEF sortVars, TreeInv
<1>5. ASSUME NEW w \in Workers, singleThreadedMergeSort(w)
      PROVE  TreeInv'
  <2>1. place[w] = "sort" /\ (place' = place \/ place' = [place EXCEPT ![w] = "done"])
    BY <1>5 DEF singleThreadedMergeSort, Is, Goto
  <2>2. CASE place' = place
    BY <1>1, <2>2 DEF TreeInv
  <2>3. CASE place' = [place EXCEPT ![w] = "done"]
    <3>1. "sort" \notin Waiting
      BY DEF Waiting
    <3> QED
      BY <1>0, <2>1, <2>3, <3>1
  <2> QED
    BY <2>1, <2>2, <2>3
<1>6. ASSUME NEW w \in Workers, which(w) \/ read(w)
      PROVE  TreeInv'
  <2>1. PICK from, to : /\ <<from, to>> \in {<<"which", "id1">>, <<"id1", "idx1">>, <<"idx1", "create1">>,
                                             <<"id2", "idx2">>, <<"idx2", "create2">>}
                        /\ place[w] = from /\ place' = [place EXCEPT ![w] = to]
    BY <1>6 DEF which, read, Is, Goto
  <2>2. /\ from \notin {"none", "done", "sort"} /\ to \notin {"none", "sort", "join2", "merge"}
        /\ to \in Early => from \in Early
        /\ to \in {"id2", "idx2", "create2"} => from \in {"id2", "idx2", "create2"}
        /\ from \in Waiting => to \in Waiting
    BY <2>1 DEF Early, Waiting
  <2> QED
    BY <1>1, <1>2, <2>1, <2>2, TreeMove
<1>7. ASSUME NEW w \in Workers, create(w, 1, "create1", "id2") \/ create(w, 2, "create2", "join1")
      PROVE  TreeInv'
  BY <1>1, <1>7, TreeCreate
<1>8. ASSUME NEW w \in Workers, join(w, 1, "join1", "join2")
      PROVE  TreeInv'
  <2>1. place[w] = "join1" /\ place' = [place EXCEPT ![w] = "join2"] /\ place[Append(w, 1)] = "done"
    BY <1>8 DEF join, Is, Goto
  <2>2. "join2" \in Waiting
    BY DEF Waiting
  <2> QED
    BY <1>0, <2>1, <2>2
<1>9. ASSUME NEW w \in Workers, join(w, 2, "join2", "merge")
      PROVE  TreeInv'
  <2>1. /\ place[w] = "join2" /\ place' = [place EXCEPT ![w] = "merge"]
        /\ place[Append(w, 1)] = "done" /\ place[Append(w, 2)] = "done"
    BY <1>1, <1>9 DEF join, Is, Goto, TreeInv
  <2>2. ASSUME NEW v \in Workers, Under(w, v), v # w
        PROVE  place[v] \in {"none", "done"}
    <3>1. PICK n \in {1, 2} : Len(w) < 3 /\ Under(Append(w, n), v)
      BY <2>2, UnderChild
    <3>2. Append(w, n) \in Workers /\ place[Append(w, n)] = "done"
      BY <2>1, <3>1, CreatedWorker
    <3>3. CASE v = Append(w, n)
      BY <3>2, <3>3
    <3>4. CASE v # Append(w, n)
      BY <1>1, <3>1, <3>2, <3>4 DEF TreeInv, Waiting
    <3> QED
      BY <3>3, <3>4
  <2> QED
    BY <1>0, <2>1, <2>2
<1>10. ASSUME NEW w \in Workers, merge(w)
       PROVE  TreeInv'
  <2>1. place[w] = "merge" /\ place' = [place EXCEPT ![w] = "done"]
    BY <1>10 DEF merge, Is, Goto
  <2>2. "merge" \notin Waiting
    BY DEF Waiting
  <2> QED
    BY <1>0, <2>1, <2>2
<1> QED
  BY <1>3, <1>4, <1>5, <1>6, <1>7, <1>8, <1>9, <1>10 DEF SortNext, multiThreadedMergeSort

\* What the threads that are done have sorted is sorted, and what the others that
\* sort have done of it.
SortedInv ==
  version = "threads" =>
    /\ input \in Arrays /\ arr \in Arrays /\ Reordered(arr, input)
    /\ \A w \in Workers : place[w] = "done" => SortedOn(arr, Part[w][1], Part[w][2])
    /\ \A w \in Workers : place[w] = "sort" => Progress(arr, todo[w], Part[w])

LEMMA SortedInit == SortInit => SortedInv
<1> SUFFICES ASSUME SortInit, version = "threads"
             PROVE  SortedInv
  BY DEF SortedInv
<1>1. input \in Arrays /\ arr = input
  BY SortAssumption DEF SortInit, Arrays, Indices
<1>2. \A w \in Workers : place[w] \notin {"done", "sort"}
  BY DEF SortInit
<1> QED
  BY <1>1, <1>2, ReorderedSame DEF SortedInv

\* What is sorted beside a part that changes.
LEMMA BesideKept ==
  ASSUME NEW a, NEW b, NEW s, NEW u \in Parts, PartIn(s), PartIn(u), s[2] < u[1] \/ u[2] < s[1],
         \A k \in Indices : k \notin s[1]..s[2] => b[k] = a[k]
  PROVE  /\ SortedOn(a, u[1], u[2]) => SortedOn(b, u[1], u[2])
         /\ \A t : Progress(a, t, u) => Progress(b, t, u)
<1>1. /\ s[1] \in Int /\ s[2] \in Int /\ u[1] \in Int /\ u[2] \in Int
      /\ 0 <= u[1] /\ u[2] < size /\ size \in Nat
  BY SortAssumption DEF PartIn
<1>2. \A k \in u[1]..u[2] : k \in Indices /\ k \notin s[1]..s[2]
  BY <1>1 DEF Indices
<1>3. \A k \in u[1]..u[2] : b[k] = a[k]
  BY <1>2
<1>4. u[1] <= u[1] /\ u[2] <= u[2]
  BY <1>1
<1>5. SortedOn(a, u[1], u[2]) => SortedOn(b, u[1], u[2])
  BY <1>1, <1>3, <1>4, SortedKept
<1> QED
  BY <1>3, <1>5, ProgressKept

\* Where nobody that works is under w, a thread that changes its part of the array
\* leaves alone what others have sorted and what they sort.
LEMMA OthersKept ==
  ASSUME TreeInv, version = "threads", NEW w \in Workers, place[w] \in {"sort", "merge"}, NEW b,
         \A k \in Indices : k \notin Part[w][1]..Part[w][2] => b[k] = arr[k],
         NEW v \in Workers, v # w, place[v] \in {"sort", "done"}, place[w] = "merge" => ~Under(w, v)
  PROVE  /\ SortedOn(arr, Part[v][1], Part[v][2]) => SortedOn(b, Part[v][1], Part[v][2])
         /\ \A t : Progress(arr, t, Part[v]) => Progress(b, t, Part[v])
<1>1. ~Under(v, w)
  <2>1. place[v] \notin Waiting
    BY DEF Waiting
  <2> QED
    BY <2>1 DEF TreeInv
<1>2. ~Under(w, v)
  BY DEF TreeInv
<1>3. Part[w][2] < Part[v][1] \/ Part[v][2] < Part[w][1]
  BY <1>1, <1>2, UnderElse
<1>4. PartIn(Part[w]) /\ PartIn(Part[v]) /\ Part[v] \in Parts
  BY PartsIn
<1> QED
  BY <1>3, <1>4, BesideKept

\* What the next merge of a single-threaded sort does to the array.
LEMMA StepSorts ==
  ASSUME NEW a \in Arrays, NEW b, NEW t, NEW s \in Parts, Progress(a, t, s), t # <<>>,
         b = Merge(a, Head(t)[1], Head(t)[2], Head(t)[3])
  PROVE  /\ b \in Arrays /\ Reordered(b, a) /\ Progress(b, Tail(t), s)
         /\ \A k \in Indices : k \notin s[1]..s[2] => b[k] = a[k]
<1> DEFINE e == Head(t)
<1>1. Bounds(e[1], e[2], e[3]) /\ s[1] <= e[1] /\ e[3] <= s[2] /\ Progress(b, Tail(t), s)
  BY ProgressStep
<1>2. b = Merge(a, e[1], e[2], e[3])
  OBVIOUS
<1> HIDE DEF e
<1>3. b \in Arrays /\ Reordered(b, a) /\ \A k \in Indices : k \notin e[1]..e[3] => b[k] = a[k]
  BY <1>1, <1>2, MergeReorders
<1>4. s[1] \in Int /\ s[2] \in Int
  BY SortAssumption DEF Parts
<1>5. \A k \in Indices : k \notin s[1]..s[2] => k \notin e[1]..e[3]
  BY <1>1, <1>4 DEF Bounds, Indices
<1> QED
  BY <1>1, <1>3, <1>5

\* What the last merge does to a part whose halves are sorted.
LEMMA MergeHalves ==
  ASSUME NEW a \in Arrays, NEW s, PartIn(s), SortedOn(a, s[1], Mid(s)), SortedOn(a, Mid(s) + 1, s[2]),
         NEW b, b = Merge(a, s[1], Mid(s), s[2])
  PROVE  /\ b \in Arrays /\ Reordered(b, a) /\ SortedOn(b, s[1], s[2])
         /\ \A k \in Indices : k \notin s[1]..s[2] => b[k] = a[k]
<1>1. Bounds(s[1], Mid(s), s[2])
  BY PartHalves DEF PartIn, Bounds
<1> QED
  BY <1>1, MergeSorts, MergeReorders

\* A step that changes a worker's part of the array, and sorts it or goes on sorting it.
LEMMA SortedWrite ==
  ASSUME CountInv, TreeInv, SortedInv, version = "threads",
         NEW w \in Workers, place[w] \in {"sort", "merge"},
         arr' \in Arrays, Reordered(arr', arr),
         \A k \in Indices : k \notin Part[w][1]..Part[w][2] => arr'[k] = arr[k],
         UNCHANGED <<version, input>>, \A v \in Workers : v # w => place'[v] = place[v] /\ todo'[v] = todo[v],
         \/ place'[w] = "done" /\ SortedOn(arr', Part[w][1], Part[w][2])
         \/ place[w] = "sort" /\ place'[w] = "sort" /\ Progress(arr', todo'[w], Part[w])
  PROVE  SortedInv'
<1>1. input \in Arrays /\ arr \in Arrays /\ Reordered(arr, input)
  BY DEF SortedInv
<1>2. Reordered(arr', input)
  BY <1>1, ReorderedAgain
<1>3. ASSUME NEW v \in Workers, v # w, place[v] = "done"
      PROVE  SortedOn(arr', Part[v][1], Part[v][2])
  <2>1. SortedOn(arr, Part[v][1], Part[v][2])
    BY <1>3 DEF SortedInv
  <2>2. CASE place[w] = "merge" /\ Under(w, v)
    <3>1. Part[w][1] <= Part[v][1] /\ Part[v][2] <= Part[w][2]
      BY <2>2, UnderInside
    <3>2. SortedOn(arr', Part[w][1], Part[w][2])
      BY <2>2
    <3>3. /\ Part[w][1] \in Int /\ Part[w][2] \in Int /\ Part[v][1] \in Int /\ Part[v][2] \in Int
      BY PartsIn DEF PartIn
    <3> QED
      BY <3>1, <3>2, <3>3, SortedKept
  <2>3. CASE ~(place[w] = "merge" /\ Under(w, v))
    BY <1>3, <2>1, <2>3, OthersKept
  <2> QED
    BY <2>2, <2>3
<1>4. ASSUME NEW v \in Workers, v # w, place[v] = "sort"
      PROVE  Progress(arr', todo[v], Part[v])
  <2>1. Progress(arr, todo[v], Part[v])
    BY <1>4 DEF SortedInv
  <2>2. place[w] = "merge" => ~Under(w, v)
    BY <1>4 DEF TreeInv, Waiting
  <2> QED
    BY <1>4, <2>1, <2>2, OthersKept
<1>5. ASSUME NEW v \in Workers
      PROVE  /\ place'[v] = "done" => SortedOn(arr', Part[v][1], Part[v][2])
             /\ place'[v] = "sort" => Progress(arr', todo'[v], Part[v])
  <2>1. CASE v = w
    BY <2>1
  <2>2. CASE v # w
    BY <1>3, <1>4, <2>2
  <2> QED
    BY <2>1, <2>2
<1> QED
  BY <1>1, <1>2, <1>5 DEF SortedInv

LEMMA SortedStep == CountInv /\ TreeInv /\ SortedInv /\ [SortNext]_sortVars => SortedInv'
<1> SUFFICES ASSUME CountInv, TreeInv, SortedInv, [SortNext]_sortVars, version' = "threads"
             PROVE  SortedInv'
  BY DEF SortedInv
<1>1. version = "threads" /\ version' = version
  <2>1. version' = version
    BY DEF SortNext, sortVars, fork, wait, copy, singleProcessMergeSort, singleThreadedMergeSort,
           multiThreadedMergeSort, which, read, create, join, merge
  <2> QED
    BY <2>1
<1>2. place \in [Workers -> ThreadPlaces] /\ DOMAIN place = Workers /\ DOMAIN todo = Workers
  BY <1>1 DEF CountInv, PlacesOK
<1>3. ~fork /\ ~wait /\ ~copy /\ \A w \in Workers : ~singleProcessMergeSort(w)
  <2>1. place[Root] \in ThreadPlaces
    BY <1>2, WorkerFacts
  <2>2. place[Root] \notin {"fork", "wait", "copy"}
    BY <2>1 DEF ThreadPlaces
  <2> QED
    BY <1>1, <2>2 DEF fork, wait, copy, singleProcessMergeSort, Is
<1>4. arr \in Arrays
  BY <1>1 DEF SortedInv
<1>5. ASSUME UNCHANGED <<input, arr, todo>>,
             \A v \in Workers : place'[v] \in {"done", "sort"} => place'[v] = place[v]
      PROVE  SortedInv'
  BY <1>1, <1>5 DEF SortedInv
<1>6. CASE UNCHANGED sortVars
  <2>1. UNCHANGED <<input, arr, todo, place>>
    BY <1>6 DEF sortVars, locals
  <2> QED
    BY <1>5, <2>1
<1>7. ASSUME NEW w \in Workers, which(w) \/ read(w) \/ join(w, 1, "join1", "join2") \/ join(w, 2, "join2", "merge")
      PROVE  SortedInv'
  <2>1. PICK to \in {"id1", "idx1", "create1", "idx2", "create2", "join2", "merge"} :
          place' = [place EXCEPT ![w] = to]
    BY <1>7 DEF which, read, join, Goto
  <2>2. UNCHANGED <<input, arr, todo>>
    BY <1>7 DEF which, read, join, locals
  <2> QED
    BY <1>2, <1>5, <2>1, <2>2
<1>8. ASSUME NEW w \in Workers, NEW n \in {1, 2}, NEW from, NEW to, create(w, n, from, to),
             (n = 1 /\ from = "create1" /\ to = "id2") \/ (n = 2 /\ from = "create2" /\ to = "join1")
      PROVE  SortedInv'
  <2> DEFINE c == Append(w, n)
  <2>1. Len(w) <= 2 /\ place[c] = "none"
    BY <1>1, <1>8, TreeCreate
  <2>2. c \in Workers /\ c # w
    <3>1. Len(w) < 3
      <4>1. Len(w) \in 0..3
        BY WorkerFacts
      <4> QED
        BY <2>1, <4>1
    <3> QED
      BY <3>1, CreatedWorker, WorkerFacts
  <2>3. /\ place' = [place EXCEPT ![w] = to, ![c] = IF f[w] THEN "which" ELSE "sort"]
        /\ todo' = [todo EXCEPT ![c] = IF f[w] THEN <<>> ELSE Merges[Part[c]]]
        /\ UNCHANGED <<input, arr>>
    BY <1>8 DEF create
  <2>4. to \notin {"done", "sort"}
    BY <1>8
  <2> HIDE DEF c
  <2>5. \A v \in Workers : v # c => /\ todo'[v] = todo[v]
                                    /\ place'[v] \in {"done", "sort"} => place'[v] = place[v]
    BY <1>2, <2>2, <2>3, <2>4
  <2>6. /\ place'[c] # "done"
        /\ place'[c] = "sort" => todo'[c] = Merges[Part[c]]
    BY <1>2, <2>2, <2>3
  <2>7. place'[c] = "sort" => Progress(arr', todo'[c], Part[c])
    BY <2>2, <2>6, PartsIn, ProgressStart
  <2>8. ASSUME NEW v \in Workers
        PROVE  /\ place'[v] = "done" => SortedOn(arr', Part[v][1], Part[v][2])
               /\ place'[v] = "sort" => Progress(arr', todo'[v], Part[v])
    <3>1. CASE v = c
      BY <2>6, <2>7, <3>1
    <3>2. CASE v # c
      BY <1>1, <2>3, <2>5, <3>2 DEF SortedInv
    <3> QED
      BY <3>1, <3>2
  <2> QED
    BY <1>1, <2>3, <2>8 DEF SortedInv
<1>9. ASSUME NEW w \in Workers, singleThreadedMergeSort(w)
      PROVE  SortedInv'
  <2>1. /\ place[w] = "sort" /\ UNCHANGED <<version, input>> /\ Progress(arr, todo[w], Part[w])
        /\ Part[w] \in Parts
    BY <1>1, <1>9, PartsIn DEF singleThreadedMergeSort, Is, SortedInv
  <2>2. CASE todo[w] = <<>>
    <3>1. place' = [place EXCEPT ![w] = "done"] /\ UNCHANGED <<arr, todo>>
      BY <1>9, <2>2 DEF singleThreadedMergeSort, Goto
    <3>2. \A v \in Workers : v # w => place'[v] = place[v] /\ todo'[v] = todo[v]
      BY <1>2, <3>1
    <3>3. place'[w] = "done"
      BY <1>2, <3>1
    <3>4. SortedOn(arr', Part[w][1], Part[w][2])
      BY <2>1, <2>2, <3>1, ProgressEnd
    <3>5. arr' \in Arrays /\ Reordered(arr', arr)
      BY <1>4, <3>1, ReorderedSame
    <3> QED
      BY <1>1, <2>1, <3>1, <3>2, <3>3, <3>4, <3>5, SortedWrite
  <2>3. CASE todo[w] # <<>>
    <3>1. /\ place' = place /\ todo' = [todo EXCEPT ![w] = Tail(@)]
          /\ arr' = Merge(arr, Head(todo[w])[1], Head(todo[w])[2], Head(todo[w])[3])
      BY <1>9, <2>3 DEF singleThreadedMergeSort, Step
    <3>2. \A v \in Workers : v # w => place'[v] = place[v] /\ todo'[v] = todo[v]
      BY <1>2, <3>1
    <3>3. place'[w] = "sort" /\ todo'[w] = Tail(todo[w])
      BY <1>2, <2>1, <3>1
    <3>4. /\ arr' \in Arrays /\ Reordered(arr', arr) /\ Progress(arr', Tail(todo[w]), Part[w])
          /\ \A k \in Indices : k \notin Part[w][1]..Part[w][2] => arr'[k] = arr[k]
      BY <1>4, <2>1, <2>3, <3>1, StepSorts
    <3> QED
      BY <1>1, <2>1, <3>2, <3>3, <3>4, SortedWrite
  <2> QED
    BY <2>2, <2>3
<1>10. ASSUME NEW w \in Workers, merge(w)
       PROVE  SortedInv'
  <2> DEFINE s == Part[w]
  <2>1. /\ place[w] = "merge" /\ place' = [place EXCEPT ![w] = "done"] /\ UNCHANGED <<version, input, todo>>
        /\ arr' = Merge(arr, s[1], Mid(s), s[2])
    BY <1>10 DEF merge, Is, Goto, locals
  <2>2. Len(w) < 3 /\ place[Append(w, 1)] = "done" /\ place[Append(w, 2)] = "done"
    <3>1. Len(w) <= 2 /\ Len(w) \in 0..3
      BY <1>1, <2>1, WorkerFacts DEF TreeInv
    <3> QED
      BY <1>1, <2>1, <3>1 DEF TreeInv
  <2>3. /\ Append(w, 1) \in Workers /\ Append(w, 2) \in Workers
        /\ Part[Append(w, 1)] = <<s[1], Mid(s)>> /\ Part[Append(w, 2)] = <<Mid(s) + 1, s[2]>>
    BY <2>2, CreatedWorker, PartCreated
  <2>4. SortedOn(arr, s[1], Mid(s)) /\ SortedOn(arr, Mid(s) + 1, s[2])
    <3>1. /\ SortedOn(arr, Part[Append(w, 1)][1], Part[Append(w, 1)][2])
          /\ SortedOn(arr, Part[Append(w, 2)][1], Part[Append(w, 2)][2])
      BY <1>1, <2>2, <2>3 DEF SortedInv
    <3> HIDE DEF s
    <3> QED
      BY <2>3, <3>1
  <2>5. PartIn(s)
    BY PartsIn
  <2>6. /\ arr' \in Arrays /\ Reordered(arr', arr) /\ SortedOn(arr', s[1], s[2])
        /\ \A k \in Indices : k \notin s[1]..s[2] => arr'[k] = arr[k]
    <3> HIDE DEF s
    <3> QED
      BY <1>4, <2>1, <2>4, <2>5, MergeHalves
  <2>7. \A v \in Workers : v # w => place'[v] = place[v] /\ todo'[v] = todo[v]
    BY <1>2, <2>1
  <2>8. place'[w] = "done"
    BY <1>2, <2>1
  <2> QED
    BY <1>1, <2>1, <2>6, <2>7, <2>8, SortedWrite
<1>11. ASSUME NEW w \in Workers, create(w, 1, "create1", "id2") \/ create(w, 2, "create2", "join1")
       PROVE  SortedInv'
  BY <1>8, <1>11
<1> QED
  BY <1>3, <1>6, <1>7, <1>9, <1>10, <1>11 DEF SortNext, multiThreadedMergeSort

----------------------------------------------------------------------------
(* The processes: the parent and its child sort halves of the shared memory. *)

SharedInv ==
  version = "processes" =>
    /\ input \in Arrays
    /\ \A w \in Workers : w # Root /\ w # Child => place[w] = "none"
    /\ place[Root] # "none"
    /\ place[Root] \in {"fork", "exit"} => place[Child] = "none"
    /\ place[Root] = "fork" => arr = input
    /\ place[Root] \in {"sort", "wait", "copy"} => mem \in Arrays /\ Reordered(mem, input)
    /\ place[Root] = "sort" => Progress(mem, todo[Root], Part[<<2>>])
    /\ place[Root] = "wait" => SortedOn(mem, Part[<<2>>][1], Part[<<2>>][2])
    /\ place[Root] \in {"sort", "wait"} =>
         \/ place[Child] = "sort" /\ Progress(mem, todo[Child], Part[Child])
         \/ place[Child] = "exit" /\ SortedOn(mem, Part[Child][1], Part[Child][2])
    /\ place[Root] \in {"copy", "done"} => place[Child] = "exit"
    /\ place[Root] = "copy" => SortedOn(mem, 0, size - 1)
    /\ place[Root] = "done" => arr \in Arrays /\ Reordered(arr, input) /\ SortedOn(arr, 0, size - 1)

LEMMA SharedInit == SortInit => SharedInv
<1> SUFFICES ASSUME SortInit, version = "processes"
             PROVE  SharedInv
  BY DEF SharedInv
<1>1. input \in Arrays /\ arr = input
  BY SortAssumption DEF SortInit, Arrays, Indices
<1>2. \A w \in Workers : place[w] = IF w = Root THEN "fork" ELSE "none"
  BY DEF SortInit
<1>3. place[Root] = "fork" /\ place[Child] = "none"
  BY <1>2, WorkerFacts DEF Child
<1> QED
  BY <1>1, <1>2, <1>3 DEF SharedInv

LEMMA TwoHalves ==
  /\ Root \in Workers /\ Child \in Workers /\ Child # Root
  /\ Part[Root] = <<0, size - 1>> /\ Part[Child] = <<0, Mid(Part[Root])>>
  /\ Part[<<2>>] = <<Mid(Part[Root]) + 1, size - 1>>
  /\ PartIn(Part[Root]) /\ PartIn(Part[Child]) /\ PartIn(Part[<<2>>])
  /\ Part[Child] \in Parts /\ Part[<<2>>] \in Parts
  /\ Part[Child][2] < Part[<<2>>][1]
<1>1. Root \in Workers /\ Child \in Workers /\ <<2>> \in Workers /\ Child # Root
  BY WorkerFacts DEF Child
<1>2. Len(Root) < 3 /\ Append(Root, 1) = Child /\ Append(Root, 2) = <<2>>
  BY DEF Root, Child
<1>3. Part[Root] = <<0, size - 1>>
  BY <1>1, PartStep DEF PartOf
<1>4. Part[Child] = <<0, Mid(Part[Root])>> /\ Part[<<2>>] = <<Mid(Part[Root]) + 1, size - 1>>
  <2>1. /\ Part[Append(Root, 1)] = <<Part[Root][1], Mid(Part[Root])>>
        /\ Part[Append(Root, 2)] = <<Mid(Part[Root]) + 1, Part[Root][2]>>
    BY <1>1, <1>2, PartCreated
  <2>2. Part[Root][1] = 0 /\ Part[Root][2] = size - 1
    BY <1>3
  <2> QED
    BY <1>2, <2>1, <2>2
<1>5. PartIn(Part[Root]) /\ PartIn(Part[Child]) /\ PartIn(Part[<<2>>]) /\ Part[Child] \in Parts /\ Part[<<2>>] \in Parts
  BY <1>1, PartsIn
<1>6. Mid(Part[Root]) \in Int
  BY <1>5, PartHalves
<1>7. Part[Child][2] < Part[<<2>>][1]
  <2>1. Mid(Part[Root]) < Mid(Part[Root]) + 1
    BY <1>6
  <2> QED
    BY <1>4, <2>1
<1> QED
  BY <1>1, <1>3, <1>4, <1>5, <1>7

LEMMA SharedStep == CountInv /\ SharedInv /\ [SortNext]_sortVars => SharedInv'
<1> SUFFICES ASSUME CountInv, SharedInv, [SortNext]_sortVars, version' = "processes"
             PROVE  SharedInv'
  BY DEF SharedInv
<1> USE TwoHalves
<1>1. version = "processes" /\ version' = version
  <2>1. version' = version
    BY DEF SortNext, sortVars, fork, wait, copy, singleProcessMergeSort, singleThreadedMergeSort,
           multiThreadedMergeSort, which, read, create, join, merge
  <2> QED
    BY <2>1
<1>2. place \in [Workers -> ProcessPlaces] /\ DOMAIN place = Workers /\ DOMAIN todo = Workers
  BY <1>1 DEF CountInv, PlacesOK
<1>3. ASSUME NEW w \in Workers
      PROVE  ~singleThreadedMergeSort(w) /\ ~multiThreadedMergeSort(w)
  <2>1. place[w] \in ProcessPlaces
    BY <1>2
  <2>2. place[w] \notin {"which", "id1", "id2", "idx1", "idx2", "create1", "create2", "join1", "join2", "merge"}
    BY <2>1 DEF ProcessPlaces
  <2> QED
    BY <1>1, <2>2 DEF singleThreadedMergeSort, multiThreadedMergeSort, which, read, create, join, merge, Is
<1>4. input \in Arrays
  BY <1>1 DEF SharedInv
<1>5. CASE UNCHANGED sortVars
  BY <1>5 DEF sortVars, locals, SharedInv
<1>6. CASE fork
  <2>1. place[Root] = "fork" /\ mem' = arr /\ UNCHANGED <<version, input, arr>>
    BY <1>6 DEF fork, Is
  <2>2. mem' = input /\ place[Child] = "none"
    BY <1>1, <2>1 DEF SharedInv
  <2>3. CASE place' = [place EXCEPT ![Root] = "exit"]
    <3>1. /\ place'[Root] = "exit" /\ place'[Child] = "none"
          /\ \A w \in Workers : w # Root /\ w # Child => place'[w] = "none"
      BY <1>1, <1>2, <2>2, <2>3 DEF SharedInv
    <3> QED
      BY <1>4, <2>1, <3>1 DEF SharedInv
  <2>4. CASE /\ place' = [place EXCEPT ![Root] = "sort", ![Child] = "sort"]
             /\ todo' = [todo EXCEPT ![Root] = Merges[Part[<<2>>]], ![Child] = Merges[Part[Child]]]
    <3>1. /\ place'[Root] = "sort" /\ place'[Child] = "sort"
          /\ \A w \in Workers : w # Root /\ w # Child => place'[w] = "none"
      BY <1>1, <1>2, <2>4 DEF SharedInv
    <3>2. todo'[Root] = Merges[Part[<<2>>]] /\ todo'[Child] = Merges[Part[Child]]
      BY <1>2, <2>4
    <3>3. Progress(mem', todo'[Root], Part[<<2>>]) /\ Progress(mem', todo'[Child], Part[Child])
      BY <3>2, ProgressStart
    <3>4. mem' \in Arrays /\ Reordered(mem', input)
      BY <1>4, <2>2, ReorderedSame
    <3> QED
      BY <1>4, <2>1, <3>1, <3>3, <3>4 DEF SharedInv
  <2> QED
    BY <1>6, <2>3, <2>4 DEF fork, Goto
<1>7. ASSUME singleProcessMergeSort(Root)
      PROVE  SharedInv'
  <2>1. /\ place[Root] = "sort" /\ UNCHANGED <<version, input, arr>>
        /\ mem \in Arrays /\ Reordered(mem, input) /\ Progress(mem, todo[Root], Part[<<2>>])
        /\ \/ place[Child] = "sort" /\ Progress(mem, todo[Child], Part[Child])
           \/ place[Child] = "exit" /\ SortedOn(mem, Part[Child][1], Part[Child][2])
    BY <1>1, <1>7 DEF singleProcessMergeSort, Is, SharedInv
  <2>2. CASE todo[Root] = <<>>
    <3>1. place' = [place EXCEPT ![Root] = "wait"] /\ UNCHANGED <<mem, todo>>
      BY <1>7, <2>2 DEF singleProcessMergeSort, Goto
    <3>2. /\ place'[Root] = "wait" /\ place'[Child] = place[Child]
          /\ \A w \in Workers : w # Root /\ w # Child => place'[w] = "none"
      BY <1>1, <1>2, <3>1 DEF SharedInv
    <3>3. SortedOn(mem, Part[<<2>>][1], Part[<<2>>][2])
      BY <2>1, <2>2, ProgressEnd
    <3> QED
      BY <1>4, <2>1, <3>1, <3>2, <3>3 DEF SharedInv
  <2>3. CASE todo[Root] # <<>>
    <3>1. /\ place' = place /\ todo' = [todo EXCEPT ![Root] = Tail(@)]
          /\ mem' = Merge(mem, Head(todo[Root])[1], Head(todo[Root])[2], Head(todo[Root])[3])
      BY <1>7, <2>3 DEF singleProcessMergeSort, Step
    <3>2. /\ mem' \in Arrays /\ Reordered(mem', mem) /\ Progress(mem', Tail(todo[Root]), Part[<<2>>])
          /\ \A k \in Indices : k \notin Part[<<2>>][1]..Part[<<2>>][2] => mem'[k] = mem[k]
      BY <2>1, <2>3, <3>1, StepSorts
    <3>3. todo'[Root] = Tail(todo[Root]) /\ todo'[Child] = todo[Child]
      BY <1>2, <3>1
    <3>4. /\ SortedOn(mem, Part[Child][1], Part[Child][2]) => SortedOn(mem', Part[Child][1], Part[Child][2])
          /\ \A t : Progress(mem, t, Part[Child]) => Progress(mem', t, Part[Child])
      BY <3>2, BesideKept
    <3>5. Reordered(mem', input)
      BY <2>1, <3>2, ReorderedAgain
    <3>6. \A w \in Workers : w # Root /\ w # Child => place'[w] = "none"
      BY <1>1, <3>1 DEF SharedInv
    <3> QED
      BY <1>4, <2>1, <3>1, <3>2, <3>3, <3>4, <3>5, <3>6 DEF SharedInv
  <2> QED
    BY <2>2, <2>3
<1>8. ASSUME singleProcessMergeSort(Child)
      PROVE  SharedInv'
  <2>1. place[Child] = "sort" /\ UNCHANGED <<version, input, arr>>
    BY <1>8 DEF singleProcessMergeSort, Is
  <2>2. place[Root] \in {"sort", "wait"}
    <3>1. place[Root] \in ProcessPlaces /\ place[Root] \notin {"none", "fork", "exit", "copy", "done"}
      BY <1>1, <1>2, <2>1 DEF SharedInv
    <3> QED
      BY <3>1 DEF ProcessPlaces
  <2>3. /\ mem \in Arrays /\ Reordered(mem, input) /\ Progress(mem, todo[Child], Part[Child])
        /\ place[Root] = "sort" => Progress(mem, todo[Root], Part[<<2>>])
        /\ place[Root] = "wait" => SortedOn(mem, Part[<<2>>][1], Part[<<2>>][2])
    BY <1>1, <2>1, <2>2 DEF SharedInv
  <2>4. CASE todo[Child] = <<>>
    <3>1. place' = [place EXCEPT ![Child] = "exit"] /\ UNCHANGED <<mem, todo>>
      BY <1>8, <2>4 DEF singleProcessMergeSort, Goto
    <3>2. /\ place'[Child] = "exit" /\ place'[Root] = place[Root]
          /\ \A w \in Workers : w # Root /\ w # Child => place'[w] = "none"
      BY <1>1, <1>2, <3>1 DEF SharedInv
    <3>3. SortedOn(mem, Part[Child][1], Part[Child][2])
      BY <2>3, <2>4, ProgressEnd
    <3> QED
      BY <1>4, <2>1, <2>2, <2>3, <3>1, <3>2, <3>3 DEF SharedInv
  <2>5. CASE todo[Child] # <<>>
    <3>1. /\ place' = place /\ todo' = [todo EXCEPT ![Child] = Tail(@)]
          /\ mem' = Merge(mem, Head(todo[Child])[1], Head(todo[Child])[2], Head(todo[Child])[3])
      BY <1>8, <2>5 DEF singleProcessMergeSort, Step
    <3>2. /\ mem' \in Arrays /\ Reordered(mem', mem) /\ Progress(mem', Tail(todo[Child]), Part[Child])
          /\ \A k \in Indices : k \notin Part[Child][1]..Part[Child][2] => mem'[k] = mem[k]
      BY <2>3, <2>5, <3>1, StepSorts
    <3>3. todo'[Child] = Tail(todo[Child]) /\ todo'[Root] = todo[Root]
      BY <1>2, <3>1
    <3>4. /\ SortedOn(mem, Part[<<2>>][1], Part[<<2>>][2]) => SortedOn(mem', Part[<<2>>][1], Part[<<2>>][2])
          /\ \A t : Progress(mem, t, Part[<<2>>]) => Progress(mem', t, Part[<<2>>])
      BY <3>2, BesideKept
    <3>5. Reordered(mem', input)
      BY <2>3, <3>2, ReorderedAgain
    <3>6. \A w \in Workers : w # Root /\ w # Child => place'[w] = "none"
      BY <1>1, <3>1 DEF SharedInv
    <3> QED
      BY <1>4, <2>1, <2>2, <2>3, <3>1, <3>2, <3>3, <3>4, <3>5, <3>6 DEF SharedInv
  <2> QED
    BY <2>4, <2>5
<1>9. ASSUME NEW w \in Workers, singleProcessMergeSort(w)
      PROVE  SharedInv'
  <2>1. place[w] # "none"
    BY <1>9 DEF singleProcessMergeSort, Is
  <2>2. w = Root \/ w = Child
    BY <1>1, <2>1 DEF SharedInv
  <2> QED
    BY <1>7, <1>8, <1>9, <2>2
<1>10. CASE wait
  <2> DEFINE s == Part[Root]
  <2>1. /\ place[Root] = "wait" /\ place[Child] = "exit" /\ UNCHANGED <<version, input, arr>>
        /\ place' = [place EXCEPT ![Root] = "copy"] /\ mem' = Merge(mem, s[1], Mid(s), s[2])
    BY <1>10 DEF wait, Is, Goto
  <2>2. /\ mem \in Arrays /\ Reordered(mem, input)
        /\ SortedOn(mem, Part[<<2>>][1], Part[<<2>>][2]) /\ SortedOn(mem, Part[Child][1], Part[Child][2])
    BY <1>1, <2>1 DEF SharedInv
  <2>3. PartIn(s) /\ s[1] = 0 /\ s[2] = size - 1
    OBVIOUS
  <2>4. SortedOn(mem, s[1], Mid(s)) /\ SortedOn(mem, Mid(s) + 1, s[2])
    <3>1. Part[Child] = <<s[1], Mid(s)>> /\ Part[<<2>>] = <<Mid(s) + 1, s[2]>>
      BY <2>3
    <3> HIDE DEF s
    <3> QED
      BY <2>2, <3>1
  <2> HIDE DEF s
  <2>5. mem' \in Arrays /\ Reordered(mem', mem) /\ SortedOn(mem', 0, size - 1)
    BY <2>1, <2>2, <2>3, <2>4, MergeHalves
  <2>6. Reordered(mem', input)
    BY <2>2, <2>5, ReorderedAgain
  <2>7. /\ place'[Root] = "copy" /\ place'[Child] = "exit"
        /\ \A w \in Workers : w # Root /\ w # Child => place'[w] = "none"
    BY <1>1, <1>2, <2>1 DEF SharedInv
  <2> QED
    BY <1>4, <2>1, <2>5, <2>6, <2>7 DEF SharedInv
<1>11. CASE copy
  <2>1. /\ place[Root] = "copy" /\ arr' = mem /\ place' = [place EXCEPT ![Root] = "done"]
        /\ UNCHANGED <<version, input>>
    BY <1>11 DEF copy, Is, Goto
  <2>2. mem \in Arrays /\ Reordered(mem, input) /\ SortedOn(mem, 0, size - 1) /\ place[Child] = "exit"
    BY <1>1, <2>1 DEF SharedInv
  <2>3. /\ place'[Root] = "done" /\ place'[Child] = "exit"
        /\ \A w \in Workers : w # Root /\ w # Child => place'[w] = "none"
    BY <1>1, <1>2, <2>1, <2>2 DEF SharedInv
  <2> QED
    BY <1>4, <2>1, <2>2, <2>3 DEF SharedInv
<1> QED
  BY <1>3, <1>5, <1>6, <1>9, <1>10, <1>11 DEF SortNext

\* When the sort returns, the array is sorted and has what it had, for an array of
\* any size and in every order in which the processes or threads take their steps:
\* whoever merges two halves has waited until both are sorted, and everyone else
\* that has not ended works on a part beside them.
THEOREM SortedAtEnd == SortSpec => []Sorts
<1>1. SortInit => CountInv /\ TreeInv /\ SortedInv /\ SharedInv
  BY CountInit, TreeInit, SortedInit, SharedInit
<1>2. /\ CountInv /\ TreeInv /\ SortedInv /\ SharedInv /\ [SortNext]_sortVars
      => (CountInv /\ TreeInv /\ SortedInv /\ SharedInv)'
  BY CountStep, TreeStep, SortedStep, SharedStep
<1>3. CountInv /\ TreeInv /\ SortedInv /\ SharedInv => Sorts
  <2> SUFFICES ASSUME CountInv, SortedInv, SharedInv, place[Root] = "done"
               PROVE  /\ \A k \in 1..(size - 1) : arr[k - 1] <= arr[k]
                      /\ \A k \in DOMAIN arr : Count(arr, arr[k]) = Count(input, arr[k])
    BY DEF Sorts
  <2>1. version \in {"processes", "threads"}
    BY SortAssumption DEF CountInv, PlacesOK
  <2>2. input \in Arrays /\ arr \in Arrays /\ Reordered(arr, input) /\ SortedOn(arr, 0, size - 1)
    <3>1. CASE version = "threads"
      BY <3>1, TwoHalves DEF SortedInv
    <3>2. CASE version = "processes"
      BY <3>2 DEF SharedInv
    <3> QED
      BY <2>1, <3>1, <3>2
  <2>3. \A k \in 1..(size - 1) : arr[k - 1] <= arr[k]
    <3>1. \A k \in 1..(size - 1) : k \in (0 + 1)..(size - 1)
      OBVIOUS
    <3> QED
      BY <2>2, <3>1 DEF SortedOn
  <2>4. \A k \in DOMAIN arr : Count(arr, arr[k]) = Count(input, arr[k])
    BY <2>2, ReorderedCounts
  <2> QED
    BY <2>3, <2>4
<1> QED
  BY <1>1, <1>2, <1>3, PTL DEF SortSpec
=============================================================================
