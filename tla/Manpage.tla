------------------------------ MODULE Manpage ------------------------------
(***************************************************************************)
(* Assignment3/manpage.c: N threads (7 in the code) show a paragraph each, *)
(* in the order of their paragraph ids, which getParagraphId() deals out   *)
(* in any order.  Each thread waits on the semaphore of its paragraph and  *)
(* posts the next one.                                                     *)
(***************************************************************************)
EXTENDS Integers, Sequences

CONSTANT N  \* how many threads and paragraphs there are

ASSUME ManpageAssumption == N \in Nat \ {0}

Ids == 0..(N - 1)

VARIABLES
  semaphores,  \* the values of semaphores[]
  thread,      \* where each thread of thread_id[] is
  pid,         \* its paragraph id
  shown,       \* the paragraphs shown so far
  main         \* calls of pthread_create() and pthread_join() made by manpage()

manpageVars == <<semaphores, thread, pid, shown, main>>

ManpageInit ==
  /\ semaphores = [i \in Ids |-> 0]
  /\ thread = [i \in Ids |-> "new"]
  /\ pid = [i \in Ids |-> 0]
  /\ shown = <<>>
  /\ main = 0

pthread_create ==
  /\ main < N
  /\ thread' = [thread EXCEPT ![main] = "start"]
  /\ main' = main + 1
  /\ UNCHANGED <<semaphores, pid, shown>>

pthread_join ==
  /\ main \in N..(2 * N - 1)
  /\ thread[main - N] = "done"
  /\ main' = main + 1
  /\ UNCHANGED <<semaphores, thread, pid, shown>>

\* The ids dealt out.
Taken == {pid[t] : t \in {u \in Ids : thread[u] \notin {"new", "start"}}}

\* Mutant: the thread with id 1 does not wait either.
getParagraphId_OffByOne(t) ==
  /\ thread[t] = "start"
  /\ \E p \in Ids \ Taken :
       /\ pid' = [pid EXCEPT ![t] = p]
       /\ thread' = [thread EXCEPT ![t] = IF p > 1 THEN "wait" ELSE "show"]
  /\ UNCHANGED <<semaphores, shown, main>>

\* No two threads get the same id; the first paragraph need not wait.
getParagraphId(t) ==
  /\ thread[t] = "start"
  /\ \E p \in Ids \ Taken :
       /\ pid' = [pid EXCEPT ![t] = p]
       /\ thread' = [thread EXCEPT ![t] = IF p > 0 THEN "wait" ELSE "show"]
  /\ UNCHANGED <<semaphores, shown, main>>

sem_wait(t) ==
  /\ thread[t] = "wait"
  /\ semaphores[pid[t]] > 0
  /\ semaphores' = [semaphores EXCEPT ![pid[t]] = @ - 1]
  /\ thread' = [thread EXCEPT ![t] = "show"]
  /\ UNCHANGED <<pid, shown, main>>

\* Mutant: the last but one does not post.
showParagraph_OffByOne(t) ==
  /\ thread[t] = "show"
  /\ shown' = Append(shown, pid[t])
  /\ thread' = [thread EXCEPT ![t] = IF pid[t] < N - 2 THEN "post" ELSE "done"]
  /\ UNCHANGED <<semaphores, pid, main>>

showParagraph(t) ==
  /\ thread[t] = "show"
  /\ shown' = Append(shown, pid[t])
  /\ thread' = [thread EXCEPT ![t] = IF pid[t] < N - 1 THEN "post" ELSE "done"]
  /\ UNCHANGED <<semaphores, pid, main>>

sem_post(t) ==
  /\ thread[t] = "post"
  /\ semaphores' = [semaphores EXCEPT ![pid[t] + 1] = @ + 1]
  /\ thread' = [thread EXCEPT ![t] = "done"]
  /\ UNCHANGED <<pid, shown, main>>

thread_func(t) == getParagraphId(t) \/ sem_wait(t) \/ showParagraph(t) \/ sem_post(t)

manpage == pthread_create \/ pthread_join

\* manpage() has returned.
Returned == main = 2 * N /\ UNCHANGED manpageVars

ManpageNext == (\E t \in Ids : thread_func(t)) \/ manpage \/ Returned

ManpageSpec == ManpageInit /\ [][ManpageNext]_manpageVars

\* The threads are scheduled by the operating system, which leaves none out.
ManpageFairSpec ==
  /\ ManpageSpec
  /\ WF_manpageVars(manpage)
  /\ \A t \in Ids : WF_manpageVars(thread_func(t))

----------------------------------------------------------------------------
(* Properties *)

ManpageTypeOK ==
  /\ semaphores \in [Ids -> Nat]
  /\ thread \in [Ids -> {"new", "start", "wait", "show", "post", "done"}]
  /\ pid \in [Ids -> Ids]
  /\ shown \in Seq(Ids)
  /\ main \in 0..(2 * N)

\* The paragraphs are shown in their order, whatever the order in which the
\* threads run and get their ids (manpage.c:47-57).
InOrder == \A i \in 1..Len(shown) : shown[i] = i - 1

\* manpage() returns, and has shown all paragraphs when it does: no thread is
\* left waiting for a post (manpage.c:49-55, 67-69).
Finishes == <>(main = 2 * N /\ Len(shown) = N)
=============================================================================
