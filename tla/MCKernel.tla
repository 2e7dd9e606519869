------------------------------ MODULE MCKernel ------------------------------
(* Instances of Kernel: who exists, and what the functions of the threads do. *)
EXTENDS Kernel

CONSTANTS main, t2, t3, t4, t5, tidlock, lk, lk2, sm, cv

CLock == [c \in Conds |-> lk]
SInit == [s \in Semas |-> 0]

Acquires(locks) == {"lock_acquire"} \X locks
Waits    == {<<"condvar_wait", cv>>} \cup Acquires({lk})
Signals  == {"condvar_signal", "condvar_broadcast"} \X {cv} \cup Acquires({lk})
SemaUses == {"semaphore_down", "semaphore_up"} \X {sm} \cup Acquires({lk})

Program(uses, intr, nCalls, nPreemptions) ==
  [uses |-> uses, intr |-> intr, calls |-> nCalls, preemptions |-> nPreemptions]

\* Three threads take one lock, again and again; or two locks, one of the threads
\* both of them, so that a donation is passed on.
LockPrograms ==
  {Program([t \in Threads |-> Acquires({lk})], {}, 3, 3),
   Program([t \in Threads |-> Acquires(IF t = main THEN {lk} ELSE
                                       IF t = t2 THEN {lk, lk2} ELSE {lk2})], {}, 4, 2)}

\* A semaphore used by all and a lock used by two; one thread ups what the others
\* wait for, and may raise its priority to go on after an up; or an interrupt
\* handler ups the semaphore too, while who waits may get a donation.
SemaPrograms ==
  {Program([t \in Threads |-> IF t = main THEN SemaUses \ Acquires({lk}) ELSE SemaUses], {}, 3, 2),
   Program([t \in Threads |-> IF t = main THEN {<<"semaphore_up", sm>>, <<"thread_set_priority", main>>}
                              ELSE {<<"semaphore_down", sm>>}], {}, 5, 1),
   Program([t \in Threads |-> IF t = main THEN Acquires({lk})
                              ELSE SemaUses \ {<<"semaphore_up", sm>>}], {sm}, 4, 1)}

\* Two threads wait for what a third signals.
CondPrograms ==
  {Program([t \in Threads |-> IF t = t3 THEN Signals ELSE Waits], {}, 6, 1)}

\* Two threads create one thread each.
CreatePrograms ==
  {Program([t \in Threads |-> IF t = main THEN {<<"thread_create", t4>>}
                              ELSE IF t = t2 THEN {<<"thread_create", t5>>} ELSE {}], {}, 2, 2)}

AllPrograms == LockPrograms \cup SemaPrograms \cup CondPrograms \cup CreatePrograms

\* One thread changes its priority while they contend for a lock.
PriorityPrograms ==
  {Program([t \in Threads |-> Acquires({lk}) \cup
              IF t = main THEN {<<"thread_set_priority", main>>} ELSE {}], {}, 3, 2)}
=============================================================================
