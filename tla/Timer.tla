------------------------------- MODULE Timer -------------------------------
(***************************************************************************)
(* timer_sleep() and the timer interrupt, in the three versions of Lab 1:  *)
(*   "timer"              every tick looks at all threads                  *)
(*   "timer_list"         sleeping threads are on a list                   *)
(*   "timer_sorted_list"  the list is meant to be sorted (also in Lab 2)   *)
(* Threads interleave statement by statement, except that nothing happens  *)
(* between intr_disable() and the switch to another thread.  Ready and     *)
(* running threads need not be told apart.                                 *)
(***************************************************************************)
EXTENDS KList

CONSTANTS
  Threads,   \* the threads
  Versions,  \* the versions to consider
  MaxSleep,  \* bound: the longest sleep, in ticks
  MaxTicks   \* bound: how long the timer runs

ASSUME TimerAssumption ==
  /\ Versions \subseteq {"timer", "timer_list", "timer_sorted_list"}
  /\ MaxSleep \in Nat /\ MaxTicks \in Nat

VARIABLES
  version,       \* which version it is
  ticks,         \* ticks since the OS booted
  thread_list,   \* the sleeping threads, in the versions that have the list
  waiting_time,  \* t->waiting_time
  blocked,       \* the threads whose status is THREAD_BLOCKED
  pc,            \* where each thread is in timer_sleep()
  start,         \* timer_sleep()'s local variable
  sleep,         \* its parameter (named ticks there)
  panic          \* an assertion has failed

locals == <<start, sleep>>
vars == <<version, ticks, thread_list, waiting_time, blocked, pc, start, sleep, panic>>

Init ==
  /\ version \in Versions
  /\ ticks = 0
  /\ thread_list = <<>>
  /\ waiting_time = [t \in Threads |-> 0]
  /\ blocked = {}
  /\ pc = [t \in Threads |-> "run"]
  /\ start = [t \in Threads |-> 0]
  /\ sleep = [t \in Threads |-> 0]
  /\ panic = FALSE

\* Thread t is not blocked and takes a step in timer_sleep().
At(t, from, to) == ~panic /\ t \notin blocked /\ pc[t] = from /\ pc' = [pc EXCEPT ![t] = to]

----------------------------------------------------------------------------
(* timer_sleep() *)

\* A sleep of no ticks at all returns at once.
timer_sleep(t, k) ==
  /\ k > 0
  /\ At(t, "run", "set")
  /\ start' = [start EXCEPT ![t] = ticks]
  /\ sleep' = [sleep EXCEPT ![t] = k]
  /\ UNCHANGED <<ticks, thread_list, waiting_time, blocked, panic>>

set(t) ==
  /\ At(t, "set", "block")
  /\ waiting_time' = [waiting_time EXCEPT ![t] = start[t] + sleep[t]]
  /\ UNCHANGED <<ticks, thread_list, blocked, panic, locals>>

\* The comparator of the sorted version takes the list elements for another
\* member of struct thread, and what it compares is arbitrary.
Listed(t) ==
  \/ version = "timer" /\ UNCHANGED thread_list
  \/ version = "timer_list" /\ thread_list' = Append(thread_list, t)
  \/ /\ version = "timer_sorted_list"
     /\ \E i \in 1..(Len(thread_list) + 1) : thread_list' = InsertAt(thread_list, i, t)

\* From intr_disable() to the switch in thread_block().
block(t) ==
  /\ At(t, "block", "asleep")
  /\ Listed(t)
  /\ blocked' = blocked \cup {t}
  /\ UNCHANGED <<ticks, waiting_time, panic, locals>>

\* Thread t runs again.
wake(t) ==
  /\ At(t, "asleep", "run")
  /\ UNCHANGED <<ticks, thread_list, waiting_time, blocked, panic, locals>>

----------------------------------------------------------------------------
(* timer_interrupt() *)

\* Mutant: sleepers are woken one tick late.
Due_Late(now) ==
  IF version = "timer" THEN {t \in Threads : waiting_time[t] = now}
  ELSE {t \in ToSet(thread_list) : waiting_time[t] < now}

\* Mutant: any blocked thread counts as asleep.
Due_AnyBlocked(now) == {t \in blocked : waiting_time[t] <= now}

\* The threads that timer_wake() unblocks: thread_foreach() calls it for all
\* threads, or the interrupt handler for those on the list.
DueOfAll(now) == {t \in Threads : waiting_time[t] = now}

DueOnList(now) == {t \in ToSet(thread_list) : waiting_time[t] <= now}

Due(now) == IF version = "timer" THEN DueOfAll(now) ELSE DueOnList(now)

\* Mutant: without list_remove().
Unlisted_Kept(due) == thread_list

Unlisted(due) == list_remove_all(thread_list, due)

\* thread_unblock() asserts that the thread is blocked.
timer_interrupt ==
  /\ ~panic /\ ticks < MaxTicks
  /\ ticks' = ticks + 1
  /\ blocked' = blocked \ Due(ticks')
  /\ thread_list' = Unlisted(Due(ticks'))
  /\ panic' = ~(Due(ticks') \subseteq blocked)
  /\ UNCHANGED <<waiting_time, pc, locals>>

----------------------------------------------------------------------------
(* Threads also block on semaphores, and others wake them. *)

semaphore_down(t) ==
  /\ At(t, "run", "down")
  /\ blocked' = blocked \cup {t}
  /\ UNCHANGED <<ticks, thread_list, waiting_time, panic, locals>>

semaphore_up(t) ==
  /\ ~panic /\ t \in blocked /\ pc[t] = "down"
  /\ pc' = [pc EXCEPT ![t] = "run"]
  /\ blocked' = blocked \ {t}
  /\ UNCHANGED <<ticks, thread_list, waiting_time, panic, locals>>

Next ==
  /\ \/ \E t \in Threads, k \in 0..MaxSleep : timer_sleep(t, k)
     \/ \E t \in Threads : set(t) \/ block(t) \/ wake(t) \/ semaphore_down(t) \/ semaphore_up(t)
     \/ timer_interrupt
  /\ UNCHANGED version

Spec == Init /\ [][Next]_vars

----------------------------------------------------------------------------
(* Properties *)

Asleep(t) == pc[t] = "asleep" /\ t \in blocked

HasList == version # "timer"

\* The list holds each sleeping thread once and nobody else, so that a thread
\* which sleeps again does not link its sleep element twice
\* (timer_list.c:117, 130).
SleepersListed ==
  HasList =>
    /\ ToSet(thread_list) = {t \in Threads : Asleep(t)}
    /\ Len(thread_list) = Cardinality(ToSet(thread_list))

\* After a tick no thread is asleep whose time has come.
WakesAllDue ==
  ticks' # ticks =>
    \A t \in Threads : pc'[t] = "asleep" /\ t \in blocked' => waiting_time[t] > ticks'

\* With the list none oversleeps, wherever ticks interrupt timer_sleep(): not
\* even one whose time has come before it is on the list (timer_list.c:129-132).
ListNeverOversleeps == [][HasList => WakesAllDue]_vars

\* timer.c:102, "Sleeps for approximately TICKS timer ticks": in no version does
\* a thread sleep on after its time.
NoneOversleeps == [][WakesAllDue]_vars

\* A tick does not wake a thread that waits for a semaphore, in whose list it
\* still is, although its old waiting time is still there; and with the list
\* thread_unblock() finds the thread blocked, as it asserts, in whatever order the
\* list is (timer_sorted_list.c:246-251, timer.c:126; thread.c:292 of Lab 2).
OnlySleepersWoken ==
  [][ticks' # ticks =>
       /\ HasList => ~panic'
       /\ \A t \in blocked \ blocked' : pc[t] = "asleep"]_vars
=============================================================================
