----------------------------- MODULE RoundRobin -----------------------------
(***************************************************************************)
(* The thread system of Lab3/thread.c: threads take turns of TIME_SLICE    *)
(* ticks in the order of the ready list, and the idle thread runs when the *)
(* list is empty.  A thread is known by the page with its struct thread,   *)
(* which is freed when it has exited and may then be another thread's.     *)
(* What is done with interrupts off is one step; a thread may be preempted *)
(* between any two of its steps.  The list of all threads is left out.     *)
(***************************************************************************)
EXTENDS Integers, Sequences, FiniteSets

CONSTANTS
  Threads,         \* all threads but the idle one
  initial_thread,  \* the one that boots
  Idle, NULL,      \* the idle thread, and no thread
  TIME_SLICE

ASSUME RoundRobinAssumption ==
  /\ IsFiniteSet(Threads)
  /\ initial_thread \in Threads
  /\ Idle \notin Threads
  /\ NULL \notin Threads \cup {Idle}
  /\ TIME_SLICE \in Nat \ {0}

All == Threads \cup {Idle}

VARIABLES
  ready_list,
  status,        \* "UNUSED" for a page that is free
  current,       \* the running thread
  idle_thread,
  thread_ticks,  \* ticks of the current time slice
  idle_started,  \* value of the semaphore in thread_start()
  pc,            \* where each thread is
  creates,       \* the thread it is creating
  waited         \* history: ticks for which the thread has been ready

vars == <<ready_list, status, current, idle_thread, thread_ticks, idle_started, pc, creates, waited>>

\* thread_start() has created the idle thread and enables interrupts.
Init ==
  /\ ready_list = <<Idle>>
  /\ status = [t \in All |-> IF t = initial_thread THEN "RUNNING"
                             ELSE IF t = Idle THEN "READY" ELSE "UNUSED"]
  /\ current = initial_thread
  /\ idle_thread = NULL
  /\ thread_ticks = 0
  /\ idle_started = 0
  /\ pc = [t \in All |-> IF t = Idle THEN "idle" ELSE IF t = initial_thread THEN "start" ELSE "run"]
  /\ creates = [t \in All |-> NULL]
  /\ waited = [t \in Threads |-> 0]

Goto(t, to) == pc' = [pc EXCEPT ![t] = to]
At(t, from) == current = t /\ pc[t] = from

\* thread_unblock(t)
MakeReady(t) ==
  /\ ready_list' = Append(ready_list, t)
  /\ status' = [status EXCEPT ![t] = "READY"]

----------------------------------------------------------------------------
(* schedule(), after the current thread's status and the list have changed *)

next_thread_to_run(list) == IF list = <<>> THEN idle_thread ELSE Head(list)

\* The page of a thread that exited is freed by the one that runs next.
thread_schedule_tail(next, became) ==
  /\ current' = next
  /\ status' = [t \in All |->
       IF t = next THEN "RUNNING"
       ELSE IF t # current THEN status[t]
       ELSE IF became = "DYING" /\ t # initial_thread THEN "UNUSED" ELSE became]
  /\ thread_ticks' = 0

schedule(list, became) ==
  /\ ready_list' = IF list = <<>> THEN list ELSE Tail(list)
  /\ thread_schedule_tail(next_thread_to_run(list), became)

\* Mutants: the thread goes to the front; the idle thread goes there too.
thread_yield_Front ==
  schedule(IF current # idle_thread THEN <<current>> \o ready_list ELSE ready_list, "READY")

thread_yield_Idle == schedule(Append(ready_list, current), "READY")

thread_yield ==
  schedule(IF current # idle_thread THEN Append(ready_list, current) ELSE ready_list, "READY")

thread_block == schedule(ready_list, "BLOCKED")

thread_exit == schedule(ready_list, "DYING")

thread_unblock(t) ==
  /\ ready_list' = Append(ready_list, t)
  /\ status' = [status EXCEPT ![t] = "READY"]
  /\ UNCHANGED <<current, thread_ticks>>

----------------------------------------------------------------------------
(* Interrupts *)

\* An interrupt ends the idle thread's hlt.
Interrupt == pc' = [pc EXCEPT ![Idle] = IF At(Idle, "hlt") THEN "loop" ELSE @]

thread_tick ==
  /\ Interrupt
  /\ \/ /\ thread_ticks + 1 < TIME_SLICE
        /\ thread_ticks' = thread_ticks + 1
        /\ UNCHANGED <<ready_list, status, current>>
     \/ /\ thread_ticks + 1 >= TIME_SLICE
        /\ thread_yield
  /\ UNCHANGED <<idle_thread, idle_started, creates>>

\* Threads that wait for a device, or for each other.
Waiting == {t \in Threads : status[t] = "BLOCKED" /\ pc[t] = "run" /\ \A c \in All : creates[c] # t}

device_interrupt ==
  /\ Interrupt
  /\ \E t \in Waiting : thread_unblock(t)
  /\ UNCHANGED <<idle_thread, idle_started, creates>>

----------------------------------------------------------------------------
(* The initial thread and the idle thread *)

\* The initial thread downs the semaphore; when it is woken it tries again.
thread_start ==
  /\ At(initial_thread, "start")
  /\ IF idle_started > 0
       THEN /\ idle_started' = idle_started - 1
            /\ Goto(initial_thread, "run")
            /\ UNCHANGED <<ready_list, status, current, thread_ticks>>
       ELSE thread_block /\ UNCHANGED <<idle_started, pc>>
  /\ UNCHANGED <<idle_thread, creates>>

idle_init ==
  /\ At(Idle, "idle")
  /\ idle_thread' = Idle
  /\ Goto(Idle, "up")
  /\ UNCHANGED <<ready_list, status, current, thread_ticks, idle_started, creates>>

idle_up ==
  /\ At(Idle, "up")
  /\ idle_started' = idle_started + 1
  /\ IF status[initial_thread] = "BLOCKED"
       THEN thread_unblock(initial_thread)
       ELSE UNCHANGED <<ready_list, status, current, thread_ticks>>
  /\ Goto(Idle, "loop")
  /\ UNCHANGED <<idle_thread, creates>>

\* When it runs again it halts until the next interrupt.
idle_block ==
  /\ At(Idle, "loop")
  /\ thread_block
  /\ Goto(Idle, "hlt")
  /\ UNCHANGED <<idle_thread, idle_started, creates>>

----------------------------------------------------------------------------
(* What threads do *)

\* The new thread is blocked, and in no list, until the last line.
thread_create ==
  \/ /\ At(current, "run") /\ current # Idle
     /\ \E t \in Threads :
          /\ status[t] = "UNUSED"
          /\ status' = [status EXCEPT ![t] = "BLOCKED"]
          /\ creates' = [creates EXCEPT ![current] = t]
     /\ Goto(current, "create")
     /\ UNCHANGED <<ready_list, current, thread_ticks, idle_thread, idle_started>>
  \/ /\ At(current, "create")
     /\ thread_unblock(creates[current])
     /\ creates' = [creates EXCEPT ![current] = NULL]
     /\ Goto(current, "run")
     /\ UNCHANGED <<idle_thread, idle_started>>

\* They yield, wait, wake each other, and exit.
thread_call ==
  /\ At(current, "run") /\ current # Idle
  /\ \/ thread_yield
     \/ thread_block
     \/ \E t \in Waiting : thread_unblock(t)
     \/ thread_exit
  /\ UNCHANGED <<idle_thread, idle_started, pc, creates>>

----------------------------------------------------------------------------
Count(ticks) ==
  waited' = [t \in Threads |->
    IF status[t] = "READY" /\ status'[t] = "READY" THEN waited[t] + ticks ELSE 0]

Next ==
  \/ thread_tick /\ Count(1)
  \/ /\ \/ device_interrupt \/ thread_start \/ idle_init \/ idle_up \/ idle_block
        \/ thread_create \/ thread_call
     /\ Count(0)

Spec == Init /\ [][Next]_vars

----------------------------------------------------------------------------
(* Properties *)

TypeOK ==
  /\ ready_list \in Seq(All)
  /\ status \in [All -> {"UNUSED", "RUNNING", "READY", "BLOCKED", "DYING"}]
  /\ current \in All
  /\ idle_thread \in {Idle, NULL}
  /\ thread_ticks \in 0..(TIME_SLICE - 1)
  /\ idle_started \in 0..1
  /\ pc \in [All -> {"idle", "up", "loop", "hlt", "start", "run", "create"}]
  /\ creates \in [All -> Threads \cup {NULL}]
  /\ waited \in [Threads -> Nat]

\* The ready list holds just the threads that are ready, each once, and the idle
\* thread only until it has told who it is: schedule() always finds a thread to
\* run, and but one is running, however threads yield, wait, are woken by each
\* other and by devices, exit, and are created in pages of threads that did
\* (thread.c:271-283, 340-354, 422-424, 519-531).
ReadyExact ==
  /\ current \in All
  /\ \A t \in All : status[t] = "RUNNING" <=> t = current
  /\ \A t \in All : (\E i \in 1..Len(ready_list) : ready_list[i] = t)
                      <=> status[t] = "READY" /\ t # idle_thread
  /\ \A i, j \in 1..Len(ready_list) : ready_list[i] = ready_list[j] => i = j

\* No thread is ready for longer than a time slice of each other one and of the
\* idle thread, which may be in its first when it becomes ready (thread.c:170-172,
\* 281, 350, 557-558).
WaitBounded == \A t \in Threads : waited[t] <= TIME_SLICE * Cardinality(Threads)
=============================================================================
