----------------------------- MODULE Scheduler -----------------------------
(***************************************************************************)
(* Assignment4/scheduler.c: the scheduler of a simulated CPU, as callbacks *)
(* that the simulator makes.  The simulator is not in the repository: in a *)
(* tick it reports the threads that arrive and the I/O that starts, calls  *)
(* tick(), runs the thread dispatched, and then reports what became of it  *)
(* and the I/O that completed (scheduler.c:65-69, and the times that the   *)
(* callbacks add 1 to).                                                    *)
(***************************************************************************)
EXTENDS Integers, SequencesExt

CONSTANTS
  Threads,     \* the threads the simulator may start
  NULL,        \* no thread
  Algorithms,  \* values of the algorithm parameter to consider
  quant,       \* the quantum of ROUND_ROBIN
  Priorities,  \* of threads, under each algorithm; the lowest number is the most urgent
  Lengths,     \* ticks of CPU time a thread needs, under each algorithm
  MaxTime,     \* bound: ticks simulated
  MaxIO        \* bound: I/O operations requested

NonPreemptive == {"FIRST_COME_FIRST_SERVED", "NON_PREEMPTIVE_PRIORITY",
  "NON_PREEMPTIVE_SHORTEST_JOB_FIRST", "NON_PREEMPTIVE_SHORTEST_REMAINING_TIME_FIRST"}
Preemptive == {"ROUND_ROBIN", "PREEMPTIVE_PRIORITY",
  "PREEMPTIVE_SHORTEST_JOB_FIRST", "PREEMPTIVE_SHORTEST_REMAINING_TIME_FIRST"}

ByPriority == {"NON_PREEMPTIVE_PRIORITY", "PREEMPTIVE_PRIORITY"}
ByLength == {"NON_PREEMPTIVE_SHORTEST_JOB_FIRST", "PREEMPTIVE_SHORTEST_JOB_FIRST"}
ByRemaining == {"NON_PREEMPTIVE_SHORTEST_REMAINING_TIME_FIRST",
                "PREEMPTIVE_SHORTEST_REMAINING_TIME_FIRST"}

ASSUME SchedulerAssumption ==
  /\ NULL \notin Threads
  /\ Algorithms \subseteq NonPreemptive \cup Preemptive
  /\ quant \in Nat \ {0}
  /\ Priorities \in [Algorithms -> SUBSET Nat]
  /\ Lengths \in [Algorithms -> SUBSET (Nat \ {0})]
  /\ MaxTime \in Nat /\ MaxIO \in Nat

VARIABLES
  alg,             \* the algorithm
  ready_queue, all_threads, current_thread,
  priority, length,                            \* of each thread_t
  arrive_time, finish_time, start_time,        \* of each thread_extra_t
  waiting_time, remaining_time, tick_count,
  report,          \* what stats() returned, per thread
  sim_time,        \* the simulator's clock
  phase,           \* "before" or "after" this tick's tick(), or "over"
  used, served,    \* ticks of CPU time and of I/O each thread has had
  io_queue, io,    \* threads waiting for I/O, and threads whose I/O has started
  requests         \* I/O operations requested

threadVars == <<priority, length, arrive_time>>
simVars == <<sim_time, used, served>>
ioVars == <<io_queue, io, requests>>
vars == <<alg, ready_queue, all_threads, current_thread, priority, length, arrive_time,
  finish_time, start_time, waiting_time, remaining_time, tick_count, report,
  sim_time, phase, used, served, io_queue, io, requests>>

Zero == [t \in Threads |-> 0]

\* scheduler()
Init ==
  /\ alg \in Algorithms
  /\ ready_queue = <<>> /\ all_threads = {} /\ current_thread = NULL
  /\ priority = Zero /\ length = Zero
  /\ arrive_time = Zero /\ finish_time = Zero /\ start_time = Zero
  /\ waiting_time = Zero /\ remaining_time = Zero /\ tick_count = Zero
  /\ report = <<>>
  /\ sim_time = 0 /\ phase = "before" /\ used = Zero /\ served = Zero
  /\ io_queue = {} /\ io = {} /\ requests = 0

Exited == {t \in all_threads : finish_time[t] > 0}

----------------------------------------------------------------------------
(* Callbacks for threads *)

sys_exec(t, p, l) ==
  /\ phase = "before" /\ t \notin all_threads
  /\ priority' = [priority EXCEPT ![t] = p]
  /\ length' = [length EXCEPT ![t] = l]
  /\ ready_queue' = Append(ready_queue, t)
  /\ all_threads' = all_threads \cup {t}
  /\ arrive_time' = [arrive_time EXCEPT ![t] = sim_time]
  /\ start_time' = [start_time EXCEPT ![t] = sim_time]
  /\ remaining_time' = [remaining_time EXCEPT ![t] = l]
  /\ UNCHANGED <<alg, current_thread, finish_time, waiting_time, tick_count, report, phase, simVars, ioVars>>

sys_exit(t) ==
  /\ phase = "after" /\ t = current_thread /\ used[t] = length[t]
  /\ finish_time' = [finish_time EXCEPT ![t] = sim_time + 1]
  /\ current_thread' = NULL
  /\ UNCHANGED <<alg, ready_queue, all_threads, start_time, waiting_time, remaining_time,
       tick_count, report, phase, threadVars, simVars, ioVars>>

\* Mutant: waiting for I/O begins in the tick that requests it.
sys_io_Early(t) ==
  /\ phase = "after" /\ t = current_thread /\ used[t] < length[t] /\ requests < MaxIO
  /\ start_time' = [start_time EXCEPT ![t] = sim_time]
  /\ current_thread' = NULL
  /\ io_queue' = io_queue \cup {t}
  /\ requests' = requests + 1
  /\ UNCHANGED <<alg, ready_queue, all_threads, finish_time, waiting_time, remaining_time,
       tick_count, report, phase, io, threadVars, simVars>>

\* sys_read() and sys_write()
sys_io(t) ==
  /\ phase = "after" /\ t = current_thread /\ used[t] < length[t] /\ requests < MaxIO
  /\ start_time' = [start_time EXCEPT ![t] = sim_time + 1]
  /\ current_thread' = NULL
  /\ io_queue' = io_queue \cup {t}
  /\ requests' = requests + 1
  /\ UNCHANGED <<alg, ready_queue, all_threads, finish_time, waiting_time, remaining_time,
       tick_count, report, phase, io, threadVars, simVars>>

io_starting(t) ==
  /\ phase = "before" /\ t \in io_queue
  /\ waiting_time' = [waiting_time EXCEPT ![t] = @ + sim_time - start_time[t]]
  /\ io_queue' = io_queue \ {t}
  /\ io' = io \cup {t}
  /\ UNCHANGED <<alg, ready_queue, all_threads, current_thread, finish_time, start_time,
       remaining_time, tick_count, report, phase, requests, threadVars, simVars>>

io_complete(t) ==
  /\ phase = "after" /\ t \in io
  /\ start_time' = [start_time EXCEPT ![t] = sim_time + 1]
  /\ ready_queue' = Append(ready_queue, t)
  /\ io' = io \ {t}
  /\ UNCHANGED <<alg, all_threads, current_thread, finish_time, waiting_time, remaining_time,
       tick_count, report, phase, io_queue, requests, threadVars, simVars>>

----------------------------------------------------------------------------
(* tick() *)

Sorted == alg \in ByPriority \cup ByLength \cup ByRemaining

\* Mutant: the queue is in the order of arrival.
queue_sort_None == {ready_queue}

\* What the queue may be after queue_sort(), which decides on ties.
queue_sort ==
  LET Key(t) == CASE alg \in ByPriority -> priority[t]
                  [] alg \in ByLength -> length[t]
                  [] alg \in ByRemaining -> remaining_time[t]
  IN  IF ~Sorted THEN {ready_queue}
      ELSE {q \in SetToSeqs(ToSet(ready_queue)) :
              \A i, j \in DOMAIN q : i < j => Key(q[i]) <= Key(q[j])}

\* Remaining times, when the current thread has been charged for this tick.
Charged ==
  IF alg \in ByRemaining /\ current_thread # NULL
  THEN [remaining_time EXCEPT ![current_thread] = @ - 1] ELSE remaining_time

\* Mutant: non-preemptive algorithms preempt as well.
Preempts_Always(q) ==
  /\ current_thread # NULL /\ q # <<>>
  /\ \/ alg = "ROUND_ROBIN" /\ tick_count[current_thread] + 1 = quant
     \/ alg \in ByPriority /\ priority[current_thread] > priority[Head(q)]
     \/ alg \in ByLength /\ length[current_thread] > length[Head(q)]
     \/ alg \in ByRemaining /\ Charged[Head(q)] <= Charged[current_thread]

\* The current thread gives way to the first one in the queue.
Preempts(q) ==
  /\ current_thread # NULL /\ q # <<>> /\ alg \in Preemptive
  /\ \/ alg = "ROUND_ROBIN" /\ tick_count[current_thread] + 1 = quant
     \/ alg \in ByPriority /\ priority[current_thread] > priority[Head(q)]
     \/ alg \in ByLength /\ length[current_thread] > length[Head(q)]
     \/ alg \in ByRemaining /\ Charged[Head(q)] <= Charged[current_thread]

\* Mutant: the thread that runs stays in the queue.
preempt_NoDequeue(q) ==
  /\ Preempts(q)
  /\ current_thread' = Head(q)
  /\ ready_queue' = Append(q, current_thread)
  /\ waiting_time' = [waiting_time EXCEPT ![Head(q)] = @ + sim_time - start_time[Head(q)]]
  /\ start_time' = [start_time EXCEPT ![current_thread] = sim_time]
  /\ tick_count' = tick_count
  /\ remaining_time' = remaining_time

\* Mutant: the thread preempted is not given its tick back.
preempt_NoRefund(q) ==
  /\ Preempts(q)
  /\ current_thread' = Head(q)
  /\ ready_queue' = Append(Tail(q), current_thread)
  /\ waiting_time' = [waiting_time EXCEPT ![Head(q)] = @ + sim_time - start_time[Head(q)]]
  /\ start_time' = [start_time EXCEPT ![current_thread] = sim_time]
  /\ tick_count' = tick_count
  /\ remaining_time' = IF alg \in ByRemaining THEN [Charged EXCEPT ![Head(q)] = @ - 1] ELSE Charged

preempt(q) ==
  /\ Preempts(q)
  /\ current_thread' = Head(q)
  /\ ready_queue' = Append(Tail(q), current_thread)
  /\ waiting_time' = [waiting_time EXCEPT ![Head(q)] = @ + sim_time - start_time[Head(q)]]
  /\ start_time' = [start_time EXCEPT ![current_thread] = sim_time]
  /\ tick_count' = IF alg = "ROUND_ROBIN"
                   THEN [tick_count EXCEPT ![current_thread] = 0, ![Head(q)] = 0] ELSE tick_count
  /\ remaining_time' = IF alg \in ByRemaining
                       THEN [Charged EXCEPT ![current_thread] = @ + 1, ![Head(q)] = @ - 1] ELSE Charged

\* The CPU is free, and the first thread in the queue gets it.
dispatch(q) ==
  /\ current_thread = NULL /\ q # <<>>
  /\ current_thread' = Head(q)
  /\ ready_queue' = Tail(q)
  /\ waiting_time' = [waiting_time EXCEPT ![Head(q)] = @ + sim_time - start_time[Head(q)]]
  /\ tick_count' = IF alg = "ROUND_ROBIN" THEN [tick_count EXCEPT ![Head(q)] = 0] ELSE tick_count
  /\ remaining_time' = IF alg \in ByRemaining
                       THEN [remaining_time EXCEPT ![Head(q)] = @ - 1] ELSE remaining_time
  /\ UNCHANGED start_time

\* Mutant: a quantum that runs out while nobody waits is not begun anew.
keep_NoReset(q) ==
  /\ ~Preempts(q) /\ (current_thread # NULL \/ q = <<>>)
  /\ ready_queue' = q
  /\ tick_count' = IF alg = "ROUND_ROBIN" /\ current_thread # NULL
                   THEN [tick_count EXCEPT ![current_thread] = @ + 1] ELSE tick_count
  /\ remaining_time' = Charged
  /\ UNCHANGED <<current_thread, waiting_time, start_time>>

\* The current thread keeps the CPU, or nobody wants it.
keep(q) ==
  /\ ~Preempts(q) /\ (current_thread # NULL \/ q = <<>>)
  /\ ready_queue' = q
  /\ tick_count' = IF alg = "ROUND_ROBIN" /\ current_thread # NULL
                   THEN [tick_count EXCEPT ![current_thread] = (@ + 1) % quant] ELSE tick_count
  /\ remaining_time' = Charged
  /\ UNCHANGED <<current_thread, waiting_time, start_time>>

tick ==
  /\ phase = "before"
  /\ \E q \in queue_sort : preempt(q) \/ dispatch(q) \/ keep(q)
  /\ phase' = "after"
  /\ used' = [t \in Threads |-> IF t = current_thread' THEN used[t] + 1 ELSE used[t]]
  /\ served' = [t \in Threads |-> IF t \in io THEN served[t] + 1 ELSE served[t]]
  /\ UNCHANGED <<alg, all_threads, finish_time, report, sim_time, threadVars, ioVars>>

\* The simulator goes on to the next tick.
advance ==
  /\ phase = "after" /\ sim_time < MaxTime
  /\ current_thread # NULL => used[current_thread] < length[current_thread]
  /\ phase' = "before"
  /\ sim_time' = sim_time + 1
  /\ UNCHANGED <<alg, ready_queue, all_threads, current_thread, finish_time, start_time, waiting_time,
       remaining_time, tick_count, report, used, served, threadVars, ioVars>>

\* The simulation is over when all threads have exited.
stats ==
  /\ phase = "after" /\ all_threads # {} /\ Exited = all_threads
  /\ report' = [t \in all_threads |->
       [waiting_time |-> waiting_time[t], turnaround_time |-> finish_time[t] - arrive_time[t]]]
  /\ all_threads' = {}
  /\ phase' = "over"
  /\ UNCHANGED <<alg, ready_queue, current_thread, finish_time, start_time, waiting_time,
       remaining_time, tick_count, threadVars, simVars, ioVars>>

Next ==
  \/ \E t \in Threads, p \in Priorities[alg], l \in Lengths[alg] : sys_exec(t, p, l)
  \/ \E t \in Threads : sys_exit(t) \/ sys_io(t) \/ io_starting(t) \/ io_complete(t)
  \/ tick \/ advance \/ stats

Spec == Init /\ [][Next]_vars

----------------------------------------------------------------------------
(* Properties *)

\* A thread that has arrived and not exited is in one place: on the CPU, once
\* in the ready queue, or at I/O (scheduler.c:95-96, 113-114, 151).
OnePlace ==
  LET ready == ToSet(ready_queue)
      cpu == {current_thread} \ {NULL}
  IN  /\ Len(ready_queue) = Cardinality(ready)
      /\ ready \cap cpu = {} /\ (ready \cup cpu) \cap (io_queue \cup io) = {}
      /\ ready \cup cpu \cup io_queue \cup io = all_threads \ Exited

\* The remaining time is what the thread still needs: charging the thread on
\* the CPU in advance, and refunding one that is preempted, even out
\* (scheduler.c:84, 143-144, 161).
RemainingExact ==
  alg \in ByRemaining =>
    \A t \in all_threads : remaining_time[t] = length[t] - used[t]

\* After tick() no ready thread should have the CPU instead: it is not idle
\* while threads are ready, and a preemptive algorithm runs the thread that its
\* measure puts first (scheduler.c:106-148).
RunsFirst ==
  [][phase = "before" /\ phase' = "after" =>
      \A t \in ToSet(ready_queue') :
        /\ current_thread' # NULL
        /\ CASE alg = "PREEMPTIVE_PRIORITY" -> priority[current_thread'] <= priority[t]
             [] alg = "PREEMPTIVE_SHORTEST_JOB_FIRST" -> length[current_thread'] <= length[t]
             [] alg = "PREEMPTIVE_SHORTEST_REMAINING_TIME_FIRST" ->
                  remaining_time'[current_thread'] < remaining_time'[t]
             [] OTHER -> TRUE]_vars

\* A non-preemptive algorithm leaves a thread the CPU until it exits or does I/O.
NeverPreempts ==
  [][(alg \in NonPreemptive) =>
       current_thread' = current_thread \/ NULL \in {current_thread, current_thread'}]_vars

\* With ROUND_ROBIN every thread that is ready gets the CPU within a quantum
\* of each other thread (scheduler.c:87-105).
BoundedWait ==
  alg = "ROUND_ROBIN" =>
    \A t \in ToSet(ready_queue) :
      sim_time - start_time[t] <= quant * (Cardinality(all_threads) - 1)

\* The times stats() reports add up: from its arrival until it finished, a
\* thread waited, was on the CPU, or was served by a device.
TurnaroundAddsUp ==
  \A t \in DOMAIN report :
    report[t].turnaround_time = report[t].waiting_time + used[t] + served[t]
=============================================================================
