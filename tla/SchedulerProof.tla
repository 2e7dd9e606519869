--------------------------- MODULE SchedulerProof ---------------------------
(***************************************************************************)
(* The scheduler of Assignment 4 for any threads, any quantum and any run  *)
(* of the simulator: threads are in one place, time is accounted for, the  *)
(* right thread has the CPU, and ROUND_ROBIN's waits are bounded.          *)
(***************************************************************************)
EXTENDS Scheduler, KListProof

Types ==
  /\ alg \in Algorithms
  /\ ready_queue \in Seq(Threads)
  /\ all_threads \in SUBSET Threads /\ IsFiniteSet(all_threads)
  /\ current_thread \in Threads \cup {NULL}
  /\ priority \in [Threads -> Nat] /\ length \in [Threads -> Nat]
  /\ arrive_time \in [Threads -> Nat] /\ finish_time \in [Threads -> Nat]
  /\ start_time \in [Threads -> Nat]
  /\ waiting_time \in [Threads -> Int] /\ remaining_time \in [Threads -> Int]
  /\ tick_count \in [Threads -> Nat]
  /\ sim_time \in Nat
  /\ phase \in {"before", "after", "over"}
  /\ used \in [Threads -> Nat] /\ served \in [Threads -> Nat]
  /\ io_queue \in SUBSET Threads /\ io \in SUBSET Threads

Ready == ToSet(ready_queue)

\* OnePlace, thread by thread.
Places ==
  /\ IsInjective(ready_queue)
  /\ \A t \in Threads :
       /\ t \in Ready => t # current_thread /\ t \notin io_queue /\ t \notin io
       /\ t = current_thread => t \notin io_queue /\ t \notin io
       /\ t \in io_queue => t \notin io
       /\ t \in Ready \/ t = current_thread \/ t \in io_queue \/ t \in io
            <=> t \in all_threads /\ finish_time[t] = 0

\* What stats() leaves behind, and what is known of threads that have not arrived.
Fresh ==
  /\ phase = "over" => all_threads = {}
  /\ phase # "over" => /\ report = <<>>
                       /\ \A t \in Threads \ all_threads :
                            finish_time[t] = 0 /\ waiting_time[t] = 0 /\ used[t] = 0 /\ served[t] = 0

\* The time up to which this tick has been accounted for.
Now == IF phase = "before" THEN sim_time ELSE sim_time + 1

\* A thread's times add up to when it finished, to when it began to wait, or, while
\* it has the CPU or a device, to the present.
Had(t) == arrive_time[t] + waiting_time[t] + used[t] + served[t]

Accounts ==
  phase # "over" =>
    \A t \in all_threads :
      /\ finish_time[t] > 0 => Had(t) = finish_time[t]
      /\ t \in Ready \/ t \in io_queue => Had(t) = start_time[t]
      /\ t = current_thread \/ t \in io => Had(t) = Now

Inv == Types /\ Places /\ Fresh /\ Accounts /\ RemainingExact /\ TurnaroundAddsUp

----------------------------------------------------------------------------
(* Lemmas about queues *)

LEMMA AppendQueue ==
  ASSUME NEW S, NEW q \in Seq(S), IsInjective(q), NEW x \in S, x \notin ToSet(q)
  PROVE  /\ Append(q, x) \in Seq(S) /\ IsInjective(Append(q, x))
         /\ ToSet(Append(q, x)) = ToSet(q) \cup {x}
<1> DEFINE a == Append(q, x)
           n == Len(q)
<1>1. n \in Nat /\ DOMAIN q = 1..n /\ \A i \in 1..n : q[i] \in S
  OBVIOUS
<1>2. /\ a \in Seq(S) /\ Len(a) = n + 1 /\ DOMAIN a = 1..(n + 1)
      /\ \A i \in 1..n : a[i] = q[i]
      /\ a[n + 1] = x
  BY <1>1
<1>3. \A i \in 1..(n + 1) : i \in 1..n \/ i = n + 1
  BY <1>1
<1>4. \A i \in 1..n : q[i] # x
  BY <1>1 DEF ToSet
<1>5. IsInjective(a)
  <2> HIDE DEF a
  <2>1. \A i, j \in 1..n : q[i] = q[j] => i = j
    BY <1>1 DEF IsInjective
  <2> QED
    BY <1>2, <1>3, <1>4, <2>1 DEF IsInjective
<1>6. ToSet(a) = ToSet(q) \cup {x}
  <2>1. ToSet(q) = {q[i] : i \in 1..n} /\ ToSet(a) = {a[i] : i \in 1..(n + 1)}
    BY <1>1, <1>2 DEF ToSet
  <2>2. n + 1 \in 1..(n + 1) /\ \A i \in 1..n : i \in 1..(n + 1)
    BY <1>1
  <2> HIDE DEF a
  <2> QED
    BY <1>2, <1>3, <2>1, <2>2
<1> QED
  BY <1>2, <1>5, <1>6

\* What a sorted queue is in the order of.
Measure(t) == CASE alg \in ByPriority -> priority[t]
                [] alg \in ByLength -> length[t]
                [] alg \in ByRemaining -> remaining_time[t]

\* queue_sort() rearranges the queue, by the measure of the algorithm.
LEMMA SortFacts ==
  ASSUME Types, Places, NEW q \in queue_sort
  PROVE  /\ q \in Seq(Threads) /\ IsInjective(q) /\ ToSet(q) = Ready
         /\ alg = "ROUND_ROBIN" => q = ready_queue
         /\ q # <<>> => \A t \in Ready :
              /\ alg \in ByPriority => priority[Head(q)] <= priority[t]
              /\ alg \in ByLength => length[Head(q)] <= length[t]
              /\ alg \in ByRemaining => remaining_time[Head(q)] <= remaining_time[t]
<1>0. ready_queue \in Seq(Threads) /\ IsInjective(ready_queue)
  BY DEF Types, Places
<1>1. CASE ~Sorted
  BY <1>0, <1>1 DEF queue_sort, Ready, Sorted
<1>2. CASE Sorted
  <2>1. /\ q \in SetToSeqs(ToSet(ready_queue))
        /\ \A i, j \in DOMAIN q : i < j => Measure(q[i]) <= Measure(q[j])
    BY <1>2 DEF queue_sort, Measure
  <2>2. ToSet(ready_queue) \subseteq Threads /\ IsFiniteSet(ToSet(ready_queue))
    BY <1>0, QueueLength DEF ToSet
  <2>3. /\ q \in Seq(ToSet(ready_queue)) /\ IsInjective(q) /\ ToSet(q) = Ready
    BY <2>1, <2>2, Arrangement DEF Ready
  <2>4. q \in Seq(Threads)
    BY <2>2, <2>3
  <2>5. alg # "ROUND_ROBIN"
    BY <1>2 DEF Sorted, ByPriority, ByLength, ByRemaining
  <2>7. \A x : /\ alg \in ByPriority => Measure(x) = priority[x]
               /\ alg \in ByLength => Measure(x) = length[x]
               /\ alg \in ByRemaining => Measure(x) = remaining_time[x]
    BY DEF Measure, ByPriority, ByLength, ByRemaining
  <2>6. ASSUME q # <<>>, NEW t \in Ready
        PROVE  Measure(Head(q)) <= Measure(t)
    <3>1. DOMAIN q = 1..Len(q) /\ Len(q) \in Nat /\ Len(q) > 0 /\ Head(q) = q[1]
      BY <2>4, <2>6
    <3>2. PICK i \in 1..Len(q) : t = q[i]
      BY <2>3, <2>6, <3>1 DEF ToSet
    <3>3. CASE i = 1
      <4>1. priority[t] \in Int /\ length[t] \in Int /\ remaining_time[t] \in Int
        BY <2>2, <2>6 DEF Types, Ready
      <4>2. Head(q) = t
        BY <3>1, <3>2, <3>3
      <4>3. Measure(t) \in Int
        BY <2>7, <1>2, <4>1 DEF Sorted
      <4> QED
        BY <4>2, <4>3
    <3>4. CASE 1 < i
      <4>1. 1 \in DOMAIN q /\ i \in DOMAIN q
        BY <3>1
      <4>2. Measure(q[1]) <= Measure(q[i])
        BY <2>1, <3>4, <4>1
      <4> QED
        BY <3>1, <3>2, <4>2
    <3> QED
      BY <3>2, <3>3, <3>4
  <2> QED
    BY <2>3, <2>4, <2>5, <2>6, <2>7
<1> QED
  BY <1>1, <1>2

\* The first thread of the queue, and what is left of it.
LEMMA QueueHead ==
  ASSUME Types, Places, NEW q \in queue_sort, q # <<>>
  PROVE  /\ Head(q) \in Threads /\ Head(q) \in Ready /\ Head(q) # current_thread
         /\ Tail(q) \in Seq(Threads) /\ IsInjective(Tail(q)) /\ ToSet(Tail(q)) = Ready \ {Head(q)}
<1>1. q \in Seq(Threads) /\ IsInjective(q) /\ ToSet(q) = Ready
  BY SortFacts
<1> QED
  BY <1>1, HeadAndTail DEF Places

----------------------------------------------------------------------------
(* Invariance: the tick *)

\* Who has the CPU gives it up, or gets it: which three ways there are, and that
\* remaining times change with the CPU time used.
LEMMA TickFacts ==
  ASSUME Types, Places, tick
  PROVE  \E q \in queue_sort :
           \/ /\ preempt(q) /\ Preempts(q)
              /\ current_thread \in Threads /\ q # <<>> /\ current_thread \notin Ready
           \/ /\ dispatch(q) /\ current_thread = NULL /\ q # <<>>
           \/ /\ keep(q) /\ UNCHANGED <<current_thread, waiting_time, start_time>>
              /\ ready_queue' = q
<1>1. PICK q \in queue_sort : preempt(q) \/ dispatch(q) \/ keep(q)
  BY DEF tick
<1>2. current_thread # NULL => current_thread \in Threads
  BY DEF Types
<1>3. current_thread \in Threads => current_thread \notin Ready
  BY DEF Places
<1> QED
  BY <1>1, <1>2, <1>3 DEF preempt, Preempts, dispatch, keep

LEMMA TickTypes ==
  ASSUME Types, Places, tick
  PROVE  Types'
<1>1. PICK q \in queue_sort :
           \/ /\ preempt(q) /\ Preempts(q)
              /\ current_thread \in Threads /\ q # <<>> /\ current_thread \notin Ready
           \/ /\ dispatch(q) /\ current_thread = NULL /\ q # <<>>
           \/ /\ keep(q) /\ UNCHANGED <<current_thread, waiting_time, start_time>>
              /\ ready_queue' = q
  BY TickFacts
<1>2. q \in Seq(Threads)
  BY SortFacts
<1>3. q # <<>> => Head(q) \in Threads /\ Tail(q) \in Seq(Threads)
  BY QueueHead
<1>4. /\ start_time \in [Threads -> Nat] /\ tick_count \in [Threads -> Nat] /\ sim_time \in Nat
      /\ waiting_time \in [Threads -> Int] /\ remaining_time \in [Threads -> Int]
      /\ current_thread \in Threads \cup {NULL}
      /\ used \in [Threads -> Nat] /\ served \in [Threads -> Nat]
  BY DEF Types
<1>5. Charged \in [Threads -> Int]
  BY <1>4 DEF Charged
<1>9. q # <<>> => /\ waiting_time[Head(q)] + sim_time - start_time[Head(q)] \in Int
                   /\ remaining_time[Head(q)] - 1 \in Int
  <2> SUFFICES ASSUME NEW h \in Threads
               PROVE  waiting_time[h] + sim_time - start_time[h] \in Int /\ remaining_time[h] - 1 \in Int
    BY <1>3
  <2>1. waiting_time[h] \in Int /\ start_time[h] \in Nat /\ remaining_time[h] \in Int /\ sim_time \in Nat
    BY <1>4
  <2> QED
    BY <2>1
<1>6. /\ ready_queue' \in Seq(Threads) /\ current_thread' \in Threads \cup {NULL}
      /\ waiting_time' \in [Threads -> Int] /\ start_time' \in [Threads -> Nat]
      /\ tick_count' \in [Threads -> Nat] /\ remaining_time' \in [Threads -> Int]
  <2>1. CASE preempt(q) /\ q # <<>> /\ current_thread \in Threads
    <3>1. ready_queue' \in Seq(Threads) /\ current_thread' \in Threads
      BY <1>3, <2>1 DEF preempt
    <3>2. waiting_time' \in [Threads -> Int] /\ start_time' \in [Threads -> Nat]
      BY <1>3, <1>4, <1>9, <2>1 DEF preempt
    <3>3. tick_count' \in [Threads -> Nat]
      BY <1>3, <1>4, <2>1 DEF preempt
    <3>4. remaining_time' \in [Threads -> Int]
      BY <1>3, <1>5, <2>1 DEF preempt
    <3> QED
      BY <3>1, <3>2, <3>3, <3>4
  <2>2. CASE dispatch(q) /\ q # <<>>
    <3>1. ready_queue' \in Seq(Threads) /\ current_thread' \in Threads
      BY <1>3, <2>2 DEF dispatch
    <3>2. waiting_time' \in [Threads -> Int] /\ start_time' \in [Threads -> Nat]
      BY <1>3, <1>4, <1>9, <2>2 DEF dispatch
    <3>3. tick_count' \in [Threads -> Nat]
      BY <1>3, <1>4, <2>2 DEF dispatch
    <3>4. remaining_time' \in [Threads -> Int]
      BY <1>3, <1>4, <1>9, <2>2 DEF dispatch
    <3> QED
      BY <3>1, <3>2, <3>3, <3>4
  <2>3. CASE keep(q)
    <3>1. \A x \in Nat : (x + 1) % quant \in Nat
      BY SchedulerAssumption
    <3>2. tick_count' \in [Threads -> Nat]
      BY <1>4, <2>3, <3>1 DEF keep
    <3> QED
      BY <1>2, <1>4, <1>5, <2>3, <3>2 DEF keep
  <2> QED
    BY <1>1, <2>1, <2>2, <2>3
<1>7. used' \in [Threads -> Nat] /\ served' \in [Threads -> Nat] /\ phase' = "after"
  BY <1>4 DEF tick
<1>8. UNCHANGED <<alg, all_threads, finish_time, report, sim_time, priority, length, arrive_time, io_queue, io>>
  BY DEF tick, threadVars, ioVars
<1> QED
  BY <1>6, <1>7, <1>8 DEF Types

\* A tick moves threads between the queue and the CPU only.
LEMMA TickPlaces ==
  ASSUME Types, Places, tick
  PROVE  /\ Places'
         /\ Ready' \cup ({current_thread'} \ {NULL}) = Ready \cup ({current_thread} \ {NULL})
<1>1. PICK q \in queue_sort :
           \/ /\ preempt(q) /\ Preempts(q)
              /\ current_thread \in Threads /\ q # <<>> /\ current_thread \notin Ready
           \/ /\ dispatch(q) /\ current_thread = NULL /\ q # <<>>
           \/ /\ keep(q) /\ UNCHANGED <<current_thread, waiting_time, start_time>>
              /\ ready_queue' = q
  BY TickFacts
<1>2. q \in Seq(Threads) /\ IsInjective(q) /\ ToSet(q) = Ready
  BY SortFacts
<1>3. q # <<>> => /\ Head(q) \in Threads /\ Head(q) \in Ready /\ Head(q) # current_thread
                  /\ Tail(q) \in Seq(Threads) /\ IsInjective(Tail(q)) /\ ToSet(Tail(q)) = Ready \ {Head(q)}
  BY QueueHead
<1>4. UNCHANGED <<all_threads, finish_time, io_queue, io>> /\ NULL \notin Threads
  BY SchedulerAssumption DEF tick, ioVars
<1>5. Ready \subseteq Threads
  BY <1>2 DEF ToSet
<1>6. /\ IsInjective(ready_queue') /\ Ready' \subseteq Threads
      /\ current_thread' \notin Ready'
      /\ Ready' \cup ({current_thread'} \ {NULL}) = Ready \cup ({current_thread} \ {NULL})
  <2>1. CASE preempt(q) /\ q # <<>> /\ current_thread \in Threads /\ current_thread \notin Ready
    <3>1. ready_queue' = Append(Tail(q), current_thread) /\ current_thread' = Head(q)
      BY <2>1 DEF preempt
    <3>2. IsInjective(ready_queue') /\ Ready' = (Ready \ {Head(q)}) \cup {current_thread}
      <4>1. /\ Tail(q) \in Seq(Threads) /\ IsInjective(Tail(q)) /\ current_thread \in Threads
            /\ ToSet(Tail(q)) = Ready \ {Head(q)} /\ current_thread \notin ToSet(Tail(q))
        BY <1>3, <2>1
      <4> DEFINE r == Tail(q)
      <4>2. /\ IsInjective(Append(r, current_thread))
            /\ ToSet(Append(r, current_thread)) = ToSet(r) \cup {current_thread}
        <5>1. r \in Seq(Threads) /\ IsInjective(r) /\ current_thread \notin ToSet(r)
          BY <4>1
        <5> HIDE DEF r
        <5> QED
          BY <4>1, <5>1, AppendQueue
      <4>3. Ready' = ToSet(ready_queue')
        BY DEF Ready
      <4> QED
        BY <3>1, <4>1, <4>2, <4>3 DEF r
    <3> QED
      BY <1>3, <1>4, <1>5, <2>1, <3>1, <3>2
  <2>2. CASE dispatch(q) /\ current_thread = NULL /\ q # <<>>
    <3>1. ready_queue' = Tail(q) /\ current_thread' = Head(q)
      BY <2>2 DEF dispatch
    <3>2. IsInjective(ready_queue') /\ Ready' = Ready \ {Head(q)}
      BY <1>3, <2>2, <3>1 DEF Ready
    <3> QED
      BY <1>3, <1>4, <1>5, <2>2, <3>1, <3>2
  <2>3. CASE ready_queue' = q /\ current_thread' = current_thread
    <3>1. Ready' = Ready
      BY <1>2, <2>3 DEF Ready
    <3> QED
      BY <1>2, <1>4, <1>5, <2>3, <3>1 DEF Places
  <2> QED
    BY <1>1, <2>1, <2>2, <2>3
<1>7. ASSUME NEW t \in Threads
      PROVE  /\ t \in Ready' => t # current_thread' /\ t \notin io_queue' /\ t \notin io'
             /\ t = current_thread' => t \notin io_queue' /\ t \notin io'
             /\ t \in io_queue' => t \notin io'
             /\ t \in Ready' \/ t = current_thread' \/ t \in io_queue' \/ t \in io'
                  <=> t \in all_threads' /\ finish_time'[t] = 0
  <2>1. t \in Ready' \/ t = current_thread' <=> t \in Ready \/ t = current_thread
    BY <1>4, <1>6
  <2> QED
    BY <1>4, <1>6, <2>1 DEF Places
<1> QED
  BY <1>6, <1>7 DEF Places

----------------------------------------------------------------------------
(* Invariance: types and places *)

LEMMA InitInv == Init => Inv
<1> SUFFICES ASSUME Init
             PROVE  Inv
  OBVIOUS
<1>1. Zero \in [Threads -> Nat] /\ Zero \in [Threads -> Int] /\ \A t \in Threads : Zero[t] = 0
  BY DEF Zero
<1>2. Types
  BY <1>1, FS_EmptySet DEF Init, Types
<1>3. Ready = {} /\ IsInjective(ready_queue)
  BY DEF Init, Ready, ToSet, IsInjective
<1>4. Places
  BY <1>3, SchedulerAssumption DEF Init, Places
<1>5. Fresh /\ Accounts /\ RemainingExact
  BY <1>1 DEF Init, Fresh, Accounts, RemainingExact
<1>6. TurnaroundAddsUp
  BY DEF Init, TurnaroundAddsUp
<1> QED
  BY <1>2, <1>4, <1>5, <1>6 DEF Inv

LEMMA TypesStep == Types /\ Places /\ [Next]_vars => Types'
<1> SUFFICES ASSUME Types, Places, [Next]_vars
             PROVE  Types'
  OBVIOUS
<1>1. ASSUME NEW t \in Threads, NEW p \in Priorities[alg], NEW l \in Lengths[alg], sys_exec(t, p, l)
      PROVE  Types'
  <2>1. p \in Nat /\ l \in Nat
    BY SchedulerAssumption DEF Types
  <2>2. priority' \in [Threads -> Nat] /\ length' \in [Threads -> Nat]
    BY <1>1, <2>1 DEF sys_exec, Types
  <2>3. arrive_time' \in [Threads -> Nat] /\ start_time' \in [Threads -> Nat]
    BY <1>1 DEF sys_exec, Types
  <2>4. remaining_time' \in [Threads -> Int]
    BY <1>1, <2>1 DEF sys_exec, Types
  <2>5. ready_queue' \in Seq(Threads)
    BY <1>1 DEF sys_exec, Types
  <2>6. all_threads' \in SUBSET Threads /\ IsFiniteSet(all_threads')
    BY <1>1, FS_AddElement DEF sys_exec, Types
  <2>7. UNCHANGED <<alg, current_thread, finish_time, waiting_time, tick_count, phase, simVars, ioVars>>
    BY <1>1 DEF sys_exec
  <2> QED
    BY <2>2, <2>3, <2>4, <2>5, <2>6, <2>7 DEF Types, simVars, ioVars
<1>2. ASSUME NEW t \in Threads, sys_exit(t)
      PROVE  Types'
  <2>1. finish_time' \in [Threads -> Nat]
    BY <1>2 DEF sys_exit, Types
  <2> QED
    BY <1>2, <2>1 DEF sys_exit, Types, threadVars, simVars, ioVars
<1>3. ASSUME NEW t \in Threads, sys_io(t)
      PROVE  Types'
  <2>1. start_time' \in [Threads -> Nat] /\ io_queue' \in SUBSET Threads
    BY <1>3 DEF sys_io, Types
  <2> QED
    BY <1>3, <2>1 DEF sys_io, Types, threadVars, simVars
<1>4. ASSUME NEW t \in Threads, io_starting(t)
      PROVE  Types'
  <2>1. waiting_time[t] + sim_time - start_time[t] \in Int
    <3>1. waiting_time[t] \in Int /\ sim_time \in Nat /\ start_time[t] \in Nat
      BY DEF Types
    <3> QED
      BY <3>1
  <2>2. waiting_time' \in [Threads -> Int]
    BY <1>4, <2>1 DEF io_starting, Types
  <2>3. io_queue' \in SUBSET Threads /\ io' \in SUBSET Threads
    BY <1>4 DEF io_starting, Types
  <2> QED
    BY <1>4, <2>2, <2>3 DEF io_starting, Types, threadVars, simVars
<1>5. ASSUME NEW t \in Threads, io_complete(t)
      PROVE  Types'
  <2>1. start_time' \in [Threads -> Nat] /\ ready_queue' \in Seq(Threads) /\ io' \in SUBSET Threads
    BY <1>5 DEF io_complete, Types
  <2> QED
    BY <1>5, <2>1 DEF io_complete, Types, threadVars, simVars
<1>6. CASE tick
  BY <1>6, TickTypes
<1>7. CASE advance
  BY <1>7 DEF advance, Types, threadVars, ioVars
<1>8. CASE stats
  BY <1>8, FS_EmptySet DEF stats, Types, threadVars, simVars, ioVars
<1>9. CASE UNCHANGED vars
  BY <1>9 DEF vars, Types
<1> QED
  BY <1>1, <1>2, <1>3, <1>4, <1>5, <1>6, <1>7, <1>8, <1>9 DEF Next

\* A thread is reported to arrive once, and each callback moves it to where it is next.
LEMMA PlacesStep == Types /\ Places /\ Fresh /\ [Next]_vars => Places'
<1> SUFFICES ASSUME Types, Places, Fresh, [Next]_vars
             PROVE  Places'
  OBVIOUS
<1>0. NULL \notin Threads /\ ready_queue \in Seq(Threads) /\ finish_time \in [Threads -> Nat]
      /\ IsInjective(ready_queue) /\ sim_time \in Nat
  BY SchedulerAssumption DEF Types, Places
<1>1. ASSUME NEW t \in Threads, NEW p \in Priorities[alg], NEW l \in Lengths[alg], sys_exec(t, p, l)
      PROVE  Places'
  <2>1. /\ t \notin all_threads /\ phase = "before"
        /\ ready_queue' = Append(ready_queue, t) /\ all_threads' = all_threads \cup {t}
        /\ UNCHANGED <<current_thread, finish_time, io_queue, io>>
    BY <1>1 DEF sys_exec, ioVars
  <2>2. t \notin Ready /\ t # current_thread /\ t \notin io_queue /\ t \notin io /\ finish_time[t] = 0
    BY <2>1 DEF Places, Fresh
  <2>3. IsInjective(ready_queue') /\ Ready' = Ready \cup {t}
    BY <1>0, <2>1, <2>2, AppendQueue DEF Ready
  <2> QED
    BY <2>1, <2>2, <2>3 DEF Places
<1>2. ASSUME NEW t \in Threads, sys_exit(t)
      PROVE  Places'
  <2>1. /\ t = current_thread /\ current_thread' = NULL
        /\ finish_time' = [finish_time EXCEPT ![t] = sim_time + 1]
        /\ UNCHANGED <<ready_queue, all_threads, io_queue, io>>
    BY <1>2 DEF sys_exit, ioVars
  <2>2. finish_time'[t] # 0 /\ \A u \in Threads : u # t => finish_time'[u] = finish_time[u]
    BY <1>0, <2>1
  <2>3. Ready' = Ready
    BY <2>1 DEF Ready
  <2> QED
    BY <1>0, <2>1, <2>2, <2>3 DEF Places
<1>3. ASSUME NEW t \in Threads, sys_io(t)
      PROVE  Places'
  <2>1. /\ t = current_thread /\ current_thread' = NULL /\ io_queue' = io_queue \cup {t}
        /\ UNCHANGED <<ready_queue, all_threads, finish_time, io>>
    BY <1>3 DEF sys_io
  <2>2. Ready' = Ready
    BY <2>1 DEF Ready
  <2> QED
    BY <1>0, <2>1, <2>2 DEF Places
<1>4. ASSUME NEW t \in Threads, io_starting(t)
      PROVE  Places'
  <2>1. /\ t \in io_queue /\ io_queue' = io_queue \ {t} /\ io' = io \cup {t}
        /\ UNCHANGED <<ready_queue, all_threads, finish_time, current_thread>>
    BY <1>4 DEF io_starting
  <2>2. Ready' = Ready
    BY <2>1 DEF Ready
  <2> QED
    BY <2>1, <2>2 DEF Places
<1>5. ASSUME NEW t \in Threads, io_complete(t)
      PROVE  Places'
  <2>1. /\ t \in io /\ io' = io \ {t} /\ ready_queue' = Append(ready_queue, t)
        /\ UNCHANGED <<all_threads, finish_time, current_thread, io_queue>>
    BY <1>5 DEF io_complete
  <2>2. t \notin Ready
    BY <2>1 DEF Places
  <2>3. IsInjective(ready_queue') /\ Ready' = Ready \cup {t}
    BY <1>0, <2>1, <2>2, AppendQueue DEF Ready
  <2> QED
    BY <2>1, <2>3 DEF Places
<1>6. CASE tick
  BY <1>6, TickPlaces
<1>7. CASE advance
  BY <1>7 DEF advance, Places, Ready, ioVars
<1>8. CASE stats
  <2>1. /\ all_threads' = {} /\ \A t \in all_threads : finish_time[t] > 0
        /\ UNCHANGED <<ready_queue, current_thread, finish_time, io_queue, io>>
    BY <1>8 DEF stats, Exited, ioVars
  <2>2. Ready' = Ready
    BY <2>1 DEF Ready
  <2> QED
    BY <1>0, <2>1, <2>2 DEF Places
<1>9. CASE UNCHANGED vars
  BY <1>9 DEF vars, Places, Ready
<1> QED
  BY <1>1, <1>2, <1>3, <1>4, <1>5, <1>6, <1>7, <1>8, <1>9 DEF Next

----------------------------------------------------------------------------
(* Invariance: the accounts *)

LEMMA FreshStep == Types /\ Places /\ Fresh /\ [Next]_vars => Fresh'
<1> SUFFICES ASSUME Types, Places, Fresh, [Next]_vars
             PROVE  Fresh'
  OBVIOUS
<1>0. /\ NULL \notin Threads
      /\ finish_time \in [Threads -> Nat] /\ waiting_time \in [Threads -> Int]
      /\ used \in [Threads -> Nat] /\ served \in [Threads -> Nat]
      /\ \A t \in Threads : t \in Ready \/ t = current_thread \/ t \in io_queue \/ t \in io => t \in all_threads
  BY SchedulerAssumption DEF Types, Places
<1>1. ASSUME NEW t \in Threads, NEW p \in Priorities[alg], NEW l \in Lengths[alg], sys_exec(t, p, l)
      PROVE  Fresh'
  BY <1>1 DEF sys_exec, Fresh, simVars
<1>2. ASSUME NEW t \in Threads, sys_exit(t)
      PROVE  Fresh'
  BY <1>0, <1>2 DEF sys_exit, Fresh, simVars
<1>3. ASSUME NEW t \in Threads, sys_io(t)
      PROVE  Fresh'
  BY <1>3 DEF sys_io, Fresh, simVars
<1>4. ASSUME NEW t \in Threads, io_starting(t)
      PROVE  Fresh'
  <2>1. \A u \in Threads : u # t => waiting_time'[u] = waiting_time[u]
    BY <1>0, <1>4 DEF io_starting
  <2> QED
    BY <1>0, <1>4, <2>1 DEF io_starting, Fresh, simVars
<1>5. ASSUME NEW t \in Threads, io_complete(t)
      PROVE  Fresh'
  BY <1>5 DEF io_complete, Fresh, simVars
<1>6. CASE tick
  <2>1. PICK q \in queue_sort :
           \/ /\ preempt(q) /\ Preempts(q)
              /\ current_thread \in Threads /\ q # <<>> /\ current_thread \notin Ready
           \/ /\ dispatch(q) /\ current_thread = NULL /\ q # <<>>
           \/ /\ keep(q) /\ UNCHANGED <<current_thread, waiting_time, start_time>>
              /\ ready_queue' = q
    BY <1>6, TickFacts
  <2>2. q # <<>> => Head(q) \in Threads /\ Head(q) \in Ready
    BY QueueHead
  <2>3. \A u \in Threads : u \notin all_threads => waiting_time'[u] = waiting_time[u] /\ u # current_thread'
    <3>1. CASE preempt(q) /\ q # <<>>
      BY <1>0, <2>2, <3>1 DEF preempt
    <3>2. CASE dispatch(q) /\ q # <<>>
      BY <1>0, <2>2, <3>2 DEF dispatch
    <3>3. CASE UNCHANGED <<current_thread, waiting_time, start_time>>
      BY <1>0, <3>3
    <3> QED
      BY <2>1, <3>1, <3>2, <3>3
  <2>4. /\ UNCHANGED <<all_threads, finish_time, report, io>> /\ phase # "over" /\ phase' # "over"
        /\ \A u \in Threads : u # current_thread' => used'[u] = used[u]
        /\ \A u \in Threads : u \notin io => served'[u] = served[u]
    BY <1>6 DEF tick, ioVars
  <2> QED
    BY <1>0, <2>3, <2>4 DEF Fresh
<1>7. CASE advance
  BY <1>7 DEF advance, Fresh
<1>8. CASE stats
  BY <1>8 DEF stats, Fresh
<1>9. CASE UNCHANGED vars
  BY <1>9 DEF vars, Fresh
<1> QED
  BY <1>1, <1>2, <1>3, <1>4, <1>5, <1>6, <1>7, <1>8, <1>9 DEF Next

\* A tick charges a tick to who gets the CPU, and to the threads at the devices.
LEMMA TickAccounts ==
  ASSUME Types, Places, Accounts, tick
  PROVE  Accounts'
<1>1. PICK q \in queue_sort :
           \/ /\ preempt(q) /\ Preempts(q)
              /\ current_thread \in Threads /\ q # <<>> /\ current_thread \notin Ready
           \/ /\ dispatch(q) /\ current_thread = NULL /\ q # <<>>
           \/ /\ keep(q) /\ UNCHANGED <<current_thread, waiting_time, start_time>>
              /\ ready_queue' = q
  BY TickFacts
<1>2. q # <<>> => Head(q) \in Threads /\ Head(q) \in Ready /\ Head(q) # current_thread
  BY QueueHead
<1>3. Places' /\ Ready' \cup ({current_thread'} \ {NULL}) = Ready \cup ({current_thread} \ {NULL})
  BY TickPlaces
<1>4. /\ UNCHANGED <<all_threads, finish_time, sim_time, arrive_time, io_queue, io>>
      /\ phase = "before" /\ phase' = "after"
      /\ used' = [t \in Threads |-> IF t = current_thread' THEN used[t] + 1 ELSE used[t]]
      /\ served' = [t \in Threads |-> IF t \in io THEN served[t] + 1 ELSE served[t]]
  BY DEF tick, threadVars, ioVars
<1> SUFFICES ASSUME NEW t \in all_threads
             PROVE  /\ finish_time'[t] > 0 => Had(t)' = finish_time'[t]
                    /\ t \in Ready' \/ t \in io_queue' => Had(t)' = start_time'[t]
                    /\ t = current_thread' \/ t \in io' => Had(t)' = Now'
  BY <1>4 DEF Accounts
<1>5. /\ t \in Threads /\ NULL \notin Threads
      /\ arrive_time[t] \in Nat /\ waiting_time[t] \in Int /\ used[t] \in Nat /\ served[t] \in Nat
      /\ start_time[t] \in Nat /\ sim_time \in Nat /\ finish_time[t] \in Nat
      /\ waiting_time \in [Threads -> Int] /\ start_time \in [Threads -> Nat]
  BY SchedulerAssumption DEF Types
<1>6. /\ used'[t] = (IF t = current_thread' THEN used[t] + 1 ELSE used[t])
      /\ served'[t] = (IF t \in io THEN served[t] + 1 ELSE served[t])
  BY <1>4, <1>5
<1>7. /\ finish_time[t] > 0 => Had(t) = finish_time[t]
      /\ t \in Ready \/ t \in io_queue => Had(t) = start_time[t]
      /\ t = current_thread \/ t \in io => Had(t) = sim_time
  BY <1>4 DEF Accounts, Now
<1>8. /\ Had(t) = arrive_time[t] + waiting_time[t] + used[t] + served[t]
      /\ Had(t)' = arrive_time[t] + waiting_time'[t] + used'[t] + served'[t]
  BY <1>4 DEF Had
<1>9. Now' = sim_time + 1
  BY <1>4 DEF Now
<1>10. CASE t = current_thread'
  <2>1. finish_time'[t] = 0 /\ t \notin Ready' /\ t \notin io_queue' /\ t \notin io'
    BY <1>3, <1>5, <1>10 DEF Places
  <2>2. used'[t] = used[t] + 1 /\ served'[t] = served[t]
    BY <1>4, <1>6, <1>10, <2>1
  <2>3. Had(t) + (waiting_time'[t] - waiting_time[t]) = sim_time
    <3>1. CASE (preempt(q) \/ dispatch(q)) /\ q # <<>>
      <4>1. t = Head(q) /\ waiting_time'[t] = waiting_time[t] + sim_time - start_time[t]
        BY <1>2, <1>5, <1>10, <3>1 DEF preempt, dispatch
      <4>2. Had(t) = start_time[t]
        BY <1>2, <1>7, <3>1, <4>1
      <4> QED
        BY <1>5, <4>1, <4>2
    <3>2. CASE UNCHANGED <<current_thread, waiting_time, start_time>>
      <4>1. Had(t) = sim_time
        BY <1>7, <1>10, <3>2
      <4> QED
        BY <1>5, <3>2, <4>1
    <3> QED
      BY <1>1, <3>1, <3>2
  <2>4. waiting_time'[t] \in Int
    BY TickTypes, <1>5 DEF Types
  <2> QED
    BY <1>5, <1>8, <1>9, <2>1, <2>2, <2>3, <2>4
<1>11. CASE t # current_thread'
  <2>1. waiting_time'[t] = waiting_time[t] /\ used'[t] = used[t]
    <3>1. used'[t] = used[t]
      BY <1>6, <1>11
    <3>2. CASE (preempt(q) \/ dispatch(q)) /\ q # <<>>
      BY <1>2, <1>5, <1>11, <3>1, <3>2 DEF preempt, dispatch
    <3>3. CASE UNCHANGED <<current_thread, waiting_time, start_time>>
      BY <3>1, <3>3
    <3> QED
      BY <1>1, <3>2, <3>3
  <2>2. CASE t \in io
    <3>1. finish_time'[t] = 0 /\ t \notin Ready' /\ t \notin io_queue'
      BY <1>3, <1>4, <1>5, <2>2 DEF Places
    <3>2. Had(t) = sim_time /\ served'[t] = served[t] + 1
      BY <1>6, <1>7, <2>2
    <3> QED
      BY <1>5, <1>8, <1>9, <2>1, <3>1, <3>2
  <2>3. CASE t \notin io
    <3>1. served'[t] = served[t] /\ Had(t)' = Had(t)
      BY <1>6, <1>8, <2>1, <2>3
    <3>2. t \in Ready' => t \in Ready \/ t = current_thread
      BY <1>3, <1>5
    <3>3. CASE t = current_thread
      <4>1. finish_time[t] = 0 /\ t \notin io_queue /\ Had(t) = sim_time
        BY <1>5, <1>7, <3>3 DEF Places
      <4>2. preempt(q) /\ q # <<>>
        BY <1>1, <1>5, <1>11, <3>3
      <4>3. start_time'[t] = sim_time
        BY <1>5, <3>3, <4>2 DEF preempt
      <4> QED
        BY <1>4, <1>5, <1>11, <2>3, <3>1, <4>1, <4>3
    <3>4. CASE t # current_thread
      <4>1. start_time'[t] = start_time[t]
        BY <1>1, <1>5, <3>4 DEF preempt, dispatch
      <4> QED
        BY <1>4, <1>7, <1>11, <2>3, <3>1, <3>2, <3>4, <4>1
    <3> QED
      BY <3>3, <3>4
  <2> QED
    BY <2>2, <2>3
<1> QED
  BY <1>10, <1>11

\* A callback closes a thread's account where it stood and opens the next one there.
LEMMA AccountsStep == Types /\ Places /\ Fresh /\ Accounts /\ [Next]_vars => Accounts'
<1> SUFFICES ASSUME Types, Places, Fresh, Accounts, [Next]_vars
             PROVE  Accounts'
  OBVIOUS
<1>0. /\ NULL \notin Threads /\ sim_time \in Nat /\ all_threads \subseteq Threads
      /\ waiting_time \in [Threads -> Int] /\ start_time \in [Threads -> Nat]
      /\ arrive_time \in [Threads -> Nat] /\ finish_time \in [Threads -> Nat]
      /\ used \in [Threads -> Nat] /\ served \in [Threads -> Nat]
      /\ ready_queue \in Seq(Threads) /\ IsInjective(ready_queue)
  BY SchedulerAssumption DEF Types, Places
<1>1. ASSUME NEW t \in Threads, NEW p \in Priorities[alg], NEW l \in Lengths[alg], sys_exec(t, p, l)
      PROVE  Accounts'
  <2>1. /\ phase = "before" /\ phase' = phase /\ t \notin all_threads /\ all_threads' = all_threads \cup {t}
        /\ UNCHANGED <<current_thread, finish_time, waiting_time, sim_time, used, served, io_queue, io>>
        /\ arrive_time' = [arrive_time EXCEPT ![t] = sim_time]
        /\ start_time' = [start_time EXCEPT ![t] = sim_time]
        /\ ready_queue' = Append(ready_queue, t)
    BY <1>1 DEF sys_exec, simVars, ioVars
  <2>2. t \notin Ready /\ t # current_thread /\ t \notin io_queue /\ t \notin io
    BY <2>1 DEF Places
  <2>3. finish_time[t] = 0 /\ waiting_time[t] = 0 /\ used[t] = 0 /\ served[t] = 0
    BY <2>1 DEF Fresh
  <2>4. Ready' = Ready \cup {t}
    BY <1>0, <2>1, <2>2, AppendQueue DEF Ready
  <2>5. Had(t)' = start_time'[t]
    BY <1>0, <2>1, <2>3 DEF Had
  <2>6. \A u \in all_threads : Had(u)' = Had(u) /\ start_time'[u] = start_time[u]
    BY <1>0, <2>1 DEF Had
  <2>7. Now' = Now
    BY <2>1 DEF Now
  <2> QED
    BY <2>1, <2>2, <2>3, <2>4, <2>5, <2>6, <2>7 DEF Accounts
<1>2. ASSUME NEW t \in Threads, sys_exit(t)
      PROVE  Accounts'
  <2>1. /\ phase = "after" /\ phase' = phase /\ t = current_thread /\ current_thread' = NULL
        /\ finish_time' = [finish_time EXCEPT ![t] = sim_time + 1]
        /\ UNCHANGED <<ready_queue, all_threads, arrive_time, start_time, waiting_time, sim_time, used, served, io_queue, io>>
    BY <1>2 DEF sys_exit, threadVars, simVars, ioVars
  <2>2. t \notin Ready /\ t \notin io_queue /\ t \notin io /\ t \in all_threads
    BY <2>1 DEF Places
  <2>3. \A u \in all_threads : Had(u)' = Had(u)
    BY <2>1 DEF Had
  <2>4. Now' = Now /\ Now = sim_time + 1 /\ Ready' = Ready
    BY <2>1 DEF Now, Ready
  <2>5. finish_time'[t] = Now /\ \A u \in all_threads : u # t => finish_time'[u] = finish_time[u]
    BY <1>0, <2>1, <2>4
  <2> QED
    BY <1>0, <2>1, <2>2, <2>3, <2>4, <2>5 DEF Accounts
<1>3. ASSUME NEW t \in Threads, sys_io(t)
      PROVE  Accounts'
  <2>1. /\ phase = "after" /\ phase' = phase /\ t = current_thread /\ current_thread' = NULL
        /\ start_time' = [start_time EXCEPT ![t] = sim_time + 1] /\ io_queue' = io_queue \cup {t}
        /\ UNCHANGED <<ready_queue, all_threads, arrive_time, finish_time, waiting_time, sim_time, used, served, io>>
    BY <1>3 DEF sys_io, threadVars, simVars
  <2>2. t \notin Ready /\ t \notin io_queue /\ t \notin io /\ t \in all_threads /\ finish_time[t] = 0
    BY <2>1 DEF Places
  <2>3. \A u \in all_threads : Had(u)' = Had(u)
    BY <2>1 DEF Had
  <2>4. Now' = Now /\ Now = sim_time + 1 /\ Ready' = Ready
    BY <2>1 DEF Now, Ready
  <2>5. start_time'[t] = Now /\ \A u \in all_threads : u # t => start_time'[u] = start_time[u]
    BY <1>0, <2>1, <2>4
  <2> QED
    BY <1>0, <2>1, <2>2, <2>3, <2>4, <2>5 DEF Accounts
<1>4. ASSUME NEW t \in Threads, io_starting(t)
      PROVE  Accounts'
  <2>1. /\ phase = "before" /\ phase' = phase /\ t \in io_queue
        /\ waiting_time' = [waiting_time EXCEPT ![t] = @ + sim_time - start_time[t]]
        /\ io_queue' = io_queue \ {t} /\ io' = io \cup {t}
        /\ UNCHANGED <<ready_queue, current_thread, all_threads, arrive_time, finish_time, start_time, sim_time, used, served>>
    BY <1>4 DEF io_starting, threadVars, simVars
  <2>2. t \notin Ready /\ t # current_thread /\ t \notin io /\ t \in all_threads /\ finish_time[t] = 0
    BY <2>1 DEF Places
  <2>3. \A u \in all_threads : u # t => Had(u)' = Had(u)
    BY <1>0, <2>1 DEF Had
  <2>4. Now' = Now /\ Now = sim_time /\ Ready' = Ready
    BY <2>1 DEF Now, Ready
  <2>5. Had(t)' = Now
    <3>1. Had(t) = start_time[t]
      BY <2>1, <2>2 DEF Accounts
    <3>2. Had(t)' = arrive_time[t] + (waiting_time[t] + sim_time - start_time[t]) + used[t] + served[t]
      BY <1>0, <2>1 DEF Had
    <3>3. /\ arrive_time[t] \in Int /\ waiting_time[t] \in Int /\ start_time[t] \in Int
          /\ used[t] \in Int /\ served[t] \in Int /\ sim_time \in Int
      BY <1>0
    <3> QED
      BY <2>4, <3>1, <3>2, <3>3 DEF Had
  <2> QED
    BY <2>1, <2>2, <2>3, <2>4, <2>5 DEF Accounts
<1>5. ASSUME NEW t \in Threads, io_complete(t)
      PROVE  Accounts'
  <2>1. /\ phase = "after" /\ phase' = phase /\ t \in io /\ io' = io \ {t}
        /\ start_time' = [start_time EXCEPT ![t] = sim_time + 1]
        /\ ready_queue' = Append(ready_queue, t)
        /\ UNCHANGED <<current_thread, all_threads, arrive_time, finish_time, waiting_time, sim_time, used, served, io_queue>>
    BY <1>5 DEF io_complete, threadVars, simVars
  <2>2. t \notin Ready /\ t # current_thread /\ t \notin io_queue /\ t \in all_threads /\ finish_time[t] = 0
    BY <2>1 DEF Places
  <2>3. \A u \in all_threads : Had(u)' = Had(u)
    BY <2>1 DEF Had
  <2>4. Now' = Now /\ Now = sim_time + 1
    BY <2>1 DEF Now
  <2>5. start_time'[t] = Now /\ \A u \in all_threads : u # t => start_time'[u] = start_time[u]
    BY <1>0, <2>1, <2>4
  <2>6. Ready' = Ready \cup {t}
    BY <1>0, <2>1, <2>2, AppendQueue DEF Ready
  <2> QED
    BY <2>1, <2>2, <2>3, <2>4, <2>5, <2>6 DEF Accounts
<1>6. CASE tick
  BY <1>6, TickAccounts
<1>7. CASE advance
  <2>1. /\ phase = "after" /\ phase' = "before" /\ sim_time' = sim_time + 1
        /\ UNCHANGED <<ready_queue, current_thread, all_threads, arrive_time, finish_time, start_time, waiting_time, used, served, io_queue, io>>
    BY <1>7 DEF advance, threadVars, ioVars
  <2>2. Now' = Now /\ Ready' = Ready /\ \A u \in all_threads : Had(u)' = Had(u)
    BY <2>1 DEF Now, Ready, Had
  <2> QED
    BY <2>1, <2>2 DEF Accounts
<1>8. CASE stats
  BY <1>8 DEF stats, Accounts
<1>9. CASE UNCHANGED vars
  <2>1. Now' = Now /\ Ready' = Ready /\ \A u \in all_threads : Had(u)' = Had(u)
    BY <1>9 DEF vars, Now, Ready, Had
  <2> QED
    BY <1>9, <2>1 DEF vars, Accounts
<1> QED
  BY <1>1, <1>2, <1>3, <1>4, <1>5, <1>6, <1>7, <1>8, <1>9 DEF Next

----------------------------------------------------------------------------
(* Invariance: remaining times and the report *)

\* A tick takes one off the remaining time of who gets the CPU, and of nobody else.
LEMMA TickRemaining ==
  ASSUME Types, Places, tick, alg \in ByRemaining, NEW t \in Threads
  PROVE  remaining_time'[t] = IF t = current_thread' THEN remaining_time[t] - 1 ELSE remaining_time[t]
<1>1. PICK q \in queue_sort :
           \/ /\ preempt(q) /\ Preempts(q)
              /\ current_thread \in Threads /\ q # <<>> /\ current_thread \notin Ready
           \/ /\ dispatch(q) /\ current_thread = NULL /\ q # <<>>
           \/ /\ keep(q) /\ UNCHANGED <<current_thread, waiting_time, start_time>>
              /\ ready_queue' = q
  BY TickFacts
<1>2. q # <<>> => Head(q) \in Threads /\ Head(q) # current_thread
  BY QueueHead
<1>3. remaining_time \in [Threads -> Int] /\ current_thread \in Threads \cup {NULL} /\ NULL \notin Threads
  BY SchedulerAssumption DEF Types
<1>4. remaining_time[t] \in Int
  BY <1>3
<1>5. CASE preempt(q) /\ q # <<>> /\ current_thread \in Threads
  <2>1. Charged = [remaining_time EXCEPT ![current_thread] = @ - 1]
    BY <1>3, <1>5 DEF Charged
  <2>2. /\ current_thread' = Head(q)
        /\ remaining_time' = [Charged EXCEPT ![current_thread] = @ + 1, ![Head(q)] = @ - 1]
    BY <1>5 DEF preempt
  <2>3. CASE t = current_thread
    <3>1. remaining_time'[t] = Charged[t] + 1 /\ Charged[t] = remaining_time[t] - 1
      BY <1>2, <1>3, <1>5, <2>1, <2>2, <2>3
    <3> QED
      BY <1>2, <1>4, <1>5, <2>2, <2>3, <3>1
  <2>4. CASE t = Head(q)
    <3>1. remaining_time'[t] = Charged[t] - 1 /\ Charged[t] = remaining_time[t]
      BY <1>2, <1>3, <1>5, <2>1, <2>2, <2>4
    <3> QED
      BY <2>2, <2>4, <3>1
  <2>5. CASE t # current_thread /\ t # Head(q)
    BY <1>3, <2>1, <2>2, <2>5
  <2> QED
    BY <2>3, <2>4, <2>5
<1>6. CASE dispatch(q) /\ q # <<>>
  BY <1>2, <1>3, <1>6 DEF dispatch
<1>7. CASE keep(q) /\ current_thread' = current_thread
  BY <1>3, <1>7 DEF keep, Charged
<1> QED
  BY <1>1, <1>5, <1>6, <1>7

LEMMA RemainingStep == Types /\ Places /\ Fresh /\ RemainingExact /\ [Next]_vars => RemainingExact'
<1> SUFFICES ASSUME Types, Places, Fresh, RemainingExact, [Next]_vars,
                    alg' \in ByRemaining, NEW t \in all_threads'
             PROVE  remaining_time'[t] = length'[t] - used'[t]
  BY DEF RemainingExact
<1>0. /\ NULL \notin Threads /\ all_threads \subseteq Threads
      /\ remaining_time \in [Threads -> Int] /\ length \in [Threads -> Nat] /\ used \in [Threads -> Nat]
  BY SchedulerAssumption DEF Types
<1>1. ASSUME NEW u \in Threads, NEW p \in Priorities[alg], NEW l \in Lengths[alg], sys_exec(u, p, l)
      PROVE  remaining_time'[t] = length'[t] - used'[t]
  <2>1. /\ u \notin all_threads /\ phase # "over" /\ all_threads' = all_threads \cup {u}
        /\ remaining_time' = [remaining_time EXCEPT ![u] = l] /\ length' = [length EXCEPT ![u] = l]
        /\ used' = used /\ alg' = alg
    BY <1>1 DEF sys_exec, simVars
  <2>2. l \in Nat /\ used[u] = 0
    BY <2>1, SchedulerAssumption DEF Types, Fresh
  <2> QED
    BY <1>0, <2>1, <2>2 DEF RemainingExact
<1>2. ASSUME NEW u \in Threads, sys_exit(u) \/ sys_io(u) \/ io_starting(u) \/ io_complete(u)
      PROVE  UNCHANGED <<alg, all_threads, remaining_time, length, used>>
  BY <1>2 DEF sys_exit, sys_io, io_starting, io_complete, threadVars, simVars
<1>3. CASE tick
  <2>1. /\ alg' = alg /\ all_threads' = all_threads /\ length' = length
        /\ used' = [x \in Threads |-> IF x = current_thread' THEN used[x] + 1 ELSE used[x]]
    BY <1>3 DEF tick, threadVars
  <2>2. /\ remaining_time'[t] = IF t = current_thread' THEN remaining_time[t] - 1 ELSE remaining_time[t]
    BY <1>0, <1>3, <2>1, TickRemaining
  <2>3. remaining_time[t] = length[t] - used[t]
    BY <2>1 DEF RemainingExact
  <2>4. /\ used'[t] = IF t = current_thread' THEN used[t] + 1 ELSE used[t]
        /\ length[t] \in Nat /\ used[t] \in Nat /\ length'[t] = length[t]
    BY <1>0, <2>1
  <2> QED
    BY <2>2, <2>3, <2>4
<1>4. CASE advance
  BY <1>4 DEF advance, threadVars, RemainingExact
<1>5. CASE stats
  BY <1>5 DEF stats
<1>6. CASE UNCHANGED vars
  BY <1>6 DEF vars, RemainingExact
<1> QED
  BY <1>1, <1>2, <1>3, <1>4, <1>5, <1>6 DEF Next, RemainingExact

\* stats() reports on threads that have finished.
LEMMA TurnaroundStep == Types /\ Fresh /\ Accounts /\ TurnaroundAddsUp /\ [Next]_vars => TurnaroundAddsUp'
<1> SUFFICES ASSUME Types, Fresh, Accounts, TurnaroundAddsUp, [Next]_vars
             PROVE  TurnaroundAddsUp'
  OBVIOUS
<1>1. CASE stats
  <2>1. /\ phase = "after" /\ used' = used /\ served' = served
        /\ \A t \in all_threads : finish_time[t] > 0
        /\ report' = [t \in all_threads |->
             [waiting_time |-> waiting_time[t], turnaround_time |-> finish_time[t] - arrive_time[t]]]
    BY <1>1 DEF stats, Exited, simVars
  <2> SUFFICES ASSUME NEW t \in all_threads
               PROVE  report'[t].turnaround_time = report'[t].waiting_time + used[t] + served[t]
    BY <2>1 DEF TurnaroundAddsUp
  <2>2. /\ t \in Threads /\ arrive_time[t] \in Nat /\ waiting_time[t] \in Int /\ used[t] \in Nat
        /\ served[t] \in Nat /\ finish_time[t] \in Nat
    BY DEF Types
  <2>3. Had(t) = finish_time[t]
    BY <2>1 DEF Accounts
  <2>4. report'[t].turnaround_time = finish_time[t] - arrive_time[t] /\ report'[t].waiting_time = waiting_time[t]
    BY <2>1
  <2> QED
    BY <2>2, <2>3, <2>4 DEF Had
<1>2. CASE UNCHANGED vars
  BY <1>2 DEF vars, TurnaroundAddsUp
<1>3. CASE Next /\ ~stats
  <2>1. phase # "over" /\ report' = report
    BY <1>3 DEF Next, sys_exec, sys_exit, sys_io, io_starting, io_complete, tick, advance
  <2>2. report' = <<>>
    BY <2>1 DEF Fresh
  <2> QED
    BY <2>2 DEF TurnaroundAddsUp
<1> QED
  BY <1>1, <1>2, <1>3

LEMMA InvStep == Inv /\ [Next]_vars => Inv'
BY TypesStep, PlacesStep, FreshStep, AccountsStep, RemainingStep, TurnaroundStep DEF Inv

LEMMA InvHolds == Spec => []Inv
<1>1. Init => Inv
  BY InitInv
<1>2. Inv /\ [Next]_vars => Inv'
  BY InvStep
<1> QED
  BY <1>1, <1>2, PTL DEF Spec

----------------------------------------------------------------------------
(* Theorems *)

LEMMA PlacesGiveOnePlace == Types /\ Places => OnePlace
<1> SUFFICES ASSUME Types, Places
             PROVE  OnePlace
  OBVIOUS
<1>1. ready_queue \in Seq(Threads) /\ IsInjective(ready_queue)
  BY DEF Types, Places
<1>2. Ready = ToSet(ready_queue) /\ Ready \subseteq Threads /\ Len(ready_queue) = Cardinality(Ready)
  <2>1. Len(ready_queue) = Cardinality(ToSet(ready_queue))
    BY <1>1, QueueLength
  <2>2. ToSet(ready_queue) \subseteq Threads
    BY <1>1 DEF ToSet
  <2> QED
    BY <2>1, <2>2 DEF Ready
<1>3. /\ current_thread \in Threads \cup {NULL} /\ NULL \notin Threads
      /\ io_queue \subseteq Threads /\ io \subseteq Threads /\ all_threads \subseteq Threads
  BY SchedulerAssumption DEF Types
<1>4. \A t \in Threads : finish_time[t] = 0 <=> ~(finish_time[t] > 0)
  <2>1. \A t \in Threads : finish_time[t] \in Nat
    BY DEF Types
  <2> QED
    BY <2>1
<1>5. Ready \cap ({current_thread} \ {NULL}) = {}
  BY <1>2 DEF Places
<1>6. (Ready \cup ({current_thread} \ {NULL})) \cap (io_queue \cup io) = {}
  BY <1>2, <1>3 DEF Places
<1>7. Ready \cup ({current_thread} \ {NULL}) \cup io_queue \cup io = all_threads \ Exited
  <2>1. \A t \in Threads : t \in all_threads \ Exited <=> t \in all_threads /\ finish_time[t] = 0
    BY <1>4 DEF Exited
  <2> QED
    BY <1>2, <1>3, <2>1 DEF Places
<1> QED
  BY <1>2, <1>5, <1>6, <1>7 DEF OnePlace

\* A thread that has arrived and not exited is on the CPU, once in the ready
\* queue, or at I/O (scheduler.c:95-96, 113-114, 151).
THEOREM OneOfThem == Spec => []OnePlace
<1>1. Inv => OnePlace
  BY PlacesGiveOnePlace DEF Inv
<1> QED
  BY <1>1, InvHolds, PTL

\* Charging the thread that gets the CPU and refunding one that is preempted
\* even out (scheduler.c:84, 143-144, 161).
THEOREM ChargedRight == Spec => []RemainingExact
<1>1. Inv => RemainingExact
  BY DEF Inv
<1> QED
  BY <1>1, InvHolds, PTL

\* The times stats() reports add up (scheduler.c:165-185).
THEOREM TimesAddUp == Spec => []TurnaroundAddsUp
<1>1. Inv => TurnaroundAddsUp
  BY DEF Inv
<1> QED
  BY <1>1, InvHolds, PTL

\* A non-preemptive algorithm leaves a thread the CPU until it exits or does I/O
\* (scheduler.c:106-148).
THEOREM LeavesCPU == Spec => NeverPreempts
<1>1. [Next]_vars => [(alg \in NonPreemptive) =>
        current_thread' = current_thread \/ NULL \in {current_thread, current_thread'}]_vars
  <2> SUFFICES ASSUME Next, alg \in NonPreemptive
               PROVE  current_thread' = current_thread \/ NULL \in {current_thread, current_thread'}
    OBVIOUS
  <2>1. CASE tick
    <3>1. alg \notin Preemptive
      BY DEF NonPreemptive, Preemptive
    <3> QED
      BY <2>1, <3>1 DEF tick, preempt, Preempts, dispatch, keep
  <2>2. CASE ~tick
    BY <2>2 DEF Next, sys_exec, sys_exit, sys_io, io_starting, io_complete, advance, stats
  <2> QED
    BY <2>1, <2>2
<1> QED
  BY <1>1, PTL DEF Spec, NeverPreempts

\* After a tick the thread at the CPU comes first by the algorithm's measure.
FirstAfter ==
  phase = "before" /\ phase' = "after" =>
    \A t \in ToSet(ready_queue') :
      /\ current_thread' # NULL
      /\ CASE alg = "PREEMPTIVE_PRIORITY" -> priority[current_thread'] <= priority[t]
           [] alg = "PREEMPTIVE_SHORTEST_JOB_FIRST" -> length[current_thread'] <= length[t]
           [] alg = "PREEMPTIVE_SHORTEST_REMAINING_TIME_FIRST" ->
                remaining_time'[current_thread'] < remaining_time'[t]
           [] OTHER -> TRUE

LEMMA TickRunsFirst ==
  ASSUME Types, Places, tick, NEW t \in ToSet(ready_queue')
  PROVE  /\ current_thread' \in Threads
         /\ alg = "PREEMPTIVE_PRIORITY" => priority[current_thread'] <= priority[t]
         /\ alg = "PREEMPTIVE_SHORTEST_JOB_FIRST" => length[current_thread'] <= length[t]
         /\ alg = "PREEMPTIVE_SHORTEST_REMAINING_TIME_FIRST" =>
              remaining_time'[current_thread'] < remaining_time'[t]
<1>1. PICK q \in queue_sort :
           \/ /\ preempt(q) /\ Preempts(q)
              /\ current_thread \in Threads /\ q # <<>> /\ current_thread \notin Ready
           \/ /\ dispatch(q) /\ current_thread = NULL /\ q # <<>>
           \/ /\ keep(q) /\ UNCHANGED <<current_thread, waiting_time, start_time>>
              /\ ready_queue' = q
  BY TickFacts
<1>2. q # <<>> => Head(q) \in Threads /\ Head(q) \in Ready /\ Head(q) # current_thread
  BY QueueHead
<1>3. /\ ToSet(q) = Ready /\ q \in Seq(Threads)
      /\ q # <<>> => \A u \in Ready :
              /\ alg \in ByPriority => priority[Head(q)] <= priority[u]
              /\ alg \in ByLength => length[Head(q)] <= length[u]
              /\ alg \in ByRemaining => remaining_time[Head(q)] <= remaining_time[u]
  BY SortFacts
<1>4. Ready' \cup ({current_thread'} \ {NULL}) = Ready \cup ({current_thread} \ {NULL})
  BY TickPlaces
<1>5. Types' /\ Places'
  BY TickTypes, TickPlaces
<1>6. t \in Threads /\ t \in Ready' /\ t # current_thread' /\ (t \in Ready \/ t = current_thread)
  <2>1. t \in Ready' /\ ready_queue' \in Seq(Threads)
    BY <1>5 DEF Ready, Types
  <2>2. t \in Threads
    BY <2>1 DEF Ready, ToSet
  <2> QED
    BY <1>4, <1>5, <2>1, <2>2 DEF Places
<1>7. /\ priority \in [Threads -> Nat] /\ length \in [Threads -> Nat] /\ remaining_time \in [Threads -> Int]
      /\ NULL \notin Threads /\ current_thread \in Threads \cup {NULL}
  BY SchedulerAssumption DEF Types
<1>8. alg \in ByRemaining => \A u \in Threads :
        remaining_time'[u] = IF u = current_thread' THEN remaining_time[u] - 1 ELSE remaining_time[u]
  BY TickRemaining
<1>9. /\ alg = "PREEMPTIVE_PRIORITY" => alg \in ByPriority /\ alg \in Preemptive
      /\ alg = "PREEMPTIVE_SHORTEST_JOB_FIRST" => alg \in ByLength /\ alg \in Preemptive
      /\ alg = "PREEMPTIVE_SHORTEST_REMAINING_TIME_FIRST" => alg \in ByRemaining /\ alg \in Preemptive
      /\ alg \in ByPriority => alg # "ROUND_ROBIN" /\ alg \notin ByLength \cup ByRemaining
      /\ alg \in ByLength => alg # "ROUND_ROBIN" /\ alg \notin ByPriority \cup ByRemaining
      /\ alg \in ByRemaining => alg # "ROUND_ROBIN" /\ alg \notin ByPriority \cup ByLength
  BY DEF ByPriority, ByLength, ByRemaining, Preemptive
<1>10. alg \in ByRemaining /\ current_thread \in Threads =>
         /\ Charged[current_thread] = remaining_time[current_thread] - 1
         /\ q # <<>> => Charged[Head(q)] = remaining_time[Head(q)]
  BY <1>2, <1>7 DEF Charged
<1>11. CASE (preempt(q) \/ dispatch(q)) /\ q # <<>>
  <2>1. current_thread' = Head(q)
    BY <1>11 DEF preempt, dispatch
  <2>2. CASE t \in Ready
    BY <1>2, <1>3, <1>6, <1>7, <1>8, <1>9, <1>11, <2>1, <2>2
  <2>3. CASE t = current_thread
    <3>1. Preempts(q) /\ current_thread \in Threads
      BY <1>6, <1>7, <1>11, <2>3 DEF preempt, dispatch
    <3>2. /\ alg = "PREEMPTIVE_PRIORITY" => priority[t] > priority[Head(q)]
          /\ alg = "PREEMPTIVE_SHORTEST_JOB_FIRST" => length[t] > length[Head(q)]
          /\ alg = "PREEMPTIVE_SHORTEST_REMAINING_TIME_FIRST" => Charged[Head(q)] <= Charged[t]
      BY <1>9, <2>3, <3>1 DEF Preempts
    <3>3. /\ priority[t] \in Int /\ length[t] \in Int /\ remaining_time[t] \in Int
          /\ priority[Head(q)] \in Int /\ length[Head(q)] \in Int /\ remaining_time[Head(q)] \in Int
      BY <1>2, <1>6, <1>7, <1>11
    <3>4. alg = "PREEMPTIVE_SHORTEST_REMAINING_TIME_FIRST" => remaining_time[Head(q)] <= remaining_time[t] - 1
      BY <1>9, <1>10, <1>11, <2>3, <3>1, <3>2
    <3> QED
      BY <1>2, <1>6, <1>8, <1>9, <1>11, <2>1, <3>2, <3>3, <3>4
  <2> QED
    BY <1>6, <2>2, <2>3
<1>12. CASE keep(q) /\ current_thread' = current_thread /\ ready_queue' = q
  <2>1. q # <<>> /\ t \in Ready
    <3>1. ready_queue' = q /\ t \in ToSet(q)
      BY <1>12
    <3> QED
      BY <1>3, <3>1 DEF ToSet
  <2>2. current_thread \in Threads /\ ~Preempts(q)
    BY <1>7, <1>12, <2>1 DEF keep
  <2>3. /\ alg = "PREEMPTIVE_PRIORITY" => ~(priority[current_thread] > priority[Head(q)])
        /\ alg = "PREEMPTIVE_SHORTEST_JOB_FIRST" => ~(length[current_thread] > length[Head(q)])
        /\ alg = "PREEMPTIVE_SHORTEST_REMAINING_TIME_FIRST" => ~(Charged[Head(q)] <= Charged[current_thread])
    BY <1>7, <1>9, <2>1, <2>2 DEF Preempts
  <2>4. \A x \in {t, current_thread, Head(q)} :
          priority[x] \in Int /\ length[x] \in Int /\ remaining_time[x] \in Int
    BY <1>2, <1>6, <1>7, <2>1, <2>2
  <2>5. alg = "PREEMPTIVE_SHORTEST_REMAINING_TIME_FIRST" =>
          ~(remaining_time[Head(q)] <= remaining_time[current_thread] - 1)
    BY <1>9, <1>10, <2>1, <2>2, <2>3
  <2>6. /\ alg = "PREEMPTIVE_PRIORITY" => priority[Head(q)] <= priority[t]
        /\ alg = "PREEMPTIVE_SHORTEST_JOB_FIRST" => length[Head(q)] <= length[t]
        /\ alg = "PREEMPTIVE_SHORTEST_REMAINING_TIME_FIRST" => remaining_time[Head(q)] <= remaining_time[t]
    BY <1>3, <1>9, <2>1
  <2>7. alg = "PREEMPTIVE_SHORTEST_REMAINING_TIME_FIRST" =>
          /\ remaining_time'[current_thread] = remaining_time[current_thread] - 1
          /\ remaining_time'[t] = remaining_time[t]
    BY <1>6, <1>8, <1>9, <1>12, <2>2
  <2> QED
    BY <1>12, <2>2, <2>3, <2>4, <2>5, <2>6, <2>7
<1> QED
  BY <1>1, <1>11, <1>12

\* After tick() no ready thread should have the CPU instead (scheduler.c:106-148).
THEOREM FirstRuns == Spec => RunsFirst
<1>1. Inv /\ [Next]_vars => [FirstAfter]_vars
  <2> SUFFICES ASSUME Inv, Next, phase = "before", phase' = "after", NEW t \in ToSet(ready_queue')
               PROVE  /\ current_thread' # NULL
                      /\ CASE alg = "PREEMPTIVE_PRIORITY" -> priority[current_thread'] <= priority[t]
                           [] alg = "PREEMPTIVE_SHORTEST_JOB_FIRST" -> length[current_thread'] <= length[t]
                           [] alg = "PREEMPTIVE_SHORTEST_REMAINING_TIME_FIRST" ->
                                remaining_time'[current_thread'] < remaining_time'[t]
                           [] OTHER -> TRUE
    BY DEF FirstAfter
  <2>1. tick
    BY DEF Next, sys_exec, sys_exit, sys_io, io_starting, io_complete, advance, stats
  <2>2. /\ current_thread' \in Threads
        /\ alg = "PREEMPTIVE_PRIORITY" => priority[current_thread'] <= priority[t]
        /\ alg = "PREEMPTIVE_SHORTEST_JOB_FIRST" => length[current_thread'] <= length[t]
        /\ alg = "PREEMPTIVE_SHORTEST_REMAINING_TIME_FIRST" =>
             remaining_time'[current_thread'] < remaining_time'[t]
    BY <2>1, TickRunsFirst DEF Inv
  <2> QED
    BY <2>2, SchedulerAssumption
<1> QED
  BY <1>1, InvHolds, PTL DEF Spec, RunsFirst, FirstAfter

----------------------------------------------------------------------------
(* ROUND_ROBIN's bound on waiting *)

\* Ticks for which the current thread can still keep the CPU.
Left == IF current_thread = NULL THEN 0 ELSE quant - 1 - tick_count[current_thread]

\* How long a thread has been ready, and will be until everybody before it in
\* the queue has had a quantum.
Turns ==
  alg = "ROUND_ROBIN" =>
    /\ current_thread # NULL => tick_count[current_thread] < quant
    /\ \A k \in 1..Len(ready_queue) :
         Now - start_time[ready_queue[k]] + Left + quant * k <= quant * Cardinality(all_threads)

LEMMA Products ==
  ASSUME NEW a \in Nat, NEW b \in Nat, a <= b
  PROVE  /\ quant \in Nat /\ quant > 0 /\ quant * a \in Nat /\ quant * b \in Nat
         /\ quant * a <= quant * b
         /\ quant * (a + 1) = quant * a + quant
<1>1. quant \in Nat /\ quant > 0 /\ \E d \in Nat : b = a + d
  <2>1. b - a \in Nat /\ b = a + (b - a)
    OBVIOUS
  <2> QED
    BY <2>1, SchedulerAssumption
<1>2. PICK d \in Nat : b = a + d
  BY <1>1
<1>3. quant * a \in Nat /\ quant * d \in Nat /\ quant * b = quant * a + quant * d
  BY <1>1, <1>2
<1>4. quant * (a + 1) = quant * a + quant
  BY <1>1
<1> QED
  BY <1>1, <1>2, <1>3, <1>4

LEMMA Remainder ==
  ASSUME NEW y \in Nat, y < quant
  PROVE  y % quant = y
<1> DEFINE n == quant
<1>1. n \in Nat /\ n > 0 /\ y < n
  BY SchedulerAssumption
<1> HIDE DEF n
<1>2. y % n = y
  BY <1>1
<1> QED
  BY <1>2 DEF n

\* The queue, the CPU and a device are different places for threads.
LEMMA Counted ==
  ASSUME Types, Places
  PROVE  /\ Len(ready_queue) \in Nat /\ Cardinality(all_threads) \in Nat
         /\ Len(ready_queue) <= Cardinality(all_threads)
         /\ current_thread # NULL => Len(ready_queue) + 1 <= Cardinality(all_threads)
         /\ \A t \in io : /\ Len(ready_queue) + 1 <= Cardinality(all_threads)
                          /\ current_thread # NULL => Len(ready_queue) + 2 <= Cardinality(all_threads)
<1>1. /\ IsFiniteSet(Ready) /\ Cardinality(Ready) = Len(ready_queue) /\ Len(ready_queue) \in Nat
      /\ Ready \subseteq Threads
  <2>1. ready_queue \in Seq(Threads) /\ IsInjective(ready_queue)
    BY DEF Types, Places
  <2>2. ToSet(ready_queue) \subseteq Threads
    BY <2>1 DEF ToSet
  <2> QED
    BY <2>1, <2>2, QueueLength DEF Ready
<1>2. /\ IsFiniteSet(all_threads) /\ Ready \subseteq all_threads /\ io \subseteq all_threads
      /\ current_thread # NULL => current_thread \in all_threads /\ current_thread \notin Ready
                                  /\ current_thread \notin io
      /\ Ready \cap io = {}
  BY <1>1 DEF Types, Places
<1>3. Cardinality(all_threads) \in Nat
  BY <1>2, FS_CardinalityType
<1>4. ASSUME NEW E \in SUBSET all_threads
      PROVE  IsFiniteSet(E) /\ Cardinality(E) <= Cardinality(all_threads)
  BY <1>2, <1>4, FS_Subset
<1>5. ASSUME NEW t \in all_threads, t \notin Ready
      PROVE  /\ IsFiniteSet(Ready \cup {t}) /\ Ready \cup {t} \subseteq all_threads
             /\ Cardinality(Ready \cup {t}) = Len(ready_queue) + 1
             /\ Len(ready_queue) + 1 <= Cardinality(all_threads)
  <2>1. IsFiniteSet(Ready \cup {t}) /\ Cardinality(Ready \cup {t}) = Len(ready_queue) + 1
    BY <1>1, <1>5, FS_AddElement
  <2>2. Ready \cup {t} \subseteq all_threads
    BY <1>2, <1>5
  <2>3. Cardinality(Ready \cup {t}) <= Cardinality(all_threads)
    BY <1>4, <2>2
  <2> QED
    BY <2>1, <2>2, <2>3
<1>6. ASSUME NEW t \in io, current_thread # NULL
      PROVE  Len(ready_queue) + 2 <= Cardinality(all_threads)
  <2>1. t \in all_threads /\ t \notin Ready /\ current_thread \in all_threads
        /\ current_thread \notin Ready \cup {t}
    BY <1>2, <1>6
  <2>2. /\ IsFiniteSet(Ready \cup {t}) /\ Ready \cup {t} \subseteq all_threads
        /\ Cardinality(Ready \cup {t}) = Len(ready_queue) + 1
    BY <1>5, <2>1
  <2>3. Cardinality(Ready \cup {t} \cup {current_thread}) = Len(ready_queue) + 1 + 1
    BY <2>1, <2>2, FS_AddElement
  <2>4. Cardinality(Ready \cup {t} \cup {current_thread}) <= Cardinality(all_threads)
    <3>1. Ready \cup {t} \cup {current_thread} \subseteq all_threads
      BY <2>1, <2>2
    <3> QED
      BY <1>4, <3>1
  <2> QED
    BY <1>1, <2>3, <2>4
<1>7. Len(ready_queue) <= Cardinality(all_threads)
  BY <1>1, <1>2, <1>4
<1> QED
  BY <1>1, <1>2, <1>3, <1>5, <1>6, <1>7

\* A thread that joins the queue waits for at most all the others.
LEMMA TurnsJoin ==
  ASSUME Types, Places, Turns, alg = "ROUND_ROBIN", NEW t \in Threads, NEW n \in Nat,
         ready_queue' = Append(ready_queue, t), t \notin Ready,
         UNCHANGED <<alg, current_thread, tick_count, phase, sim_time>>,
         start_time' = [start_time EXCEPT ![t] = Now],
         Cardinality(all_threads') = n, Cardinality(all_threads) <= n,
         Len(ready_queue) + 1 <= n, current_thread # NULL => Len(ready_queue) + 2 <= n
  PROVE  Turns'
<1>1. /\ Now' = Now /\ Left' = Left /\ Now \in Nat
      /\ Len(ready_queue) \in Nat /\ Cardinality(all_threads) \in Nat
  <2>1. Now' = Now /\ Left' = Left /\ Now \in Nat
    BY DEF Now, Left, Types
  <2> QED
    BY <2>1, Counted
<1>2. /\ ready_queue \in Seq(Threads) /\ start_time \in [Threads -> Nat]
      /\ \A i \in 1..Len(ready_queue) : ready_queue[i] \in Threads /\ ready_queue[i] # t
  <2>1. ready_queue \in Seq(Threads) /\ start_time \in [Threads -> Nat]
    BY DEF Types
  <2> QED
    BY <2>1 DEF Ready, ToSet
<1>3. /\ Len(ready_queue') = Len(ready_queue) + 1
      /\ ready_queue'[Len(ready_queue) + 1] = t
      /\ \A i \in 1..Len(ready_queue) : ready_queue'[i] = ready_queue[i]
  BY <1>2
<1>4. /\ current_thread # NULL => tick_count[current_thread] \in Nat /\ tick_count[current_thread] < quant
      /\ quant \in Nat
      /\ Left = IF current_thread = NULL THEN 0 ELSE quant - 1 - tick_count[current_thread]
  BY SchedulerAssumption DEF Types, Turns, Left
<1> SUFFICES ASSUME NEW k \in 1..Len(ready_queue')
             PROVE  Now - start_time'[ready_queue'[k]] + Left + quant * k <= quant * n
  BY <1>1, <1>4 DEF Turns
<1>5. CASE k \in 1..Len(ready_queue)
  <2> DEFINE a == quant * k
             b == quant * Cardinality(all_threads)
             c == quant * n
  <2>1. a \in Nat /\ b \in Nat /\ c \in Nat /\ b <= c
    BY <1>1, <1>5, Products
  <2>2. Now - start_time[ready_queue[k]] + Left + a <= b
    BY <1>5 DEF Turns
  <2>3. start_time'[ready_queue'[k]] = start_time[ready_queue[k]] /\ start_time[ready_queue[k]] \in Nat
    BY <1>2, <1>3, <1>5
  <2>4. Left \in Int
    BY <1>4
  <2> SUFFICES Now - start_time'[ready_queue'[k]] + Left + a <= c
    OBVIOUS
  <2> HIDE DEF a, b, c
  <2> QED
    BY <1>1, <2>1, <2>2, <2>3, <2>4
<1>6. CASE k = Len(ready_queue) + 1
  <2> DEFINE a == quant * k
             c == quant * n
  <2>1. a \in Nat /\ c \in Nat /\ a <= c
    BY <1>1, <1>6, Products
  <2>2. start_time'[ready_queue'[k]] = Now
    BY <1>2, <1>3, <1>6
  <2>3. current_thread # NULL => a + quant <= c
    <3>1. ASSUME current_thread # NULL
          PROVE  a + quant <= c
      <4>1. k \in Nat /\ k + 1 <= n
        BY <1>1, <1>6, <3>1
      <4>2. quant * (k + 1) = a + quant /\ quant * (k + 1) <= c
        <5>1. k + 1 \in Nat /\ k <= n
          BY <4>1
        <5>2. quant * (k + 1) = quant * k + quant
          BY <4>1, <5>1, Products
        <5>3. quant * (k + 1) <= quant * n
          BY <4>1, <5>1, Products
        <5> QED
          BY <5>2, <5>3
      <4> QED
        BY <4>2
    <3> QED
      BY <3>1
  <2> SUFFICES Now - start_time'[ready_queue'[k]] + Left + a <= c
    OBVIOUS
  <2> DEFINE s == start_time'[ready_queue'[k]]
  <2>4. s = Now
    BY <2>2
  <2> HIDE DEF a, c, s
  <2>5. Left + a <= c
    <3>1. CASE current_thread # NULL
      BY <1>1, <1>4, <2>1, <2>3, <3>1
    <3>2. CASE current_thread = NULL
      BY <1>1, <1>4, <2>1, <3>2
    <3> QED
      BY <3>1, <3>2
  <2>6. Now - s + Left + a <= c
    BY <1>1, <1>4, <2>1, <2>4, <2>5
  <2> QED
    BY <2>6 DEF s
<1> QED
  BY <1>1, <1>3, <1>5, <1>6

\* The CPU passes to the first in the queue, or the current thread has a tick less
\* of its quantum left.
LEMMA TurnsTick ==
  ASSUME Types, Places, Turns, tick, alg = "ROUND_ROBIN"
  PROVE  Turns'
<1>1. PICK q \in queue_sort :
           \/ /\ preempt(q) /\ Preempts(q)
              /\ current_thread \in Threads /\ q # <<>> /\ current_thread \notin Ready
           \/ /\ dispatch(q) /\ current_thread = NULL /\ q # <<>>
           \/ /\ keep(q) /\ UNCHANGED <<current_thread, waiting_time, start_time>>
              /\ ready_queue' = q
  BY TickFacts
<1>2. q = ready_queue /\ q \in Seq(Threads) /\ Len(q) \in Nat
  BY SortFacts
<1>3. q # <<>> => /\ Head(q) \in Threads /\ Head(q) # current_thread /\ Head(q) = q[1] /\ Len(q) > 0
                  /\ Len(Tail(q)) = Len(q) - 1
                  /\ \A k \in 1..(Len(q) - 1) : Tail(q)[k] = q[k + 1] /\ k + 1 \in 1..Len(q)
                  /\ \A k \in 1..Len(q) : q[k] \in Threads
                  /\ Tail(q) \in Seq(Threads)
  BY <1>2, QueueHead
<1>4. /\ UNCHANGED <<alg, all_threads>> /\ Now = sim_time /\ Now' = sim_time + 1 /\ sim_time \in Nat
  BY DEF tick, Now, Types
<1>5. /\ start_time \in [Threads -> Nat] /\ tick_count \in [Threads -> Nat]
      /\ current_thread \in Threads \cup {NULL} /\ NULL \notin Threads
      /\ quant \in Nat /\ quant > 0
      /\ Cardinality(all_threads) \in Nat /\ Len(q) <= Cardinality(all_threads)
      /\ current_thread # NULL => Len(q) + 1 <= Cardinality(all_threads)
  <2>1. /\ start_time \in [Threads -> Nat] /\ tick_count \in [Threads -> Nat]
        /\ current_thread \in Threads \cup {NULL} /\ NULL \notin Threads
        /\ quant \in Nat /\ quant > 0
    BY SchedulerAssumption DEF Types
  <2> QED
    BY <1>2, <2>1, Counted
<1>6. /\ current_thread # NULL => tick_count[current_thread] < quant
      /\ \A k \in 1..Len(q) : Now - start_time[q[k]] + Left + quant * k <= quant * Cardinality(all_threads)
  BY <1>2 DEF Turns
<1> DEFINE c == quant * Cardinality(all_threads)
<1>7. c \in Nat /\ \A k \in 1..Len(q) : quant * k \in Nat /\ quant * k <= c /\ quant * (k + 1) = quant * k + quant
  <2>1. c \in Nat
    BY <1>5, Products
  <2>2. ASSUME NEW k \in 1..Len(q)
        PROVE  quant * k \in Nat /\ quant * k <= c /\ quant * (k + 1) = quant * k + quant
    <3>1. k \in Nat /\ k <= Cardinality(all_threads)
      BY <1>2, <1>5
    <3> QED
      BY <1>5, <3>1, Products
  <2> QED
    BY <2>1, <2>2
<1>8. ASSUME q # <<>>, (preempt(q) /\ current_thread \in Threads) \/ (dispatch(q) /\ current_thread = NULL)
      PROVE  Turns'
  <2>0. ready_queue' = Append(Tail(q), current_thread) \/ ready_queue' = Tail(q)
    BY <1>8 DEF preempt, dispatch
  <2>1. current_thread' = Head(q) /\ tick_count'[Head(q)] = 0 /\ Left' = quant - 1
    <3>1. current_thread' = Head(q) /\ tick_count'[Head(q)] = 0
      BY <1>3, <1>5, <1>8 DEF preempt, dispatch
    <3>2. Left' = quant - 1 - 0
      BY <1>3, <1>5, <1>8, <3>1 DEF Left
    <3> QED
      BY <1>5, <3>1, <3>2
  <2>2. Left = 0
    <3>1. CASE preempt(q) /\ current_thread \in Threads
      <4>1. Preempts(q)
        BY <3>1 DEF preempt
      <4>2. tick_count[current_thread] + 1 = quant
        BY <4>1 DEF Preempts, ByPriority, ByLength, ByRemaining
      <4>3. tick_count[current_thread] \in Nat /\ current_thread # NULL
        BY <1>5, <3>1
      <4> QED
        BY <1>5, <4>2, <4>3 DEF Left
    <3>2. CASE current_thread = NULL
      BY <3>2 DEF Left
    <3> QED
      BY <1>8, <3>1, <3>2
  <2>3. ASSUME NEW k \in 1..(Len(q) - 1)
        PROVE  /\ ready_queue'[k] = q[k + 1] /\ start_time'[q[k + 1]] = start_time[q[k + 1]]
               /\ Now' - start_time'[ready_queue'[k]] + Left' + quant * k <= c
    <3>1. /\ Tail(q)[k] = q[k + 1] /\ k + 1 \in 1..Len(q) /\ q[k + 1] \in Threads /\ k \in 1..Len(q)
      BY <1>2, <1>3, <1>8
    <3>2. ready_queue'[k] = q[k + 1]
      <4>1. Tail(q) \in Seq(Threads) /\ k \in 1..Len(Tail(q))
        BY <1>3, <1>8
      <4>2. \A x : Append(Tail(q), x)[k] = Tail(q)[k]
        BY <4>1
      <4> QED
        BY <2>0, <3>1, <4>2
    <3>3. start_time'[q[k + 1]] = start_time[q[k + 1]]
      <4>1. current_thread # q[k + 1]
        <5>1. q[k + 1] \in Ready
          BY <1>2, <3>1 DEF Ready, ToSet
        <5> QED
          BY <3>1, <5>1 DEF Places
      <4> QED
        BY <1>5, <1>8, <3>1, <4>1 DEF preempt, dispatch
    <3>4. start_time[q[k + 1]] \in Nat
      BY <1>5, <3>1
    <3>5. Now - start_time[q[k + 1]] + Left + quant * (k + 1) <= c
      BY <1>6, <3>1
    <3>6. quant * k \in Nat /\ quant * (k + 1) = quant * k + quant
      BY <1>7, <3>1
    <3> DEFINE a == quant * k
               b == quant * (k + 1)
    <3>7. a \in Nat /\ b = a + quant /\ Now - start_time[q[k + 1]] + Left + b <= c
      BY <3>5, <3>6
    <3> HIDE DEF a, b, c
    <3>8. Now' - start_time'[ready_queue'[k]] + Left' + a <= c
      <4>1. start_time'[ready_queue'[k]] = start_time[q[k + 1]]
        BY <3>2, <3>3
      <4> DEFINE s == start_time[q[k + 1]]
      <4>2. s \in Nat /\ Now - s + Left + b <= c
        BY <3>4, <3>7
      <4> HIDE DEF s
      <4>3. Now' - s + Left' + a <= c
        BY <1>4, <1>5, <1>7, <2>1, <2>2, <3>7, <4>2
      <4> QED
        BY <4>1, <4>3 DEF s
    <3> QED
      BY <3>2, <3>3, <3>8 DEF a
  <2>4. CASE preempt(q) /\ current_thread \in Threads
    <3>1. ready_queue' = Append(Tail(q), current_thread)
          /\ start_time' = [start_time EXCEPT ![current_thread] = sim_time]
      BY <2>4 DEF preempt
    <3>2. Len(ready_queue') = Len(q) /\ ready_queue'[Len(q)] = current_thread
      BY <1>2, <1>3, <1>8, <2>4, <3>1
    <3>3. Now' - start_time'[ready_queue'[Len(q)]] + Left' + quant * Len(q) <= c
      <4>1. start_time'[ready_queue'[Len(q)]] = sim_time
        BY <1>5, <2>4, <3>1, <3>2
      <4> DEFINE a == quant * Len(q)
                 b == quant * (Len(q) + 1)
      <4>2. a \in Nat /\ b = a + quant
        BY <1>2, <1>5, Products
      <4>3. b <= c
        <5>1. Len(q) + 1 \in Nat /\ Len(q) + 1 <= Cardinality(all_threads)
          BY <1>2, <1>5, <2>4
        <5> QED
          BY <1>5, <5>1, Products
      <4> SUFFICES Now' - start_time'[ready_queue'[Len(q)]] + Left' + a <= c
        OBVIOUS
      <4> HIDE DEF a, b, c
      <4> QED
        BY <1>4, <1>5, <1>7, <2>1, <4>1, <4>2, <4>3
    <3>4. \A k \in 1..Len(ready_queue') : k \in 1..(Len(q) - 1) \/ k = Len(q)
      BY <1>2, <3>2
    <3>5. \A k \in 1..Len(ready_queue') : Now' - start_time'[ready_queue'[k]] + Left' + quant * k <= c
      BY <2>3, <3>3, <3>4
    <3> QED
      BY <1>4, <1>5, <2>1, <3>5 DEF Turns
  <2>5. CASE dispatch(q) /\ current_thread = NULL
    <3>1. ready_queue' = Tail(q) /\ Len(ready_queue') = Len(q) - 1
      BY <1>3, <1>8, <2>5 DEF dispatch
    <3>2. \A k \in 1..Len(ready_queue') : Now' - start_time'[ready_queue'[k]] + Left' + quant * k <= c
      BY <2>3, <3>1
    <3> QED
      BY <1>4, <1>5, <2>1, <3>2 DEF Turns
  <2> QED
    BY <1>8, <2>4, <2>5
<1>9. ASSUME keep(q), UNCHANGED <<current_thread, start_time>>, ready_queue' = q
      PROVE  Turns'
  <2>1. CASE q = <<>>
    <3>1. Len(ready_queue') = 0
      BY <1>9, <2>1
    <3>2. \A x \in Nat : (x + 1) % quant < quant
      BY <1>5
    <3>3. current_thread # NULL => tick_count'[current_thread] < quant
      BY <1>5, <1>9, <3>2 DEF keep
    <3> QED
      BY <1>9, <3>1, <3>3 DEF Turns
  <2>2. CASE q # <<>>
    <3>1. current_thread \in Threads /\ current_thread # NULL /\ ~Preempts(q)
      BY <1>5, <1>9, <2>2 DEF keep
    <3>2. tick_count[current_thread] + 1 # quant
      BY <2>2, <3>1 DEF Preempts, Preemptive
    <3> DEFINE x == tick_count[current_thread]
    <3>3. x \in Nat /\ x + 1 < quant
      BY <1>5, <1>6, <3>1, <3>2
    <3>4. (x + 1) % quant = x + 1
      <4>1. x + 1 \in Nat /\ x + 1 < quant
        BY <3>3
      <4> HIDE DEF x
      <4> QED
        BY <4>1, Remainder
    <3>5. tick_count'[current_thread] = x + 1
      BY <1>5, <1>9, <3>1, <3>4 DEF keep
    <3>6. Left = quant - 1 - x /\ Left' = quant - 1 - (x + 1)
      BY <1>9, <3>1, <3>5 DEF Left
    <3> HIDE DEF x
    <3>7. ASSUME NEW k \in 1..Len(q)
          PROVE  Now' - start_time'[ready_queue'[k]] + Left' + quant * k <= c
      <4>1. Now - start_time[q[k]] + Left + quant * k <= c /\ quant * k \in Nat /\ start_time[q[k]] \in Nat
        BY <1>3, <1>5, <1>6, <1>7, <2>2
      <4>2. start_time'[ready_queue'[k]] = start_time[q[k]]
        BY <1>9
      <4> DEFINE a == quant * k
      <4> SUFFICES Now' - start_time'[ready_queue'[k]] + Left' + a <= c
        OBVIOUS
      <4>3. Now - start_time[q[k]] + Left + a <= c /\ a \in Nat /\ c \in Nat /\ start_time[q[k]] \in Nat
        BY <1>7, <4>1
      <4> HIDE DEF a, c
      <4>4. Now \in Int /\ Now' = Now + 1 /\ Left \in Int /\ Left' = Left - 1
        BY <1>4, <1>5, <3>3, <3>6
      <4>5. ASSUME NEW s \in Int, NEW s1, s1 = s, Now - s + Left + a <= c
            PROVE  Now' - s1 + Left' + a <= c
        BY <4>3, <4>4, <4>5
      <4> QED
        BY <4>2, <4>3, <4>5
    <3>8. tick_count'[current_thread'] < quant
      BY <1>9, <3>3, <3>5
    <3> QED
      BY <1>4, <1>9, <3>7, <3>8 DEF Turns
  <2> QED
    BY <2>1, <2>2
<1>10. CASE preempt(q) /\ q # <<>> /\ current_thread \in Threads
  BY <1>8, <1>10
<1>11. CASE dispatch(q) /\ q # <<>> /\ current_thread = NULL
  BY <1>8, <1>11
<1>12. CASE keep(q) /\ UNCHANGED <<current_thread, waiting_time, start_time>> /\ ready_queue' = q
  BY <1>9, <1>12
<1> QED
  BY <1>1, <1>10, <1>11, <1>12

LEMMA TurnsStep == Inv /\ Turns /\ [Next]_vars => Turns'
<1> SUFFICES ASSUME Inv, Turns, [Next]_vars, alg' = "ROUND_ROBIN"
             PROVE  Turns'
  BY DEF Turns
<1>0. Types /\ Places /\ Fresh /\ alg' = alg
  BY DEF Inv, Next, vars, sys_exec, sys_exit, sys_io, io_starting, io_complete, tick, advance, stats
<1>c. /\ Len(ready_queue) \in Nat /\ Cardinality(all_threads) \in Nat
      /\ Len(ready_queue) <= Cardinality(all_threads)
      /\ current_thread # NULL => Len(ready_queue) + 1 <= Cardinality(all_threads)
      /\ \A t \in io : /\ Len(ready_queue) + 1 <= Cardinality(all_threads)
                       /\ current_thread # NULL => Len(ready_queue) + 2 <= Cardinality(all_threads)
  BY <1>0, Counted
<1>1. ASSUME NEW t \in Threads, NEW p \in Priorities[alg], NEW l \in Lengths[alg], sys_exec(t, p, l)
      PROVE  Turns'
  <2>1. /\ phase = "before" /\ t \notin all_threads
        /\ ready_queue' = Append(ready_queue, t) /\ all_threads' = all_threads \cup {t}
        /\ start_time' = [start_time EXCEPT ![t] = sim_time]
        /\ UNCHANGED <<current_thread, tick_count, phase, sim_time>>
    BY <1>1 DEF sys_exec, simVars
  <2>2. t \notin Ready
    BY <1>0, <2>1 DEF Places
  <2>3. Cardinality(all_threads') = Cardinality(all_threads) + 1
    BY <1>0, <2>1, FS_AddElement DEF Types
  <2>4. Now = sim_time
    BY <2>1 DEF Now
  <2> DEFINE n == Cardinality(all_threads) + 1
  <2>5. /\ n \in Nat /\ Cardinality(all_threads) <= n /\ Len(ready_queue) + 1 <= n
        /\ current_thread # NULL => Len(ready_queue) + 2 <= n
    BY <1>c
  <2> HIDE DEF n
  <2>6. Cardinality(all_threads') = n
    BY <2>3 DEF n
  <2> QED
    BY <1>0, <2>1, <2>2, <2>4, <2>5, <2>6, TurnsJoin
<1>2. ASSUME NEW t \in Threads, sys_exit(t) \/ sys_io(t)
      PROVE  Turns'
  <2>1. /\ t = current_thread /\ current_thread' = NULL
        /\ UNCHANGED <<ready_queue, all_threads, tick_count, phase, sim_time>>
        /\ \A u \in Threads : u # t => start_time'[u] = start_time[u]
    BY <1>0, <1>2 DEF sys_exit, sys_io, simVars, Types
  <2>2. Left' = 0 /\ Now' = Now /\ Now \in Nat
    BY <1>0, <2>1 DEF Left, Now, Types
  <2>3. Left \in Nat
    <3>1. tick_count[t] \in Nat /\ tick_count[t] < quant /\ quant \in Nat /\ t # NULL
      BY <1>0, <2>1, SchedulerAssumption DEF Turns, Types
    <3> QED
      BY <2>1, <3>1 DEF Left
  <2> SUFFICES ASSUME NEW k \in 1..Len(ready_queue)
               PROVE  Now' - start_time'[ready_queue[k]] + Left' + quant * k <= quant * Cardinality(all_threads)
    BY <2>1 DEF Turns
  <2>4. ready_queue[k] \in Threads /\ ready_queue[k] # t
    <3>1. ready_queue \in Seq(Threads)
      BY <1>0 DEF Types
    <3>2. ready_queue[k] \in Threads /\ ready_queue[k] \in Ready
      BY <3>1 DEF Ready, ToSet
    <3> QED
      BY <1>0, <2>1, <3>2 DEF Places
  <2>5. start_time'[ready_queue[k]] = start_time[ready_queue[k]] /\ start_time[ready_queue[k]] \in Nat
    BY <1>0, <2>1, <2>4 DEF Types
  <2> DEFINE a == quant * k
             c == quant * Cardinality(all_threads)
  <2>6. a \in Nat /\ c \in Nat
    <3>1. k \in Nat /\ k <= Cardinality(all_threads)
      BY <1>c
    <3> QED
      BY <1>c, <3>1, Products
  <2>7. Now - start_time[ready_queue[k]] + Left + a <= c
    BY <1>0 DEF Turns
  <2> SUFFICES Now' - start_time'[ready_queue[k]] + Left' + a <= c
    OBVIOUS
  <2> HIDE DEF a, c
  <2> QED
    BY <2>2, <2>3, <2>5, <2>6, <2>7
<1>3. ASSUME NEW t \in Threads, io_starting(t)
      PROVE  Turns'
  BY <1>0, <1>3 DEF io_starting, Turns, Left, Now, simVars
<1>4. ASSUME NEW t \in Threads, io_complete(t)
      PROVE  Turns'
  <2>1. /\ phase = "after" /\ t \in io /\ ready_queue' = Append(ready_queue, t)
        /\ start_time' = [start_time EXCEPT ![t] = sim_time + 1]
        /\ UNCHANGED <<all_threads, current_thread, tick_count, phase, sim_time>>
    BY <1>4 DEF io_complete, simVars
  <2>2. t \notin Ready
    BY <1>0, <2>1 DEF Places
  <2>3. Now = sim_time + 1
    BY <2>1 DEF Now
  <2> DEFINE n == Cardinality(all_threads)
  <2>4. /\ n \in Nat /\ Cardinality(all_threads) <= n /\ Len(ready_queue) + 1 <= n
        /\ current_thread # NULL => Len(ready_queue) + 2 <= n
    BY <1>c, <2>1
  <2>5. Cardinality(all_threads') = n
    BY <2>1
  <2> HIDE DEF n
  <2> QED
    BY <1>0, <2>1, <2>2, <2>3, <2>4, <2>5, TurnsJoin
<1>5. CASE tick
  BY <1>0, <1>5, TurnsTick
<1>6. CASE advance
  BY <1>0, <1>6 DEF advance, Turns, Left, Now
<1>7. CASE stats
  <2>1. all_threads' = {} /\ Places' /\ Types'
    BY <1>0, <1>7, PlacesStep, TypesStep DEF stats
  <2>2. Len(ready_queue) = 0 /\ current_thread = NULL
    <3>1. \A t \in Threads : t \notin Ready /\ t # current_thread
      BY <1>7, <2>1 DEF stats, Places, Ready
    <3>2. ready_queue \in Seq(Threads) /\ current_thread \in Threads \cup {NULL}
      BY <1>0 DEF Types
    <3>3. ready_queue = <<>>
      <4>1. ASSUME ready_queue # <<>>
            PROVE  FALSE
        <5>1. ready_queue[1] \in Threads /\ 1 \in DOMAIN ready_queue
          BY <3>2, <4>1
        <5> QED
          BY <3>1, <5>1 DEF Ready, ToSet
      <4> QED
        BY <4>1
    <3> QED
      BY <3>1, <3>2, <3>3
  <2>3. Len(ready_queue') = 0 /\ current_thread' = NULL
    BY <1>7, <2>2 DEF stats
  <2> QED
    BY <2>3 DEF Turns
<1>8. CASE UNCHANGED vars
  BY <1>0, <1>8 DEF vars, Turns, Left, Now
<1> QED
  BY <1>1, <1>2, <1>3, <1>4, <1>5, <1>6, <1>7, <1>8 DEF Next

\* With ROUND_ROBIN every thread that is ready gets the CPU within a quantum of
\* each other thread (scheduler.c:87-105).
THEOREM WaitsBounded == Spec => []BoundedWait
<1>1. Init => Turns
  BY DEF Init, Turns
<1>2. Inv /\ Turns /\ [Next]_vars => Turns'
  BY TurnsStep
<1>3. Inv /\ Turns => BoundedWait
  <2> SUFFICES ASSUME Inv, Turns, alg = "ROUND_ROBIN", NEW t \in ToSet(ready_queue)
               PROVE  sim_time - start_time[t] <= quant * (Cardinality(all_threads) - 1)
    BY DEF BoundedWait
  <2>0. Types /\ Places
    BY DEF Inv
  <2>1. PICK k \in 1..Len(ready_queue) : t = ready_queue[k]
    <3>1. ready_queue \in Seq(Threads)
      BY <2>0 DEF Types
    <3> QED
      BY <3>1 DEF ToSet
  <2>2. t \in Threads /\ start_time[t] \in Nat /\ Now \in Nat /\ sim_time \in Nat /\ sim_time <= Now
    BY <2>0, <2>1 DEF Types, Now
  <2>3. Len(ready_queue) \in Nat /\ Cardinality(all_threads) \in Nat /\ Len(ready_queue) <= Cardinality(all_threads)
    BY <2>0, Counted
  <2>4. quant \in Nat /\ Left \in Int /\ 0 <= Left
    <3>1. current_thread # NULL => tick_count[current_thread] \in Nat /\ tick_count[current_thread] < quant
      BY <2>0 DEF Types, Turns
    <3>2. quant \in Nat
      BY SchedulerAssumption
    <3> QED
      BY <3>1, <3>2 DEF Left
  <2> DEFINE N == Cardinality(all_threads) - 1
             a == quant * k
             b == quant * N
             c == quant * Cardinality(all_threads)
  <2>5. N \in Nat /\ N + 1 = Cardinality(all_threads)
    BY <2>3
  <2>6. b \in Nat /\ c = b + quant
    <3> HIDE DEF N
    <3>1. N <= N
      BY <2>5
    <3>2. quant * N \in Nat /\ quant * (N + 1) = quant * N + quant
      BY <2>5, <3>1, Products
    <3> QED
      BY <2>5, <3>2
  <2>7. a \in Nat /\ quant <= a
    <3>1. k \in Nat /\ 1 <= k
      OBVIOUS
    <3>2. quant * 1 <= quant * k /\ quant * k \in Nat
      BY <3>1, Products
    <3> QED
      BY <2>4, <3>2
  <2>8. Now - start_time[t] + Left + a <= c
    BY <2>1 DEF Turns
  <2> SUFFICES sim_time - start_time[t] <= b
    OBVIOUS
  <2> HIDE DEF a, b, c
  <2> QED
    BY <2>2, <2>4, <2>6, <2>7, <2>8
<1> QED
  BY <1>1, <1>2, <1>3, InvHolds, PTL DEF Spec
=============================================================================
