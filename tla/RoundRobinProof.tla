-------------------------- MODULE RoundRobinProof --------------------------
(***************************************************************************)
(* The ready list is exact, and waiting is bounded, for any threads and    *)
(* any time slice.                                                         *)
(***************************************************************************)
EXTENDS RoundRobin, FiniteSetTheorems, TLAPS

Statuses == {"UNUSED", "RUNNING", "READY", "BLOCKED", "DYING"}

Types ==
  /\ ready_list \in Seq(All)
  /\ status \in [All -> Statuses]
  /\ idle_thread \in {Idle, NULL}
  /\ thread_ticks \in 0..(TIME_SLICE - 1)
  /\ pc \in [All -> {"idle", "up", "loop", "hlt", "start", "run", "create"}]
  /\ creates \in [All -> Threads \cup {NULL}]
  /\ waited \in [Threads -> Nat]

\* Until the idle thread is known it is running or on the ready list.
IdleKnown ==
  idle_thread = NULL => pc[Idle] = "idle" /\ status[Idle] \in {"RUNNING", "READY"}

\* A thread that is being created is blocked, and only its creator can reach it.
NewBlocked ==
  /\ status[initial_thread] # "UNUSED"
  /\ \A c \in All :
       /\ pc[c] = "create" => creates[c] # NULL
       /\ creates[c] # NULL => creates[c] # initial_thread /\ status[creates[c]] = "BLOCKED"
  /\ \A c, d \in All : creates[c] # NULL /\ creates[c] = creates[d] => c = d

ListInv == Types /\ ReadyExact /\ IdleKnown /\ NewBlocked

\* What a thread has waited, and the time slices before it and of its own, less
\* what is gone of the present one, never exceed one time slice of each thread.
WaitInv ==
  /\ \A k \in 1..Len(ready_list) :
       ready_list[k] \in Threads =>
         waited[ready_list[k]] + TIME_SLICE * k - thread_ticks <= TIME_SLICE * Cardinality(Threads)
  /\ \A t \in Threads : status[t] # "READY" => waited[t] = 0

Inv == ListInv /\ WaitInv

Listed(l, t) == \E i \in 1..Len(l) : l[i] = t
Once(l) == \A i, j \in 1..Len(l) : l[i] = l[j] => i = j

----------------------------------------------------------------------------
\* A list of different threads that lacks one has at most as many as there are
\* besides the idle thread.
LEMMA ListShort ==
  ASSUME NEW l \in Seq(All), Once(l), NEW c \in All, ~Listed(l, c)
  PROVE  /\ Cardinality(Threads) \in Nat
         /\ Len(l) <= Cardinality(Threads)
<1>1. IsFiniteSet(Threads) /\ Idle \notin Threads
  BY RoundRobinAssumption
<1>2. Cardinality(Threads) \in Nat
  BY <1>1, FS_CardinalityType
<1>3. IsFiniteSet(All) /\ Cardinality(All) = Cardinality(Threads) + 1
  BY <1>1, FS_AddElement DEF All
<1>4. IsFiniteSet(All \ {c}) /\ Cardinality(All \ {c}) = Cardinality(Threads)
  <2>1. IsFiniteSet(All \ {c}) /\ Cardinality(All \ {c}) = Cardinality(All) - 1
    BY <1>3, FS_RemoveElement
  <2> QED
    BY <2>1, <1>2, <1>3
<1>5. Len(l) \in Nat /\ IsFiniteSet(1..Len(l)) /\ Cardinality(1..Len(l)) = Len(l)
  <2>1. Len(l) \in Nat
    OBVIOUS
  <2> QED
    BY <2>1, FS_Interval
<1>6. \A i \in 1..Len(l) : l[i] \in All \ {c}
  BY DEF Listed
<1> DEFINE f == [i \in 1..Len(l) |-> l[i]]
<1>7. f \in Injection(1..Len(l), All \ {c})
  BY <1>6 DEF Once, Injection, IsInjective
<1>8. Cardinality(1..Len(l)) <= Cardinality(All \ {c})
  BY <1>4, <1>7, FS_Injection
<1> QED
  BY <1>2, <1>4, <1>5, <1>8

\* schedule() takes the first of the list, or the idle thread, and no other
\* thread's status changes.
LEMMA ScheduleKeeps ==
  ASSUME Types, ReadyExact,
         NEW l \in Seq(All), NEW became \in {"READY", "BLOCKED", "DYING"},
         Once(l),
         \A t \in All : Listed(l, t) <=>
           t # idle_thread /\ (IF t = current THEN became = "READY" ELSE status[t] = "READY"),
         l = <<>> => idle_thread = Idle,
         idle_thread' = idle_thread,
         schedule(l, became)
  PROVE  /\ ready_list' \in Seq(All)
         /\ status' \in [All -> Statuses]
         /\ thread_ticks' = 0
         /\ ReadyExact'
         /\ \A t \in All : t # current /\ t # idle_thread /\ status[t] # "READY" => status'[t] = status[t]
         /\ status'[initial_thread] = "UNUSED" => status[initial_thread] = "UNUSED"
         /\ (current = Idle => became = "READY") /\ status[Idle] \in {"RUNNING", "READY"}
              => status'[Idle] \in {"RUNNING", "READY"}
<1> DEFINE next == next_thread_to_run(l)
<1>0. /\ initial_thread \in All /\ Idle \in All
      /\ NULL \notin All
  BY RoundRobinAssumption DEF All
<1>1. Len(l) \in Nat /\ \A i \in 1..Len(l) : l[i] \in All
  OBVIOUS
<1>2. /\ ready_list' = IF l = <<>> THEN l ELSE Tail(l)
      /\ current' = next
      /\ status' = [t \in All |->
           IF t = next THEN "RUNNING"
           ELSE IF t # current THEN status[t]
           ELSE IF became = "DYING" /\ t # initial_thread THEN "UNUSED" ELSE became]
      /\ thread_ticks' = 0
  BY DEF schedule, thread_schedule_tail
<1>3. /\ ready_list' \in Seq(All)
      /\ Len(ready_list') = IF l = <<>> THEN 0 ELSE Len(l) - 1
      /\ \A i \in 1..Len(ready_list') : ready_list'[i] = l[i + 1] /\ i + 1 \in 1..Len(l)
  BY <1>1, <1>2
<1>4. next \in All
  BY <1>0, <1>1 DEF next_thread_to_run
<1>5. l # <<>> => next = l[1] /\ 1 \in 1..Len(l)
  BY <1>1 DEF next_thread_to_run
<1>6. l = <<>> => next = idle_thread
  BY DEF next_thread_to_run
<1> HIDE DEF next
<1>7. status' \in [All -> Statuses]
  BY <1>2 DEF Types, Statuses
<1>8. \A t \in All : status'[t] = "RUNNING" <=> t = current'
  BY <1>2, <1>4 DEF ReadyExact
<1>9. \A t \in All : Listed(ready_list', t) <=> Listed(l, t) /\ (l # <<>> => t # next)
  <2> TAKE t \in All
  <2>1. CASE l = <<>>
    BY <2>1, <1>1, <1>3 DEF Listed
  <2>2. CASE l # <<>>
    <3>1. ASSUME Listed(ready_list', t) PROVE Listed(l, t) /\ t # next
      <4>1. PICK i \in 1..Len(ready_list') : ready_list'[i] = t
        BY <3>1 DEF Listed
      <4>2. l[i + 1] = t /\ i + 1 \in 1..Len(l) /\ i + 1 # 1
        BY <4>1, <1>3
      <4> QED
        BY <4>2, <1>5, <2>2 DEF Listed, Once
    <3>2. ASSUME Listed(l, t), t # next PROVE Listed(ready_list', t)
      <4>1. PICK i \in 1..Len(l) : l[i] = t
        BY <3>2 DEF Listed
      <4>2. i # 1 /\ i - 1 \in 1..Len(ready_list') /\ ready_list'[i - 1] = l[(i - 1) + 1]
        BY <4>1, <3>2, <1>1, <1>3, <1>5, <2>2
      <4> QED
        BY <4>1, <4>2 DEF Listed
    <3> QED
      BY <3>1, <3>2, <2>2
  <2> QED
    BY <2>1, <2>2
<1>10. \A t \in All : status'[t] = "READY" <=>
         t # next /\ (IF t = current THEN became = "READY" ELSE status[t] = "READY")
  BY <1>2, <1>4
<1>11. \A t \in All : Listed(ready_list', t) <=> status'[t] = "READY" /\ t # idle_thread'
  <2> TAKE t \in All
  <2>1. CASE l = <<>>
    BY <2>1, <1>1, <1>6, <1>9, <1>10 DEF Listed
  <2>2. CASE l # <<>>
    BY <2>2, <1>9, <1>10
  <2> QED
    BY <2>1, <2>2
<1>12. Once(ready_list')
  BY <1>3 DEF Once
<1>13. ReadyExact'
  BY <1>2, <1>4, <1>8, <1>11, <1>12 DEF ReadyExact, Listed, Once
<1>14. \A t \in All : t # current /\ t # idle_thread /\ status[t] # "READY" => t # next
  <2>1. l # <<>> => Listed(l, next)
    BY <1>5 DEF Listed
  <2> QED
    BY <2>1, <1>4, <1>6
<1>15. \A t \in All : t # current /\ t # idle_thread /\ status[t] # "READY" => status'[t] = status[t]
  BY <1>2, <1>14
<1>16. status'[initial_thread] = "UNUSED" => status[initial_thread] = "UNUSED"
  BY <1>0, <1>2
<1>17. (current = Idle => became = "READY") /\ status[Idle] \in {"RUNNING", "READY"}
         => status'[Idle] \in {"RUNNING", "READY"}
  BY <1>0, <1>2
<1> QED
  BY <1>2, <1>3, <1>7, <1>13, <1>15, <1>16, <1>17

\* A blocked thread goes to the end of the list.
LEMMA UnblockKeeps ==
  ASSUME Types, ReadyExact,
         NEW t \in Threads, status[t] = "BLOCKED",
         idle_thread' = idle_thread,
         thread_unblock(t)
  PROVE  /\ ready_list' \in Seq(All)
         /\ status' \in [All -> Statuses]
         /\ ReadyExact'
         /\ status'[t] = "READY"
         /\ \A u \in All : u # t => status'[u] = status[u]
<1>0. t \in All /\ t # idle_thread
  BY RoundRobinAssumption DEF All, Types
<1>1. /\ ready_list' = Append(ready_list, t)
      /\ status' = [status EXCEPT ![t] = "READY"]
      /\ current' = current
  BY DEF thread_unblock
<1>2. /\ ready_list' \in Seq(All)
      /\ Len(ready_list) \in Nat
      /\ Len(ready_list') = Len(ready_list) + 1
      /\ \A i \in 1..Len(ready_list) : ready_list'[i] = ready_list[i] /\ ready_list[i] \in All
      /\ ready_list'[Len(ready_list) + 1] = t
  BY <1>0, <1>1 DEF Types
<1>3. status' \in [All -> Statuses] /\ status'[t] = "READY"
  BY <1>0, <1>1 DEF Types, Statuses
<1>4. \A u \in All : u # t => status'[u] = status[u]
  BY <1>0, <1>1 DEF Types
<1>5. ~Listed(ready_list, t)
  BY <1>0 DEF ReadyExact, Listed
<1>6. \A u \in All : Listed(ready_list', u) <=> Listed(ready_list, u) \/ u = t
  BY <1>2 DEF Listed
<1>7. \A u \in All : Listed(ready_list', u) <=> status'[u] = "READY" /\ u # idle_thread'
  BY <1>0, <1>3, <1>4, <1>6 DEF ReadyExact, Listed
<1>8. Once(ready_list')
  BY <1>2, <1>5 DEF ReadyExact, Once, Listed
<1>9. \A u \in All : status'[u] = "RUNNING" <=> u = current'
  BY <1>0, <1>1, <1>3, <1>4 DEF ReadyExact
<1>10. current' \in All
  BY <1>1 DEF ReadyExact
<1>11. ReadyExact'
  BY <1>7, <1>8, <1>9, <1>10 DEF ReadyExact, Listed, Once
<1> QED
  BY <1>2, <1>3, <1>4, <1>11

\* The thread that yields goes to the end of the list, unless it is the idle one.
LEMMA YieldKeeps ==
  ASSUME Types, ReadyExact, IdleKnown, idle_thread' = idle_thread, thread_yield
  PROVE  /\ ready_list' \in Seq(All)
         /\ status' \in [All -> Statuses]
         /\ thread_ticks' = 0
         /\ ReadyExact'
         /\ \A t \in All : t # current /\ t # idle_thread /\ status[t] # "READY" => status'[t] = status[t]
         /\ status'[initial_thread] = "UNUSED" => status[initial_thread] = "UNUSED"
         /\ status[Idle] \in {"RUNNING", "READY"} => status'[Idle] \in {"RUNNING", "READY"}
<1> DEFINE l == IF current # idle_thread THEN Append(ready_list, current) ELSE ready_list
<1>0. current \in All /\ ready_list \in Seq(All) /\ Len(ready_list) \in Nat
  BY DEF Types, ReadyExact
<1>1. current # idle_thread =>
        /\ Len(l) = Len(ready_list) + 1
        /\ \A i \in 1..Len(ready_list) : l[i] = ready_list[i]
        /\ l[Len(ready_list) + 1] = current
  BY <1>0
<1>2. current = idle_thread => l = ready_list
  OBVIOUS
<1>3. l \in Seq(All) /\ schedule(l, "READY")
  BY <1>0 DEF thread_yield
<1>4. ~Listed(ready_list, current)
  BY <1>0 DEF ReadyExact, Listed
<1>5. l = <<>> => idle_thread = Idle
  <2>1. ASSUME l = <<>> PROVE current = idle_thread
    BY <2>1, <1>0, <1>1
  <2> QED
    BY <2>1, <1>0, RoundRobinAssumption DEF Types, All
<1> HIDE DEF l
<1>6. Once(l)
  BY <1>0, <1>1, <1>2, <1>4 DEF ReadyExact, Once, Listed
<1>7. \A t \in All : Listed(l, t) <=> Listed(ready_list, t) \/ (t = current /\ current # idle_thread)
  BY <1>0, <1>1, <1>2 DEF Listed
<1>8. \A t \in All : Listed(l, t) <=>
        t # idle_thread /\ (IF t = current THEN "READY" = "READY" ELSE status[t] = "READY")
  BY <1>4, <1>7 DEF ReadyExact, Listed
<1> QED
  BY <1>3, <1>5, <1>6, <1>8, ScheduleKeeps

\* A thread that blocks or exits is on no list.
LEMMA LeaveKeeps ==
  ASSUME Types, ReadyExact, IdleKnown, idle_thread' = idle_thread,
         current = Idle => idle_thread = Idle,
         NEW became \in {"BLOCKED", "DYING"}, schedule(ready_list, became)
  PROVE  /\ ready_list' \in Seq(All)
         /\ status' \in [All -> Statuses]
         /\ thread_ticks' = 0
         /\ ReadyExact'
         /\ \A t \in All : t # current /\ t # idle_thread /\ status[t] # "READY" => status'[t] = status[t]
         /\ status'[initial_thread] = "UNUSED" => status[initial_thread] = "UNUSED"
         /\ current # Idle /\ status[Idle] \in {"RUNNING", "READY"} => status'[Idle] \in {"RUNNING", "READY"}
<1>0. Idle \in All /\ Idle # NULL /\ ready_list \in Seq(All) /\ Once(ready_list)
  BY RoundRobinAssumption DEF Types, All, ReadyExact, Once
<1>1. \A t \in All : Listed(ready_list, t) <=>
        t # idle_thread /\ (IF t = current THEN became = "READY" ELSE status[t] = "READY")
  BY DEF ReadyExact, Listed
<1>2. ready_list = <<>> => idle_thread = Idle
  <2>1. ASSUME ready_list = <<>>, idle_thread = NULL PROVE FALSE
    <3>1. status[Idle] = "READY"
      BY <1>0, <2>1 DEF IdleKnown, ReadyExact
    <3> QED
      BY <1>0, <2>1, <3>1 DEF ReadyExact
  <2> QED
    BY <2>1 DEF Types
<1> QED
  BY <1>0, <1>1, <1>2, ScheduleKeeps

----------------------------------------------------------------------------
(* The list invariant *)

\* Threads that are being created are not touched by anything else.
LEMMA NewBlockedKept ==
  ASSUME ListInv, creates' = creates,
         \A c \in All : pc'[c] = "create" => pc[c] = "create",
         status'[initial_thread] = "UNUSED" => status[initial_thread] = "UNUSED",
         \A c \in All : creates[c] # NULL => status'[creates[c]] = status[creates[c]]
  PROVE  NewBlocked'
BY DEF ListInv, NewBlocked

\* A thread that is being created is neither running nor ready nor idle.
LEMMA NewApart ==
  ASSUME ListInv, NEW c \in All, creates[c] # NULL
  PROVE  /\ creates[c] \in Threads /\ creates[c] \in All
         /\ creates[c] # current /\ creates[c] # idle_thread
         /\ status[creates[c]] = "BLOCKED"
BY RoundRobinAssumption DEF ListInv, Types, All, NewBlocked, ReadyExact

LEMMA CountTyped ==
  ASSUME Types, NEW n \in Nat, Count(n)
  PROVE  waited' \in [Threads -> Nat]
BY DEF Types, Count

LEMMA InterruptTyped ==
  ASSUME Types, Interrupt
  PROVE  /\ pc' \in [All -> {"idle", "up", "loop", "hlt", "start", "run", "create"}]
         /\ \A c \in All : pc'[c] = "create" => pc[c] = "create"
         /\ pc[Idle] = "idle" => pc'[Idle] = "idle"
BY RoundRobinAssumption DEF Types, Interrupt, At, All

LEMMA TickKeeps ==
  ASSUME ListInv, thread_tick, Count(1)
  PROVE  ListInv'
<1>1. /\ Interrupt /\ idle_thread' = idle_thread /\ creates' = creates
      /\ waited' \in [Threads -> Nat]
  BY CountTyped DEF thread_tick, ListInv
<1>2. CASE /\ thread_ticks + 1 < TIME_SLICE
           /\ thread_ticks' = thread_ticks + 1
           /\ UNCHANGED <<ready_list, status, current>>
  <2>1. Types'
    BY <1>1, <1>2, InterruptTyped, RoundRobinAssumption DEF ListInv, Types
  <2>2. ReadyExact'
    BY <1>1, <1>2 DEF ListInv, ReadyExact
  <2>3. IdleKnown'
    BY <1>1, <1>2, InterruptTyped DEF ListInv, IdleKnown
  <2>4. NewBlocked'
    BY <1>1, <1>2, InterruptTyped, NewBlockedKept DEF ListInv
  <2> QED
    BY <2>1, <2>2, <2>3, <2>4 DEF ListInv
<1>3. CASE thread_yield
  <2>1. /\ ready_list' \in Seq(All)
        /\ status' \in [All -> Statuses]
        /\ thread_ticks' = 0
        /\ ReadyExact'
        /\ \A t \in All : t # current /\ t # idle_thread /\ status[t] # "READY" => status'[t] = status[t]
        /\ status'[initial_thread] = "UNUSED" => status[initial_thread] = "UNUSED"
        /\ status[Idle] \in {"RUNNING", "READY"} => status'[Idle] \in {"RUNNING", "READY"}
    BY <1>1, <1>3, YieldKeeps DEF ListInv
  <2>2. Types'
    BY <1>1, <2>1, InterruptTyped, RoundRobinAssumption DEF ListInv, Types
  <2>3. IdleKnown'
    BY <1>1, <2>1, InterruptTyped DEF ListInv, IdleKnown
  <2>4. NewBlocked'
    <3>1. \A c \in All : creates[c] # NULL => status'[creates[c]] = status[creates[c]]
      BY <2>1, NewApart
    <3> QED
      BY <1>1, <2>1, <3>1, InterruptTyped, NewBlockedKept DEF ListInv
  <2> QED
    BY <2>1, <2>2, <2>3, <2>4 DEF ListInv
<1> QED
  BY <1>2, <1>3 DEF thread_tick

\* What a call of thread_unblock() keeps, whoever makes it, for a thread that is
\* not being created.
LEMMA WakeKeeps ==
  ASSUME ListInv, NEW t \in Threads, status[t] = "BLOCKED",
         \A c \in All : creates[c] # t,
         thread_unblock(t), UNCHANGED <<idle_thread, creates>>,
         pc' \in [All -> {"idle", "up", "loop", "hlt", "start", "run", "create"}],
         \A c \in All : pc'[c] = "create" => pc[c] = "create",
         idle_thread = NULL => pc'[Idle] = "idle",
         waited' \in [Threads -> Nat]
  PROVE  ListInv'
<1>0. Idle # t /\ Idle \in All /\ initial_thread \in All
  BY RoundRobinAssumption DEF All
<1>1. /\ ready_list' \in Seq(All)
      /\ status' \in [All -> Statuses]
      /\ ReadyExact'
      /\ status'[t] = "READY"
      /\ \A u \in All : u # t => status'[u] = status[u]
  BY UnblockKeeps DEF ListInv
<1>2. Types'
  BY <1>1 DEF ListInv, Types, thread_unblock
<1>3. IdleKnown'
  BY <1>0, <1>1 DEF ListInv, IdleKnown
<1>4. NewBlocked'
  <2>1. \A c \in All : creates[c] # NULL => status'[creates[c]] = status[creates[c]]
    BY <1>1, NewApart
  <2> QED
    BY <1>0, <1>1, <2>1, NewBlockedKept
<1> QED
  BY <1>1, <1>2, <1>3, <1>4 DEF ListInv

\* What a thread keeps that blocks or exits.
LEMMA GoneKeeps ==
  ASSUME ListInv, current = Idle => idle_thread = Idle,
         NEW became \in {"BLOCKED", "DYING"}, schedule(ready_list, became),
         UNCHANGED <<idle_thread, creates>>,
         pc' \in [All -> {"idle", "up", "loop", "hlt", "start", "run", "create"}],
         \A c \in All : pc'[c] = "create" => pc[c] = "create",
         idle_thread = NULL => pc'[Idle] = "idle",
         waited' \in [Threads -> Nat]
  PROVE  ListInv'
<1>0. Idle \in All /\ Idle # NULL
  BY RoundRobinAssumption DEF All
<1>1. /\ ready_list' \in Seq(All)
      /\ status' \in [All -> Statuses]
      /\ thread_ticks' = 0
      /\ ReadyExact'
      /\ \A t \in All : t # current /\ t # idle_thread /\ status[t] # "READY" => status'[t] = status[t]
      /\ status'[initial_thread] = "UNUSED" => status[initial_thread] = "UNUSED"
      /\ current # Idle /\ status[Idle] \in {"RUNNING", "READY"} => status'[Idle] \in {"RUNNING", "READY"}
  BY LeaveKeeps DEF ListInv
<1>2. Types'
  BY <1>1, RoundRobinAssumption DEF ListInv, Types
<1>3. IdleKnown'
  BY <1>0, <1>1 DEF ListInv, IdleKnown
<1>4. NewBlocked'
  <2>1. \A c \in All : creates[c] # NULL => status'[creates[c]] = status[creates[c]]
    BY <1>1, NewApart
  <2> QED
    BY <1>1, <2>1, NewBlockedKept
<1> QED
  BY <1>1, <1>2, <1>3, <1>4 DEF ListInv

LEMMA ListInit == Init => ListInv
<1> SUFFICES ASSUME Init PROVE ListInv
  OBVIOUS
<1>0. Idle \in All /\ initial_thread \in All /\ Idle # initial_thread /\ NULL # Idle
  BY RoundRobinAssumption DEF All
<1>1. Types
  BY <1>0, RoundRobinAssumption DEF Init, Types, Statuses
<1>2. ReadyExact
  BY <1>0 DEF Init, ReadyExact
<1>3. IdleKnown /\ NewBlocked
  BY <1>0 DEF Init, IdleKnown, NewBlocked
<1> QED
  BY <1>1, <1>2, <1>3 DEF ListInv

LEMMA ListNext == ListInv /\ [Next]_vars => ListInv'
<1> SUFFICES ASSUME ListInv, [Next]_vars PROVE ListInv'
  OBVIOUS
<1>0. /\ Idle \in All /\ initial_thread \in All /\ Idle # initial_thread /\ NULL # Idle
      /\ NULL \notin Threads /\ Idle \notin Threads /\ initial_thread \in Threads
      /\ Threads \subseteq All
  BY RoundRobinAssumption DEF All
<1>1. CASE thread_tick /\ Count(1)
  BY <1>1, TickKeeps
<1>2. ASSUME Count(0) PROVE waited' \in [Threads -> Nat]
  BY <1>2, CountTyped DEF ListInv
<1>3. CASE device_interrupt /\ Count(0)
  <2>1. PICK t \in Waiting : thread_unblock(t)
    BY <1>3 DEF device_interrupt
  <2>2. t \in Threads /\ status[t] = "BLOCKED" /\ \A c \in All : creates[c] # t
    BY <2>1 DEF Waiting
  <2> QED
    BY <1>2, <1>3, <2>1, <2>2, InterruptTyped, WakeKeeps DEF device_interrupt, ListInv, IdleKnown
<1>4. CASE thread_start /\ Count(0)
  <2>1. /\ current = initial_thread
        /\ pc' \in [All -> {"idle", "up", "loop", "hlt", "start", "run", "create"}]
        /\ \A c \in All : pc'[c] = "create" => pc[c] = "create"
        /\ pc'[Idle] = pc[Idle]
    BY <1>0, <1>4 DEF thread_start, At, Goto, ListInv, Types
  <2>2. CASE idle_started > 0
    <3>1. UNCHANGED <<ready_list, status, current, thread_ticks, idle_thread, creates>>
      BY <1>4, <2>2 DEF thread_start
    <3>2. Types' /\ ReadyExact' /\ IdleKnown' /\ NewBlocked'
      BY <1>2, <1>4, <2>1, <3>1 DEF ListInv, Types, ReadyExact, IdleKnown, NewBlocked
    <3> QED
      BY <3>2 DEF ListInv
  <2>3. CASE ~(idle_started > 0)
    <3>1. schedule(ready_list, "BLOCKED") /\ UNCHANGED <<idle_thread, creates>>
      BY <1>4, <2>3 DEF thread_start, thread_block
    <3> QED
      BY <1>0, <1>2, <1>4, <2>1, <3>1, GoneKeeps DEF ListInv, IdleKnown
  <2> QED
    BY <2>2, <2>3
<1>5. CASE idle_init /\ Count(0)
  <2>1. /\ current = Idle /\ idle_thread' = Idle
        /\ pc' = [pc EXCEPT ![Idle] = "up"]
        /\ UNCHANGED <<ready_list, status, current, thread_ticks, creates>>
    BY <1>5 DEF idle_init, At, Goto
  <2>2. status[Idle] = "RUNNING"
    BY <1>0, <2>1 DEF ListInv, ReadyExact
  <2>3. Types'
    BY <1>0, <1>2, <1>5, <2>1 DEF ListInv, Types
  <2>4. ReadyExact'
    <3>1. \A t \in All : status[t] = "READY" => t # Idle /\ t # NULL
      BY <1>0, <2>2, RoundRobinAssumption DEF All
    <3>3. idle_thread \in {NULL, Idle} /\ idle_thread' = Idle /\ status' = status
      BY <1>0, <2>1 DEF ListInv, Types
    <3>2. \A t \in All : (status[t] = "READY" /\ t # idle_thread) <=> (status'[t] = "READY" /\ t # idle_thread')
      BY <3>1, <3>3
    <3> QED
      BY <1>0, <2>1, <3>2 DEF ListInv, ReadyExact
  <2>5. IdleKnown' /\ NewBlocked'
    BY <1>0, <2>1 DEF ListInv, IdleKnown, NewBlocked, Types
  <2> QED
    BY <2>3, <2>4, <2>5 DEF ListInv
<1>6. CASE idle_up /\ Count(0)
  <2>1. /\ pc[Idle] = "up" /\ pc' = [pc EXCEPT ![Idle] = "loop"]
        /\ UNCHANGED <<idle_thread, creates>>
    BY <1>6 DEF idle_up, At, Goto
  <2>2. /\ idle_thread # NULL
        /\ pc' \in [All -> {"idle", "up", "loop", "hlt", "start", "run", "create"}]
        /\ \A c \in All : pc'[c] = "create" => pc[c] = "create"
    BY <1>0, <2>1 DEF ListInv, IdleKnown, Types
  <2>3. CASE status[initial_thread] = "BLOCKED"
    <3>1. \A c \in All : creates[c] # initial_thread
      BY <1>0 DEF ListInv, NewBlocked
    <3>2. thread_unblock(initial_thread)
      BY <1>6, <2>3 DEF idle_up
    <3> QED
      BY <1>0, <1>2, <1>6, <2>1, <2>2, <2>3, <3>1, <3>2, WakeKeeps
  <2>4. CASE status[initial_thread] # "BLOCKED"
    <3>1. UNCHANGED <<ready_list, status, current, thread_ticks>>
      BY <1>6, <2>4 DEF idle_up
    <3>2. Types' /\ ReadyExact' /\ IdleKnown' /\ NewBlocked'
      BY <1>2, <1>6, <2>1, <2>2, <3>1 DEF ListInv, Types, ReadyExact, IdleKnown, NewBlocked
    <3> QED
      BY <3>2 DEF ListInv
  <2> QED
    BY <2>3, <2>4
<1>7. CASE idle_block /\ Count(0)
  <2>1. /\ current = Idle /\ pc[Idle] = "loop" /\ pc' = [pc EXCEPT ![Idle] = "hlt"]
        /\ schedule(ready_list, "BLOCKED")
        /\ UNCHANGED <<idle_thread, creates>>
    BY <1>7 DEF idle_block, At, Goto, thread_block
  <2>2. /\ idle_thread = Idle
        /\ pc' \in [All -> {"idle", "up", "loop", "hlt", "start", "run", "create"}]
        /\ \A c \in All : pc'[c] = "create" => pc[c] = "create"
    BY <1>0, <2>1 DEF ListInv, IdleKnown, Types
  <2> QED
    BY <1>0, <1>2, <1>7, <2>1, <2>2, GoneKeeps
<1>8. CASE thread_create /\ Count(0)
  <2>0. current \in All
    BY DEF ListInv, ReadyExact
  <2>1. CASE At(current, "run") /\ current # Idle /\ ~At(current, "create")
    <3>1. PICK t \in Threads :
            /\ status[t] = "UNUSED"
            /\ status' = [status EXCEPT ![t] = "BLOCKED"]
            /\ creates' = [creates EXCEPT ![current] = t]
      BY <1>8, <2>1 DEF thread_create
    <3>2. /\ pc' = [pc EXCEPT ![current] = "create"]
          /\ UNCHANGED <<ready_list, current, thread_ticks, idle_thread>>
      BY <1>8, <2>1 DEF thread_create, Goto
    <3>3. /\ t \in All /\ t # NULL /\ t # Idle /\ t # initial_thread /\ t # idle_thread
          /\ \A c \in All : creates[c] # t
          /\ status'[t] = "BLOCKED" /\ \A u \in All : u # t => status'[u] = status[u]
          /\ creates'[current] = t /\ \A c \in All : c # current => creates'[c] = creates[c]
          /\ pc'[current] = "create" /\ \A c \in All : c # current => pc'[c] = pc[c]
      BY <1>0, <2>0, <3>1, <3>2 DEF ListInv, NewBlocked, Types
    <3>4. Types'
      BY <1>2, <1>8, <3>1, <3>2 DEF ListInv, Types, Statuses
    <3>5. ReadyExact'
      BY <3>1, <3>2, <3>3 DEF ListInv, ReadyExact
    <3>6. IdleKnown'
      BY <1>0, <2>1, <3>2, <3>3 DEF ListInv, IdleKnown
    <3>7. NewBlocked'
      <4>1. \A c \in All : creates[c] # NULL => creates[c] \in All
        BY <1>0 DEF ListInv, Types
      <4> QED
        BY <1>0, <2>0, <3>1, <3>3, <4>1 DEF ListInv, NewBlocked
    <3> QED
      BY <3>4, <3>5, <3>6, <3>7 DEF ListInv
  <2>2. CASE At(current, "create")
    <3> DEFINE t == creates[current]
    <3>1. /\ thread_unblock(t)
          /\ creates' = [creates EXCEPT ![current] = NULL]
          /\ pc' = [pc EXCEPT ![current] = "run"]
          /\ idle_thread' = idle_thread
      BY <1>8, <2>2 DEF thread_create, Goto, At
    <3>2. t # NULL
      BY <2>0, <2>2 DEF At, ListInv, NewBlocked
    <3>3. t \in Threads /\ t \in All /\ status[t] = "BLOCKED" /\ t # initial_thread
      BY <2>0, <3>2, NewApart DEF ListInv, NewBlocked
    <3> HIDE DEF t
    <3>4. /\ ready_list' \in Seq(All)
          /\ status' \in [All -> Statuses]
          /\ ReadyExact'
          /\ status'[t] = "READY"
          /\ \A u \in All : u # t => status'[u] = status[u]
      BY <3>1, <3>3, UnblockKeeps DEF ListInv
    <3>5. Types'
      BY <1>2, <1>8, <3>1, <3>4 DEF ListInv, Types, thread_unblock
    <3>6. IdleKnown'
      BY <1>0, <2>2, <3>1, <3>3, <3>4 DEF ListInv, IdleKnown, At, Types
    <3>7. NewBlocked'
      <4>1. /\ creates'[current] = NULL /\ \A c \in All : c # current => creates'[c] = creates[c]
            /\ pc'[current] = "run" /\ \A c \in All : c # current => pc'[c] = pc[c]
        BY <2>0, <3>1 DEF ListInv, Types
      <4>2. \A c \in All : creates[c] # NULL => creates[c] \in All
        BY <1>0 DEF ListInv, Types
      <4>3. \A c \in All : c # current /\ creates[c] # NULL => creates[c] # t
        BY <2>0, <3>2 DEF ListInv, NewBlocked, t
      <4> QED
        BY <1>0, <2>0, <3>3, <3>4, <4>1, <4>2, <4>3 DEF ListInv, NewBlocked
    <3> QED
      BY <3>4, <3>5, <3>6, <3>7 DEF ListInv
  <2> QED
    BY <1>8, <2>1, <2>2 DEF thread_create
<1>9. CASE thread_call /\ Count(0)
  <2>1. /\ current # Idle /\ UNCHANGED <<idle_thread, pc, creates>>
        /\ pc' \in [All -> {"idle", "up", "loop", "hlt", "start", "run", "create"}]
        /\ idle_thread = NULL => pc'[Idle] = "idle"
    BY <1>9 DEF thread_call, ListInv, Types, IdleKnown
  <2>2. CASE thread_yield
    <3>1. /\ ready_list' \in Seq(All)
          /\ status' \in [All -> Statuses]
          /\ thread_ticks' = 0
          /\ ReadyExact'
          /\ \A t \in All : t # current /\ t # idle_thread /\ status[t] # "READY" => status'[t] = status[t]
          /\ status'[initial_thread] = "UNUSED" => status[initial_thread] = "UNUSED"
          /\ status[Idle] \in {"RUNNING", "READY"} => status'[Idle] \in {"RUNNING", "READY"}
      BY <2>1, <2>2, YieldKeeps DEF ListInv
    <3>2. Types'
      BY <1>2, <1>9, <2>1, <3>1, RoundRobinAssumption DEF ListInv, Types
    <3>3. IdleKnown'
      BY <2>1, <3>1 DEF ListInv, IdleKnown
    <3>4. NewBlocked'
      <4>1. \A c \in All : creates[c] # NULL => status'[creates[c]] = status[creates[c]]
        BY <3>1, NewApart
      <4> QED
        BY <2>1, <3>1, <4>1, NewBlockedKept
    <3> QED
      BY <3>1, <3>2, <3>3, <3>4 DEF ListInv
  <2>3. CASE thread_block
    BY <1>2, <1>9, <2>1, <2>3, GoneKeeps DEF thread_block
  <2>4. CASE \E t \in Waiting : thread_unblock(t)
    <3>1. PICK t \in Waiting : thread_unblock(t)
      BY <2>4
    <3> QED
      BY <1>2, <1>9, <2>1, <3>1, WakeKeeps DEF Waiting
  <2>5. CASE thread_exit
    BY <1>2, <1>9, <2>1, <2>5, GoneKeeps DEF thread_exit
  <2> QED
    BY <1>9, <2>2, <2>3, <2>4, <2>5 DEF thread_call
<1>10. CASE UNCHANGED vars
  BY <1>10 DEF vars, ListInv, Types, ReadyExact, IdleKnown, NewBlocked
<1> QED
  BY <1>1, <1>3, <1>4, <1>5, <1>6, <1>7, <1>8, <1>9, <1>10 DEF Next

\* The ready list holds just the ready threads, and a thread is running.
THEOREM ReadyListExact == Spec => []ReadyExact
<1>1. ListInv => ReadyExact
  BY DEF ListInv
<1> QED
  BY <1>1, ListInit, ListNext, PTL DEF Spec

----------------------------------------------------------------------------
(* The bound on waiting *)

LEMMA Products ==
  ASSUME NEW a \in Nat, NEW b \in Nat, a <= b
  PROVE  /\ TIME_SLICE \in Nat /\ TIME_SLICE * a \in Nat /\ TIME_SLICE * b \in Nat
         /\ TIME_SLICE * a <= TIME_SLICE * b
         /\ TIME_SLICE * (a + 1) = TIME_SLICE * a + TIME_SLICE
<1>1. TIME_SLICE \in Nat /\ \E d \in Nat : b = a + d
  <2>1. b - a \in Nat /\ b = a + (b - a)
    OBVIOUS
  <2> QED
    BY <2>1, RoundRobinAssumption
<1>2. PICK d \in Nat : b = a + d
  BY <1>1
<1>3. /\ TIME_SLICE * a \in Nat /\ TIME_SLICE * d \in Nat
      /\ TIME_SLICE * b = TIME_SLICE * a + TIME_SLICE * d
  BY <1>1, <1>2
<1>4. TIME_SLICE * (a + 1) = TIME_SLICE * a + TIME_SLICE
  BY <1>1
<1> QED
  BY <1>1, <1>3, <1>4

LEMMA ReadyShort ==
  ASSUME ListInv
  PROVE  Cardinality(Threads) \in Nat /\ Len(ready_list) <= Cardinality(Threads)
<1>1. ready_list \in Seq(All) /\ Once(ready_list) /\ current \in All
  BY DEF ListInv, Types, ReadyExact, Once
<1>2. ~Listed(ready_list, current)
  BY <1>1 DEF ListInv, ReadyExact, Listed
<1> QED
  BY <1>1, <1>2, ListShort

\* Who is on the list is ready, in the present state and in the next.
LEMMA ListedReady ==
  ASSUME ListInv
  PROVE  \A k \in 1..Len(ready_list) : ready_list[k] \in All /\ status[ready_list[k]] = "READY"
BY DEF ListInv, Types, ReadyExact

\* When the list stays, as many ticks are gone of the time slice as are waited.
LEMMA WaitSame ==
  ASSUME ListInv, WaitInv, ListInv', NEW n \in {0, 1}, Count(n),
         ready_list' = ready_list, thread_ticks' = thread_ticks + n
  PROVE  WaitInv'
<1>1. /\ Cardinality(Threads) \in Nat /\ TIME_SLICE \in Nat /\ thread_ticks \in Int
      /\ Len(ready_list) \in Nat
  BY ReadyShort, RoundRobinAssumption DEF ListInv, Types
<1>2. \A k \in 1..Len(ready_list) : ready_list[k] \in Threads =>
        waited'[ready_list[k]] = waited[ready_list[k]] + n /\ waited[ready_list[k]] \in Nat
  BY ListedReady DEF Count, ListInv, Types, ReadyExact
<1>3. ASSUME NEW k \in 1..Len(ready_list'), ready_list'[k] \in Threads
      PROVE  waited'[ready_list'[k]] + TIME_SLICE * k - thread_ticks' <= TIME_SLICE * Cardinality(Threads)
  <2> DEFINE p == TIME_SLICE * k
             q == TIME_SLICE * Cardinality(Threads)
  <2>1. waited[ready_list[k]] + p - thread_ticks <= q
    BY <1>3 DEF WaitInv
  <2>2. p \in Nat /\ q \in Nat /\ n \in Int
    BY <1>1, Products
  <2>3. /\ k \in 1..Len(ready_list) /\ ready_list'[k] = ready_list[k]
        /\ waited'[ready_list[k]] = waited[ready_list[k]] + n /\ waited[ready_list[k]] \in Nat
    BY <1>2, <1>3
  <2> HIDE DEF p, q
  <2>4. waited'[ready_list'[k]] + p - thread_ticks' <= q
    BY <1>1, <2>1, <2>2, <2>3
  <2> QED
    BY <2>4 DEF p, q
<1>4. \A t \in Threads : status'[t] # "READY" => waited'[t] = 0
  BY DEF Count
<1> QED
  BY <1>3, <1>4 DEF WaitInv

\* Who becomes ready waits for at most all the others.
LEMMA WaitUnblock ==
  ASSUME ListInv, WaitInv, ListInv', Count(0),
         NEW t \in Threads, status[t] = "BLOCKED", thread_unblock(t)
  PROVE  WaitInv'
<1>1. /\ Cardinality(Threads) \in Nat /\ TIME_SLICE \in Nat /\ thread_ticks \in Nat
      /\ Len(ready_list) \in Nat /\ ready_list \in Seq(All) /\ t \in All
  BY ReadyShort, RoundRobinAssumption DEF ListInv, Types, All
<1>2. /\ ready_list' = Append(ready_list, t) /\ thread_ticks' = thread_ticks
      /\ status' = [status EXCEPT ![t] = "READY"]
  BY DEF thread_unblock
<1>3. /\ Len(ready_list') = Len(ready_list) + 1
      /\ \A k \in 1..Len(ready_list) : ready_list'[k] = ready_list[k]
      /\ ready_list'[Len(ready_list) + 1] = t
  BY <1>1, <1>2
<1>4. Len(ready_list) + 1 <= Cardinality(Threads)
  <2>1. ready_list' \in Seq(All) /\ Once(ready_list') /\ current' \in All
    BY DEF ListInv, Types, ReadyExact, Once
  <2>2. ~Listed(ready_list', current')
    BY <2>1 DEF ListInv, ReadyExact, Listed
  <2> QED
    BY <1>3, <2>1, <2>2, ListShort
<1>5. ASSUME NEW k \in 1..Len(ready_list'), ready_list'[k] \in Threads
      PROVE  waited'[ready_list'[k]] + TIME_SLICE * k - thread_ticks' <= TIME_SLICE * Cardinality(Threads)
  <2>1. k \in Nat /\ k <= Cardinality(Threads)
    BY <1>1, <1>3, <1>4
  <2> DEFINE p == TIME_SLICE * k
             q == TIME_SLICE * Cardinality(Threads)
  <2>2. p \in Nat /\ q \in Nat /\ p <= q
    BY <1>1, <2>1, Products
  <2>3. k # Len(ready_list) + 1 => ready_list'[k] = ready_list[k] /\ k \in 1..Len(ready_list)
    BY <1>1, <1>3
  <2>4. k # Len(ready_list) + 1 => waited[ready_list[k]] + p - thread_ticks <= q
    BY <1>5, <2>3 DEF WaitInv
  <2> SUFFICES waited'[ready_list'[k]] + p - thread_ticks' <= q
    OBVIOUS
  <2> HIDE DEF p, q
  <2>5. CASE k = Len(ready_list) + 1
    <3>1. ready_list'[k] = t /\ waited'[t] = 0
      BY <1>3, <2>5 DEF Count
    <3> QED
      BY <1>1, <1>2, <2>2, <3>1
  <2>6. CASE k # Len(ready_list) + 1
    <3>1. k \in 1..Len(ready_list) /\ ready_list'[k] = ready_list[k]
      BY <2>3, <2>6
    <3>2. /\ status[ready_list[k]] = "READY" /\ ready_list[k] # t
          /\ status'[ready_list[k]] = "READY"
      BY <1>2, <3>1, ListedReady DEF ListInv, Types
    <3>3. waited'[ready_list[k]] = waited[ready_list[k]] + 0 /\ waited[ready_list[k]] \in Nat
      BY <1>5, <3>1, <3>2 DEF Count, ListInv, Types
    <3> QED
      BY <1>1, <1>2, <2>2, <2>4, <2>6, <3>1, <3>3
  <2> QED
    BY <2>5, <2>6
<1>6. \A u \in Threads : status'[u] # "READY" => waited'[u] = 0
  BY DEF Count
<1> QED
  BY <1>5, <1>6 DEF WaitInv

\* After a switch each is one place nearer, for at most a time slice of ticks.
LEMMA WaitSchedule ==
  ASSUME ListInv, WaitInv, ListInv', NEW n \in {0, 1}, Count(n),
         n = 1 => thread_ticks + 1 >= TIME_SLICE,
         NEW l, l = ready_list \/ l = Append(ready_list, current),
         NEW became, schedule(l, became)
  PROVE  WaitInv'
<1>1. /\ Cardinality(Threads) \in Nat /\ TIME_SLICE \in Nat
      /\ thread_ticks \in Nat /\ thread_ticks + 1 <= TIME_SLICE
      /\ Len(ready_list) \in Nat /\ ready_list \in Seq(All) /\ current \in All
      /\ Len(ready_list) <= Cardinality(Threads)
  BY ReadyShort, RoundRobinAssumption DEF ListInv, Types, ReadyExact
<1>2. /\ l \in Seq(All) /\ Len(l) \in {Len(ready_list), Len(ready_list) + 1}
      /\ \A k \in 1..Len(ready_list) : l[k] = ready_list[k]
      /\ Len(l) = Len(ready_list) + 1 => l[Len(ready_list) + 1] = current
  BY <1>1
<1>3. ready_list' = (IF l = <<>> THEN l ELSE Tail(l)) /\ thread_ticks' = 0
  BY DEF schedule, thread_schedule_tail
<1>4. \A k \in 1..Len(ready_list') :
        ready_list'[k] = l[k + 1] /\ k \in Nat /\ k + 1 <= Len(l) /\ k <= Len(ready_list)
  BY <1>1, <1>2, <1>3
<1>5. \A k \in 1..Len(ready_list') : status'[ready_list'[k]] = "READY"
  BY DEF ListInv, Types, ReadyExact
<1>6. ASSUME NEW k \in 1..Len(ready_list'), ready_list'[k] \in Threads
      PROVE  waited'[ready_list'[k]] + TIME_SLICE * k - thread_ticks' <= TIME_SLICE * Cardinality(Threads)
  <2>1. k \in Nat /\ k <= Cardinality(Threads)
    BY <1>1, <1>4
  <2> DEFINE p == TIME_SLICE * k
             q == TIME_SLICE * Cardinality(Threads)
  <2>2. p \in Nat /\ q \in Nat /\ p <= q /\ TIME_SLICE * (k + 1) = p + TIME_SLICE
    BY <1>1, <2>1, Products
  <2>3. k + 1 \in 1..Len(ready_list) /\ ready_list[k + 1] \in Threads
          => waited[ready_list[k + 1]] + (p + TIME_SLICE) - thread_ticks <= q
    BY <2>2 DEF WaitInv
  <2> SUFFICES waited'[ready_list'[k]] + p - thread_ticks' <= q
    OBVIOUS
  <2> HIDE DEF p, q
  <2>4. CASE k + 1 <= Len(ready_list)
    <3>1. k + 1 \in 1..Len(ready_list) /\ ready_list'[k] = ready_list[k + 1]
      BY <1>1, <1>2, <1>4, <2>1, <2>4
    <3>2. status[ready_list[k + 1]] = "READY" /\ status'[ready_list[k + 1]] = "READY"
      BY <1>5, <3>1, ListedReady
    <3>3. waited'[ready_list[k + 1]] = waited[ready_list[k + 1]] + n /\ waited[ready_list[k + 1]] \in Nat
      BY <1>6, <3>1, <3>2 DEF Count, ListInv, Types
    <3> DEFINE w == waited[ready_list[k + 1]]
    <3>4. w \in Nat /\ waited'[ready_list'[k]] = w + n
      BY <3>1, <3>3
    <3>5. w + (p + TIME_SLICE) - thread_ticks <= q
      BY <1>6, <2>3, <3>1
    <3> HIDE DEF w
    <3> QED
      BY <1>1, <1>3, <2>2, <3>4, <3>5
  <2>5. CASE ~(k + 1 <= Len(ready_list))
    <3>1. ready_list'[k] = current
      BY <1>1, <1>2, <1>4, <2>1, <2>5
    <3>2. status[current] = "RUNNING"
      BY <1>1 DEF ListInv, ReadyExact
    <3>3. waited'[ready_list'[k]] = 0
      BY <1>6, <3>1, <3>2 DEF Count
    <3> QED
      BY <1>3, <2>2, <3>3
  <2> QED
    BY <2>4, <2>5
<1>7. \A u \in Threads : status'[u] # "READY" => waited'[u] = 0
  BY DEF Count
<1> QED
  BY <1>6, <1>7 DEF WaitInv

LEMMA WaitInit == Init => WaitInv
<1> SUFFICES ASSUME Init PROVE WaitInv
  OBVIOUS
<1>1. /\ Idle \notin Threads /\ Len(ready_list) = 1 /\ ready_list[1] = Idle
  BY RoundRobinAssumption DEF Init
<1> QED
  BY <1>1 DEF Init, WaitInv

LEMMA WaitNext == Inv /\ ListInv' /\ [Next]_vars => WaitInv'
<1> SUFFICES ASSUME ListInv, WaitInv, ListInv', [Next]_vars PROVE WaitInv'
  BY DEF Inv
<1>0. /\ initial_thread \in Threads /\ thread_ticks \in Nat /\ TIME_SLICE \in Nat
      /\ current \in All
  BY RoundRobinAssumption DEF ListInv, Types, ReadyExact
<1>1. CASE thread_tick /\ Count(1)
  <2>1. CASE thread_ticks' = thread_ticks + 1 /\ UNCHANGED ready_list
    BY <1>1, <2>1, WaitSame
  <2>2. CASE thread_ticks + 1 >= TIME_SLICE /\ thread_yield
    BY <1>1, <2>2, WaitSchedule DEF thread_yield
  <2> QED
    BY <1>1, <2>1, <2>2 DEF thread_tick
<1>2. ASSUME Count(0), NEW t \in Waiting, thread_unblock(t) PROVE WaitInv'
  BY <1>2, WaitUnblock DEF Waiting
<1>3. ASSUME Count(0), NEW became, schedule(ready_list, became) PROVE WaitInv'
  BY <1>3, WaitSchedule
<1>4. ASSUME Count(0), UNCHANGED <<ready_list, thread_ticks>> PROVE WaitInv'
  BY <1>0, <1>4, WaitSame
<1>5. CASE device_interrupt /\ Count(0)
  BY <1>2, <1>5 DEF device_interrupt
<1>6. CASE thread_start /\ Count(0)
  BY <1>3, <1>4, <1>6 DEF thread_start, thread_block
<1>7. CASE idle_init /\ Count(0)
  BY <1>4, <1>7 DEF idle_init
<1>8. CASE idle_up /\ Count(0)
  BY <1>0, <1>4, <1>8, WaitUnblock DEF idle_up
<1>9. CASE idle_block /\ Count(0)
  BY <1>3, <1>9 DEF idle_block, thread_block
<1>10. CASE thread_create /\ Count(0)
  <2>1. CASE UNCHANGED <<ready_list, thread_ticks>>
    BY <1>4, <1>10, <2>1
  <2>2. CASE pc[current] = "create" /\ thread_unblock(creates[current])
    <3>1. creates[current] \in Threads /\ status[creates[current]] = "BLOCKED"
      BY <1>0, <2>2, NewApart DEF ListInv, NewBlocked
    <3> QED
      BY <1>10, <2>2, <3>1, WaitUnblock
  <2> QED
    BY <1>10, <2>1, <2>2 DEF thread_create, At
<1>11. CASE thread_call /\ Count(0)
  <2>1. CASE thread_yield
    <3> DEFINE l == IF current # idle_thread THEN Append(ready_list, current) ELSE ready_list
    <3>1. (l = ready_list \/ l = Append(ready_list, current)) /\ schedule(l, "READY")
      BY <2>1 DEF thread_yield
    <3> HIDE DEF l
    <3> QED
      BY <1>11, <3>1, WaitSchedule
  <2>2. CASE thread_block \/ thread_exit
    BY <1>3, <1>11, <2>2 DEF thread_block, thread_exit
  <2>3. CASE \E t \in Waiting : thread_unblock(t)
    BY <1>2, <1>11, <2>3
  <2> QED
    BY <1>11, <2>1, <2>2, <2>3 DEF thread_call
<1>12. CASE UNCHANGED vars
  BY <1>12 DEF vars, WaitInv
<1> QED
  BY <1>1, <1>5, <1>6, <1>7, <1>8, <1>9, <1>10, <1>11, <1>12 DEF Next

LEMMA WaitBound == Inv => WaitBounded
<1> SUFFICES ASSUME ListInv, WaitInv, NEW t \in Threads
             PROVE  waited[t] <= TIME_SLICE * Cardinality(Threads)
  BY DEF Inv, WaitBounded
<1>1. /\ Cardinality(Threads) \in Nat /\ TIME_SLICE \in Nat /\ 0 \in Nat
      /\ thread_ticks \in Nat /\ thread_ticks <= TIME_SLICE
      /\ t \in All /\ t # idle_thread /\ waited[t] \in Nat
  BY ReadyShort, RoundRobinAssumption DEF ListInv, Types, All
<1>2. TIME_SLICE * Cardinality(Threads) \in Nat
  BY <1>1
<1>3. CASE status[t] # "READY"
  BY <1>2, <1>3 DEF WaitInv
<1>4. CASE status[t] = "READY"
  <2>1. PICK k \in 1..Len(ready_list) : ready_list[k] = t
    BY <1>1, <1>4 DEF ListInv, ReadyExact
  <2> DEFINE p == TIME_SLICE * k
             q == TIME_SLICE * Cardinality(Threads)
  <2>2. waited[t] + p - thread_ticks <= q
    BY <2>1 DEF WaitInv
  <2>3. TIME_SLICE <= p /\ p \in Nat /\ q \in Nat
    <3>1. TIME_SLICE * 1 <= p /\ p \in Nat /\ TIME_SLICE * 1 = TIME_SLICE
      BY <1>1, <2>1, Products
    <3> QED
      BY <1>2, <3>1
  <2> SUFFICES waited[t] <= q
    OBVIOUS
  <2> HIDE DEF p, q
  <2> QED
    BY <1>1, <2>2, <2>3
<1> QED
  BY <1>3, <1>4

\* No thread stays ready for more than a time slice of each of the threads.
THEOREM WaitingBounded == Spec => []WaitBounded
<1>1. Init => Inv
  BY ListInit, WaitInit DEF Inv
<1>2. Inv /\ [Next]_vars => Inv'
  BY ListNext, WaitNext DEF Inv
<1> QED
  BY <1>1, <1>2, WaitBound, PTL DEF Spec
=============================================================================
