----------------------------- MODULE TimerProof -----------------------------
(***************************************************************************)
(* The sleeping threads of Labs 1 and 2, for any threads, in any number of *)
(* ticks and of any length of sleep: the list of sleepers, who is woken    *)
(* and when, and how long a sleep lasts whatever unit it is asked for in.  *)
(***************************************************************************)
EXTENDS TimerDevice, KListProof

Types ==
  /\ version \in {"timer", "timer_list", "timer_sorted_list"}
  /\ ticks \in Nat
  /\ thread_list \in Seq(Threads)
  /\ waiting_time \in [Threads -> Nat]
  /\ blocked \in SUBSET Threads
  /\ pc \in [Threads -> {"run", "set", "block", "asleep", "down"}]
  /\ start \in [Threads -> Nat] /\ sleep \in [Threads -> Nat]

\* Where threads are blocked, and that only those in timer_sleep() have a waiting
\* time that is yet to come.
Waits ==
  \A t \in Threads :
    /\ t \in blocked => pc[t] \in {"asleep", "down"}
    /\ pc[t] = "down" => t \in blocked
    /\ pc[t] \in {"run", "set", "down"} => waiting_time[t] <= ticks
    /\ pc[t] = "asleep" /\ t \notin blocked => waiting_time[t] <= ticks
    /\ pc[t] \in {"block", "asleep"} => waiting_time[t] = start[t] + sleep[t]
    /\ pc[t] \in {"set", "block", "asleep"} => start[t] <= ticks

\* SleepersListed, thread by thread.
Listing ==
  HasList => /\ IsInjective(thread_list)
             /\ \A t \in Threads : t \in ToSet(thread_list) <=> Asleep(t)

Inv == Types /\ Waits /\ Listing

\* A sleep that is asked for lasts less than a tick more than the ticks it is
\* turned into.
AskedLess(a, k) == a * TIMER_FREQ < (k + 1) * 1000000

Asked ==
  /\ asked \in [Threads -> Nat]
  /\ \A t \in Threads : pc[t] \in {"set", "block", "asleep"} => AskedLess(asked[t], sleep[t])

\* Next without the bound on sleeps.
AnyNext ==
  /\ \/ \E t \in Threads, k \in Nat : timer_sleep(t, k)
     \/ \E t \in Threads : set(t) \/ block(t) \/ wake(t) \/ semaphore_down(t) \/ semaphore_up(t)
     \/ timer_interrupt
  /\ UNCHANGED version

----------------------------------------------------------------------------
(* The steps of the device are those of the threads *)

LEMMA AnyTime ==
  ASSUME NEW x \in Times
  PROVE  x[1] \in Nat /\ x[2] \in {1000, 1000000, 1000000000}
BY TimerDeviceAssumption

LEMMA Quotient ==
  ASSUME NEW n \in Nat, NEW d \in Nat, d > 0
  PROVE  n \div d \in Nat
OBVIOUS

LEMMA DeviceSteps == [DeviceNext]_deviceVars => [AnyNext]_vars
<1> SUFFICES ASSUME DeviceNext
             PROVE  [AnyNext]_vars
  BY DEF deviceVars
<1>1. CASE timer_calibrate /\ UNCHANGED <<vars, asked>>
  BY <1>1
<1>2. ASSUME NEW t \in Threads, Sleeps(t), UNCHANGED version
      PROVE  AnyNext
  <2>1. ASSUME NEW n \in Nat, NEW d \in {1000, 1000000, 1000000000}, real_time_sleep(t, n, d)
        PROVE  \E k \in Nat : timer_sleep(t, k)
    <3>1. n * TIMER_FREQ \in Nat
      BY CalibrateAssumption
    <3>2. (n * TIMER_FREQ) \div d \in Nat
      BY <3>1, Quotient
    <3> QED
      BY <2>1, <3>2 DEF real_time_sleep
  <2>2. \E k \in Nat : timer_sleep(t, k)
    <3>1. CASE \E k \in 0..MaxSleep : timer_sleep(t, k) /\ Asks(t, k, TIMER_FREQ)
      BY <3>1
    <3>2. CASE \E x \in Times : x[2] = 1000 /\ timer_msleep(t, x[1])
      BY <2>1, <3>2, AnyTime DEF timer_msleep
    <3>3. CASE \E x \in Times : x[2] = 1000000 /\ timer_usleep(t, x[1])
      BY <2>1, <3>3, AnyTime DEF timer_usleep
    <3>4. CASE \E x \in Times : x[2] = 1000000000 /\ timer_nsleep(t, x[1])
      BY <2>1, <3>4, AnyTime DEF timer_nsleep
    <3> QED
      BY <1>2, <3>1, <3>2, <3>3, <3>4 DEF Sleeps
  <2> QED
    BY <1>2, <2>2 DEF AnyNext
<1>3. ASSUME NEW t \in Threads, Runs(t), UNCHANGED version
      PROVE  AnyNext
  BY <1>3 DEF Runs, AnyNext
<1>4. CASE timer_interrupt /\ UNCHANGED version
  BY <1>4 DEF AnyNext
<1> QED
  BY <1>1, <1>2, <1>3, <1>4 DEF DeviceNext

----------------------------------------------------------------------------
(* Threads that sleep *)

\* What a tick does to the list.
LEMMA UnlistedFacts ==
  ASSUME Types, NEW gone
  PROVE  /\ Unlisted(gone) \in Seq(Threads) /\ ToSet(Unlisted(gone)) = ToSet(thread_list) \ gone
         /\ IsInjective(thread_list) => IsInjective(Unlisted(gone))
BY RemoveAllKeeps DEF Unlisted, Types

\* A thread that is on no list yet is put on it once.
LEMMA ListedFacts ==
  ASSUME Types, NEW t \in Threads, Listed(t)
  PROVE  /\ thread_list' \in Seq(Threads)
         /\ HasList => ToSet(thread_list') = ToSet(thread_list) \cup {t}
         /\ HasList /\ IsInjective(thread_list) /\ t \notin ToSet(thread_list) => IsInjective(thread_list')
<1>1. thread_list \in Seq(Threads) /\ Len(thread_list) \in Nat
  BY DEF Types
<1>2. CASE version = "timer" /\ UNCHANGED thread_list
  BY <1>1, <1>2 DEF HasList
<1>3. CASE version = "timer_list" /\ thread_list' = Append(thread_list, t)
  <2>1. thread_list' = InsertAt(thread_list, Len(thread_list) + 1, t)
    <3>1. /\ SubSeq(thread_list, 1, Len(thread_list) + 1 - 1) = thread_list
          /\ SubSeq(thread_list, Len(thread_list) + 1, Len(thread_list)) = <<>>
      BY <1>1
    <3>2. Append(thread_list, t) = thread_list \o <<t>> \o <<>>
      BY <1>1
    <3> QED
      BY <1>3, <3>1, <3>2 DEF InsertAt
  <2>2. Len(thread_list) + 1 \in 1..(Len(thread_list) + 1)
    BY <1>1
  <2> QED
    BY <1>1, <2>1, <2>2, InsertAnywhere
<1>4. CASE \E i \in 1..(Len(thread_list) + 1) : thread_list' = InsertAt(thread_list, i, t)
  BY <1>1, <1>4, InsertAnywhere
<1> QED
  BY <1>2, <1>3, <1>4 DEF Listed

LEMMA InitInv == Init => Inv
<1> SUFFICES ASSUME Init
             PROVE  Inv
  OBVIOUS
<1>1. Types
  BY TimerAssumption DEF Init, Types
<1>2. Waits
  BY DEF Init, Waits
<1>3. ToSet(thread_list) = {} /\ IsInjective(thread_list)
  BY DEF Init, ToSet, IsInjective
<1>4. Listing
  BY <1>3 DEF Init, Listing, Asleep
<1> QED
  BY <1>1, <1>2, <1>4 DEF Inv

\* Whose time comes in a tick, and that the tick finds them blocked if there is a list.
LEMMA DueFacts ==
  ASSUME Inv, timer_interrupt
  PROVE  /\ Due(ticks') \subseteq Threads
         /\ \A t \in Due(ticks') : waiting_time[t] <= ticks'
         /\ HasList => \A t \in Threads : t \in Due(ticks') <=> Asleep(t) /\ waiting_time[t] <= ticks'
         /\ \A t \in Due(ticks') \cap blocked : pc[t] = "asleep"
<1>1. /\ ticks' = ticks + 1 /\ ticks \in Nat /\ thread_list \in Seq(Threads)
      /\ waiting_time \in [Threads -> Nat]
      /\ ToSet(thread_list) \subseteq Threads
  BY DEF timer_interrupt, Inv, Types, ToSet
<1>2. CASE version = "timer"
  <2>1. Due(ticks') = {t \in Threads : waiting_time[t] = ticks + 1}
    BY <1>1, <1>2 DEF Due, DueOfAll
  <2>2. ASSUME NEW t \in Threads, waiting_time[t] = ticks + 1, t \in blocked
        PROVE  pc[t] = "asleep"
    BY <1>1, <2>2 DEF Inv, Waits
  <2> QED
    BY <1>1, <1>2, <2>1, <2>2 DEF HasList
<1>3. CASE version # "timer"
  <2>1. Due(ticks') = {t \in ToSet(thread_list) : waiting_time[t] <= ticks'}
    BY <1>3 DEF Due, DueOnList
  <2>2. \A t \in Threads : t \in ToSet(thread_list) <=> Asleep(t)
    BY <1>3 DEF Inv, Listing, HasList
  <2> QED
    BY <1>1, <2>1, <2>2 DEF Asleep
<1> QED
  BY <1>2, <1>3

LEMMA InvStep == Inv /\ [AnyNext]_vars => Inv'
<1> SUFFICES ASSUME Inv, [AnyNext]_vars
             PROVE  Inv'
  OBVIOUS
<1> USE DEF Inv
<1>0. /\ ticks \in Nat /\ thread_list \in Seq(Threads) /\ waiting_time \in [Threads -> Nat]
      /\ blocked \in SUBSET Threads /\ start \in [Threads -> Nat] /\ sleep \in [Threads -> Nat]
      /\ pc \in [Threads -> {"run", "set", "block", "asleep", "down"}]
  BY DEF Types
<1>1. ASSUME NEW t \in Threads, NEW k \in Nat, timer_sleep(t, k), UNCHANGED version
      PROVE  Inv'
  <2>1. /\ t \notin blocked /\ pc[t] = "run" /\ pc' = [pc EXCEPT ![t] = "set"]
        /\ start' = [start EXCEPT ![t] = ticks] /\ sleep' = [sleep EXCEPT ![t] = k]
        /\ UNCHANGED <<version, ticks, thread_list, waiting_time, blocked>>
    BY <1>1 DEF timer_sleep, At
  <2>2. Types'
    BY <1>0, <2>1 DEF Types
  <2>3. Waits'
    BY <1>0, <2>1 DEF Waits
  <2>4. Listing'
    BY <1>0, <2>1 DEF Listing, Asleep, HasList
  <2> QED
    BY <2>2, <2>3, <2>4
<1>2. ASSUME NEW t \in Threads, set(t), UNCHANGED version
      PROVE  Inv'
  <2>1. /\ t \notin blocked /\ pc[t] = "set" /\ pc' = [pc EXCEPT ![t] = "block"]
        /\ waiting_time' = [waiting_time EXCEPT ![t] = start[t] + sleep[t]]
        /\ UNCHANGED <<version, ticks, thread_list, blocked, start, sleep>>
    BY <1>2 DEF set, At, locals
  <2>2. Types'
    BY <1>0, <2>1 DEF Types
  <2>3. Waits'
    BY <1>0, <2>1 DEF Waits
  <2>4. Listing'
    BY <1>0, <2>1 DEF Listing, Asleep, HasList
  <2> QED
    BY <2>2, <2>3, <2>4
<1>3. ASSUME NEW t \in Threads, block(t), UNCHANGED version
      PROVE  Inv'
  <2>1. /\ t \notin blocked /\ pc[t] = "block" /\ pc' = [pc EXCEPT ![t] = "asleep"]
        /\ Listed(t) /\ blocked' = blocked \cup {t}
        /\ UNCHANGED <<version, ticks, waiting_time, start, sleep>>
    BY <1>3 DEF block, At, locals
  <2>2. /\ thread_list' \in Seq(Threads)
        /\ HasList => ToSet(thread_list') = ToSet(thread_list) \cup {t}
        /\ HasList /\ IsInjective(thread_list) /\ t \notin ToSet(thread_list) => IsInjective(thread_list')
    BY <2>1, ListedFacts
  <2>3. Types'
    BY <1>0, <2>1, <2>2 DEF Types
  <2>4. Waits'
    BY <1>0, <2>1 DEF Waits
  <2>5. Listing'
    BY <1>0, <2>1, <2>2 DEF Listing, Asleep, HasList
  <2> QED
    BY <2>3, <2>4, <2>5
<1>4. ASSUME NEW t \in Threads, wake(t), UNCHANGED version
      PROVE  Inv'
  <2>1. /\ t \notin blocked /\ pc[t] = "asleep" /\ pc' = [pc EXCEPT ![t] = "run"]
        /\ UNCHANGED <<version, ticks, thread_list, waiting_time, blocked, start, sleep>>
    BY <1>4 DEF wake, At, locals
  <2>2. Types'
    BY <1>0, <2>1 DEF Types
  <2>3. Waits'
    BY <1>0, <2>1 DEF Waits
  <2>4. Listing'
    BY <1>0, <2>1 DEF Listing, Asleep, HasList
  <2> QED
    BY <2>2, <2>3, <2>4
<1>5. ASSUME NEW t \in Threads, semaphore_down(t), UNCHANGED version
      PROVE  Inv'
  <2>1. /\ t \notin blocked /\ pc[t] = "run" /\ pc' = [pc EXCEPT ![t] = "down"]
        /\ blocked' = blocked \cup {t}
        /\ UNCHANGED <<version, ticks, thread_list, waiting_time, start, sleep>>
    BY <1>5 DEF semaphore_down, At, locals
  <2>2. Types'
    BY <1>0, <2>1 DEF Types
  <2>3. Waits'
    BY <1>0, <2>1 DEF Waits
  <2>4. Listing'
    BY <1>0, <2>1 DEF Listing, Asleep, HasList
  <2> QED
    BY <2>2, <2>3, <2>4
<1>6. ASSUME NEW t \in Threads, semaphore_up(t), UNCHANGED version
      PROVE  Inv'
  <2>1. /\ t \in blocked /\ pc[t] = "down" /\ pc' = [pc EXCEPT ![t] = "run"]
        /\ blocked' = blocked \ {t}
        /\ UNCHANGED <<version, ticks, thread_list, waiting_time, start, sleep>>
    BY <1>6 DEF semaphore_up, locals
  <2>2. Types'
    BY <1>0, <2>1 DEF Types
  <2>3. Waits'
    BY <1>0, <2>1 DEF Waits
  <2>4. Listing'
    BY <1>0, <2>1 DEF Listing, Asleep, HasList
  <2> QED
    BY <2>2, <2>3, <2>4
<1>7. ASSUME timer_interrupt, UNCHANGED version
      PROVE  Inv'
  <2>1. /\ ticks' = ticks + 1 /\ blocked' = blocked \ Due(ticks')
        /\ thread_list' = Unlisted(Due(ticks'))
        /\ UNCHANGED <<version, waiting_time, pc, start, sleep>>
    BY <1>7 DEF timer_interrupt, locals
  <2>2. /\ Due(ticks') \subseteq Threads
        /\ \A t \in Due(ticks') : waiting_time[t] <= ticks'
        /\ HasList => \A t \in Threads : t \in Due(ticks') <=> Asleep(t) /\ waiting_time[t] <= ticks'
        /\ \A t \in Due(ticks') \cap blocked : pc[t] = "asleep"
    BY <1>7, DueFacts
  <2> DEFINE gone == Due(ticks + 1)
  <2>3. gone = Due(ticks')
    BY <2>1
  <2>4. /\ thread_list' \in Seq(Threads) /\ ToSet(thread_list') = ToSet(thread_list) \ gone
        /\ IsInjective(thread_list) => IsInjective(thread_list')
    BY <2>1, <2>3, UnlistedFacts
  <2> HIDE DEF gone
  <2>5. Types'
    BY <1>0, <2>1, <2>4 DEF Types
  <2>6. Waits'
    <3> SUFFICES ASSUME NEW t \in Threads
                 PROVE  /\ t \in blocked' => pc[t] \in {"asleep", "down"}
                        /\ pc[t] = "down" => t \in blocked'
                        /\ pc[t] \in {"run", "set", "down"} => waiting_time[t] <= ticks + 1
                        /\ pc[t] = "asleep" /\ t \notin blocked' => waiting_time[t] <= ticks + 1
                        /\ pc[t] \in {"block", "asleep"} => waiting_time[t] = start[t] + sleep[t]
                        /\ pc[t] \in {"set", "block", "asleep"} => start[t] <= ticks + 1
      BY <2>1 DEF Waits
    <3>1. waiting_time[t] \in Nat /\ start[t] \in Nat
      BY <1>0
    <3>2. t \in blocked' <=> t \in blocked /\ t \notin gone
      BY <2>1, <2>3
    <3>3. t \in gone => waiting_time[t] <= ticks + 1 /\ (t \in blocked => pc[t] = "asleep")
      BY <2>1, <2>2, <2>3
    <3>4. /\ t \in blocked => pc[t] \in {"asleep", "down"}
          /\ pc[t] = "down" => t \in blocked
          /\ pc[t] \in {"run", "set", "down"} => waiting_time[t] <= ticks
          /\ pc[t] = "asleep" /\ t \notin blocked => waiting_time[t] <= ticks
          /\ pc[t] \in {"block", "asleep"} => waiting_time[t] = start[t] + sleep[t]
          /\ pc[t] \in {"set", "block", "asleep"} => start[t] <= ticks
      BY DEF Waits
    <3> QED
      BY <1>0, <3>1, <3>2, <3>3, <3>4
  <2>7. Listing'
    <3> SUFFICES ASSUME HasList
                 PROVE  /\ IsInjective(thread_list')
                        /\ \A t \in Threads : t \in ToSet(thread_list') <=> Asleep(t)'
      BY <2>1 DEF Listing, HasList
    <3>1. IsInjective(thread_list) /\ \A t \in Threads : t \in ToSet(thread_list) <=> Asleep(t)
      BY DEF Listing
    <3>2. \A t \in Threads : Asleep(t)' <=> Asleep(t) /\ t \notin gone
      BY <2>1, <2>3 DEF Asleep
    <3> QED
      BY <2>4, <3>1, <3>2
  <2> QED
    BY <2>5, <2>6, <2>7
<1>8. CASE UNCHANGED vars
  BY <1>8 DEF vars, locals, Types, Waits, Listing, Asleep, HasList
<1> QED
  BY <1>1, <1>2, <1>3, <1>4, <1>5, <1>6, <1>7, <1>8 DEF AnyNext

LEMMA InvHolds == DeviceSpec => []Inv
<1>1. DeviceInit => Inv
  BY InitInv DEF DeviceInit
<1>2. Inv /\ [DeviceNext]_deviceVars => Inv'
  BY DeviceSteps, InvStep
<1> QED
  BY <1>1, <1>2, PTL DEF DeviceSpec

----------------------------------------------------------------------------
(* Theorems *)

\* The list holds each sleeping thread once and nobody else (timer_list.c:117, 130).
THEOREM EverySleeperListed == DeviceSpec => []SleepersListed
<1>1. Inv => SleepersListed
  <2> SUFFICES ASSUME Inv, HasList
               PROVE  /\ ToSet(thread_list) = {t \in Threads : Asleep(t)}
                      /\ Len(thread_list) = Cardinality(ToSet(thread_list))
    BY DEF SleepersListed
  <2>1. thread_list \in Seq(Threads) /\ IsInjective(thread_list)
    BY DEF Inv, Types, Listing
  <2>2. ToSet(thread_list) \subseteq Threads
    BY <2>1 DEF ToSet
  <2>3. ToSet(thread_list) = {t \in Threads : Asleep(t)}
    BY <2>2 DEF Inv, Listing
  <2> QED
    BY <2>1, <2>3, QueueLength
<1> QED
  BY <1>1, InvHolds, PTL

\* With the list no thread oversleeps, wherever ticks interrupt timer_sleep()
\* (timer_list.c:129-132).
THEOREM NoListedOversleeps == DeviceSpec => ListNeverOversleeps
<1>1. Inv /\ [DeviceNext]_deviceVars => [HasList => WakesAllDue]_vars
  <2> SUFFICES ASSUME Inv, AnyNext, HasList, ticks' # ticks, NEW t \in Threads,
                      pc'[t] = "asleep", t \in blocked'
               PROVE  waiting_time[t] > ticks'
    BY DeviceSteps DEF WakesAllDue
  <2>1. timer_interrupt
    BY DEF AnyNext, timer_sleep, set, block, wake, semaphore_down, semaphore_up
  <2>2. Asleep(t) /\ t \notin Due(ticks')
    BY <2>1 DEF timer_interrupt, Asleep
  <2>3. ~(waiting_time[t] <= ticks')
    BY <2>1, <2>2, DueFacts
  <2>4. waiting_time[t] \in Nat /\ ticks' \in Nat
    BY <2>1 DEF timer_interrupt, Inv, Types
  <2> QED
    BY <2>3, <2>4
<1> QED
  BY <1>1, InvHolds, PTL DEF DeviceSpec, ListNeverOversleeps

\* A tick wakes sleepers only, and with the list it finds them blocked, as
\* thread_unblock() asserts (timer_sorted_list.c:246-251, timer.c:126).
THEOREM SleepersWoken == DeviceSpec => OnlySleepersWoken
<1>1. Inv /\ [DeviceNext]_deviceVars =>
        [ticks' # ticks => /\ HasList => ~panic'
                           /\ \A t \in blocked \ blocked' : pc[t] = "asleep"]_vars
  <2> SUFFICES ASSUME Inv, AnyNext, ticks' # ticks
               PROVE  /\ HasList => ~panic'
                      /\ \A t \in blocked \ blocked' : pc[t] = "asleep"
    BY DeviceSteps
  <2>1. timer_interrupt
    BY DEF AnyNext, timer_sleep, set, block, wake, semaphore_down, semaphore_up
  <2>2. /\ Due(ticks') \subseteq Threads
        /\ HasList => \A t \in Threads : t \in Due(ticks') <=> Asleep(t) /\ waiting_time[t] <= ticks'
        /\ \A t \in Due(ticks') \cap blocked : pc[t] = "asleep"
    BY <2>1, DueFacts
  <2>3. HasList => Due(ticks') \subseteq blocked
    BY <2>2 DEF Asleep
  <2> QED
    BY <2>1, <2>2, <2>3 DEF timer_interrupt
<1> QED
  BY <1>1, InvHolds, PTL DEF DeviceSpec, OnlySleepersWoken

----------------------------------------------------------------------------
(* How long sleeps last *)

\* The conversion to ticks loses less than a tick.
LEMMA Conversion ==
  ASSUME NEW n \in Nat, NEW d \in {1000, 1000000, 1000000000}
  PROVE  /\ Microseconds(n, d) \in Nat
         /\ AskedLess(Microseconds(n, d), (n * TIMER_FREQ) \div d)
<1> DEFINE f == TIMER_FREQ
           m == n * f
<1>1. f \in Nat
  BY CalibrateAssumption
<1>2. m \in Nat
  BY <1>1
<1>3. CASE d = 1000
  <2>1. Microseconds(n, d) = n * 1000
    BY <1>3 DEF Microseconds
  <2>2. (n * 1000) * f = m * 1000
    BY <1>1
  <2> DEFINE k == m \div 1000
  <2> HIDE DEF m
  <2>3. k \in Nat /\ m < (k + 1) * 1000
    BY <1>2
  <2> HIDE DEF k
  <2>4. m * 1000 < (k + 1) * 1000000
    BY <1>2, <2>3
  <2> QED
    BY <1>3, <2>1, <2>2, <2>4 DEF AskedLess, k, m
<1>4. CASE d = 1000000
  <2>1. Microseconds(n, d) = n
    BY <1>4 DEF Microseconds
  <2> DEFINE k == m \div 1000000
  <2> HIDE DEF m
  <2>3. k \in Nat /\ m < (k + 1) * 1000000
    BY <1>2
  <2> QED
    BY <1>4, <2>1, <2>3 DEF AskedLess, m
<1>5. CASE d = 1000000000
  <2> DEFINE u == n \div 1000
  <2>1. Microseconds(n, d) = u
    BY <1>5 DEF Microseconds
  <2>2. u \in Nat /\ u * 1000 <= n
    OBVIOUS
  <2> HIDE DEF u
  <2>3. (u * f) * 1000 <= m /\ u * f \in Nat
    <3>1. \E r \in Nat : n = u * 1000 + r
      <4>1. n - u * 1000 \in Nat /\ n = u * 1000 + (n - u * 1000)
        BY <2>2
      <4> QED
        BY <4>1
    <3>2. PICK r \in Nat : n = u * 1000 + r
      BY <3>1
    <3>3. n * f = (u * f) * 1000 + r * f /\ r * f \in Nat /\ u * f \in Nat
      BY <1>1, <2>2, <3>2
    <3> QED
      BY <3>3
  <2> DEFINE k == m \div 1000000000
             v == u * f
  <2> HIDE DEF m
  <2>4. k \in Nat /\ m < (k + 1) * 1000000000
    BY <1>2
  <2> HIDE DEF k, v
  <2>5. v * 1000 <= m /\ v \in Nat
    BY <2>3 DEF v
  <2>6. v < (k + 1) * 1000000
    BY <1>2, <2>4, <2>5
  <2> QED
    BY <1>5, <2>1, <2>2, <2>6 DEF AskedLess, k, m, v
<1> QED
  BY <1>3, <1>4, <1>5

\* A sleep for ticks is asked for in units of a tick, of whole microseconds.
LEMMA TickUnits ==
  ASSUME NEW k \in Nat
  PROVE  Microseconds(k, TIMER_FREQ) \in Nat /\ AskedLess(Microseconds(k, TIMER_FREQ), k)
<1> DEFINE f == TIMER_FREQ
           u == 1000000 \div f
<1>1. f \in Nat /\ f > 0 /\ f <= 1000000
  BY CalibrateAssumption
<1>2. Microseconds(k, f) = k * u
  BY <1>1 DEF Microseconds
<1> HIDE DEF f
<1>3. u \in Nat /\ f * u <= 1000000
  BY <1>1
<1> HIDE DEF u
<1>4. (k * u) * f <= k * 1000000 /\ k * u \in Nat
  <2>1. \E r \in Nat : 1000000 = f * u + r
    <3>1. 1000000 - f * u \in Nat
      BY <1>1, <1>3
    <3>2. 1000000 = f * u + (1000000 - f * u)
      BY <1>1, <1>3
    <3> QED
      BY <3>1, <3>2
  <2>2. PICK r \in Nat : 1000000 = f * u + r
    BY <2>1
  <2>3. k * 1000000 = (k * u) * f + k * r /\ k * r \in Nat /\ (k * u) * f \in Nat
    BY <1>1, <1>3, <2>2
  <2> QED
    BY <1>3, <2>3
<1>5. (k * u) * f < (k + 1) * 1000000
  <2>1. k * 1000000 < (k + 1) * 1000000
    OBVIOUS
  <2>2. (k * u) * f \in Nat
    BY <1>1, <1>4
  <2> QED
    BY <1>4, <2>1, <2>2
<1> QED
  BY <1>2, <1>4, <1>5 DEF AskedLess, f

\* Thread t begins to sleep for k ticks, and asked for a microseconds.
Begins(t, k, a) == timer_sleep(t, k) /\ AskedLess(a, k) /\ asked' = [asked EXCEPT ![t] = a]

\* What is asked is what the sleep is for.
LEMMA AskedStep == Inv /\ Asked /\ [DeviceNext]_deviceVars => Asked'
<1> SUFFICES ASSUME Inv, Asked, [DeviceNext]_deviceVars
             PROVE  Asked'
  OBVIOUS
<1>0. /\ asked \in [Threads -> Nat] /\ sleep \in [Threads -> Nat] /\ pc \in [Threads -> {"run", "set", "block", "asleep", "down"}]
      /\ \A t \in Threads : pc[t] \in {"set", "block", "asleep"} => AskedLess(asked[t], sleep[t])
  BY DEF Inv, Types, Asked
<1>1. ASSUME NEW t \in Threads, NEW k \in Nat, NEW a \in Nat, Begins(t, k, a)
      PROVE  Asked'
  <2>0. AskedLess(a, k) /\ asked' = [asked EXCEPT ![t] = a]
    BY <1>1 DEF Begins
  <2>1. pc' = [pc EXCEPT ![t] = "set"] /\ sleep' = [sleep EXCEPT ![t] = k]
    BY <1>1 DEF Begins, timer_sleep, At
  <2>2. AskedLess(asked'[t], sleep'[t])
    BY <1>0, <2>0, <2>1
  <2>3. \A u \in Threads : u # t => asked'[u] = asked[u] /\ sleep'[u] = sleep[u] /\ pc'[u] = pc[u]
    BY <1>0, <2>0, <2>1
  <2>4. asked' \in [Threads -> Nat]
    BY <1>0, <2>0
  <2>5. \A u \in Threads : pc'[u] \in {"set", "block", "asleep"} => AskedLess(asked'[u], sleep'[u])
    BY <1>0, <2>2, <2>3
  <2> QED
    BY <2>4, <2>5 DEF Asked, AskedLess
<1>2. ASSUME NEW t \in Threads, NEW n \in Nat, NEW d \in {1000, 1000000, 1000000000}, real_time_sleep(t, n, d)
      PROVE  Asked'
  <2> DEFINE q == (n * TIMER_FREQ) \div d
             m == Microseconds(n, d)
  <2>1. timer_sleep(t, q) /\ asked' = [asked EXCEPT ![t] = m]
    BY <1>2 DEF real_time_sleep, Asks
  <2>2. m \in Nat /\ AskedLess(m, q)
    BY Conversion
  <2>3. q \in Nat
    <3>1. n * TIMER_FREQ \in Nat
      BY CalibrateAssumption
    <3> QED
      BY <3>1, Quotient
  <2> HIDE DEF q, m
  <2>4. Begins(t, q, m)
    BY <2>1, <2>2 DEF Begins
  <2> QED
    BY <1>1, <2>2, <2>3, <2>4
<1>3. ASSUME NEW t \in Threads, Sleeps(t)
      PROVE  Asked'
  <2>1. CASE \E k \in 0..MaxSleep : timer_sleep(t, k) /\ Asks(t, k, TIMER_FREQ)
    <3>1. PICK k \in 0..MaxSleep : timer_sleep(t, k) /\ Asks(t, k, TIMER_FREQ)
      BY <2>1
    <3>2. k \in Nat
      BY TimerAssumption
    <3> DEFINE a == Microseconds(k, TIMER_FREQ)
    <3>3. a \in Nat /\ AskedLess(a, k) /\ asked' = [asked EXCEPT ![t] = a]
      BY <3>1, <3>2, TickUnits DEF Asks
    <3> HIDE DEF a
    <3>4. Begins(t, k, a)
      BY <3>1, <3>3 DEF Begins
    <3> QED
      BY <1>1, <3>2, <3>3, <3>4
  <2>2. CASE \E x \in Times : x[2] = 1000 /\ timer_msleep(t, x[1])
    BY <1>2, <2>2, AnyTime DEF timer_msleep
  <2>3. CASE \E x \in Times : x[2] = 1000000 /\ timer_usleep(t, x[1])
    BY <1>2, <2>3, AnyTime DEF timer_usleep
  <2>4. CASE \E x \in Times : x[2] = 1000000000 /\ timer_nsleep(t, x[1])
    BY <1>2, <2>4, AnyTime DEF timer_nsleep
  <2> QED
    BY <1>3, <2>1, <2>2, <2>3, <2>4 DEF Sleeps
<1>4. ASSUME NEW t \in Threads, Runs(t)
      PROVE  Asked'
  <2>1. CASE wake(t) /\ asked' = [asked EXCEPT ![t] = 0]
    <3>1. pc' = [pc EXCEPT ![t] = "run"] /\ sleep' = sleep
      BY <2>1 DEF wake, At, locals
    <3>2. \A u \in Threads : u # t => asked'[u] = asked[u] /\ pc'[u] = pc[u]
      BY <1>0, <2>1, <3>1
    <3>3. asked' \in [Threads -> Nat] /\ pc'[t] = "run"
      BY <1>0, <2>1, <3>1
    <3>4. \A u \in Threads : pc'[u] \in {"set", "block", "asleep"} => AskedLess(asked'[u], sleep'[u])
      <4> SUFFICES ASSUME NEW u \in Threads, pc'[u] \in {"set", "block", "asleep"}
                   PROVE  AskedLess(asked'[u], sleep'[u])
        OBVIOUS
      <4>1. u # t
        BY <3>3
      <4>2. asked'[u] = asked[u] /\ sleep'[u] = sleep[u] /\ AskedLess(asked[u], sleep[u])
        BY <1>0, <3>1, <3>2, <4>1
      <4> QED
        BY <4>2
    <3> QED
      BY <3>3, <3>4 DEF Asked, AskedLess
  <2>2. CASE (set(t) \/ block(t) \/ semaphore_down(t) \/ semaphore_up(t)) /\ UNCHANGED asked
    <3>1. /\ sleep' = sleep /\ asked' = asked
          /\ \A u \in Threads : pc'[u] \in {"set", "block", "asleep"} => pc[u] \in {"set", "block", "asleep"}
      BY <1>0, <2>2 DEF set, block, semaphore_down, semaphore_up, At, locals
    <3> QED
      BY <1>0, <3>1 DEF Asked, AskedLess
  <2> QED
    BY <1>4, <2>1, <2>2 DEF Runs
<1>5. CASE timer_interrupt /\ UNCHANGED asked
  BY <1>0, <1>5 DEF timer_interrupt, locals, Asked, AskedLess
<1>6. CASE UNCHANGED <<vars, asked>>
  BY <1>0, <1>6 DEF vars, locals, Asked, AskedLess
<1> QED
  BY <1>3, <1>4, <1>5, <1>6 DEF DeviceNext, deviceVars

\* A sleep lasts less than one tick less than was asked for, in whatever unit
\* (timer_sorted_list.c:296-312, 108-112).
THEOREM SleepsLongEnough == DeviceSpec => []TimeKept
<1>1. DeviceInit => Asked
  BY DEF DeviceInit, Init, Asked
<1>2. Inv /\ Asked /\ [DeviceNext]_deviceVars => Asked'
  BY AskedStep
<1>3. Inv /\ Asked => TimeKept
  <2> SUFFICES ASSUME Inv, Asked, NEW t \in Threads, pc[t] = "asleep", ~Asleep(t)
               PROVE  (ticks - start[t] + 1) * 1000000 > asked[t] * TIMER_FREQ
    BY DEF TimeKept
  <2>1. /\ ticks \in Nat /\ start[t] \in Nat /\ sleep[t] \in Nat
        /\ start[t] + sleep[t] <= ticks
    BY DEF Inv, Types, Waits, Asleep
  <2>2. asked[t] * TIMER_FREQ < (sleep[t] + 1) * 1000000
    BY DEF Asked, AskedLess
  <2>3. asked[t] * TIMER_FREQ \in Nat
    BY CalibrateAssumption DEF Asked
  <2> DEFINE x == asked[t] * TIMER_FREQ
  <2> HIDE DEF x
  <2>4. x \in Nat /\ x < (sleep[t] + 1) * 1000000
    BY <2>2, <2>3 DEF x
  <2>5. (ticks - start[t] + 1) * 1000000 > x
    BY <2>1, <2>4
  <2> QED
    BY <2>5 DEF x
<1> QED
  BY <1>1, <1>2, <1>3, InvHolds, PTL DEF DeviceSpec

----------------------------------------------------------------------------
(* Calibration *)

LEMMA Multiple ==
  ASSUME NEW b \in Nat, b > 0, NEW q \in Nat
  PROVE  (b * q) \div b = q
OBVIOUS

LEMMA Product ==
  ASSUME NEW x \in Nat, NEW y \in Nat, NEW z \in Nat, x <= y
  PROVE  x * z <= y * z /\ x * z \in Nat /\ y * z \in Nat
<1>1. \E d \in Nat : y = x + d
  <2>1. y - x \in Nat /\ y = x + (y - x)
    OBVIOUS
  <2> QED
    BY <2>1
<1>2. PICK d \in Nat : y = x + d
  BY <1>1
<1>3. y * z = x * z + d * z /\ d * z \in Nat /\ x * z \in Nat
  BY <1>2
<1> QED
  BY <1>3

\* The bits that are tried, as multiples of the last.
Bits == {1, 2, 4, 8, 16, 32, 64, 128, 256, 512}

\* high_bit has room below it for all of them.
Whole(h) == \E n \in Nat \ {0} : h = 1024 * n

\* While bits are tried: those from 2 * test_bit on have been, loops_per_tick has
\* no others yet, and what is left of them makes up for what it lacks.
Refining ==
  /\ Whole(high_bit) /\ high_bit <= speed
  /\ \E c \in Bits : test_bit = c * LastBit
  /\ \E j \in Nat : loops_per_tick = (2 * test_bit) * j
  /\ high_bit <= loops_per_tick /\ loops_per_tick + 2 * test_bit <= 2 * high_bit
  /\ loops_per_tick + 2 * test_bit > speed

Calibrating ==
  /\ speed \in Speeds /\ speed \in Nat
  /\ loops_per_tick \in Nat /\ high_bit \in Nat /\ test_bit \in Nat
  /\ stage \in {"double", "refine", "done"}
  /\ stage = "double" => Whole(loops_per_tick) /\ loops_per_tick <= speed
  /\ stage \in {"refine", "done"} => Refining
  /\ stage = "done" => test_bit = LastBit

LEMMA LastBitFacts ==
  ASSUME NEW n \in Nat, n > 0, high_bit = 1024 * n
  PROVE  LastBit = n /\ high_bit \div 2 = 512 * n /\ high_bit \div 512 = 2 * n
BY DEF LastBit

\* A bit that is tried is above the last one or is it, can be halved if it is
\* not, and is not in high_bit.
LEMMA BitFacts ==
  ASSUME NEW n \in Nat, n > 0, NEW c \in Bits, NEW b, b = c * n
  PROVE  /\ b \in Nat /\ b > 0
         /\ b # n => \E d \in Bits : b \div 2 = d * n /\ 2 * (d * n) = b
         /\ \E i \in Nat : 1024 * n = b * (2 * i)
<1>1. b \in Nat /\ b > 0
  BY DEF Bits
<1>2. ASSUME NEW d \in Bits, c = 2 * d
      PROVE  \E e \in Bits : b \div 2 = e * n /\ 2 * (e * n) = b
  <2>1. d * n \in Nat /\ 2 * (d * n) = b
    BY <1>2 DEF Bits
  <2>2. b \div 2 = d * n
    BY <2>1
  <2> QED
    BY <2>1, <2>2
<1>3. c = 1 \/ \E d \in Bits : c = 2 * d
  BY DEF Bits
<1>4. \E i \in Nat : 1024 = c * (2 * i)
  <2>1. /\ 512 \in Nat /\ 256 \in Nat /\ 128 \in Nat /\ 64 \in Nat /\ 32 \in Nat
        /\ 16 \in Nat /\ 8 \in Nat /\ 4 \in Nat /\ 2 \in Nat /\ 1 \in Nat
    OBVIOUS
  <2>2. CASE c = 1
    <3>1. 1024 = c * (2 * 512)
      BY <2>2
    <3> QED
      BY <2>1, <3>1
  <2>3. CASE c = 2
    <3>1. 1024 = c * (2 * 256)
      BY <2>3
    <3> QED
      BY <2>1, <3>1
  <2>4. CASE c = 4
    <3>1. 1024 = c * (2 * 128)
      BY <2>4
    <3> QED
      BY <2>1, <3>1
  <2>5. CASE c = 8
    <3>1. 1024 = c * (2 * 64)
      BY <2>5
    <3> QED
      BY <2>1, <3>1
  <2>6. CASE c = 16
    <3>1. 1024 = c * (2 * 32)
      BY <2>6
    <3> QED
      BY <2>1, <3>1
  <2>7. CASE c = 32
    <3>1. 1024 = c * (2 * 16)
      BY <2>7
    <3> QED
      BY <2>1, <3>1
  <2>8. CASE c = 64
    <3>1. 1024 = c * (2 * 8)
      BY <2>8
    <3> QED
      BY <2>1, <3>1
  <2>9. CASE c = 128
    <3>1. 1024 = c * (2 * 4)
      BY <2>9
    <3> QED
      BY <2>1, <3>1
  <2>10. CASE c = 256
    <3>1. 1024 = c * (2 * 2)
      BY <2>10
    <3> QED
      BY <2>1, <3>1
  <2>11. CASE c = 512
    <3>1. 1024 = c * (2 * 1)
      BY <2>11
    <3> QED
      BY <2>1, <3>1
  <2> QED
    BY <2>2, <2>3, <2>4, <2>5, <2>6, <2>7, <2>8, <2>9, <2>10, <2>11 DEF Bits
<1>5. \E i \in Nat : 1024 * n = b * (2 * i)
  <2>1. PICK i \in Nat : 1024 = c * (2 * i)
    BY <1>4
  <2>2. c \in Nat /\ 2 * i \in Nat
    BY <2>1 DEF Bits
  <2>3. 1024 * n = (c * (2 * i)) * n
    BY <2>1
  <2>4. \A x, y, z \in Nat : (x * y) * z = (x * z) * y
    OBVIOUS
  <2>5. (c * (2 * i)) * n = (c * n) * (2 * i)
    BY <2>2, <2>4
  <2> QED
    BY <2>1, <2>3, <2>5
<1>6. c = 1 => b = n
  OBVIOUS
<1> QED
  BY <1>1, <1>2, <1>3, <1>5, <1>6

\* A bit that a number does not have is added to it.
LEMMA OrAdds ==
  ASSUME NEW b \in Nat, b > 0, NEW i \in Nat, NEW h, h = b * (2 * i)
  PROVE  Or(h, b) = h + b
<1>1. h \div b = 2 * i
  <2>1. 2 * i \in Nat
    OBVIOUS
  <2> QED
    BY <2>1, Multiple
<1>2. (2 * i) % 2 = 0
  OBVIOUS
<1> QED
  BY <1>1, <1>2 DEF Or

LEMMA CalibratingStep == Calibrating /\ [DeviceNext]_deviceVars => Calibrating'
<1> SUFFICES ASSUME Calibrating, [DeviceNext]_deviceVars
             PROVE  Calibrating'
  OBVIOUS
<1>0. /\ speed \in Speeds /\ speed \in Nat /\ loops_per_tick \in Nat /\ high_bit \in Nat /\ test_bit \in Nat
      /\ FirstLoops <= speed /\ 2 * speed < UIntRange /\ UIntRange \in Nat
  BY CalibrateAssumption DEF Calibrating
<1>1. CASE double
  <2>1. PICK n \in Nat : n > 0 /\ loops_per_tick = 1024 * n
    BY <1>1 DEF double, Calibrating, Whole
  <2>2. loops_per_tick <= speed /\ speed' = speed
    BY <1>1 DEF double, Calibrating
  <2>3. Shl1(loops_per_tick) = 2 * loops_per_tick
    <3>1. 2 * loops_per_tick \in Nat /\ 2 * loops_per_tick < UIntRange /\ UIntRange > 0
      BY <1>0, <2>2
    <3> DEFINE y == 2 * loops_per_tick
               m == UIntRange
    <3>2. y \in Nat /\ m \in Nat /\ m > 0 /\ y < m
      BY <1>0, <3>1
    <3> HIDE DEF y, m
    <3>3. y % m = y
      BY <3>2
    <3> QED
      BY <3>3 DEF Shl1, y, m
  <2>4. CASE ~too_many_loops(Shl1(loops_per_tick))
    <3>1. /\ loops_per_tick' = 2 * loops_per_tick /\ 2 * loops_per_tick <= speed
          /\ stage' = "double" /\ UNCHANGED <<high_bit, test_bit>>
      BY <1>0, <1>1, <2>1, <2>3, <2>4 DEF double, too_many_loops
    <3>2. 2 * n \in Nat \ {0} /\ loops_per_tick' = 1024 * (2 * n)
      BY <2>1, <3>1
    <3>3. Whole(loops_per_tick')
      BY <3>2 DEF Whole
    <3> QED
      BY <1>0, <2>2, <3>1, <3>3 DEF Calibrating, Whole
  <2>5. CASE too_many_loops(Shl1(loops_per_tick))
    <3>1. /\ high_bit' = loops_per_tick /\ test_bit' = loops_per_tick \div 2
          /\ loops_per_tick' = loops_per_tick /\ stage' = "refine" /\ 2 * loops_per_tick > speed
      BY <1>1, <2>3, <2>5 DEF double, too_many_loops
    <3>2. high_bit' = 1024 * n /\ test_bit' = 512 * n /\ LastBit' = n
      BY <2>1, <3>1 DEF LastBit
    <3>3. Refining'
      <4>1. Whole(high_bit)'
        BY <2>1, <3>2 DEF Whole
      <4>2. \E c \in Bits : test_bit' = c * LastBit'
        BY <3>2 DEF Bits
      <4>3. loops_per_tick' = (2 * test_bit') * 1 /\ 1 \in Nat
        BY <2>1, <3>1, <3>2
      <4>4. /\ high_bit' <= speed' /\ high_bit' <= loops_per_tick'
            /\ loops_per_tick' + 2 * test_bit' <= 2 * high_bit' /\ loops_per_tick' + 2 * test_bit' > speed'
        BY <1>0, <2>1, <2>2, <3>1, <3>2
      <4> QED
        BY <4>1, <4>2, <4>3, <4>4 DEF Refining
    <3>4. loops_per_tick' \in Nat /\ high_bit' \in Nat /\ test_bit' \in Nat
      BY <1>0, <2>1, <3>1, <3>2
    <3> QED
      BY <1>0, <2>2, <3>1, <3>3, <3>4 DEF Calibrating
  <2> QED
    BY <2>4, <2>5
<1>2. CASE refine
  <2>0. Refining
    BY <1>2 DEF refine, Calibrating
  <2>1. PICK n \in Nat : n > 0 /\ high_bit = 1024 * n
    BY <2>0 DEF Refining, Whole
  <2>2. LastBit = n
    BY <2>1, LastBitFacts
  <2>3. PICK c \in Bits : test_bit = c * n
    BY <2>0, <2>2 DEF Refining
  <2>4. PICK d \in Bits : test_bit \div 2 = d * n /\ 2 * (d * n) = test_bit
    BY <1>2, <2>1, <2>2, <2>3, BitFacts DEF refine
  <2>5. PICK i \in Nat : high_bit = test_bit * (2 * i)
    BY <2>1, <2>3, BitFacts
  <2>6. PICK j \in Nat : loops_per_tick = (2 * test_bit) * j
    BY <2>0 DEF Refining
  <2>7. test_bit \in Nat /\ test_bit > 0 /\ d * n \in Nat
    BY <2>1, <2>3, BitFacts DEF Bits
  <2>8. loops_per_tick = test_bit * (2 * j)
    BY <2>6, <2>7
  <2>9. Or(high_bit, test_bit) = high_bit + test_bit /\ Or(loops_per_tick, test_bit) = loops_per_tick + test_bit
    BY <2>5, <2>7, <2>8, OrAdds
  <2>10. /\ speed' = speed /\ high_bit' = high_bit /\ stage' = stage /\ stage = "refine"
         /\ test_bit' = d * n /\ 2 * test_bit' = test_bit /\ LastBit' = n
    BY <1>2, <2>2, <2>4 DEF refine, LastBit
  <2>11. /\ high_bit <= loops_per_tick /\ loops_per_tick + 2 * test_bit <= 2 * high_bit
         /\ loops_per_tick + 2 * test_bit > speed /\ high_bit <= speed
    BY <2>0 DEF Refining
  <2>12. /\ loops_per_tick' \in Nat
         /\ \E k \in Nat : loops_per_tick' = (2 * test_bit') * k
         /\ high_bit' <= loops_per_tick' /\ loops_per_tick' + 2 * test_bit' <= 2 * high_bit'
         /\ loops_per_tick' + 2 * test_bit' > speed'
    <3>1. CASE too_many_loops(Or(high_bit, test_bit))
      <4>1. loops_per_tick' = loops_per_tick /\ high_bit + test_bit > speed
        BY <1>2, <2>9, <3>1 DEF refine, too_many_loops
      <4>2. loops_per_tick' = (2 * test_bit') * (2 * j) /\ 2 * j \in Nat
        BY <2>8, <2>10, <4>1
      <4>3. \E k \in Nat : loops_per_tick' = (2 * test_bit') * k
        BY <4>2
      <4>4. /\ high_bit' <= loops_per_tick' /\ loops_per_tick' + test_bit <= 2 * high_bit'
            /\ loops_per_tick' + test_bit > speed' /\ loops_per_tick' \in Nat
        BY <1>0, <2>7, <2>10, <2>11, <4>1
      <4> QED
        BY <2>10, <4>3, <4>4
    <3>2. CASE ~too_many_loops(Or(high_bit, test_bit))
      <4>1. loops_per_tick' = loops_per_tick + test_bit
        BY <1>2, <2>9, <3>2 DEF refine
      <4>2. loops_per_tick' = test_bit * (2 * j + 1) /\ 2 * j + 1 \in Nat
        BY <2>7, <2>8, <4>1
      <4>3. \E k \in Nat : loops_per_tick' = (2 * test_bit') * k
        BY <2>10, <4>2
      <4>4. /\ high_bit' <= loops_per_tick' /\ loops_per_tick' + test_bit <= 2 * high_bit'
            /\ loops_per_tick' + test_bit > speed' /\ loops_per_tick' \in Nat
        BY <1>0, <2>7, <2>10, <2>11, <4>1
      <4> QED
        BY <2>10, <4>3, <4>4
    <3> QED
      BY <3>1, <3>2
  <2>13. Refining'
    <3>1. Whole(high_bit')
      BY <2>1, <2>10 DEF Whole
    <3>2. \E e \in Bits : test_bit' = e * LastBit'
      BY <2>10
    <3> QED
      BY <2>10, <2>11, <2>12, <3>1, <3>2 DEF Refining, Whole
  <2> QED
    BY <1>0, <2>7, <2>10, <2>12, <2>13 DEF Calibrating
<1>3. CASE refined
  BY <1>3 DEF refined, Calibrating, Refining, Whole, LastBit
<1>4. CASE UNCHANGED calibrateVars
  BY <1>4 DEF calibrateVars, Calibrating, Refining, Whole, LastBit
<1> QED
  BY <1>1, <1>2, <1>3, <1>4 DEF DeviceNext, deviceVars, timer_calibrate

\* Scaled down before it is multiplied and divided, a delay stays near its time.
LEMMA Scaled ==
  ASSUME NEW p \in Nat, NEW v \in Nat, NEW w \in Nat, w <= p, p <= v,
         NEW n \in Nat, NEW f \in Nat, f > 0, NEW d \in Nat, d > 0
  PROVE  LET loops == (((p * n) \div 1000) * f) \div d
         IN /\ loops * d <= ((v * n) \div 1000) * f
            /\ (loops + 1) * d + f > ((w * n) \div 1000) * f
<1> DEFINE a == (p * n) \div 1000
           u == (v * n) \div 1000
           l == (w * n) \div 1000
           loops == (a * f) \div d
<1>1. w * n <= p * n /\ p * n <= v * n /\ w * n \in Nat /\ p * n \in Nat /\ v * n \in Nat
  BY Product
<1>2. a \in Nat /\ u \in Nat /\ l \in Nat /\ l <= a /\ a <= u
  <2>1. \A x, y \in Nat : x <= y => x \div 1000 <= y \div 1000 /\ x \div 1000 \in Nat /\ y \div 1000 \in Nat
    OBVIOUS
  <2> QED
    BY <1>1, <2>1
<1> HIDE DEF a, u, l
<1>3. l * f <= a * f /\ a * f <= u * f /\ l * f \in Nat /\ a * f \in Nat /\ u * f \in Nat
  BY <1>2, Product
<1>4. loops * d <= a * f /\ a * f < (loops + 1) * d /\ loops \in Nat /\ loops * d \in Nat /\ (loops + 1) * d \in Nat
  <2> DEFINE x == a * f
  <2>1. x \in Nat
    BY <1>3
  <2> HIDE DEF x
  <2>2. /\ (x \div d) * d <= x /\ x < ((x \div d) + 1) * d /\ x \div d \in Nat
    BY <2>1
  <2>3. (x \div d) * d \in Nat /\ ((x \div d) + 1) * d \in Nat
    BY <2>2
  <2> QED
    BY <2>2, <2>3 DEF x
<1> DEFINE e == loops * d
           g == (loops + 1) * d
           x == a * f
           y == u * f
           z == l * f
<1>5. e <= y /\ g + f > z
  <2>1. e <= x /\ x < g /\ z <= x /\ x <= y /\ e \in Nat /\ g \in Nat /\ x \in Nat /\ y \in Nat /\ z \in Nat
    BY <1>3, <1>4
  <2> HIDE DEF e, g, x, y, z
  <2> QED
    BY <2>1
<1> QED
  BY <1>5 DEF a, u, l

\* Calibration ends without a failed assertion, and no delay takes more than twice
\* its time, nor less by more than the last bit that was tried and what scaling
\* down loses (timer_list.c:63-76, timer_sorted_list.c:330-332).
THEOREM DelaysAccurate == DeviceSpec => []DelayAccurate
<1>1. DeviceInit => Calibrating
  <2> SUFFICES ASSUME DeviceInit
               PROVE  Calibrating
    OBVIOUS
  <2>1. /\ speed \in Speeds /\ loops_per_tick = FirstLoops /\ high_bit = 0 /\ test_bit = 0 /\ stage = "double"
    BY DEF DeviceInit, CalibrateInit
  <2>2. speed \in Nat /\ FirstLoops <= speed /\ FirstLoops \in Nat /\ FirstLoops > 0 /\ FirstLoops % 1024 = 0
    BY <2>1, CalibrateAssumption
  <2>3. FirstLoops = 1024 * (FirstLoops \div 1024) /\ FirstLoops \div 1024 \in Nat \ {0}
    BY <2>2
  <2> QED
    BY <2>1, <2>2, <2>3 DEF Calibrating, Whole
<1>2. Calibrating /\ [DeviceNext]_deviceVars => Calibrating'
  BY CalibratingStep
<1>3. Calibrating => DelayAccurate
  <2> SUFFICES ASSUME Calibrating
               PROVE  DelayAccurate
    OBVIOUS
  <2>1. stage # "panic"
    BY DEF Calibrating
  <2>2. ASSUME stage = "done", NEW num \in Nat, NEW denom \in {1000, 1000000, 1000000000}
        PROVE  LET loops == real_time_delay(num, denom)
               IN /\ loops * (denom \div 1000) <= ((2 * speed * num) \div 1000) * TIMER_FREQ
                  /\ (loops + 1) * (denom \div 1000) + TIMER_FREQ >
                       (((speed - high_bit \div 512) * num) \div 1000) * TIMER_FREQ
    <3>1. Refining /\ test_bit = LastBit
      BY <2>2 DEF Calibrating
    <3>2. PICK n \in Nat : n > 0 /\ high_bit = 1024 * n
      BY <3>1 DEF Refining, Whole
    <3>3. test_bit = n /\ high_bit \div 512 = 2 * n
      BY <3>1, <3>2, LastBitFacts
    <3> DEFINE p == loops_per_tick
               v == 2 * speed
               w == speed - high_bit \div 512
               d == denom \div 1000
               f == TIMER_FREQ
    <3>4. speed \in Nat /\ p \in Nat
      BY DEF Calibrating
    <3>5. p + 2 * n <= 2 * high_bit /\ p + 2 * n > speed /\ high_bit <= speed
      BY <3>1, <3>3 DEF Refining
    <3>6. v \in Nat /\ w \in Nat /\ w <= p /\ p <= v
      BY <3>2, <3>3, <3>4, <3>5
    <3>7. d \in Nat /\ d > 0
      OBVIOUS
    <3>8. f \in Nat /\ f > 0
      BY CalibrateAssumption
    <3>9. real_time_delay(num, denom) = (((p * num) \div 1000) * f) \div d
      BY DEF real_time_delay
    <3> HIDE DEF p, v, w, d, f
    <3> DEFINE loops == (((p * num) \div 1000) * f) \div d
    <3>10. /\ loops * d <= ((v * num) \div 1000) * f
           /\ (loops + 1) * d + f > ((w * num) \div 1000) * f
      BY <3>4, <3>6, <3>7, <3>8, Scaled
    <3> HIDE DEF loops
    <3>11. real_time_delay(num, denom) = loops
      BY <3>9 DEF loops
    <3> QED
      BY <3>10, <3>11 DEF v, w, d, f
  <2>3. ASSUME NEW x \in Delays
        PROVE  /\ x[1] \in Nat /\ x[2] \in {1000, 1000000, 1000000000}
               /\ (CASE x[2] = 1000 -> timer_mdelay(x[1])
                     [] x[2] = 1000000 -> timer_udelay(x[1])
                     [] OTHER -> timer_ndelay(x[1])) = real_time_delay(x[1], x[2])
    <3>1. x[1] \in Nat /\ x[2] \in {1000, 1000000, 1000000000}
      BY CalibrateAssumption
    <3> QED
      BY <3>1 DEF timer_mdelay, timer_udelay, timer_ndelay
  <2> QED
    BY <2>1, <2>2, <2>3 DEF DelayAccurate
<1> QED
  BY <1>1, <1>2, <1>3, PTL DEF DeviceSpec
=============================================================================
