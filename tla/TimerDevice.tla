---------------------------- MODULE TimerDevice ----------------------------
(***************************************************************************)
(* devices/timer.c as a whole: the delays are calibrated while the system  *)
(* boots; then threads sleep, for ticks or for a time that is turned into  *)
(* ticks.  Shorter times are spent spinning, which changes nothing here.   *)
(***************************************************************************)
EXTENDS Timer, Calibrate

CONSTANTS
  Times,   \* <<num, denom>>: the times num / denom s to sleep
  Machine  \* bound: the speed of the machine on which threads sleep

ASSUME TimerDeviceAssumption ==
  /\ Times \subseteq Nat \X {1000, 1000000, 1000000000}
  /\ Machine \in Speeds

VARIABLE asked  \* history: how many microseconds each thread last asked to sleep

deviceVars == <<vars, calibrateVars, asked>>

DeviceInit ==
  /\ Init
  /\ CalibrateInit
  /\ asked = [t \in Threads |-> 0]

Microseconds(num, denom) ==
  IF denom <= 1000000 THEN num * (1000000 \div denom) ELSE num \div (denom \div 1000000)

Asks(t, num, denom) == asked' = [asked EXCEPT ![t] = Microseconds(num, denom)]

----------------------------------------------------------------------------
\* Mutant: the tick that is under way counts as a whole one.
real_time_sleep_OffByOne(t, num, denom) ==
  LET k == (num * TIMER_FREQ) \div denom - 1
  IN k > 0 /\ timer_sleep(t, k) /\ Asks(t, num, denom)

\* Rounded down; for no whole tick the thread spins.
real_time_sleep(t, num, denom) ==
  LET k == (num * TIMER_FREQ) \div denom
  IN k > 0 /\ timer_sleep(t, k) /\ Asks(t, num, denom)

timer_msleep(t, ms) == real_time_sleep(t, ms, 1000)
timer_usleep(t, us) == real_time_sleep(t, us, 1000000)
timer_nsleep(t, ns) == real_time_sleep(t, ns, 1000000000)

Sleeps(t) ==
  \/ \E k \in 0..MaxSleep : timer_sleep(t, k) /\ Asks(t, k, TIMER_FREQ)
  \/ \E x \in Times : x[2] = 1000 /\ timer_msleep(t, x[1])
  \/ \E x \in Times : x[2] = 1000000 /\ timer_usleep(t, x[1])
  \/ \E x \in Times : x[2] = 1000000000 /\ timer_nsleep(t, x[1])

\* What a thread asked for is forgotten when timer_sleep() returns.
Runs(t) ==
  \/ (set(t) \/ block(t) \/ semaphore_down(t) \/ semaphore_up(t)) /\ UNCHANGED asked
  \/ wake(t) /\ asked' = [asked EXCEPT ![t] = 0]

DeviceNext ==
  \/ timer_calibrate /\ UNCHANGED <<vars, asked>>
  \/ /\ stage = "done" /\ speed = Machine
     /\ (\E t \in Threads : Sleeps(t) \/ Runs(t)) \/ (timer_interrupt /\ UNCHANGED asked)
     /\ UNCHANGED <<version, calibrateVars>>

DeviceSpec == DeviceInit /\ [][DeviceNext]_deviceVars

----------------------------------------------------------------------------
\* Whatever unit a sleep is asked for in, it lasts, when the thread goes on, less
\* than one tick less than that, counted from the tick it began in: the conversion
\* rounds down once, and the first tick is not a whole one
\* (timer_sorted_list.c:296-312, 108-112).
TimeKept ==
  ~panic => \A t \in Threads :
    pc[t] = "asleep" /\ ~Asleep(t) => (ticks - start[t] + 1) * 1000000 > asked[t] * TIMER_FREQ
=============================================================================
