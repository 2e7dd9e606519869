----------------------------- MODULE Calibrate -----------------------------
(***************************************************************************)
(* The busy-wait delays of the timer, the same in all versions of Labs 1   *)
(* and 2: timer_calibrate(), called while the system boots, measures       *)
(* loops_per_tick, from which a delay gets the loops it spins.             *)
(* The machine spins speed loops in a tick.                                *)
(***************************************************************************)
EXTENDS Integers

CONSTANTS
  UIntRange,   \* how many values an unsigned int has (2^32)
  FirstLoops,  \* the loops that timer_calibrate() starts with (1u << 10)
  Speeds,      \* loops in a tick of the machines considered
  TIMER_FREQ,  \* ticks in a second
  Delays       \* <<num, denom>>: the times num / denom s to spin

ASSUME CalibrateAssumption ==
  /\ UIntRange \in Nat
  /\ FirstLoops \in Nat \ {0} /\ FirstLoops % 1024 = 0
  /\ \A s \in Speeds : s \in Nat /\ FirstLoops <= s /\ 2 * s < UIntRange
  /\ TIMER_FREQ \in 19..1000
  /\ \A x \in Delays : x[1] \in Nat /\ x[2] \in {1000, 1000000, 1000000000}

VARIABLES
  speed,           \* the machine's
  loops_per_tick,  \* as calibrated so far
  high_bit,        \* timer_calibrate()'s locals
  test_bit,
  stage            \* "double", "refine", "done"; "panic" if the assertion fails

calibrateVars == <<speed, loops_per_tick, high_bit, test_bit, stage>>

CalibrateInit ==
  /\ speed \in Speeds
  /\ loops_per_tick = FirstLoops
  /\ high_bit = 0 /\ test_bit = 0
  /\ stage = "double"

----------------------------------------------------------------------------
\* The wait began right after a tick.
too_many_loops(loops) == loops > speed

Shl1(x) == (2 * x) % UIntRange

\* The bits of the smaller number are all below the one bit of the larger.
Or(high, bit) == IF (high \div bit) % 2 = 1 THEN high ELSE high + bit

double ==
  /\ stage = "double"
  /\ IF ~too_many_loops(Shl1(loops_per_tick))
     THEN /\ loops_per_tick' = Shl1(loops_per_tick)
          /\ stage' = IF loops_per_tick' = 0 THEN "panic" ELSE "double"
          /\ UNCHANGED <<high_bit, test_bit>>
     ELSE /\ high_bit' = loops_per_tick
          /\ test_bit' = loops_per_tick \div 2
          /\ stage' = "refine"
          /\ UNCHANGED loops_per_tick
  /\ UNCHANGED speed

\* The test_bit at which the loop ends.
LastBit == high_bit \div 1024

\* Every bit is tried with high_bit alone.
refine ==
  /\ stage = "refine" /\ test_bit # LastBit
  /\ IF too_many_loops(Or(high_bit, test_bit))
     THEN UNCHANGED loops_per_tick
     ELSE loops_per_tick' = Or(loops_per_tick, test_bit)
  /\ test_bit' = test_bit \div 2
  /\ UNCHANGED <<speed, high_bit, stage>>

refined ==
  /\ stage = "refine" /\ test_bit = LastBit
  /\ stage' = "done"
  /\ UNCHANGED <<speed, loops_per_tick, high_bit, test_bit>>

\* Mutant: without the division by 1000 that goes with the scaled denominator.
real_time_delay_Unscaled(num, denom) == (loops_per_tick * num * TIMER_FREQ) \div (denom \div 1000)

\* The loops that real_time_delay() spins.
real_time_delay(num, denom) ==
  (((loops_per_tick * num) \div 1000) * TIMER_FREQ) \div (denom \div 1000)

timer_mdelay(ms) == real_time_delay(ms, 1000)
timer_udelay(us) == real_time_delay(us, 1000000)
timer_ndelay(ns) == real_time_delay(ns, 1000000000)

timer_calibrate == double \/ refine \/ refined

----------------------------------------------------------------------------
(* Properties *)

\* Calibration ends without a failed assertion.  Then no delay takes more than
\* twice the time asked for, nor less than it by more than the last bit that was
\* tried of the loops of a tick, and what scaling down loses: one thousandth of the
\* numerator (timer_list.c:63-76, timer_sorted_list.c:330-332).
DelayAccurate ==
  /\ stage # "panic"
  /\ stage = "done" => \A x \in Delays :
       LET num == x[1]
           denom == x[2]
           loops == CASE denom = 1000 -> timer_mdelay(num)
                      [] denom = 1000000 -> timer_udelay(num)
                      [] OTHER -> timer_ndelay(num)
       IN /\ loops * (denom \div 1000) <= ((2 * speed * num) \div 1000) * TIMER_FREQ
          /\ (loops + 1) * (denom \div 1000) + TIMER_FREQ >
               (((speed - high_bit \div 512) * num) \div 1000) * TIMER_FREQ
=============================================================================
