--------------------------- MODULE MCTimerDevice ---------------------------
(* Instances of TimerDevice: every machine that calibration is meant for.     *)
EXTENDS TimerDevice

Alike == Permutations(Threads)

AllSpeeds == FirstLoops..(UIntRange \div 2 - 1)

\* Times in each unit around one tick of 10 ms, and below.
SomeDelays ==
  {<<n, 1000>> : n \in {0, 1, 9, 10, 19}} \cup {<<n, 1000000>> : n \in {1, 999, 9999, 20000}}
    \cup {<<5000, 1000000000>>}

SomeTimes == {<<9, 1000>>, <<19, 1000>>, <<20000, 1000000>>, <<10000000, 1000000000>>}
=============================================================================
