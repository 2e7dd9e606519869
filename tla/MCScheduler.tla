---------------------------- MODULE MCScheduler ----------------------------
(* Instance of Scheduler.  Threads are alike until they arrive. *)
EXTENDS Scheduler, TLC

Every == NonPreemptive \cup Preemptive

\* Priorities are varied where they count, and only ROUND_ROBIN has threads
\* that run for several quanta.
SomePriorities == [a \in Every |-> IF a \in ByPriority THEN {1, 2} ELSE {1}]
SomeLengths == [a \in Every |-> IF a = "ROUND_ROBIN" THEN {1, 2, 6} ELSE {1, 3}]

Alike == Permutations(Threads)
=============================================================================
