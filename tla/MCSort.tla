------------------------------- MODULE MCSort -------------------------------
(* Instance of Sort.  By the 0-1 principle a merge sort that sorts zeros and
   ones sorts anything; the threads, with many more interleavings, sort the
   one array in which every pair is out of order. *)
EXTENDS Sort

SomeInputs ==
  [v \in Versions |->
     IF v = "processes" THEN [0..(size - 1) -> {0, 1}] ELSE {[k \in 0..(size - 1) |-> size - k]}]
=============================================================================
