---------------------------- MODULE AbstractLock ----------------------------
(***************************************************************************)
(* What lock.c promises: a lock has one owner at a time, goes to a thread  *)
(* that asked for it, and is given back by its owner only.                 *)
(***************************************************************************)
CONSTANTS Threads, Locks, Null

VARIABLES
  owner,   \* the thread that has each lock, or Null
  asking   \* the lock each thread is asking for, or Null

vars == <<owner, asking>>

Init ==
  /\ owner = [l \in Locks |-> Null]
  /\ asking = [t \in Threads |-> Null]

Ask(t, l) ==
  /\ asking[t] = Null
  /\ owner[l] # t
  /\ asking' = [asking EXCEPT ![t] = l]
  /\ UNCHANGED owner

Grant(t, l) ==
  /\ asking[t] = l
  /\ owner[l] = Null
  /\ owner' = [owner EXCEPT ![l] = t]
  /\ asking' = [asking EXCEPT ![t] = Null]

GiveBack(t, l) ==
  /\ asking[t] = Null
  /\ owner[l] = t
  /\ owner' = [owner EXCEPT ![l] = Null]
  /\ UNCHANGED asking

Next == \E t \in Threads, l \in Locks : Ask(t, l) \/ Grant(t, l) \/ GiveBack(t, l)

Spec == Init /\ [][Next]_vars
=============================================================================
