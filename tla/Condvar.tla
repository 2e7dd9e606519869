------------------------------ MODULE Condvar ------------------------------
(***************************************************************************)
(* Lab2/condvar.c: Mesa-style condition variables.  A waiter waits on a    *)
(* semaphore on its own stack, which is linked into cond->waiters and is   *)
(* live while regs[t].waiter holds.                                        *)
(***************************************************************************)
EXTENDS Lock

VARIABLE cond_waiters  \* cond->waiters, the semaphores named by their threads

\* What condvar_priority_sort() compares: the first waiter of a semaphore;
\* a semaphore nobody waits on yet comes last.
condvar_key ==
  [u \in Threads |-> IF waiters[u] = <<>> THEN -1 ELSE priority[Head(waiters[u])]]

\* condvar_wait(), called with lock l held: a fresh semaphore is linked, then
\* the lock is released.
CallWait(t, c, l) ==
  /\ value' = [value EXCEPT ![t] = 0]
  /\ waiters' = [waiters EXCEPT ![t] = <<>>]
  /\ cond_waiters' = [cond_waiters EXCEPT ![c] =
       list_insert_ordered(@, t, [condvar_key EXCEPT ![t] = -1])]
  /\ Goto(t, "lr_donors")
  /\ regs' = [regs EXCEPT ![t].waiter = TRUE, ![t].lock = l, ![t].sret = "cw_down"]

\* Mutant: the waiter's semaphore is initialized after the lock is released.
cw_down_LateInit(t) ==
  /\ At(t, "cw_down")
  /\ CallDown(t, t, "cw_acquire")
  /\ value' = [value EXCEPT ![t] = 0]
  /\ UNCHANGED <<schedVars, donateVars, tidVars, priority, prev_priority, waiters, holder,
                 cond_waiters, panic>>

cw_down(t) ==
  /\ At(t, "cw_down")
  /\ CallDown(t, t, "cw_acquire")
  /\ UNCHANGED <<schedVars, donateVars, tidVars, priority, prev_priority, semaVars, holder,
                 cond_waiters, panic>>

cw_acquire(t) ==
  /\ At(t, "cw_acquire")
  /\ CallAcquire(t, regs[t].lock, "run")
  /\ UNCHANGED <<schedVars, donateVars, tidVars, priority, prev_priority, semaVars, holder,
                 cond_waiters, panic>>

\* condvar_signal(): the list is sorted and the semaphore at its front upped.
CallSignal(t, c, ret) ==
  IF cond_waiters[c] = <<>>
    THEN ReturnTo(t, ret) /\ UNCHANGED cond_waiters
    ELSE LET sorted == list_sort(cond_waiters[c], condvar_key)
         IN /\ cond_waiters' = [cond_waiters EXCEPT ![c] = Tail(sorted)]
            /\ CallUp(t, Head(sorted), ret)

\* condvar_broadcast(): signal until nobody is left.
CallBroadcast(t, c) ==
  /\ Goto(t, "cb")
  /\ regs' = [regs EXCEPT ![t].cond = c]

cb(t) ==
  /\ At(t, "cb")
  /\ IF cond_waiters[regs[t].cond] = <<>>
       THEN ReturnTo(t, "run") /\ UNCHANGED cond_waiters
       ELSE CallSignal(t, regs[t].cond, "cb")
  /\ UNCHANGED <<schedVars, donateVars, tidVars, priority, prev_priority, semaVars, holder, panic>>
=============================================================================
