----------------------------- MODULE Semaphore -----------------------------
(***************************************************************************)
(* Lab2/semaphore.c.  semaphore_down() runs with interrupts off from its   *)
(* first line to the decrement; semaphore_up() only while it pops a waiter *)
(* and increments, and can be preempted between the yields that follow.    *)
(*                                                                         *)
(* semaphore_down() also takes part in priority donation, through the      *)
(* field lock_temp of the running thread and the holder of that lock, so   *)
(* the locks' holders are declared here.                                   *)
(***************************************************************************)
EXTENDS Thread

VARIABLES
  value,    \* sema->value
  waiters,  \* sema->waiters, blocked threads linked by their sharedelem
  holder    \* lock->holder

semaVars == <<value, waiters>>

\* Calling conventions: the argument and the label to return to.
CallDown(t, s, ret) ==
  /\ Goto(t, "sd")
  /\ regs' = [regs EXCEPT ![t].sema = s, ![t].sret = ret]

CallUp(t, s, ret) ==
  /\ Goto(t, "su")
  /\ regs' = [regs EXCEPT ![t].sema = s, ![t].sret = ret]

----------------------------------------------------------------------------
(* semaphore_down(): "sd" on entry, "sd_woken" when it is back from
   thread_block() and tests the value again. *)

\* The test that is made before the thread waits: a lock it once found taken
\* is looked up in lock_temp, whatever semaphore it is about to wait for.
DonatesFromDown(t) ==
  /\ lock_temp[t] # Null
  /\ priority[holder[lock_temp[t]]] < priority[t]

\* Mutant: a thread that was woken does not test the value again.
sd_take_NoRetest(t) ==
  /\ (At(t, "sd") /\ value[regs[t].sema] > 0) \/ At(t, "sd_woken")
  /\ value' = [value EXCEPT ![regs[t].sema] = @ - 1]
  /\ ReturnTo(t, regs[t].sret)
  /\ UNCHANGED <<schedVars, donateVars, tidVars, priority, prev_priority, waiters, holder, panic>>

sd_take(t) ==
  /\ At(t, "sd") \/ At(t, "sd_woken")
  /\ value[regs[t].sema] > 0
  /\ value' = [value EXCEPT ![regs[t].sema] = @ - 1]
  /\ ReturnTo(t, regs[t].sret)
  /\ UNCHANGED <<schedVars, donateVars, tidVars, priority, prev_priority, waiters, holder, panic>>

sd_block(t) ==
  LET s == regs[t].sema
      donated == IF DonatesFromDown(t)
                   THEN [priority EXCEPT ![holder[lock_temp[t]]] = priority[t]]
                   ELSE priority
  IN /\ At(t, "sd") \/ At(t, "sd_woken")
     /\ value[s] = 0
     /\ lock_temp[t] # Null => holder[lock_temp[t]] # Null
     /\ priority' = donated
     /\ waiters' = [waiters EXCEPT ![s] = list_insert_ordered(@, t, donated)]
     /\ thread_block
     /\ Goto(t, "sd_woken")
     /\ UNCHANGED <<donateVars, tidVars, prev_priority, regs, value, holder, panic>>

\* The lock in lock_temp has no holder: lock_temp->holder->priority faults.
sd_fault(t) ==
  /\ At(t, "sd") \/ At(t, "sd_woken")
  /\ value[regs[t].sema] = 0
  /\ lock_temp[t] # Null /\ holder[lock_temp[t]] = Null
  /\ Panic("semaphore_down: null holder")
  /\ UNCHANGED <<semaVars, holder>>

----------------------------------------------------------------------------
(* semaphore_up() *)

\* Mutants of the waking: the waiter stays in the list; it is woken only if the
\* value is 0; only if it is not alone; it is the front of a list not sorted.
wake_NoPop(s) ==
  /\ IF waiters[s] # <<>>
       THEN thread_unblock(Head(list_sort(waiters[s], priority)))
       ELSE UNCHANGED schedVars
  /\ value' = [value EXCEPT ![s] = @ + 1]
  /\ UNCHANGED waiters

WakeIf(cond, s, l) ==
  /\ IF cond
       THEN thread_unblock(Head(l)) /\ waiters' = [waiters EXCEPT ![s] = Tail(l)]
       ELSE UNCHANGED <<schedVars, waiters>>
  /\ value' = [value EXCEPT ![s] = @ + 1]

wake_IfZero(s) ==
  WakeIf(waiters[s] # <<>> /\ value[s] = 0, s, list_sort(waiters[s], priority))

wake_NotAlone(s) == WakeIf(Len(waiters[s]) > 1, s, list_sort(waiters[s], priority))

wake_NoSort(s) == WakeIf(waiters[s] # <<>>, s, waiters[s])

\* With interrupts off: wake the waiter with the highest priority, if any,
\* and increment.
wake(s) ==
  LET sorted == list_sort(waiters[s], priority)
  IN /\ IF waiters[s] # <<>>
          THEN /\ thread_unblock(Head(sorted))
               /\ waiters' = [waiters EXCEPT ![s] = Tail(sorted)]
          ELSE UNCHANGED <<schedVars, waiters>>
     /\ value' = [value EXCEPT ![s] = @ + 1]

\* t1 is the thread woken, or the current thread.
su(t) ==
  LET s == regs[t].sema
  IN /\ At(t, "su")
     /\ wake(s)
     /\ regs' = [regs EXCEPT ![t].t1 =
          IF waiters[s] # <<>> THEN Head(list_sort(waiters[s], priority)) ELSE t]
     /\ Goto(t, "su_preempt")
     /\ UNCHANGED <<donateVars, tidVars, priority, prev_priority, holder, panic>>

\* The woken thread may have run to its end before this test is made.
su_preempt(t) ==
  /\ At(t, "su_preempt")
  /\ \E p \in PriorityReads(regs[t].t1) : YieldIf(priority[t] < p)
  /\ Goto(t, "su_scan")
  /\ UNCHANGED <<donateVars, tidVars, priority, prev_priority, regs, semaVars, holder, panic>>

su_scan(t) ==
  LET w == waiters[regs[t].sema]
  IN /\ At(t, "su_scan")
     /\ YieldIf(\E i \in DOMAIN w : priority[w[i]] >= priority[t])
     /\ Goto(t, "su_restore")
     /\ UNCHANGED <<donateVars, tidVars, priority, prev_priority, regs, semaVars, holder, panic>>

su_restore(t) ==
  /\ At(t, "su_restore")
  /\ IF priority[t] # prev_priority[t]
       THEN CallSetPriority(t, prev_priority[t], "su_yield")
       ELSE Goto(t, "su_yield") /\ UNCHANGED <<prev_priority, regs>>
  /\ UNCHANGED <<schedVars, donateVars, tidVars, priority, semaVars, holder, panic>>

su_yield(t) ==
  /\ At(t, "su_yield")
  /\ thread_yield
  /\ ReturnTo(t, regs[t].sret)
  /\ UNCHANGED <<donateVars, tidVars, priority, prev_priority, semaVars, holder, panic>>

\* semaphore_up() called by an interrupt handler, on behalf of no thread: it
\* reaches thread_yield(), which asserts that it is not in a handler.
intr_up(s) ==
  /\ panic = "none"
  /\ pc[cur] # "sd_woken"
  /\ wake(s)
  /\ panic' = "thread_yield: in interrupt context"
  /\ UNCHANGED <<donateVars, tidVars, priority, prev_priority, pc, regs, holder>>
=============================================================================
