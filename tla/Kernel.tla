------------------------------- MODULE Kernel -------------------------------
(***************************************************************************)
(* The Lab2 kernel: threads that call the thread system, semaphores, locks *)
(* and condition variables in any order their documentation allows, on one *)
(* CPU with timer preemption.                                              *)
(***************************************************************************)
EXTENDS Condvar

CONSTANTS
  CondLock,   \* the lock each condition variable is associated with
  SemaInit,   \* the value the semaphores in Semas are initialized with
  Programs    \* what the functions of the threads may do, see program

UserLocks == Locks \ {TidLock}

ASSUME KernelAssumption ==
  /\ CondLock \in [Conds -> UserLocks]
  /\ SemaInit \in [Semas -> Nat]

VARIABLES
  program,     \* what runs: .uses[t] are the kernel calls of the function of thread t, each
               \* a function and the object it works on, .intr the semaphores that an
               \* interrupt handler ups; the bounds .calls on the calls that the threads
               \* make in all, releases apart, and .preemptions on those by the timer
  calls,       \* calls made so far
  preemptions  \* preemptions so far

lockVars == <<semaVars, holder, cond_waiters>>
vars == <<schedVars, donateVars, tidVars, priority, prev_priority, pc, regs, panic,
          lockVars, program, calls, preemptions>>

----------------------------------------------------------------------------
(* The state main() is in once thread_start() has returned and it has created
   the other threads with priorities of its choice: one with the highest runs. *)

Init ==
  /\ priority \in {[t \in AllThreads |-> IF t \in Started THEN created[t] ELSE 0] :
                     created \in [Started -> Priorities]}
  /\ prev_priority = priority
  /\ cur \in {t \in Started : \A u \in Started : priority[u] <= priority[t]}
  /\ ready_list \in {s \in SetToSeqs(Started \ {cur}) :
       \A i, j \in DOMAIN s : i < j => priority[s[i]] >= priority[s[j]]}
  /\ status = [t \in AllThreads |->
       IF t = cur THEN "RUNNING" ELSE IF t \in Started THEN "READY"
       ELSE IF t = Idle THEN "BLOCKED" ELSE "UNUSED"]
  /\ priority_list = [t \in Threads |-> <<>>]
  /\ lock_temp = [t \in Threads |-> Null]
  /\ donee = [t \in Threads |-> Null]
  /\ next_tid = Cardinality(Started) + 2   \* one tid is the idle thread's
  /\ tid = CHOOSE f \in [Threads -> 0..(Cardinality(Started) + 1)] :
       /\ \A t \in Threads : f[t] = 0 <=> t \notin Started
       /\ \A t, u \in Started : f[t] = f[u] => t = u
  /\ pc = [t \in AllThreads |-> "run"]
  /\ regs = [t \in Threads |-> NoCall]
  /\ panic = "none"
  /\ value = [s \in SemaObjs |-> IF s \in Locks THEN 1
                                 ELSE IF s \in Semas THEN SemaInit[s] ELSE 0]
  /\ waiters = [s \in SemaObjs |-> <<>>]
  /\ holder = [l \in Locks |-> Null]
  /\ cond_waiters = [c \in Conds |-> <<>>]
  /\ program \in Programs
  /\ calls = 0
  /\ preemptions = 0

----------------------------------------------------------------------------
(* Calls of a thread, within the assertions at their entry. *)

Calling(t, f, x) ==
  /\ At(t, "run")
  /\ <<f, x>> \in program.uses[t]
  /\ calls < program.calls
  /\ calls' = calls + 1
  /\ UNCHANGED <<program, preemptions>>

Acquire(t, l) ==
  /\ Calling(t, "lock_acquire", l)
  /\ ~lock_held_by_current_thread(t, l)
  /\ CallAcquire(t, l, "run")
  /\ UNCHANGED <<schedVars, donateVars, tidVars, priority, prev_priority, lockVars, panic>>

Release(t, l) ==
  /\ At(t, "run")
  /\ lock_held_by_current_thread(t, l)
  /\ CallRelease(t, l, "run")
  /\ UNCHANGED <<schedVars, donateVars, tidVars, priority, prev_priority, lockVars, panic, program,
                 calls, preemptions>>

Down(t, s) ==
  /\ Calling(t, "semaphore_down", s)
  /\ CallDown(t, s, "run")
  /\ UNCHANGED <<schedVars, donateVars, tidVars, priority, prev_priority, lockVars, panic>>

Up(t, s) ==
  /\ Calling(t, "semaphore_up", s)
  /\ CallUp(t, s, "run")
  /\ UNCHANGED <<schedVars, donateVars, tidVars, priority, prev_priority, lockVars, panic>>

Wait(t, c) ==
  /\ Calling(t, "condvar_wait", c)
  /\ lock_held_by_current_thread(t, CondLock[c])
  /\ CallWait(t, c, CondLock[c])
  /\ UNCHANGED <<schedVars, donateVars, tidVars, priority, prev_priority, holder, panic>>

\* Mutant: condvar_signal() does not insist on the lock.
Signal_NoLock(t, c) ==
  /\ Calling(t, "condvar_signal", c)
  /\ CallSignal(t, c, "run")
  /\ UNCHANGED <<schedVars, donateVars, tidVars, priority, prev_priority, semaVars, holder, panic>>

Signal(t, c) ==
  /\ Calling(t, "condvar_signal", c)
  /\ lock_held_by_current_thread(t, CondLock[c])
  /\ CallSignal(t, c, "run")
  /\ UNCHANGED <<schedVars, donateVars, tidVars, priority, prev_priority, semaVars, holder, panic>>

Broadcast(t, c) ==
  /\ Calling(t, "condvar_broadcast", c)
  /\ lock_held_by_current_thread(t, CondLock[c])
  /\ CallBroadcast(t, c)
  /\ UNCHANGED <<schedVars, donateVars, tidVars, priority, prev_priority, lockVars, panic>>

SetPriority(t, p) ==
  /\ Calling(t, "thread_set_priority", t)
  /\ CallSetPriority(t, p, "run")
  /\ UNCHANGED <<schedVars, donateVars, tidVars, priority, lockVars, panic>>

Create(t, c, p) ==
  /\ Calling(t, "thread_create", c)
  /\ CallCreate(t, c, p)
  /\ UNCHANGED lockVars

Exit(t) ==
  /\ \A l \in Locks : ~lock_held_by_current_thread(t, l)
  /\ thread_exit(t)
  /\ UNCHANGED <<lockVars, program, calls, preemptions>>

----------------------------------------------------------------------------
Call(t) ==
  \/ \E l \in UserLocks : Acquire(t, l)
  \/ \E l \in UserLocks : Release(t, l)
  \/ \E s \in Semas : Down(t, s)
  \/ \E s \in Semas : Up(t, s)
  \/ \E c \in Conds : Wait(t, c)
  \/ \E c \in Conds : Signal(t, c)
  \/ \E c \in Conds : Broadcast(t, c)
  \/ \E p \in Priorities : SetPriority(t, p)
  \/ \E c \in Threads, p \in Priorities : Create(t, c, p)
  \/ Exit(t)

ThreadStep(t) ==
  \/ sp_set(t) \/ sp_scan(t)
  \/ tc_read(t) \/ tc_incr(t) \/ tc_unblock(t) \/ tc_compare(t)

SemaStep(t) ==
  \/ sd_take(t) \/ sd_block(t) \/ sd_fault(t)
  \/ su(t) \/ su_preempt(t) \/ su_scan(t) \/ su_restore(t) \/ su_yield(t)

LockStep(t) ==
  \/ la_check(t) \/ la_link(t) \/ la_donate(t) \/ la_nested(t) \/ la_donee(t)
  \/ la_fault(t) \/ la_corrupt(t) \/ la_own(t)
  \/ lr_donors(t) \/ lr_restore(t) \/ lr_corrupt(t) \/ lr_clear(t)

CondStep(t) == cw_down(t) \/ cw_acquire(t) \/ cb(t)

\* A step of a kernel call that t is in.
Step(t) ==
  /\ \/ ThreadStep(t) /\ UNCHANGED lockVars
     \/ SemaStep(t) /\ UNCHANGED cond_waiters
     \/ LockStep(t) /\ UNCHANGED cond_waiters
     \/ CondStep(t)
  /\ UNCHANGED <<program, calls, preemptions>>

Tick ==
  /\ preemptions < program.preemptions
  /\ thread_tick
  /\ preemptions' = IF cur' = cur THEN preemptions ELSE preemptions + 1
  /\ UNCHANGED <<lockVars, program, calls>>

IdleTurn == idle /\ UNCHANGED <<lockVars, program, calls, preemptions>>

Interrupt ==
  /\ \E s \in Semas : s \in program.intr /\ intr_up(s)
  /\ UNCHANGED <<cond_waiters, program, calls, preemptions>>

Next == (\E t \in Threads : Call(t) \/ Step(t)) \/ Tick \/ IdleTurn \/ Interrupt

Spec == Init /\ [][Next]_vars

\* A thread that gets the CPU again and again makes progress in the kernel
\* function it is in, because each time it has a whole time slice; and the
\* functions of the threads release the locks they hold and return.
Returns(t) == (\E l \in UserLocks : Release(t, l)) \/ Exit(t)

FairSpec == Spec /\ \A t \in Threads : SF_vars(Step(t)) /\ SF_vars(Returns(t))

----------------------------------------------------------------------------
(* Properties *)

Labels ==
  {"run", "exited", "sp_set", "sp_scan", "tc_read", "tc_incr", "tc_unblock", "tc_compare",
   "sd", "sd_woken", "su", "su_preempt", "su_scan", "su_restore", "su_yield",
   "la_check", "la_link", "la_donate", "la_nested", "la_donee", "la_own",
   "lr_donors", "lr_restore", "lr_clear", "cw_down", "cw_acquire", "cb"}

Registers ==
  [lock : Locks \cup {Null}, lret : Labels, sema : SemaObjs \cup {Null}, sret : Labels,
   pret : Labels, t1 : Threads \cup {Null}, child : Threads \cup {Null}, tid : Nat,
   waiter : BOOLEAN, cond : Conds \cup {Null}]

Statuses == {"UNUSED", "BLOCKED", "READY", "RUNNING", "DYING", "FREED"}

SchedTypes ==
  /\ cur \in AllThreads
  /\ ready_list \in Seq(Threads)
  /\ status \in [AllThreads -> Statuses]

PriorityTypes ==
  /\ priority \in [AllThreads -> Int]
  /\ prev_priority \in [AllThreads -> Int]
  /\ priority_list \in [Threads -> Seq(Threads)]
  /\ lock_temp \in [Threads -> Locks \cup {Null}]
  /\ donee \in [Threads -> Threads \cup {Null}]

CallTypes ==
  /\ tid \in [Threads -> Nat]
  /\ next_tid \in Nat
  /\ pc \in [AllThreads -> Labels]
  /\ regs \in [Threads -> Registers]

SyncTypes ==
  /\ value \in [SemaObjs -> Nat]
  /\ waiters \in [SemaObjs -> Seq(Threads)]
  /\ holder \in [Locks -> Threads \cup {Null}]
  /\ cond_waiters \in [Conds -> Seq(Threads)]

\* Every variable keeps its type; in particular the value of a semaphore, an
\* unsigned, is never decremented below 0 (semaphore.c:87).
TypeOK ==
  /\ SchedTypes /\ PriorityTypes /\ CallTypes /\ SyncTypes
  /\ calls \in Nat /\ preemptions \in Nat

\* thread.h:77-82: sharedelem links a thread into one list at a time.  Only a
\* ready thread is in the run queue, and only a blocked one, inside
\* semaphore_down(), in the wait list of the semaphore it is waiting for.
\* thread_unblock()'s assertion (thread.c:292) never fails, nor does that of
\* thread_current(), that the thread on the CPU has status RUNNING (thread.c:334).
SharedElemExclusive ==
  /\ \A t \in AllThreads : status[t] = "RUNNING" <=> t = cur
  /\ IsInjective(ready_list)
  /\ \A t \in Threads : status[t] = "READY" <=> t \in ToSet(ready_list)
  /\ \A s \in SemaObjs :
       /\ IsInjective(waiters[s])
       /\ \A t \in ToSet(waiters[s]) :
            status[t] = "BLOCKED" /\ pc[t] = "sd_woken" /\ regs[t].sema = s

\* t is past semaphore_down() in lock_acquire(l) and not past
\* semaphore_up() in lock_release(l).
Owns(t, l) ==
  \/ pc[t] = "la_own" /\ regs[t].lock = l
  \/ holder[l] = t
  \/ pc[t] = "su" /\ regs[t].sema = l

\* A lock has at most one owner, whatever preemptions fall between
\* semaphore_down() and the store of the holder (lock.c:97-98), and between
\* the clearing of the holder and semaphore_up() (lock.c:135-136).
LockExclusive ==
  \A l \in Locks, t, u \in Threads : Owns(t, l) /\ Owns(u, l) => t = u

Woken(s) ==
  {t \in Threads : pc[t] = "sd_woken" /\ regs[t].sema = s /\ t \notin ToSet(waiters[s])}

\* While threads wait for a semaphore, its value is matched by threads that
\* were woken and will take it: no up is lost on a waiter (semaphore.c:104-110),
\* even when others take the value first.
NoLostWakeup ==
  \A s \in SemaObjs : waiters[s] # <<>> => value[s] <= Cardinality(Woken(s))

\* The semaphore that semaphore_up() works on for condvar_signal() is on the
\* stack of a thread in condvar_wait() (condvar.c:86); it is read again after
\* that thread was woken (semaphore.c:119), and must still be there.
SignalFindsWaiter ==
  \A t, u \in Threads :
    pc[t] \in {"su", "su_preempt", "su_scan"} /\ regs[t].sema = u => regs[u].waiter

\* u is in condvar_wait() and has not passed semaphore_down() (condvar.c:91).
AwaitsSignal(u) ==
  \/ regs[u].sret = "cw_down"
  \/ regs[u].sema = u /\ pc[u] \in {"sd", "sd_woken"}

\* A waiter that was taken off a condition variable's list gets its signal:
\* its semaphore is up, or its signaller is about to up it (condvar.c:114-116).
\* One that is still listed has not been signalled.
SignalNotLost ==
  \A u \in Threads : AwaitsSignal(u) =>
    LET listed == \E c \in Conds : u \in ToSet(cond_waiters[c])
        upped  == value[u] = 1 \/ \E t \in Threads : pc[t] = "su" /\ regs[t].sema = u
    IN listed <=> ~upped

\* Two threads never get the same tid: allocate_tid() holds tid_lock around
\* the increment of next_tid (thread.c:226).
TidsUnique ==
  \A t, u \in Threads : tid[t] # 0 /\ tid[t] = tid[u] => t = u

\* A thread that leaves a semaphore's wait list has the highest priority in
\* it at that moment, although donations change priorities while threads wait
\* (semaphore.c:106-107).
UpWakesHighest ==
  [][\A s \in SemaObjs : \A t \in ToSet(waiters[s]) \ ToSet(waiters'[s]) :
       \A u \in ToSet(waiters[s]) : priority[u] <= priority[t]]_vars

\* A thread that calls lock_acquire() gets the lock, or the kernel stops, if
\* those that hold the lock release it, whatever the priorities are and whoever
\* donates to whom (lock.c:82-99).
AcquireReturns ==
  \A t \in Threads : pc[t] = "la_check" ~> (pc[t] = "la_own" \/ panic # "none")

\* The lock that t is in lock_acquire() for.
AsksFor(t) ==
  IF \/ pc[t] \in {"la_check", "la_link", "la_donate", "la_nested", "la_donee"}
     \/ pc[t] \in {"sd", "sd_woken"} /\ regs[t].sret = "la_own"
    THEN regs[t].lock ELSE Null

OwnerOf(l) ==
  IF \E t \in Threads : Owns(t, l) THEN CHOOSE t \in Threads : Owns(t, l) ELSE Null

Abstract == INSTANCE AbstractLock WITH
  owner <- [l \in Locks |-> OwnerOf(l)],
  asking <- [t \in Threads |-> AsksFor(t)]

\* The locks of lock.c, with all that semaphores, donation, preemption and
\* condition variables do around them, implement AbstractLock.
ImplementsLock == Abstract!Spec
=============================================================================
