------------------------------- MODULE Thread -------------------------------
(***************************************************************************)
(* Lab2/thread.c: the Pintos thread system with the lab's priority         *)
(* scheduler.  One CPU runs the thread cur; while its interrupts are on a  *)
(* timer tick may preempt it between any two steps.  A section of the code *)
(* that runs with interrupts off is one step, up to the switch inside it.  *)
(*                                                                         *)
(* A thread is described by the fields of struct thread and by where it is *)
(* in the kernel: pc[t], a label of this module or of Semaphore, Lock or   *)
(* Condvar, and regs[t], the arguments, locals and return addresses of the *)
(* calls it is in.  At pc "run" it executes its own function.              *)
(***************************************************************************)
EXTENDS KList

CONSTANTS
  Threads,      \* pages that can hold a struct thread, the idle thread apart
  Idle,         \* the idle thread
  Initial,      \* initial_thread, the thread running main()
  Null,         \* the null pointer
  Locks,        \* the locks
  TidLock,      \* tid_lock, the lock of allocate_tid()
  Semas,        \* semaphores used by threads directly
  Conds,        \* condition variables
  Started,      \* the threads that exist initially
  Priorities    \* PRI_MIN..PRI_MAX

ASSUME ThreadAssumption ==
  /\ IsFiniteSet(Threads)
  /\ Idle \notin Threads
  /\ Null \notin Threads \cup {Idle} \cup Locks \cup Semas \cup Conds
  /\ Locks \cap Semas = {} /\ Locks \cap Threads = {} /\ Semas \cap Threads = {}
  /\ TidLock \in Locks
  /\ Started \subseteq Threads /\ Initial \in Started
  /\ Priorities \subseteq Nat

AllThreads == Threads \cup {Idle}

\* A lock's semaphore is named by the lock, the semaphore on the stack of a
\* thread in condvar_wait() by the thread.
SemaObjs == Locks \cup Semas \cup Threads

VARIABLES
  cur,            \* the running thread
  ready_list,     \* the run queue
  status,         \* enum thread_status; "UNUSED" / "FREED": no thread yet / page freed
  priority,       \* t->priority, donations included
  prev_priority,  \* t->prev_priority, the thread's own priority
  priority_list,  \* t->priority_list, donors linked by their p_elem
  lock_temp,      \* t->lock_temp, the last lock t found taken
  donee,          \* t->donee, the last holder t donated to
  tid,            \* t->tid
  next_tid,       \* the static counter of allocate_tid()
  pc,             \* where each thread is
  regs,           \* locals and return addresses of its kernel calls
  panic           \* "none", or why the kernel stopped

schedVars  == <<cur, ready_list, status>>
donateVars == <<priority_list, lock_temp, donee>>
tidVars    == <<tid, next_tid>>

NoCall == [lock |-> Null, lret |-> "run", sema |-> Null, sret |-> "run",
           pret |-> "run", t1 |-> Null, child |-> Null, tid |-> 0,
           waiter |-> FALSE, cond |-> Null]

----------------------------------------------------------------------------
(* Control transfer. *)

Goto(t, label) == pc' = [pc EXCEPT ![t] = label]

\* Back in the thread's own function no kernel frame is left.
ReturnTo(t, label) ==
  /\ Goto(t, label)
  /\ regs' = IF label = "run" THEN [regs EXCEPT ![t] = NoCall] ELSE regs

At(t, label) == panic = "none" /\ cur = t /\ pc[t] = label

\* A failed assertion or a fault in the kernel: nothing runs any more.
Panic(why) ==
  /\ panic' = why
  /\ UNCHANGED <<schedVars, donateVars, tidVars, priority, prev_priority, pc, regs>>

\* A pointer to t leads into a page that was freed.
Freed(t) == t \in Threads /\ status[t] = "FREED"

\* What t->priority may read.  A freed page holds the pattern it was filled
\* with, a negative number, or another thread by now.
PriorityReads(t) == IF Freed(t) THEN Priorities \cup {-1} ELSE {priority[t]}

----------------------------------------------------------------------------
(* The scheduler. *)

\* schedule() and thread_schedule_tail(), for the run queue r and the
\* statuses st that the caller leaves: the front of the queue runs next, or
\* the idle thread; a dying thread's page is freed by its successor, unless
\* it is the initial thread's, which did not come from palloc.
schedule(r, st) ==
  LET next == IF r = <<>> THEN Idle ELSE Head(r)
      reaped == IF st[cur] = "DYING" /\ cur # Initial
                  THEN [st EXCEPT ![cur] = "FREED"] ELSE st
  IN /\ cur' = next
     /\ ready_list' = IF r = <<>> THEN r ELSE Tail(r)
     /\ status' = [reaped EXCEPT ![next] = "RUNNING"]

\* The idle thread is never put on the run queue.
thread_yield ==
  schedule(IF cur = Idle THEN ready_list
                         ELSE list_insert_ordered(ready_list, cur, priority),
           [status EXCEPT ![cur] = "READY"])

thread_block == schedule(ready_list, [status EXCEPT ![cur] = "BLOCKED"])

thread_unblock(t) ==
  /\ ready_list' = list_insert_ordered(ready_list, t, priority)
  /\ status' = [status EXCEPT ![t] = "READY"]
  /\ UNCHANGED cur

YieldIf(cond) == IF cond THEN thread_yield ELSE UNCHANGED schedVars

\* With interrupts on, TIME_SLICE ticks may go by before the next step of
\* any thread: the running thread yields when the interrupt returns.  A thread
\* woken inside semaphore_down() still has interrupts off.
thread_tick ==
  /\ panic = "none"
  /\ pc[cur] # "sd_woken"
  /\ thread_yield
  /\ UNCHANGED <<donateVars, tidVars, priority, prev_priority, pc, regs, panic>>

\* One turn of the loop of the idle thread, which blocks itself and is run
\* again when the queue is empty.
idle ==
  /\ panic = "none"
  /\ cur = Idle
  /\ thread_block
  /\ UNCHANGED <<donateVars, tidVars, priority, prev_priority, pc, regs, panic>>

----------------------------------------------------------------------------
(* thread_set_priority(). *)

\* Up to the first return: the new priority is kept as prev_priority, and is
\* not applied while there are donors.  new_priority is prev_priority[t] from
\* here on.
CallSetPriority(t, new_priority, ret) ==
  /\ prev_priority' = [prev_priority EXCEPT ![t] = new_priority]
  /\ IF priority_list[t] # <<>>
       THEN ReturnTo(t, ret)
       ELSE /\ Goto(t, "sp_set")
            /\ regs' = [regs EXCEPT ![t].pret = ret]

sp_set(t) ==
  /\ At(t, "sp_set")
  /\ priority' = [priority EXCEPT ![t] = prev_priority[t]]
  /\ Goto(t, "sp_scan")
  /\ UNCHANGED <<schedVars, donateVars, tidVars, prev_priority, regs, panic>>

sp_scan(t) ==
  /\ At(t, "sp_scan")
  /\ YieldIf(\E i \in DOMAIN ready_list : priority[ready_list[i]] > priority[t])
  /\ ReturnTo(t, regs[t].pret)
  /\ UNCHANGED <<donateVars, tidVars, priority, prev_priority, panic>>

----------------------------------------------------------------------------
(* thread_create() and thread_exit(). *)

\* Mutant: next_tid is read and incremented without tid_lock.
CallCreate_NoLock(t, c, pri) ==
  /\ status[c] = "UNUSED"
  /\ status' = [status EXCEPT ![c] = "BLOCKED"]
  /\ priority' = [priority EXCEPT ![c] = pri]
  /\ prev_priority' = [prev_priority EXCEPT ![c] = pri]
  /\ Goto(t, "tc_read")
  /\ regs' = [regs EXCEPT ![t].child = c, ![t].lock = TidLock]
  /\ UNCHANGED <<cur, ready_list, donateVars, tidVars, panic>>

\* init_thread() on a fresh page c, then allocate_tid() takes tid_lock.  Its
\* page is always fresh: reuse of a freed page is not modelled.
CallCreate(t, c, pri) ==
  /\ status[c] = "UNUSED"
  /\ status' = [status EXCEPT ![c] = "BLOCKED"]
  /\ priority' = [priority EXCEPT ![c] = pri]
  /\ prev_priority' = [prev_priority EXCEPT ![c] = pri]
  /\ Goto(t, "la_check")
  /\ regs' = [regs EXCEPT ![t].child = c, ![t].lock = TidLock, ![t].lret = "tc_read"]
  /\ UNCHANGED <<cur, ready_list, donateVars, tidVars, panic>>

\* tid = next_tid++, a read and a write, between lock_acquire and lock_release.
tc_read(t) ==
  /\ At(t, "tc_read")
  /\ regs' = [regs EXCEPT ![t].tid = next_tid]
  /\ Goto(t, "tc_incr")
  /\ UNCHANGED <<schedVars, donateVars, tidVars, priority, prev_priority, panic>>

tc_incr(t) ==
  /\ At(t, "tc_incr")
  /\ next_tid' = regs[t].tid + 1
  /\ regs' = [regs EXCEPT ![t].sret = "tc_unblock"]
  /\ Goto(t, "lr_donors")
  /\ UNCHANGED <<schedVars, donateVars, tid, priority, prev_priority, panic>>

\* allocate_tid() has returned: the stack frames are set up and the new
\* thread joins the run queue.
tc_unblock(t) ==
  /\ At(t, "tc_unblock")
  /\ tid' = [tid EXCEPT ![regs[t].child] = regs[t].tid]
  /\ thread_unblock(regs[t].child)
  /\ Goto(t, "tc_compare")
  /\ UNCHANGED <<donateVars, next_tid, priority, prev_priority, regs, panic>>

\* The new thread may have run and exited by now, and its page been freed.
tc_compare(t) ==
  /\ At(t, "tc_compare")
  /\ \E p \in PriorityReads(regs[t].child) : YieldIf(p > priority[t])
  /\ ReturnTo(t, "run")
  /\ UNCHANGED <<donateVars, tidVars, priority, prev_priority, panic>>

thread_exit(t) ==
  /\ At(t, "run")
  /\ schedule(ready_list, [status EXCEPT ![t] = "DYING"])
  /\ Goto(t, "exited")
  /\ UNCHANGED <<donateVars, tidVars, priority, prev_priority, regs, panic>>
=============================================================================
