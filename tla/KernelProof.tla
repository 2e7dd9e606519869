---------------------------- MODULE KernelProof ----------------------------
(***************************************************************************)
(* The kernel, for any set of threads, locks, semaphores and condition     *)
(* variables: its types, exclusion of its locks, that they implement       *)
(* AbstractLock, that threads have distinct tids and are in one list at a  *)
(* time, that no up and no signal is lost, and that the waiter with the    *)
(* highest priority is woken.                                              *)
(*                                                                         *)
(* Each part has an inductive invariant of its own, relative to those of   *)
(* the parts before it, and the lemmas that every step preserves it.       *)
(***************************************************************************)
EXTENDS Kernel, KListProof

----------------------------------------------------------------------------
(* The inductive invariant. *)

InAcquire == {"la_check", "la_link", "la_donate", "la_nested", "la_donee", "la_own"}
InRelease == {"lr_donors", "lr_restore", "lr_clear"}
InUp      == {"su", "su_preempt", "su_scan", "su_restore", "su_yield"}
AllocTid  == {"tc_read", "tc_incr"}

\* Where semaphore_up() returns to, and what it finds there.
UpReturn(t) ==
  \/ regs[t].sret = "run"
  \/ regs[t].sret = "tc_unblock" /\ regs[t].child \in Threads
  \/ regs[t].sret = "cw_down" /\ regs[t].waiter
  \/ regs[t].sret = "cb" /\ regs[t].cond \in Conds

\* Where semaphore_down() returns to: it waits for a lock's semaphore in
\* lock_acquire() of that lock and nowhere else.
DownReturn(t) ==
  /\ regs[t].sema \in SemaObjs
  /\ \/ regs[t].sret = "la_own" /\ regs[t].lock \in Locks /\ regs[t].sema = regs[t].lock
     \/ regs[t].sret = "run" /\ regs[t].sema \notin Locks
     \/ regs[t].sret = "cw_acquire" /\ regs[t].waiter /\ regs[t].sema \notin Locks

\* The arguments and return addresses of the calls that t is in.
CallsOK(t) ==
  /\ regs[t].lret \in {"run", "tc_read"}
  /\ regs[t].pret \in {"run", "su_yield"}
  /\ regs[t].lret = "tc_read" => regs[t].child \in Threads
  /\ regs[t].waiter => regs[t].lock \in Locks
  /\ pc[t] \in InAcquire \cup InRelease \cup AllocTid => regs[t].lock \in Locks
  /\ pc[t] \in {"tc_read", "tc_incr", "tc_unblock"} => regs[t].child \in Threads
  /\ pc[t] \in {"cw_down", "cw_acquire"} => regs[t].waiter
  /\ pc[t] = "cb" => regs[t].cond \in Conds
  /\ pc[t] \in {"sd", "sd_woken"} => DownReturn(t)
  /\ pc[t] \in InRelease \cup InUp => UpReturn(t)
  /\ pc[t] \in {"sp_set", "sp_scan"} /\ regs[t].pret = "su_yield" => UpReturn(t)
  /\ pc[t] \in {"su", "su_preempt", "su_scan"} => regs[t].sema \in SemaObjs

Calls == \A t \in Threads : CallsOK(t)

\* A thread that releases a lock is its holder; one that is about to up the
\* lock's semaphore has just cleared the holder.
HolderOK(t) ==
  /\ pc[t] \in InRelease \cup AllocTid => holder[regs[t].lock] = t
  /\ pc[t] = "su" /\ regs[t].sema \in Locks => holder[regs[t].sema] = Null

\* The value of a lock's semaphore is 1 only while nobody owns the lock.
ValueOK(l) ==
  /\ value[l] \in {0, 1}
  /\ value[l] = 1 => \A t \in Threads : ~Owns(t, l)

LockInv ==
  /\ \A t \in Threads : HolderOK(t)
  /\ \A l \in Locks : ValueOK(l)
  /\ LockExclusive

Inv == TypeOK /\ Calls /\ LockInv

----------------------------------------------------------------------------
(* The scheduler. *)

LEMMA ScheduleTypes ==
  ASSUME SchedTypes, NEW r \in Seq(Threads), NEW st \in [AllThreads -> Statuses],
         schedule(r, st)
  PROVE  SchedTypes'
<1>1. r # <<>> => Head(r) \in Threads /\ Tail(r) \in Seq(Threads)
  OBVIOUS
<1>2. Idle \in AllThreads /\ Threads \subseteq AllThreads
  BY DEF AllThreads
<1> QED
  BY <1>1, <1>2 DEF schedule, SchedTypes, Statuses

LEMMA YieldTypes ==
  ASSUME SchedTypes, thread_yield
  PROVE  SchedTypes'
<1> DEFINE r == IF cur = Idle THEN ready_list
                              ELSE list_insert_ordered(ready_list, cur, priority)
           st == [status EXCEPT ![cur] = "READY"]
<1>1. r \in Seq(Threads)
  BY InsertOrdered DEF SchedTypes, AllThreads
<1>2. st \in [AllThreads -> Statuses]
  BY DEF SchedTypes, Statuses
<1>3. schedule(r, st)
  BY DEF thread_yield
<1> HIDE DEF r, st
<1> QED
  BY <1>1, <1>2, <1>3, ScheduleTypes

LEMMA YieldIfTypes ==
  ASSUME SchedTypes, NEW cond, YieldIf(cond)
  PROVE  SchedTypes'
<1>1. CASE cond
  BY <1>1, YieldTypes DEF YieldIf
<1>2. CASE ~cond
  BY <1>2 DEF YieldIf, schedVars, SchedTypes
<1> QED
  BY <1>1, <1>2

LEMMA BlockTypes ==
  ASSUME SchedTypes, thread_block
  PROVE  SchedTypes'
<1>1. [status EXCEPT ![cur] = "BLOCKED"] \in [AllThreads -> Statuses]
  BY DEF SchedTypes, Statuses
<1>2. ready_list \in Seq(Threads)
  BY DEF SchedTypes
<1> QED
  BY <1>1, <1>2, ScheduleTypes DEF thread_block

LEMMA UnblockTypes ==
  ASSUME SchedTypes, NEW t \in Threads, thread_unblock(t)
  PROVE  SchedTypes'
<1>1. list_insert_ordered(ready_list, t, priority) \in Seq(Threads)
  BY InsertOrdered DEF SchedTypes
<1> QED
  BY <1>1 DEF SchedTypes, thread_unblock, AllThreads, Statuses

----------------------------------------------------------------------------
(* Control transfer: a step of t moves t only. *)

Moves(t) == \A u \in Threads : u # t => pc'[u] = pc[u] /\ regs'[u] = regs[u]

\* pc and regs keep their types, and t gets the label and registers given.
MovesTo(t, label, r) ==
  /\ pc' \in [AllThreads -> Labels] /\ regs' \in [Threads -> Registers]
  /\ Moves(t)
  /\ pc'[t] = label /\ regs'[t] = r

LEMMA CallsStep ==
  ASSUME Calls, NEW t \in Threads, Moves(t), CallsOK(t)'
  PROVE  Calls'
BY DEF Calls, Moves, CallsOK, DownReturn, UpReturn

LEMMA GotoMoves ==
  ASSUME CallTypes, NEW t \in Threads, NEW label \in Labels, Goto(t, label),
         NEW r \in Registers, regs' = [regs EXCEPT ![t] = r]
  PROVE  MovesTo(t, label, r)
BY DEF CallTypes, Goto, MovesTo, Moves, AllThreads

LEMMA ReturnMoves ==
  ASSUME CallTypes, NEW t \in Threads, NEW label \in Labels, ReturnTo(t, label)
  PROVE  MovesTo(t, label, IF label = "run" THEN NoCall ELSE regs[t])
<1> DEFINE r == IF label = "run" THEN NoCall ELSE regs[t]
<1>1. NoCall \in Registers
  BY DEF NoCall, Registers, Labels
<1>2. r \in Registers
  BY <1>1 DEF CallTypes
<1>3. regs' = [regs EXCEPT ![t] = r]
  BY DEF ReturnTo, CallTypes
<1>4. Goto(t, label)
  BY DEF ReturnTo
<1> HIDE DEF r
<1>5. MovesTo(t, label, r)
  BY <1>2, <1>3, <1>4, GotoMoves
<1> QED
  BY <1>5 DEF r

LEMMA DownMoves ==
  ASSUME CallTypes, NEW t \in Threads, NEW s \in SemaObjs, NEW ret \in Labels,
         CallDown(t, s, ret)
  PROVE  MovesTo(t, "sd", [regs[t] EXCEPT !.sema = s, !.sret = ret])
<1> DEFINE r == [regs[t] EXCEPT !.sema = s, !.sret = ret]
<1>1. r \in Registers
  BY DEF CallTypes, Registers
<1>2. regs' = [regs EXCEPT ![t] = r]
  BY DEF CallDown, CallTypes
<1>3. Goto(t, "sd") /\ "sd" \in Labels
  BY DEF CallDown, Labels
<1> HIDE DEF r
<1>4. MovesTo(t, "sd", r)
  BY <1>1, <1>2, <1>3, GotoMoves
<1> QED
  BY <1>4 DEF r

LEMMA UpMoves ==
  ASSUME CallTypes, NEW t \in Threads, NEW s \in SemaObjs, NEW ret \in Labels,
         CallUp(t, s, ret)
  PROVE  MovesTo(t, "su", [regs[t] EXCEPT !.sema = s, !.sret = ret])
<1> DEFINE r == [regs[t] EXCEPT !.sema = s, !.sret = ret]
<1>1. r \in Registers
  BY DEF CallTypes, Registers
<1>2. regs' = [regs EXCEPT ![t] = r]
  BY DEF CallUp, CallTypes
<1>3. Goto(t, "su") /\ "su" \in Labels
  BY DEF CallUp, Labels
<1> HIDE DEF r
<1>4. MovesTo(t, "su", r)
  BY <1>1, <1>2, <1>3, GotoMoves
<1> QED
  BY <1>4 DEF r

LEMMA AcquireMoves ==
  ASSUME CallTypes, NEW t \in Threads, NEW l \in Locks, NEW ret \in Labels,
         CallAcquire(t, l, ret)
  PROVE  MovesTo(t, "la_check", [regs[t] EXCEPT !.lock = l, !.lret = ret])
<1> DEFINE r == [regs[t] EXCEPT !.lock = l, !.lret = ret]
<1>1. r \in Registers
  BY DEF CallTypes, Registers
<1>2. regs' = [regs EXCEPT ![t] = r]
  BY DEF CallAcquire, CallTypes
<1>3. Goto(t, "la_check") /\ "la_check" \in Labels
  BY DEF CallAcquire, Labels
<1> HIDE DEF r
<1>4. MovesTo(t, "la_check", r)
  BY <1>1, <1>2, <1>3, GotoMoves
<1> QED
  BY <1>4 DEF r

\* A jump inside a function keeps the registers.
LEMMA JumpMoves ==
  ASSUME CallTypes, NEW t \in Threads, NEW label \in Labels, Goto(t, label), UNCHANGED regs
  PROVE  MovesTo(t, label, regs[t])
<1>1. regs[t] \in Registers /\ regs' = [regs EXCEPT ![t] = regs[t]]
  BY DEF CallTypes
<1> QED
  BY <1>1, GotoMoves

----------------------------------------------------------------------------
(* Types and calls are preserved by every step. *)

Good == TypeOK /\ Calls

LEMMA GoodStep ==
  ASSUME Good, NEW t \in Threads, NEW label, NEW r, MovesTo(t, label, r), CallsOK(t)',
         SchedTypes', PriorityTypes', SyncTypes', tid' \in [Threads -> Nat],
         next_tid' \in Nat, calls' \in Nat, preemptions' \in Nat
  PROVE  Good'
<1>1. Calls'
  BY CallsStep DEF Good, MovesTo
<1>2. CallTypes'
  BY DEF CallTypes, MovesTo
<1> QED
  BY <1>1, <1>2 DEF Good, TypeOK

\* Back in its own function t is in no call.
LEMMA RunCallsOK ==
  ASSUME NEW t \in Threads, MovesTo(t, "run", NoCall)
  PROVE  CallsOK(t)'
BY DEF MovesTo, CallsOK, InAcquire, InRelease, InUp, AllocTid, NoCall

LEMMA ThreadStepGood ==
  ASSUME Good, NEW t \in Threads, ThreadStep(t), UNCHANGED <<lockVars, calls, preemptions>>
  PROVE  Good'
<1> USE DEF Good
<1>0. /\ SchedTypes /\ PriorityTypes /\ CallTypes /\ SyncTypes /\ CallsOK(t)
      /\ calls' \in Nat /\ preemptions' \in Nat
      /\ SyncTypes'
  BY DEF TypeOK, Calls, lockVars, semaVars, SyncTypes
<1>1. CASE sp_set(t)
  <2>1. MovesTo(t, "sp_scan", regs[t])
    BY <1>0, <1>1, JumpMoves DEF sp_set, Labels
  <2>2. CallsOK(t)'
    BY <1>0, <1>1, <2>1 DEF sp_set, At, MovesTo, CallsOK, UpReturn, InAcquire, InRelease, InUp,
                            AllocTid
  <2>3. SchedTypes' /\ PriorityTypes' /\ tid' \in [Threads -> Nat] /\ next_tid' \in Nat
    BY <1>0, <1>1 DEF sp_set, schedVars, donateVars, tidVars, SchedTypes, PriorityTypes, CallTypes,
                      AllThreads
  <2> QED
    BY <1>0, <2>1, <2>2, <2>3, GoodStep
<1>2. CASE sp_scan(t)
  <2>1. regs[t].pret \in Labels /\ regs[t].pret \in {"run", "su_yield"}
    BY <1>0 DEF CallsOK, Labels
  <2>2. MovesTo(t, regs[t].pret, IF regs[t].pret = "run" THEN NoCall ELSE regs[t])
    BY <1>0, <1>2, <2>1, ReturnMoves DEF sp_scan
  <2>3. CallsOK(t)'
    <3>1. CASE regs[t].pret = "run"
      BY <2>2, <3>1, RunCallsOK
    <3>2. CASE regs[t].pret = "su_yield"
      BY <1>0, <1>2, <2>2, <3>2 DEF sp_scan, At, MovesTo, CallsOK, UpReturn, InAcquire,
                                    InRelease, InUp, AllocTid
    <3> QED
      BY <2>1, <3>1, <3>2
  <2>4. SchedTypes'
    BY <1>0, <1>2, YieldIfTypes DEF sp_scan
  <2>5. PriorityTypes' /\ tid' \in [Threads -> Nat] /\ next_tid' \in Nat
    BY <1>0, <1>2 DEF sp_scan, donateVars, tidVars, PriorityTypes, CallTypes
  <2> QED
    BY <1>0, <2>2, <2>3, <2>4, <2>5, GoodStep
<1>3. CASE tc_read(t)
  <2> DEFINE r == [regs[t] EXCEPT !.tid = next_tid]
  <2>1. r \in Registers /\ regs' = [regs EXCEPT ![t] = r]
    BY <1>0, <1>3 DEF tc_read, CallTypes, Registers
  <2>2. MovesTo(t, "tc_incr", r)
    BY <1>0, <1>3, <2>1, GotoMoves DEF tc_read, Labels
  <2>3. CallsOK(t)'
    BY <1>0, <1>3, <2>2 DEF tc_read, At, MovesTo, CallsOK, InAcquire, InRelease, InUp, AllocTid,
                            CallTypes, Registers
  <2>4. SchedTypes' /\ PriorityTypes' /\ tid' \in [Threads -> Nat] /\ next_tid' \in Nat
    BY <1>0, <1>3 DEF tc_read, schedVars, donateVars, tidVars, SchedTypes, PriorityTypes, CallTypes
  <2> QED
    BY <1>0, <2>2, <2>3, <2>4, GoodStep
<1>4. CASE tc_incr(t)
  <2> DEFINE r == [regs[t] EXCEPT !.sret = "tc_unblock"]
  <2>1. r \in Registers /\ regs' = [regs EXCEPT ![t] = r]
    BY <1>0, <1>4 DEF tc_incr, CallTypes, Registers, Labels
  <2>2. MovesTo(t, "lr_donors", r)
    BY <1>0, <1>4, <2>1, GotoMoves DEF tc_incr, Labels
  <2>3. CallsOK(t)'
    BY <1>0, <1>4, <2>2 DEF tc_incr, At, MovesTo, CallsOK, UpReturn, InAcquire, InRelease, InUp,
                            AllocTid, CallTypes, Registers
  <2>4. SchedTypes' /\ PriorityTypes' /\ tid' \in [Threads -> Nat] /\ next_tid' \in Nat
    BY <1>0, <1>4 DEF tc_incr, schedVars, donateVars, SchedTypes, PriorityTypes, CallTypes,
                      Registers
  <2> QED
    BY <1>0, <2>2, <2>3, <2>4, GoodStep
<1>5. CASE tc_unblock(t)
  <2>1. regs[t].child \in Threads
    BY <1>0, <1>5 DEF tc_unblock, At, CallsOK
  <2>2. MovesTo(t, "tc_compare", regs[t])
    BY <1>0, <1>5, JumpMoves DEF tc_unblock, Labels
  <2>3. CallsOK(t)'
    BY <1>0, <1>5, <2>2 DEF tc_unblock, At, MovesTo, CallsOK, InAcquire, InRelease, InUp, AllocTid
  <2>4. SchedTypes'
    BY <1>0, <1>5, <2>1, UnblockTypes DEF tc_unblock
  <2>5. PriorityTypes' /\ tid' \in [Threads -> Nat] /\ next_tid' \in Nat
    BY <1>0, <1>5 DEF tc_unblock, donateVars, PriorityTypes, CallTypes, Registers
  <2> QED
    BY <1>0, <2>2, <2>3, <2>4, <2>5, GoodStep
<1>6. CASE tc_compare(t)
  <2>1. MovesTo(t, "run", NoCall)
    BY <1>0, <1>6, ReturnMoves DEF tc_compare, Labels
  <2>2. CallsOK(t)'
    BY <2>1, RunCallsOK
  <2>3. SchedTypes'
    BY <1>0, <1>6, YieldIfTypes DEF tc_compare
  <2>4. PriorityTypes' /\ tid' \in [Threads -> Nat] /\ next_tid' \in Nat
    BY <1>0, <1>6 DEF tc_compare, donateVars, tidVars, PriorityTypes, CallTypes
  <2> QED
    BY <1>0, <2>1, <2>2, <2>3, <2>4, GoodStep
<1> QED
  BY <1>1, <1>2, <1>3, <1>4, <1>5, <1>6 DEF ThreadStep

\* Steps in which no thread moves.
LEMMA StillGood ==
  ASSUME Good, UNCHANGED <<donateVars, tidVars, priority, prev_priority, pc, regs>>,
         SchedTypes', SyncTypes', calls' \in Nat, preemptions' \in Nat
  PROVE  Good'
<1>1. PriorityTypes' /\ CallTypes'
  BY DEF Good, TypeOK, PriorityTypes, CallTypes, donateVars, tidVars
<1>2. Calls'
  BY DEF Good, Calls, CallsOK, DownReturn, UpReturn
<1> QED
  BY <1>1, <1>2 DEF Good, TypeOK

LEMMA PanicGood ==
  ASSUME Good, NEW why, Panic(why), UNCHANGED <<lockVars, calls, preemptions>>
  PROVE  Good'
<1>1. SchedTypes'
  BY DEF Good, TypeOK, SchedTypes, Panic, schedVars
<1>2. SyncTypes' /\ calls' \in Nat /\ preemptions' \in Nat
  BY DEF Good, TypeOK, SyncTypes, lockVars, semaVars
<1> QED
  BY <1>1, <1>2, StillGood DEF Panic

\* wake() takes the first of the sorted waiters off the list.
LEMMA WakeTypes ==
  ASSUME SchedTypes, PriorityTypes, SyncTypes, NEW s \in SemaObjs, wake(s),
         UNCHANGED <<holder, cond_waiters>>
  PROVE  SchedTypes' /\ SyncTypes'
<1> DEFINE sorted == list_sort(waiters[s], priority)
<1>1. waiters[s] \in Seq(Threads) /\ \A u \in Threads : priority[u] \in Int
  BY DEF SyncTypes, PriorityTypes, AllThreads
<1>2. sorted \in Seq(Threads) /\ Len(sorted) = Len(waiters[s])
  BY <1>1, SortPermutes
<1> HIDE DEF sorted
<1>3. waiters[s] # <<>> => Head(sorted) \in Threads /\ Tail(sorted) \in Seq(Threads)
  BY <1>1, <1>2
<1>4. SchedTypes'
  <2>1. CASE waiters[s] # <<>>
    BY <1>3, <2>1, UnblockTypes DEF wake, sorted
  <2>2. CASE waiters[s] = <<>>
    BY <2>2 DEF wake, schedVars, SchedTypes
  <2> QED
    BY <2>1, <2>2
<1>5. SyncTypes'
  <2>1. value' \in [SemaObjs -> Nat]
    BY DEF wake, SyncTypes
  <2>2. waiters' \in [SemaObjs -> Seq(Threads)]
    BY <1>3 DEF wake, sorted, SyncTypes
  <2> QED
    BY <2>1, <2>2 DEF SyncTypes
<1> QED
  BY <1>4, <1>5

LEMMA SemaStepGood ==
  ASSUME Good, NEW t \in Threads, SemaStep(t), UNCHANGED <<cond_waiters, calls, preemptions>>
  PROVE  Good'
<1> USE DEF Good
<1>0. /\ SchedTypes /\ PriorityTypes /\ CallTypes /\ SyncTypes /\ CallsOK(t)
      /\ calls' \in Nat /\ preemptions' \in Nat
  BY DEF TypeOK, Calls
<1>1. CASE sd_take(t)
  <2>1. regs[t].sema \in SemaObjs /\ regs[t].sret \in {"la_own", "run", "cw_acquire"}
    BY <1>0, <1>1 DEF sd_take, At, CallsOK, DownReturn
  <2>2. MovesTo(t, regs[t].sret, IF regs[t].sret = "run" THEN NoCall ELSE regs[t])
    BY <1>0, <1>1, <2>1, ReturnMoves DEF sd_take, Labels
  <2>3. CallsOK(t)'
    <3>1. CASE regs[t].sret = "run"
      BY <2>2, <3>1, RunCallsOK
    <3>2. CASE regs[t].sret # "run"
      BY <1>0, <1>1, <2>1, <2>2, <3>2 DEF sd_take, At, MovesTo, CallsOK, DownReturn, InAcquire,
                                          InRelease, InUp, AllocTid
    <3> QED
      BY <3>1, <3>2
  <2>4. SyncTypes'
    <3>1. value[regs[t].sema] - 1 \in Nat
      BY <1>0, <1>1, <2>1 DEF sd_take, SyncTypes
    <3> QED
      BY <1>0, <1>1, <2>1, <3>1 DEF sd_take, SyncTypes
  <2>5. SchedTypes' /\ PriorityTypes' /\ tid' \in [Threads -> Nat] /\ next_tid' \in Nat
    BY <1>0, <1>1 DEF sd_take, schedVars, donateVars, tidVars, SchedTypes, PriorityTypes, CallTypes
  <2> QED
    BY <1>0, <2>2, <2>3, <2>4, <2>5, GoodStep
<1>2. CASE sd_block(t)
  <2>1. regs[t].sema \in SemaObjs
    BY <1>0, <1>2 DEF sd_block, At, CallsOK, DownReturn
  <2>2. MovesTo(t, "sd_woken", regs[t])
    BY <1>0, <1>2, JumpMoves DEF sd_block, Labels
  <2>3. CallsOK(t)'
    BY <1>0, <1>2, <2>2 DEF sd_block, At, MovesTo, CallsOK, DownReturn, InAcquire, InRelease,
                            InUp, AllocTid
  <2>4. SchedTypes'
    BY <1>0, <1>2, BlockTypes DEF sd_block
  <2>5. priority' \in [AllThreads -> Int]
    <3>1. CASE DonatesFromDown(t)
      <4>1. lock_temp[t] \in Locks /\ holder[lock_temp[t]] \in Threads
        BY <1>0, <1>2, <3>1 DEF sd_block, DonatesFromDown, PriorityTypes, SyncTypes
      <4> QED
        BY <1>0, <1>2, <3>1, <4>1 DEF sd_block, PriorityTypes, AllThreads
    <3>2. CASE ~DonatesFromDown(t)
      BY <1>0, <1>2, <3>2 DEF sd_block, PriorityTypes
    <3> QED
      BY <3>1, <3>2
  <2>6. PriorityTypes' /\ tid' \in [Threads -> Nat] /\ next_tid' \in Nat
    BY <1>0, <1>2, <2>5 DEF sd_block, donateVars, tidVars, PriorityTypes, CallTypes
  <2>7. SyncTypes'
    <3>1. \A key : list_insert_ordered(waiters[regs[t].sema], t, key) \in Seq(Threads)
      BY <1>0, <2>1, InsertOrdered DEF SyncTypes
    <3> QED
      BY <1>0, <1>2, <2>1, <3>1 DEF sd_block, SyncTypes
  <2> QED
    BY <1>0, <2>2, <2>3, <2>4, <2>6, <2>7, GoodStep
<1>3. CASE sd_fault(t)
  BY <1>3, PanicGood DEF sd_fault, lockVars
<1>4. CASE su(t)
  <2> DEFINE s == regs[t].sema
             t1 == IF waiters[s] # <<>> THEN Head(list_sort(waiters[s], priority)) ELSE t
             r == [regs[t] EXCEPT !.t1 = t1]
  <2>1. s \in SemaObjs
    BY <1>0, <1>4 DEF su, At, CallsOK
  <2>2. t1 \in Threads
    <3>1. waiters[s] \in Seq(Threads) /\ \A u \in Threads : priority[u] \in Int
      BY <1>0, <2>1 DEF SyncTypes, PriorityTypes, AllThreads
    <3>2. /\ list_sort(waiters[s], priority) \in Seq(Threads)
          /\ Len(list_sort(waiters[s], priority)) = Len(waiters[s])
      BY <3>1, SortPermutes
    <3> QED
      BY <3>1, <3>2
  <2>3. regs' = [regs EXCEPT ![t] = r]
    BY <1>0, <1>4 DEF su, CallTypes
  <2> HIDE DEF t1
  <2>4. r \in Registers
    BY <1>0, <2>2 DEF CallTypes, Registers
  <2>5. MovesTo(t, "su_preempt", r)
    BY <1>0, <1>4, <2>3, <2>4, GotoMoves DEF su, Labels
  <2>6. CallsOK(t)'
    BY <1>0, <1>4, <2>5 DEF su, At, MovesTo, CallsOK, UpReturn, InAcquire, InRelease, InUp,
                            AllocTid, CallTypes, Registers
  <2>7. SchedTypes' /\ SyncTypes'
    BY <1>0, <1>4, <2>1, WakeTypes DEF su
  <2>8. PriorityTypes' /\ tid' \in [Threads -> Nat] /\ next_tid' \in Nat
    BY <1>0, <1>4 DEF su, donateVars, tidVars, PriorityTypes, CallTypes
  <2> HIDE DEF r
  <2> QED
    BY <1>0, <2>5, <2>6, <2>7, <2>8, GoodStep
<1>5. CASE su_preempt(t)
  <2>1. MovesTo(t, "su_scan", regs[t])
    BY <1>0, <1>5, JumpMoves DEF su_preempt, Labels
  <2>2. CallsOK(t)'
    BY <1>0, <1>5, <2>1 DEF su_preempt, At, MovesTo, CallsOK, UpReturn, InAcquire, InRelease,
                            InUp, AllocTid
  <2>3. SchedTypes'
    BY <1>0, <1>5, YieldIfTypes DEF su_preempt
  <2>4. PriorityTypes' /\ SyncTypes' /\ tid' \in [Threads -> Nat] /\ next_tid' \in Nat
    BY <1>0, <1>5 DEF su_preempt, donateVars, tidVars, semaVars, PriorityTypes, CallTypes, SyncTypes
  <2> QED
    BY <1>0, <2>1, <2>2, <2>3, <2>4, GoodStep
<1>6. CASE su_scan(t)
  <2>1. MovesTo(t, "su_restore", regs[t])
    BY <1>0, <1>6, JumpMoves DEF su_scan, Labels
  <2>2. CallsOK(t)'
    BY <1>0, <1>6, <2>1 DEF su_scan, At, MovesTo, CallsOK, UpReturn, InAcquire, InRelease,
                            InUp, AllocTid
  <2>3. SchedTypes'
    BY <1>0, <1>6, YieldIfTypes DEF su_scan
  <2>4. PriorityTypes' /\ SyncTypes' /\ tid' \in [Threads -> Nat] /\ next_tid' \in Nat
    BY <1>0, <1>6 DEF su_scan, donateVars, tidVars, semaVars, PriorityTypes, CallTypes, SyncTypes
  <2> QED
    BY <1>0, <2>1, <2>2, <2>3, <2>4, GoodStep
<1>7. CASE su_restore(t)
  <2>1. UpReturn(t)
    BY <1>0, <1>7 DEF su_restore, At, CallsOK, InUp, InRelease
  <2>2. \E label \in {"su_yield", "sp_set"}, r \in Registers :
          MovesTo(t, label, r) /\ r \in {regs[t], [regs[t] EXCEPT !.pret = "su_yield"]}
          /\ (label = "sp_set" => r = [regs[t] EXCEPT !.pret = "su_yield"])
    <3>1. CASE Goto(t, "su_yield") /\ UNCHANGED regs
      <4>1. MovesTo(t, "su_yield", regs[t])
        BY <1>0, <3>1, JumpMoves DEF Labels
      <4> QED
        BY <1>0, <4>1 DEF CallTypes
    <3>2. CASE /\ Goto(t, "sp_set")
               /\ regs' = [regs EXCEPT ![t].pret = "su_yield"]
      <4> DEFINE r == [regs[t] EXCEPT !.pret = "su_yield"]
      <4>1. r \in Registers /\ regs' = [regs EXCEPT ![t] = r]
        BY <1>0, <3>2 DEF CallTypes, Registers, Labels
      <4>2. MovesTo(t, "sp_set", r)
        BY <1>0, <3>2, <4>1, GotoMoves DEF Labels
      <4> QED
        BY <4>1, <4>2
    <3> QED
      BY <1>7, <3>1, <3>2 DEF su_restore, CallSetPriority, ReturnTo
  <2>3. PICK label \in {"su_yield", "sp_set"}, r \in Registers :
          MovesTo(t, label, r) /\ r \in {regs[t], [regs[t] EXCEPT !.pret = "su_yield"]}
          /\ (label = "sp_set" => r = [regs[t] EXCEPT !.pret = "su_yield"])
    BY <2>2
  <2>4. CallsOK(t)'
    BY <1>0, <2>1, <2>3 DEF MovesTo, CallsOK, UpReturn, InAcquire, InRelease, InUp, AllocTid,
                            CallTypes, Registers
  <2>5. SchedTypes' /\ PriorityTypes' /\ SyncTypes' /\ tid' \in [Threads -> Nat] /\ next_tid' \in Nat
    BY <1>0, <1>7 DEF su_restore, CallSetPriority, schedVars, donateVars, tidVars, semaVars,
                      SchedTypes, PriorityTypes, CallTypes, SyncTypes, AllThreads
  <2> QED
    BY <1>0, <2>3, <2>4, <2>5, GoodStep
<1>8. CASE su_yield(t)
  <2>1. UpReturn(t)
    BY <1>0, <1>8 DEF su_yield, At, CallsOK, InUp
  <2>2. regs[t].sret \in {"run", "tc_unblock", "cw_down", "cb"}
    BY <2>1 DEF UpReturn
  <2>3. MovesTo(t, regs[t].sret, IF regs[t].sret = "run" THEN NoCall ELSE regs[t])
    BY <1>0, <1>8, <2>2, ReturnMoves DEF su_yield, Labels
  <2>4. CallsOK(t)'
    <3>1. CASE regs[t].sret = "run"
      BY <2>3, <3>1, RunCallsOK
    <3>2. CASE regs[t].sret # "run"
      BY <1>0, <2>1, <2>2, <2>3, <3>2 DEF MovesTo, CallsOK, UpReturn, InAcquire, InRelease, InUp,
                                          AllocTid
    <3> QED
      BY <3>1, <3>2
  <2>5. SchedTypes'
    BY <1>0, <1>8, YieldTypes DEF su_yield
  <2>6. PriorityTypes' /\ SyncTypes' /\ tid' \in [Threads -> Nat] /\ next_tid' \in Nat
    BY <1>0, <1>8 DEF su_yield, donateVars, tidVars, semaVars, PriorityTypes, CallTypes, SyncTypes
  <2> QED
    BY <1>0, <2>3, <2>4, <2>5, <2>6, GoodStep
<1> QED
  BY <1>1, <1>2, <1>3, <1>4, <1>5, <1>6, <1>7, <1>8 DEF SemaStep

LEMMA LockStepGood ==
  ASSUME Good, NEW t \in Threads, LockStep(t), UNCHANGED <<cond_waiters, calls, preemptions>>
  PROVE  Good'
<1> USE DEF Good
<1>0. /\ SchedTypes /\ PriorityTypes /\ CallTypes /\ SyncTypes /\ CallsOK(t)
      /\ calls' \in Nat /\ preemptions' \in Nat
      /\ Null \notin Threads /\ Threads \subseteq AllThreads /\ Locks \subseteq SemaObjs
  BY ThreadAssumption DEF TypeOK, Calls, AllThreads, SemaObjs
<1>1. CASE la_check(t)
  <2>1. regs[t].lock \in Locks
    BY <1>0, <1>1 DEF la_check, At, CallsOK, InAcquire
  <2>2. PriorityTypes' /\ SchedTypes' /\ SyncTypes' /\ tid' \in [Threads -> Nat] /\ next_tid' \in Nat
    BY <1>0, <1>1, <2>1 DEF la_check, schedVars, tidVars, semaVars, SchedTypes, PriorityTypes,
                            CallTypes, SyncTypes
  <2>3. CASE holder[regs[t].lock] # Null
    <3>1. MovesTo(t, "la_link", regs[t])
      BY <1>0, <1>1, <2>3, JumpMoves DEF la_check, Labels
    <3>2. CallsOK(t)'
      BY <1>0, <1>1, <3>1 DEF la_check, At, MovesTo, CallsOK, DownReturn, UpReturn, InAcquire, InRelease, InUp, AllocTid
    <3> QED
      BY <1>0, <2>2, <3>1, <3>2, GoodStep
  <2>4. CASE holder[regs[t].lock] = Null
    <3>1. MovesTo(t, "sd", [regs[t] EXCEPT !.sema = regs[t].lock, !.sret = "la_own"])
      BY <1>0, <1>1, <2>1, <2>4, DownMoves DEF la_check, Labels
    <3>2. CallsOK(t)'
      BY <1>0, <2>1, <3>1 DEF MovesTo, CallTypes, Registers, CallsOK, DownReturn, UpReturn, InAcquire, InRelease, InUp, AllocTid
    <3> QED
      BY <1>0, <2>2, <3>1, <3>2, GoodStep
  <2> QED
    BY <2>3, <2>4
<1>2. CASE la_link(t)
  <2>1. MovesTo(t, "la_donate", regs[t])
    BY <1>0, <1>2, JumpMoves DEF la_link, Labels
  <2>2. CallsOK(t)'
    BY <1>0, <1>2, <2>1 DEF la_link, At, MovesTo, CallsOK, DownReturn, UpReturn, InAcquire, InRelease, InUp, AllocTid
  <2>3. PriorityTypes'
    <3> DEFINE h == holder[regs[t].lock]
    <3>1. h \in Threads
      BY <1>0, <1>2 DEF la_link, At, CallsOK, InAcquire, SyncTypes
    <3>2. list_insert_ordered(priority_list[h], t, priority) \in Seq(Threads)
      BY <1>0, <3>1, InsertOrdered DEF PriorityTypes
    <3> HIDE DEF h
    <3> QED
      BY <1>0, <1>2, <3>1, <3>2 DEF la_link, h, PriorityTypes
  <2>4. SyncTypes'
    BY <1>0, <1>2 DEF la_link, SyncTypes, semaVars
  <2>5. SchedTypes' /\ tid' \in [Threads -> Nat] /\ next_tid' \in Nat
    BY <1>0, <1>2 DEF la_link, schedVars, tidVars, SchedTypes, CallTypes
  <2> QED
    BY <1>0, <2>1, <2>2, <2>3, <2>4, <2>5, GoodStep
<1>3. CASE la_donate(t)
  <2>1. MovesTo(t, "la_nested", regs[t])
    BY <1>0, <1>3, JumpMoves DEF la_donate, Labels
  <2>2. CallsOK(t)'
    BY <1>0, <1>3, <2>1 DEF la_donate, At, MovesTo, CallsOK, DownReturn, UpReturn, InAcquire, InRelease, InUp, AllocTid
  <2>3. PriorityTypes'
    <3>1. holder[regs[t].lock] \in Threads
      BY <1>0, <1>3 DEF la_donate, At, CallsOK, InAcquire, SyncTypes
    <3> QED
      BY <1>0, <1>3, <3>1 DEF la_donate, PriorityTypes, donateVars
  <2>4. SyncTypes'
    BY <1>0, <1>3 DEF la_donate, SyncTypes, semaVars
  <2>5. SchedTypes' /\ tid' \in [Threads -> Nat] /\ next_tid' \in Nat
    BY <1>0, <1>3 DEF la_donate, schedVars, tidVars, SchedTypes, CallTypes
  <2> QED
    BY <1>0, <2>1, <2>2, <2>3, <2>4, <2>5, GoodStep
<1>4. CASE la_nested(t)
  <2>1. MovesTo(t, "la_donee", regs[t])
    BY <1>0, <1>4, JumpMoves DEF la_nested, Labels
  <2>2. CallsOK(t)'
    BY <1>0, <1>4, <2>1 DEF la_nested, At, MovesTo, CallsOK, DownReturn, UpReturn, InAcquire, InRelease, InUp, AllocTid
  <2>3. PriorityTypes'
    <3>1. holder[regs[t].lock] \in Threads
      BY <1>0, <1>4 DEF la_nested, At, CallsOK, InAcquire, SyncTypes
    <3>2. donee[holder[regs[t].lock]] \in Threads \cup {Null}
      BY <1>0, <3>1 DEF PriorityTypes
    <3> QED
      BY <1>0, <1>4, <3>1, <3>2 DEF la_nested, PriorityTypes, donateVars
  <2>4. SyncTypes'
    BY <1>0, <1>4 DEF la_nested, SyncTypes, semaVars
  <2>5. SchedTypes' /\ tid' \in [Threads -> Nat] /\ next_tid' \in Nat
    BY <1>0, <1>4 DEF la_nested, schedVars, tidVars, SchedTypes, CallTypes
  <2> QED
    BY <1>0, <2>1, <2>2, <2>3, <2>4, <2>5, GoodStep
<1>5. CASE la_donee(t)
  <2>1. regs[t].lock \in Locks
    BY <1>0, <1>5 DEF la_donee, At, CallsOK, InAcquire
  <2>2. MovesTo(t, "sd", [regs[t] EXCEPT !.sema = regs[t].lock, !.sret = "la_own"])
    BY <1>0, <1>5, <2>1, DownMoves DEF la_donee, Labels
  <2>3. CallsOK(t)'
    BY <1>0, <2>1, <2>2 DEF MovesTo, CallTypes, Registers, CallsOK, DownReturn, UpReturn, InAcquire, InRelease, InUp, AllocTid
  <2>4. PriorityTypes' /\ SchedTypes' /\ SyncTypes' /\ tid' \in [Threads -> Nat] /\ next_tid' \in Nat
    BY <1>0, <1>5, <2>1 DEF la_donee, schedVars, tidVars, semaVars, SchedTypes, PriorityTypes,
                            CallTypes, SyncTypes
  <2> QED
    BY <1>0, <2>2, <2>3, <2>4, GoodStep
<1>6. CASE la_fault(t)
  BY <1>6, PanicGood DEF la_fault, lockVars
<1>7. CASE la_corrupt(t)
  BY <1>7, PanicGood DEF la_corrupt, lockVars
<1>8. CASE la_own(t)
  <2>1. regs[t].lock \in Locks /\ regs[t].lret \in {"run", "tc_read"}
    BY <1>0, <1>8 DEF la_own, At, CallsOK, InAcquire
  <2>2. MovesTo(t, regs[t].lret, IF regs[t].lret = "run" THEN NoCall ELSE regs[t])
    BY <1>0, <1>8, <2>1, ReturnMoves DEF la_own, Labels
  <2>3. CallsOK(t)'
    <3>1. CASE regs[t].lret = "run"
      BY <2>2, <3>1, RunCallsOK
    <3>2. CASE regs[t].lret = "tc_read"
      BY <1>0, <2>1, <2>2, <3>2 DEF MovesTo, CallsOK, DownReturn, UpReturn, InAcquire, InRelease, InUp, AllocTid
    <3> QED
      BY <2>1, <3>1, <3>2
  <2>4. PriorityTypes' /\ SchedTypes' /\ SyncTypes' /\ tid' \in [Threads -> Nat] /\ next_tid' \in Nat
    BY <1>0, <1>8, <2>1 DEF la_own, schedVars, donateVars, tidVars, semaVars, SchedTypes,
                            PriorityTypes, CallTypes, SyncTypes
  <2> QED
    BY <1>0, <2>2, <2>3, <2>4, GoodStep
<1>9. CASE lr_donors(t)
  <2>1. \E label \in {"lr_clear", "lr_restore"} : MovesTo(t, label, regs[t])
    BY <1>0, <1>9, JumpMoves DEF lr_donors, Labels
  <2>2. CallsOK(t)'
    BY <1>0, <1>9, <2>1 DEF lr_donors, At, MovesTo, CallsOK, DownReturn, UpReturn, InAcquire, InRelease, InUp, AllocTid
  <2>3. priority_list' \in [Threads -> Seq(Threads)]
    <3>1. ASSUME NEW u \in Threads
          PROVE  list_sort(priority_list[u], priority) \in Seq(Threads)
      <4>1. priority_list[u] \in Seq(Threads) /\ \A x \in Threads : priority[x] \in Int
        BY <1>0 DEF PriorityTypes
      <4> QED
        BY <4>1, SortPermutes
    <3>2. \A gone : list_remove_all(priority_list[t], gone) \in Seq(Threads)
      BY <1>0, RemoveAllKeeps DEF PriorityTypes
    <3>3. CASE prev_priority[t] = priority[t]
      BY <1>0, <1>9, <3>3 DEF lr_donors, PriorityTypes
    <3>4. CASE prev_priority[t] # priority[t]
      <4> DEFINE f(u) == IF u = t THEN list_remove_all(priority_list[t], DonorsGone(t))
                         ELSE IF u \in DonorsGone(t) THEN list_sort(priority_list[u], priority)
                         ELSE priority_list[u]
      <4>1. priority_list' = [u \in Threads |-> f(u)]
        BY <1>9, <3>4 DEF lr_donors
      <4>2. \A u \in Threads : f(u) \in Seq(Threads)
        BY <1>0, <3>1, <3>2 DEF PriorityTypes
      <4> HIDE DEF f
      <4> QED
        BY <4>1, <4>2
    <3> QED
      BY <3>3, <3>4
  <2>4. PriorityTypes' /\ SchedTypes' /\ SyncTypes' /\ tid' \in [Threads -> Nat] /\ next_tid' \in Nat
    BY <1>0, <1>9, <2>3 DEF lr_donors, schedVars, tidVars, semaVars, SchedTypes, PriorityTypes,
                            CallTypes, SyncTypes
  <2> QED
    BY <1>0, <2>1, <2>2, <2>4, GoodStep
<1>10. CASE lr_restore(t)
  <2>1. MovesTo(t, "lr_clear", regs[t])
    BY <1>0, <1>10, JumpMoves DEF lr_restore, Labels
  <2>2. CallsOK(t)'
    BY <1>0, <1>10, <2>1 DEF lr_restore, At, MovesTo, CallsOK, DownReturn, UpReturn, InAcquire, InRelease, InUp, AllocTid
  <2>3. PriorityTypes'
    <3>1. priority_list[t] # <<>> => Head(priority_list[t]) \in Threads
      BY <1>0 DEF PriorityTypes
    <3>2. ASSUME NEW u \in Threads
          PROVE  PriorityReads(u) \subseteq Int
      <4>1. Priorities \cup {-1} \subseteq Int
        BY ThreadAssumption
      <4>2. {priority[u]} \subseteq Int
        BY <1>0 DEF PriorityTypes
      <4> QED
        BY <4>1, <4>2 DEF PriorityReads
    <3>3. PICK p \in IF priority_list[t] # <<>> THEN PriorityReads(Head(priority_list[t]))
                                               ELSE {prev_priority[t]} :
            priority' = [priority EXCEPT ![t] = p]
      BY <1>10 DEF lr_restore
    <3>4. p \in Int
      BY <1>0, <3>1, <3>2, <3>3 DEF PriorityTypes
    <3> QED
      BY <1>0, <1>10, <3>3, <3>4 DEF lr_restore, PriorityTypes, donateVars
  <2>4. SyncTypes'
    BY <1>0, <1>10 DEF lr_restore, SyncTypes, semaVars
  <2>5. SchedTypes' /\ tid' \in [Threads -> Nat] /\ next_tid' \in Nat
    BY <1>0, <1>10 DEF lr_restore, schedVars, tidVars, SchedTypes, CallTypes
  <2> QED
    BY <1>0, <2>1, <2>2, <2>3, <2>4, <2>5, GoodStep
<1>11. CASE lr_corrupt(t)
  BY <1>11, PanicGood DEF lr_corrupt, lockVars
<1>12. CASE lr_clear(t)
  <2>1. regs[t].lock \in Locks /\ UpReturn(t)
    BY <1>0, <1>12 DEF lr_clear, At, CallsOK, InRelease
  <2>2. MovesTo(t, "su", [regs[t] EXCEPT !.sema = regs[t].lock, !.sret = regs[t].sret])
    BY <1>0, <1>12, <2>1, UpMoves DEF lr_clear, CallTypes, Registers
  <2>3. CallsOK(t)'
    BY <1>0, <2>1, <2>2 DEF MovesTo, CallTypes, Registers, CallsOK, DownReturn, UpReturn, InAcquire, InRelease, InUp, AllocTid
  <2>4. PriorityTypes' /\ SchedTypes' /\ SyncTypes' /\ tid' \in [Threads -> Nat] /\ next_tid' \in Nat
    BY <1>0, <1>12, <2>1 DEF lr_clear, schedVars, donateVars, tidVars, semaVars, SchedTypes,
                             PriorityTypes, CallTypes, SyncTypes
  <2> QED
    BY <1>0, <2>2, <2>3, <2>4, GoodStep
<1> QED
  BY <1>1, <1>2, <1>3, <1>4, <1>5, <1>6, <1>7, <1>8, <1>9, <1>10, <1>11, <1>12 DEF LockStep

\* condvar_signal() returns, or ups the semaphore of some waiter.
LEMMA SignalMoves ==
  ASSUME CallTypes, PriorityTypes, SyncTypes, NEW t \in Threads, NEW c \in Conds,
         NEW ret \in Labels, CallSignal(t, c, ret)
  PROVE  /\ cond_waiters' \in [Conds -> Seq(Threads)]
         /\ \/ MovesTo(t, ret, IF ret = "run" THEN NoCall ELSE regs[t])
            \/ \E u \in Threads : MovesTo(t, "su", [regs[t] EXCEPT !.sema = u, !.sret = ret])
<1>1. CASE cond_waiters[c] = <<>>
  BY <1>1, ReturnMoves DEF CallSignal, SyncTypes
<1>2. CASE cond_waiters[c] # <<>>
  <2> DEFINE sorted == list_sort(cond_waiters[c], condvar_key)
  <2>1. ASSUME NEW u \in Threads
        PROVE  condvar_key[u] \in Int
    <3>1. waiters[u] # <<>> => Head(waiters[u]) \in Threads
      BY DEF SyncTypes, SemaObjs
    <3>2. \A x \in Threads : priority[x] \in Int
      BY DEF PriorityTypes, AllThreads
    <3> QED
      BY <3>1, <3>2 DEF condvar_key
  <2>2. cond_waiters[c] \in Seq(Threads)
    BY DEF SyncTypes
  <2>3. sorted \in Seq(Threads) /\ Len(sorted) = Len(cond_waiters[c])
    <3> HIDE DEF condvar_key
    <3> QED
      BY <2>1, <2>2, SortPermutes
  <2>4. cond_waiters' = [cond_waiters EXCEPT ![c] = Tail(sorted)] /\ CallUp(t, Head(sorted), ret)
    BY <1>2 DEF CallSignal
  <2> HIDE DEF sorted
  <2>5. Head(sorted) \in Threads /\ Tail(sorted) \in Seq(Threads)
    BY <1>2, <2>2, <2>3
  <2>6. MovesTo(t, "su", [regs[t] EXCEPT !.sema = Head(sorted), !.sret = ret])
    BY <2>4, <2>5, UpMoves DEF SemaObjs
  <2> QED
    BY <2>4, <2>5, <2>6 DEF SyncTypes
<1> QED
  BY <1>1, <1>2

LEMMA CondStepGood ==
  ASSUME Good, NEW t \in Threads, CondStep(t), UNCHANGED <<calls, preemptions>>
  PROVE  Good'
<1> USE DEF Good
<1>0. /\ SchedTypes /\ PriorityTypes /\ CallTypes /\ SyncTypes /\ CallsOK(t)
      /\ calls' \in Nat /\ preemptions' \in Nat
      /\ t \in SemaObjs /\ t \notin Locks
  BY ThreadAssumption DEF TypeOK, Calls, SemaObjs
<1>1. CASE cw_down(t)
  <2>1. MovesTo(t, "sd", [regs[t] EXCEPT !.sema = t, !.sret = "cw_acquire"])
    BY <1>0, <1>1, DownMoves DEF cw_down, Labels
  <2>2. CallsOK(t)'
    BY <1>0, <1>1, <2>1 DEF cw_down, At, CallTypes, Registers, MovesTo, CallsOK, DownReturn, UpReturn, InAcquire, InRelease, InUp, AllocTid
  <2>3. SchedTypes' /\ PriorityTypes' /\ SyncTypes' /\ tid' \in [Threads -> Nat] /\ next_tid' \in Nat
    BY <1>0, <1>1 DEF cw_down, schedVars, donateVars, tidVars, semaVars, SchedTypes, PriorityTypes,
                      CallTypes, SyncTypes
  <2> QED
    BY <1>0, <2>1, <2>2, <2>3, GoodStep
<1>2. CASE cw_acquire(t)
  <2>1. regs[t].lock \in Locks
    BY <1>0, <1>2 DEF cw_acquire, At, CallsOK
  <2>2. MovesTo(t, "la_check", [regs[t] EXCEPT !.lock = regs[t].lock, !.lret = "run"])
    BY <1>0, <1>2, <2>1, AcquireMoves DEF cw_acquire, Labels
  <2>3. CallsOK(t)'
    BY <1>0, <1>2, <2>1, <2>2 DEF cw_acquire, At, CallTypes, Registers, MovesTo, CallsOK, DownReturn, UpReturn, InAcquire, InRelease, InUp, AllocTid
  <2>4. SchedTypes' /\ PriorityTypes' /\ SyncTypes' /\ tid' \in [Threads -> Nat] /\ next_tid' \in Nat
    BY <1>0, <1>2 DEF cw_acquire, schedVars, donateVars, tidVars, semaVars, SchedTypes,
                      PriorityTypes, CallTypes, SyncTypes
  <2> QED
    BY <1>0, <2>2, <2>3, <2>4, GoodStep
<1>3. CASE cb(t)
  <2> DEFINE c == regs[t].cond
  <2>1. c \in Conds
    BY <1>0, <1>3 DEF cb, At, CallsOK
  <2>2. SchedTypes' /\ PriorityTypes' /\ tid' \in [Threads -> Nat] /\ next_tid' \in Nat
    BY <1>0, <1>3 DEF cb, schedVars, donateVars, tidVars, SchedTypes, PriorityTypes, CallTypes
  <2>3. CASE cond_waiters[c] = <<>>
    <3>1. MovesTo(t, "run", NoCall)
      BY <1>0, <1>3, <2>3, ReturnMoves DEF cb, Labels
    <3>2. CallsOK(t)'
      BY <3>1, RunCallsOK
    <3>3. SyncTypes'
      BY <1>0, <1>3, <2>3 DEF cb, semaVars, SyncTypes
    <3> QED
      BY <1>0, <2>2, <3>1, <3>2, <3>3, GoodStep
  <2>4. CASE cond_waiters[c] # <<>>
    <3>1. CallSignal(t, c, "cb") /\ "cb" \in Labels
      BY <1>3, <2>4 DEF cb, Labels
    <3>2. /\ cond_waiters' \in [Conds -> Seq(Threads)]
          /\ \/ MovesTo(t, "cb", regs[t])
             \/ \E u \in Threads : MovesTo(t, "su", [regs[t] EXCEPT !.sema = u, !.sret = "cb"])
      BY <1>0, <2>1, <3>1, SignalMoves
    <3>3. CallsOK(t)'
      <4>1. CASE MovesTo(t, "cb", regs[t])
        <5>1. pc'[t] = "cb" /\ regs'[t] = regs[t]
          BY <4>1 DEF MovesTo
        <5> QED
          BY <1>0, <2>1, <5>1 DEF CallsOK, InAcquire, InRelease, InUp, AllocTid
      <4>2. ASSUME NEW u \in Threads, MovesTo(t, "su", [regs[t] EXCEPT !.sema = u, !.sret = "cb"])
            PROVE  CallsOK(t)'
        <5>1. /\ pc'[t] = "su" /\ regs'[t].sema = u /\ regs'[t].sret = "cb"
              /\ regs'[t].cond = c /\ regs'[t].lock = regs[t].lock /\ regs'[t].lret = regs[t].lret
              /\ regs'[t].pret = regs[t].pret /\ regs'[t].child = regs[t].child
              /\ regs'[t].waiter = regs[t].waiter
          BY <1>0, <4>2 DEF MovesTo, CallTypes, Registers
        <5> QED
          BY <1>0, <2>1, <5>1 DEF SemaObjs, CallsOK, UpReturn, InAcquire, InRelease, InUp, AllocTid
      <4> QED
        BY <3>2, <4>1, <4>2
    <3>4. SyncTypes'
      BY <1>0, <1>3, <3>2 DEF cb, semaVars, SyncTypes
    <3> QED
      BY <1>0, <2>2, <3>2, <3>3, <3>4, GoodStep
  <2> QED
    BY <2>3, <2>4
<1> QED
  BY <1>1, <1>2, <1>3 DEF CondStep

LEMMA CallGood ==
  ASSUME Good, NEW t \in Threads, Call(t)
  PROVE  Good'
<1> USE DEF Good
<1>0. /\ SchedTypes /\ PriorityTypes /\ CallTypes /\ SyncTypes /\ CallsOK(t)
      /\ calls \in Nat /\ preemptions \in Nat
      /\ Locks \subseteq SemaObjs /\ Semas \subseteq SemaObjs /\ Threads \subseteq SemaObjs
      /\ Locks \cap Semas = {} /\ TidLock \in Locks /\ UserLocks \subseteq Locks
      /\ CondLock \in [Conds -> UserLocks] /\ Priorities \subseteq Int
  BY ThreadAssumption, KernelAssumption DEF TypeOK, Calls, SemaObjs, UserLocks
<1>1. ASSUME NEW l \in UserLocks, Acquire(t, l)
      PROVE  Good'
  <2>1. MovesTo(t, "la_check", [regs[t] EXCEPT !.lock = l, !.lret = "run"])
    BY <1>0, <1>1, AcquireMoves DEF Acquire, Labels
  <2>2. CallsOK(t)'
    BY <1>0, <1>1, <2>1 DEF CallTypes, Registers, MovesTo, CallsOK, DownReturn, UpReturn, InAcquire, InRelease, InUp, AllocTid
  <2>3. SchedTypes' /\ PriorityTypes' /\ SyncTypes' /\ tid' \in [Threads -> Nat] /\ next_tid' \in Nat
        /\ calls' \in Nat /\ preemptions' \in Nat
    BY <1>0, <1>1 DEF Acquire, Calling, schedVars, donateVars, tidVars, lockVars, semaVars,
                      SchedTypes, PriorityTypes, CallTypes, SyncTypes
  <2> QED
    BY <2>1, <2>2, <2>3, GoodStep
<1>2. ASSUME NEW l \in UserLocks, Release(t, l)
      PROVE  Good'
  <2> DEFINE r == [regs[t] EXCEPT !.lock = l, !.sret = "run"]
  <2>0. l \in Locks /\ CallTypes /\ "run" \in Labels
    BY <1>0 DEF Labels
  <2>1. r \in Registers
    BY <2>0 DEF CallTypes, Registers
  <2>2. MovesTo(t, "lr_donors", r)
    <3>1. regs' = [regs EXCEPT ![t] = r] /\ Goto(t, "lr_donors") /\ "lr_donors" \in Labels
      BY <1>2, <2>0 DEF Release, CallRelease, CallTypes, Labels
    <3> HIDE DEF r
    <3> QED
      BY <2>0, <2>1, <3>1, GotoMoves
  <2>3. CallsOK(t)'
    BY <1>0, <1>2, <2>2 DEF CallTypes, Registers, MovesTo, CallsOK, DownReturn, UpReturn, InAcquire, InRelease, InUp, AllocTid
  <2>4. SchedTypes' /\ PriorityTypes' /\ SyncTypes' /\ tid' \in [Threads -> Nat] /\ next_tid' \in Nat
        /\ calls' \in Nat /\ preemptions' \in Nat
    BY <1>0, <1>2 DEF Release, schedVars, donateVars, tidVars, lockVars, semaVars,
                      SchedTypes, PriorityTypes, CallTypes, SyncTypes
  <2> QED
    BY <2>2, <2>3, <2>4, GoodStep
<1>3. ASSUME NEW s \in Semas, Down(t, s)
      PROVE  Good'
  <2>1. MovesTo(t, "sd", [regs[t] EXCEPT !.sema = s, !.sret = "run"])
    BY <1>0, <1>3, DownMoves DEF Down, Labels
  <2>2. CallsOK(t)'
    BY <1>0, <1>3, <2>1 DEF CallTypes, Registers, MovesTo, CallsOK, DownReturn, UpReturn, InAcquire, InRelease, InUp, AllocTid
  <2>3. SchedTypes' /\ PriorityTypes' /\ SyncTypes' /\ tid' \in [Threads -> Nat] /\ next_tid' \in Nat
        /\ calls' \in Nat /\ preemptions' \in Nat
    BY <1>0, <1>3 DEF Down, Calling, schedVars, donateVars, tidVars, lockVars, semaVars,
                      SchedTypes, PriorityTypes, CallTypes, SyncTypes
  <2> QED
    BY <2>1, <2>2, <2>3, GoodStep
<1>4. ASSUME NEW s \in Semas, Up(t, s)
      PROVE  Good'
  <2>1. MovesTo(t, "su", [regs[t] EXCEPT !.sema = s, !.sret = "run"])
    BY <1>0, <1>4, UpMoves DEF Up, Labels
  <2>2. CallsOK(t)'
    BY <1>0, <1>4, <2>1 DEF CallTypes, Registers, MovesTo, CallsOK, DownReturn, UpReturn, InAcquire, InRelease, InUp, AllocTid
  <2>3. SchedTypes' /\ PriorityTypes' /\ SyncTypes' /\ tid' \in [Threads -> Nat] /\ next_tid' \in Nat
        /\ calls' \in Nat /\ preemptions' \in Nat
    BY <1>0, <1>4 DEF Up, Calling, schedVars, donateVars, tidVars, lockVars, semaVars,
                      SchedTypes, PriorityTypes, CallTypes, SyncTypes
  <2> QED
    BY <2>1, <2>2, <2>3, GoodStep
<1>5. ASSUME NEW c \in Conds, Wait(t, c)
      PROVE  Good'
  <2> DEFINE l == CondLock[c]
             r == [regs[t] EXCEPT !.waiter = TRUE, !.lock = l, !.sret = "cw_down"]
  <2>0. l \in Locks
    BY <1>0
  <2>1. regs' = [regs EXCEPT ![t] = r]
    BY <1>0, <1>5 DEF Wait, CallWait, CallTypes
  <2> HIDE DEF l
  <2>2. r \in Registers
    <3>1. CallTypes /\ "cw_down" \in Labels
      BY <1>0 DEF Labels
    <3> QED
      BY <2>0, <3>1 DEF CallTypes, Registers
  <2>3. MovesTo(t, "lr_donors", r)
    BY <1>0, <1>5, <2>1, <2>2, GotoMoves DEF Wait, CallWait, Labels
  <2>4. CallsOK(t)'
    BY <1>0, <1>5, <2>0, <2>3 DEF CallTypes, Registers, MovesTo, CallsOK, DownReturn, UpReturn, InAcquire, InRelease, InUp, AllocTid
  <2>5. SyncTypes'
    <3>1. <<>> \in Seq(Threads) /\ 0 \in Nat
      OBVIOUS
    <3>2. \A key : list_insert_ordered(cond_waiters[c], t, key) \in Seq(Threads)
      BY <1>0, InsertOrdered DEF SyncTypes
    <3> QED
      BY <1>0, <1>5, <3>1, <3>2 DEF Wait, CallWait, SyncTypes
  <2>6. SchedTypes' /\ PriorityTypes'
    BY <1>0, <1>5 DEF Wait, schedVars, donateVars, SchedTypes, PriorityTypes
  <2>7. /\ tid' \in [Threads -> Nat] /\ next_tid' \in Nat
        /\ calls' \in Nat /\ preemptions' \in Nat
    BY <1>0, <1>5 DEF Wait, Calling, tidVars, CallTypes
  <2> HIDE DEF r
  <2> QED
    BY <2>3, <2>4, <2>5, <2>6, <2>7, GoodStep
<1>6. ASSUME NEW c \in Conds, Signal(t, c)
      PROVE  Good'
  <2>1. CallSignal(t, c, "run") /\ "run" \in Labels
    BY <1>6 DEF Signal, Labels
  <2>2. /\ cond_waiters' \in [Conds -> Seq(Threads)]
        /\ \/ MovesTo(t, "run", NoCall)
           \/ \E u \in Threads : MovesTo(t, "su", [regs[t] EXCEPT !.sema = u, !.sret = "run"])
    BY <1>0, <2>1, SignalMoves
  <2>3. SchedTypes' /\ PriorityTypes' /\ SyncTypes' /\ tid' \in [Threads -> Nat] /\ next_tid' \in Nat
        /\ calls' \in Nat /\ preemptions' \in Nat
    <3>1. SchedTypes' /\ PriorityTypes'
      BY <1>0, <1>6 DEF Signal, schedVars, donateVars, SchedTypes, PriorityTypes
    <3>2. SyncTypes'
      BY <1>0, <1>6, <2>2 DEF Signal, semaVars, SyncTypes
    <3>3. tid' \in [Threads -> Nat] /\ next_tid' \in Nat /\ calls' \in Nat /\ preemptions' \in Nat
      BY <1>0, <1>6 DEF Signal, Calling, tidVars, CallTypes
    <3> QED
      BY <3>1, <3>2, <3>3
  <2>4. CASE MovesTo(t, "run", NoCall)
    BY <2>3, <2>4, RunCallsOK, GoodStep
  <2>5. ASSUME NEW u \in Threads, MovesTo(t, "su", [regs[t] EXCEPT !.sema = u, !.sret = "run"])
        PROVE  Good'
    <3>1. CallsOK(t)'
      BY <1>0, <2>5 DEF CallTypes, Registers, MovesTo, CallsOK, DownReturn, UpReturn, InAcquire, InRelease, InUp, AllocTid
    <3> QED
      BY <2>3, <2>5, <3>1, GoodStep
  <2> QED
    BY <2>2, <2>4, <2>5
<1>7. ASSUME NEW c \in Conds, Broadcast(t, c)
      PROVE  Good'
  <2> DEFINE r == [regs[t] EXCEPT !.cond = c]
  <2>1. r \in Registers /\ regs' = [regs EXCEPT ![t] = r]
    BY <1>0, <1>7 DEF Broadcast, CallBroadcast, CallTypes, Registers
  <2>2. MovesTo(t, "cb", r)
    BY <1>0, <1>7, <2>1, GotoMoves DEF Broadcast, CallBroadcast, Labels
  <2>3. CallsOK(t)'
    BY <1>0, <1>7, <2>2 DEF CallTypes, Registers, MovesTo, CallsOK, DownReturn, UpReturn, InAcquire, InRelease, InUp, AllocTid
  <2>4. SchedTypes' /\ PriorityTypes' /\ SyncTypes' /\ tid' \in [Threads -> Nat] /\ next_tid' \in Nat
        /\ calls' \in Nat /\ preemptions' \in Nat
    <3>1. SchedTypes' /\ PriorityTypes'
      BY <1>0, <1>7 DEF Broadcast, schedVars, donateVars, SchedTypes, PriorityTypes
    <3>2. SyncTypes'
      BY <1>0, <1>7 DEF Broadcast, lockVars, semaVars, SyncTypes
    <3>3. tid' \in [Threads -> Nat] /\ next_tid' \in Nat /\ calls' \in Nat /\ preemptions' \in Nat
      BY <1>0, <1>7 DEF Broadcast, Calling, tidVars, CallTypes
    <3> QED
      BY <3>1, <3>2, <3>3
  <2> QED
    BY <2>2, <2>3, <2>4, GoodStep
<1>8. ASSUME NEW p \in Priorities, SetPriority(t, p)
      PROVE  Good'
  <2>1. SchedTypes' /\ PriorityTypes' /\ SyncTypes' /\ tid' \in [Threads -> Nat] /\ next_tid' \in Nat
        /\ calls' \in Nat /\ preemptions' \in Nat
    <3>1. SchedTypes' /\ SyncTypes'
      BY <1>0, <1>8 DEF SetPriority, schedVars, lockVars, semaVars, SchedTypes, SyncTypes
    <3>2. PriorityTypes'
      BY <1>0, <1>8 DEF SetPriority, CallSetPriority, donateVars, PriorityTypes, AllThreads
    <3>3. tid' \in [Threads -> Nat] /\ next_tid' \in Nat /\ calls' \in Nat /\ preemptions' \in Nat
      BY <1>0, <1>8 DEF SetPriority, Calling, tidVars, CallTypes
    <3> QED
      BY <3>1, <3>2, <3>3
  <2>2. CASE ReturnTo(t, "run")
    <3>1. MovesTo(t, "run", NoCall)
      BY <1>0, <2>2, ReturnMoves DEF Labels
    <3> QED
      BY <2>1, <3>1, RunCallsOK, GoodStep
  <2>3. CASE Goto(t, "sp_set") /\ regs' = [regs EXCEPT ![t].pret = "run"]
    <3> DEFINE r == [regs[t] EXCEPT !.pret = "run"]
    <3>1. r \in Registers /\ regs' = [regs EXCEPT ![t] = r]
      BY <1>0, <2>3 DEF CallTypes, Registers, Labels
    <3>2. MovesTo(t, "sp_set", r)
      BY <1>0, <2>3, <3>1, GotoMoves DEF Labels
    <3>3. CallsOK(t)'
      BY <1>0, <3>2 DEF CallTypes, Registers, MovesTo, CallsOK, DownReturn, UpReturn, InAcquire, InRelease, InUp, AllocTid
    <3> QED
      BY <2>1, <3>2, <3>3, GoodStep
  <2> QED
    BY <1>8, <2>2, <2>3 DEF SetPriority, CallSetPriority
<1>9. ASSUME NEW c \in Threads, NEW p \in Priorities, Create(t, c, p)
      PROVE  Good'
  <2> DEFINE r == [regs[t] EXCEPT !.child = c, !.lock = TidLock, !.lret = "tc_read"]
  <2>0. TidLock \in Locks /\ CallTypes /\ "tc_read" \in Labels
    BY <1>0 DEF Labels
  <2>1. r \in Registers
    BY <2>0 DEF CallTypes, Registers
  <2>2. MovesTo(t, "la_check", r)
    <3>1. regs' = [regs EXCEPT ![t] = r] /\ Goto(t, "la_check") /\ "la_check" \in Labels
      BY <1>9, <2>0 DEF Create, CallCreate, CallTypes, Labels
    <3> HIDE DEF r
    <3> QED
      BY <2>0, <2>1, <3>1, GotoMoves
  <2>3. CallsOK(t)'
    BY <1>0, <1>9, <2>2 DEF CallTypes, Registers, MovesTo, CallsOK, DownReturn, UpReturn, InAcquire, InRelease, InUp, AllocTid
  <2>4. SchedTypes' /\ PriorityTypes' /\ SyncTypes' /\ tid' \in [Threads -> Nat] /\ next_tid' \in Nat
        /\ calls' \in Nat /\ preemptions' \in Nat
    <3>1. SchedTypes'
      BY <1>0, <1>9 DEF Create, CallCreate, SchedTypes, Statuses, AllThreads
    <3>2. PriorityTypes'
      BY <1>0, <1>9 DEF Create, CallCreate, donateVars, PriorityTypes, AllThreads
    <3>3. SyncTypes'
      BY <1>0, <1>9 DEF Create, lockVars, semaVars, SyncTypes
    <3>4. tid' \in [Threads -> Nat] /\ next_tid' \in Nat /\ calls' \in Nat /\ preemptions' \in Nat
      BY <1>0, <1>9 DEF Create, CallCreate, Calling, tidVars, CallTypes
    <3> QED
      BY <3>1, <3>2, <3>3, <3>4
  <2> QED
    BY <2>2, <2>3, <2>4, GoodStep
<1>10. CASE Exit(t)
  <2>1. MovesTo(t, "exited", regs[t])
    BY <1>0, <1>10, JumpMoves DEF Exit, thread_exit, Labels
  <2>2. CallsOK(t)'
    BY <1>0, <2>1 DEF MovesTo, CallsOK, DownReturn, UpReturn, InAcquire, InRelease, InUp, AllocTid
  <2>3. SchedTypes'
    <3>1. ready_list \in Seq(Threads) /\ [status EXCEPT ![t] = "DYING"] \in [AllThreads -> Statuses]
      BY <1>0 DEF SchedTypes, Statuses
    <3> QED
      BY <1>0, <1>10, <3>1, ScheduleTypes DEF Exit, thread_exit
  <2>4. PriorityTypes' /\ SyncTypes' /\ tid' \in [Threads -> Nat] /\ next_tid' \in Nat
        /\ calls' \in Nat /\ preemptions' \in Nat
    BY <1>0, <1>10 DEF Exit, thread_exit, schedVars, donateVars, tidVars, lockVars, semaVars,
                      SchedTypes, PriorityTypes, CallTypes, SyncTypes
  <2> QED
    BY <2>1, <2>2, <2>3, <2>4, GoodStep
<1> QED
  BY <1>1, <1>2, <1>3, <1>4, <1>5, <1>6, <1>7, <1>8, <1>9, <1>10 DEF Call

\* Every step of the kernel keeps types and calls.
LEMMA NextGood ==
  ASSUME Good, [Next]_vars
  PROVE  Good'
<1>0. /\ SchedTypes /\ PriorityTypes /\ SyncTypes
      /\ calls \in Nat /\ preemptions \in Nat
  BY DEF Good, TypeOK
<1>1. ASSUME NEW t \in Threads, Step(t)
      PROVE  Good'
  BY <1>1, ThreadStepGood, SemaStepGood, LockStepGood, CondStepGood DEF Step
<1>2. CASE Tick
  <2>1. SchedTypes'
    BY <1>0, <1>2, YieldTypes DEF Tick, thread_tick
  <2>2. SyncTypes' /\ calls' \in Nat /\ preemptions' \in Nat
    BY <1>0, <1>2 DEF Tick, lockVars, semaVars, SyncTypes
  <2> QED
    BY <1>2, <2>1, <2>2, StillGood DEF Tick, thread_tick
<1>3. CASE IdleTurn
  <2>1. SchedTypes'
    BY <1>0, <1>3, BlockTypes DEF IdleTurn, idle
  <2>2. SyncTypes' /\ calls' \in Nat /\ preemptions' \in Nat
    BY <1>0, <1>3 DEF IdleTurn, lockVars, semaVars, SyncTypes
  <2> QED
    BY <1>3, <2>1, <2>2, StillGood DEF IdleTurn, idle
<1>4. CASE Interrupt
  <2>1. PICK s \in Semas : intr_up(s)
    BY <1>4 DEF Interrupt
  <2>2. s \in SemaObjs
    BY <2>1 DEF SemaObjs
  <2>3. SchedTypes' /\ SyncTypes'
    BY <1>0, <1>4, <2>1, <2>2, WakeTypes DEF Interrupt, intr_up
  <2> QED
    BY <1>0, <1>4, <2>1, <2>3, StillGood DEF Interrupt, intr_up
<1>5. CASE UNCHANGED vars
  <2>1. SchedTypes' /\ SyncTypes' /\ calls' \in Nat /\ preemptions' \in Nat
    BY <1>0, <1>5 DEF vars, schedVars, lockVars, semaVars, SchedTypes, SyncTypes
  <2> QED
    BY <1>5, <2>1, StillGood DEF vars
<1> QED
  BY <1>1, <1>2, <1>3, <1>4, <1>5, CallGood DEF Next
----------------------------------------------------------------------------
(* Initially. *)

\* There are tids for the threads that exist initially: the choice in Init is
\* well defined.
LEMMA TidsExist ==
  \E f \in [Threads -> 0..(Cardinality(Started) + 1)] :
     /\ \A t \in Threads : f[t] = 0 <=> t \notin Started
     /\ \A t, u \in Started : f[t] = f[u] => t = u
<1> DEFINE n == Cardinality(Started)
<1>1. IsFiniteSet(Started) /\ Started \subseteq Threads
  BY ThreadAssumption, FS_Subset
<1>2. n \in Nat /\ ExistsBijection(1..n, Started)
  BY <1>1, FS_CardinalityType
<1>3. PICK b \in Bijection(1..n, Started) : TRUE
  BY <1>2 DEF ExistsBijection
<1>4. \A t \in Started : \E k \in 1..n : b[k] = t
  BY <1>3 DEF Bijection, Surjection
<1> DEFINE place(t) == CHOOSE k \in 1..n : b[k] = t
           f == [t \in Threads |-> IF t \in Started THEN place(t) ELSE 0]
<1>5. \A t \in Started : place(t) \in 1..n /\ b[place(t)] = t
  BY <1>4
<1> HIDE DEF n, place
<1>6. f \in [Threads -> 0..(n + 1)]
  BY <1>2, <1>5
<1>7. \A t \in Threads : f[t] = 0 <=> t \notin Started
  BY <1>2, <1>5
<1>8. \A t, u \in Started : f[t] = f[u] => t = u
  BY <1>1, <1>5
<1> QED
  BY <1>6, <1>7, <1>8 DEF n

LEMMA InitInv == Init => Inv
<1> SUFFICES ASSUME Init
             PROVE  Inv
  OBVIOUS
<1>0. /\ Cardinality(Started) \in Nat /\ Started \subseteq Threads
      /\ Started \subseteq AllThreads /\ Threads \subseteq AllThreads /\ Idle \in AllThreads
      /\ Locks \subseteq SemaObjs
  BY ThreadAssumption, FS_Subset, FS_CardinalityType DEF AllThreads, SemaObjs
<1>1. SchedTypes
  <2>1. ready_list \in Seq(Threads)
    <3>1. IsFiniteSet(Started \ {cur}) /\ Started \ {cur} \subseteq Threads
      BY <1>0, ThreadAssumption, FS_Subset
    <3>2. Cardinality(Started \ {cur}) \in Nat
      BY <3>1, FS_CardinalityType
    <3>3. ready_list \in [1..Cardinality(Started \ {cur}) -> Started \ {cur}]
      BY DEF Init, SetToSeqs
    <3>4. \A S : \A n \in Nat : \A q \in [1..n -> S] : q \in Seq(S)
      OBVIOUS
    <3>5. ready_list \in Seq(Started \ {cur})
      BY <3>2, <3>3, <3>4
    <3> QED
      BY <3>1, <3>5
  <2>2. cur \in AllThreads
    BY <1>0 DEF Init
  <2>3. status \in [AllThreads -> Statuses]
    BY DEF Init, Statuses
  <2> QED
    BY <2>1, <2>2, <2>3 DEF SchedTypes
<1>2. PriorityTypes
  <2>1. priority \in [AllThreads -> Int]
    <3>1. PICK created \in [Started -> Priorities] :
             priority = [t \in AllThreads |-> IF t \in Started THEN created[t] ELSE 0]
      BY DEF Init
    <3>2. \A t \in Started : created[t] \in Priorities
      BY <3>1
    <3>3. \A p \in Priorities : p \in Int
      BY ThreadAssumption
    <3>4. ASSUME NEW t \in AllThreads
          PROVE  (IF t \in Started THEN created[t] ELSE 0) \in Int
      <4>1. CASE t \in Started
        BY <3>2, <3>3, <4>1
      <4>2. CASE t \notin Started
        BY <4>2
      <4> QED
        BY <4>1, <4>2
    <3> QED
      BY <3>1, <3>4
  <2>2. prev_priority \in [AllThreads -> Int]
    BY <2>1 DEF Init
  <2>3. priority_list \in [Threads -> Seq(Threads)]
    BY DEF Init
  <2>4. lock_temp \in [Threads -> Locks \cup {Null}] /\ donee \in [Threads -> Threads \cup {Null}]
    BY DEF Init
  <2> QED
    BY <2>1, <2>2, <2>3, <2>4 DEF PriorityTypes
<1>3. CallTypes
  <2>1. tid \in [Threads -> 0..(Cardinality(Started) + 1)]
    BY TidsExist DEF Init
  <2>2. tid \in [Threads -> Nat]
    BY <1>0, <2>1
  <2>3. next_tid \in Nat
    BY <1>0 DEF Init
  <2>4. pc \in [AllThreads -> Labels]
    BY DEF Init, Labels
  <2>5. NoCall \in Registers
    BY DEF NoCall, Registers, Labels
  <2>6. regs \in [Threads -> Registers]
    BY <2>5 DEF Init
  <2> QED
    BY <2>2, <2>3, <2>4, <2>6 DEF CallTypes
<1>4. SyncTypes
  <2>1. value \in [SemaObjs -> Nat]
    BY KernelAssumption DEF Init
  <2>2. waiters \in [SemaObjs -> Seq(Threads)] /\ cond_waiters \in [Conds -> Seq(Threads)]
    BY DEF Init
  <2>3. holder \in [Locks -> Threads \cup {Null}]
    BY DEF Init
  <2> QED
    BY <2>1, <2>2, <2>3 DEF SyncTypes
<1>5. calls \in Nat /\ preemptions \in Nat
  BY DEF Init
<1>6. \A t \in Threads : pc[t] = "run" /\ regs[t] = NoCall
  BY <1>0 DEF Init
<1>7. Calls
  BY <1>6 DEF Calls, CallsOK, InAcquire, InRelease, InUp, AllocTid, NoCall
<1>8. \A t \in Threads, l \in Locks : ~Owns(t, l)
  BY <1>6, ThreadAssumption DEF Init, Owns
<1>9. \A l \in Locks : value[l] = 1
  BY <1>0 DEF Init
<1>10. LockInv
  BY <1>6, <1>8, <1>9 DEF LockInv, HolderOK, ValueOK, LockExclusive, InRelease, AllocTid
<1> QED
  BY <1>1, <1>2, <1>3, <1>4, <1>5, <1>7, <1>10 DEF Inv, TypeOK

\* In every reachable state each variable has its type (and so no semaphore's
\* value drops below 0, semaphore.c:87), and every kernel function that runs
\* was called with arguments and a return address that its caller gave it.
THEOREM TypeCorrect == Spec => [](TypeOK /\ Calls)
<1>1. Init => Good
  BY InitInv DEF Inv, Good
<1>2. Good /\ [Next]_vars => Good'
  BY NextGood
<1> QED
  BY <1>1, <1>2, PTL DEF Spec, Good
----------------------------------------------------------------------------
(* Exclusion. *)

\* A step of t that neither changes a holder or the value of a lock's
\* semaphore nor makes t an owner.
LockQuiet(t) ==
  /\ Moves(t)
  /\ holder' = holder
  /\ \A l \in Locks : value'[l] = value[l]
  /\ pc'[t] # "la_own"
  /\ pc'[t] = "su" => regs'[t].sema \notin Locks
  /\ pc'[t] \in InRelease \cup AllocTid => holder[regs'[t].lock] = t

LEMMA QuietLockInv ==
  ASSUME LockInv, NEW t \in Threads, LockQuiet(t)
  PROVE  LockInv'
<1>1. ASSUME NEW u \in Threads, NEW l \in Locks, Owns(u, l)'
      PROVE  Owns(u, l)
  BY <1>1 DEF LockQuiet, Moves, Owns
<1>2. LockExclusive'
  BY <1>1 DEF LockInv, LockExclusive
<1>3. \A l \in Locks : ValueOK(l)'
  BY <1>1 DEF LockInv, ValueOK, LockQuiet
<1>4. ASSUME NEW u \in Threads
      PROVE  HolderOK(u)'
  <2>1. CASE u = t
    BY <2>1 DEF LockQuiet, HolderOK
  <2>2. CASE u # t
    BY <2>2 DEF LockInv, LockQuiet, Moves, HolderOK
  <2> QED
    BY <2>1, <2>2
<1> QED
  BY <1>2, <1>3, <1>4 DEF LockInv

\* A step that moves no thread and touches no lock.
LEMMA StillLockInv ==
  ASSUME LockInv, pc' = pc, regs' = regs, holder' = holder,
         \A l \in Locks : value'[l] = value[l]
  PROVE  LockInv'
<1>1. ASSUME NEW u \in Threads, NEW l \in Locks
      PROVE  Owns(u, l)' <=> Owns(u, l)
  BY DEF Owns
<1>2. LockExclusive' /\ \A l \in Locks : ValueOK(l)'
  BY <1>1 DEF LockInv, LockExclusive, ValueOK
<1>3. \A u \in Threads : HolderOK(u)'
  BY DEF LockInv, HolderOK
<1> QED
  BY <1>2, <1>3 DEF LockInv

\* The functions of thread.c do not touch the locks.
LEMMA ThreadStepQuiet ==
  ASSUME Good, LockInv, NEW t \in Threads, ThreadStep(t), UNCHANGED lockVars
  PROVE  LockQuiet(t)
<1>0. CallTypes /\ CallsOK(t) /\ HolderOK(t) /\ holder' = holder /\ value' = value
  BY DEF Good, TypeOK, Calls, LockInv, lockVars, semaVars
<1>1. CASE sp_set(t) \/ tc_unblock(t)
  BY <1>0, <1>1 DEF sp_set, tc_unblock, Goto, CallTypes, AllThreads, LockQuiet, Moves, InRelease,
                    AllocTid
<1>2. CASE sp_scan(t) \/ tc_compare(t)
  BY <1>0, <1>2 DEF sp_scan, tc_compare, ReturnTo, Goto, CallTypes, AllThreads, CallsOK, LockQuiet,
                    Moves, InRelease, AllocTid
<1>3. CASE tc_read(t) \/ tc_incr(t)
  BY <1>0, <1>3 DEF tc_read, tc_incr, At, Goto, CallTypes, AllThreads, Registers, HolderOK,
                    LockQuiet, Moves, InRelease, AllocTid
<1> QED
  BY <1>1, <1>2, <1>3 DEF ThreadStep

\* A thread that passes semaphore_down() for a lock becomes its only owner:
\* the value was 1, so nobody owned it.
LEMMA TakeLockInv ==
  ASSUME Good, LockInv, NEW t \in Threads, sd_take(t)
  PROVE  LockInv'
<1> DEFINE s == regs[t].sema
<1>0. CallTypes /\ SyncTypes /\ DownReturn(t) /\ holder' = holder
  BY DEF Good, TypeOK, Calls, CallsOK, sd_take, At
<1>1. Moves(t) /\ pc'[t] = regs[t].sret /\ value' = [value EXCEPT ![s] = @ - 1]
  BY <1>0 DEF sd_take, ReturnTo, Goto, CallTypes, AllThreads, Moves
<1>2. CASE regs[t].sret # "la_own"
  <2>1. s \notin Locks /\ pc'[t] \in {"run", "cw_acquire"}
    BY <1>0, <1>1, <1>2 DEF DownReturn
  <2>2. \A l \in Locks : value'[l] = value[l]
    BY <1>0, <1>1, <2>1 DEF SyncTypes, SemaObjs
  <2> QED
    BY <1>0, <1>1, <2>1, <2>2, QuietLockInv DEF LockQuiet, InRelease, AllocTid
<1>3. CASE regs[t].sret = "la_own"
  <2>1. s \in Locks /\ regs[t].lock = s /\ regs'[t] = regs[t] /\ pc'[t] = "la_own"
    BY <1>0, <1>1, <1>3 DEF DownReturn, sd_take, ReturnTo
  <2>2. /\ value[s] = 1 /\ value'[s] = 0
        /\ \A l \in Locks : l # s => value'[l] = value[l]
    BY <1>0, <1>1, <2>1 DEF sd_take, SyncTypes, SemaObjs, LockInv, ValueOK
  <2>3. \A u \in Threads : ~Owns(u, s)
    BY <2>1, <2>2 DEF LockInv, ValueOK
  <2>4. ASSUME NEW u \in Threads, NEW l \in Locks, Owns(u, l)'
        PROVE  Owns(u, l) \/ (u = t /\ l = s)
    BY <1>0, <1>1, <2>1, <2>4 DEF Moves, Owns
  <2>5. LockExclusive'
    BY <2>1, <2>3, <2>4 DEF LockInv, LockExclusive
  <2>6. \A l \in Locks : ValueOK(l)'
    BY <2>1, <2>2, <2>4 DEF LockInv, ValueOK
  <2>7. \A u \in Threads : HolderOK(u)'
    BY <1>0, <1>1, <2>1 DEF LockInv, HolderOK, Moves, InRelease, AllocTid
  <2> QED
    BY <2>5, <2>6, <2>7 DEF LockInv
<1> QED
  BY <1>2, <1>3

\* semaphore_up() raises the value to 1 only after its owner gave the lock up.
LEMMA UpLockInv ==
  ASSUME Good, LockInv, NEW t \in Threads, su(t)
  PROVE  LockInv'
<1> DEFINE s == regs[t].sema
<1>0. CallTypes /\ SyncTypes /\ s \in SemaObjs /\ pc[t] = "su" /\ holder' = holder
  BY DEF Good, TypeOK, Calls, CallsOK, su, At
<1>1. /\ Moves(t) /\ pc'[t] = "su_preempt" /\ value' = [value EXCEPT ![s] = @ + 1]
  BY <1>0 DEF su, wake, Goto, CallTypes, AllThreads, Moves
<1>2. CASE s \notin Locks
  <2>1. \A l \in Locks : value'[l] = value[l]
    BY <1>0, <1>1, <1>2 DEF SyncTypes, SemaObjs
  <2> QED
    BY <1>0, <1>1, <2>1, QuietLockInv DEF LockQuiet, InRelease, AllocTid
<1>3. CASE s \in Locks
  <2>1. Owns(t, s) /\ holder[s] = Null
    BY <1>0, <1>3 DEF Owns, LockInv, HolderOK
  <2>2. value[s] = 0
    BY <1>3, <2>1 DEF LockInv, ValueOK
  <2>3. /\ value'[s] = 1
        /\ \A l \in Locks : l # s => value'[l] = value[l]
    BY <1>0, <1>1, <1>3, <2>2 DEF SyncTypes, SemaObjs
  <2>4. ASSUME NEW u \in Threads, NEW l \in Locks, Owns(u, l)'
        PROVE  Owns(u, l) /\ ~(u = t /\ l = s)
    <3>1. Null \notin Threads
      BY ThreadAssumption
    <3> QED
      BY <1>0, <1>1, <2>1, <2>4, <3>1 DEF Moves, Owns
  <2>5. ASSUME NEW u \in Threads, NEW l \in Locks, Owns(u, l)'
        PROVE  l # s
    BY <1>3, <2>1, <2>4, <2>5 DEF LockInv, LockExclusive
  <2>6. LockExclusive'
    BY <2>4 DEF LockInv, LockExclusive
  <2>7. ASSUME NEW l \in Locks
        PROVE  ValueOK(l)'
    <3>1. CASE l = s
      BY <2>3, <2>5, <3>1 DEF ValueOK
    <3>2. CASE l # s
      BY <2>3, <2>4, <3>2 DEF LockInv, ValueOK
    <3> QED
      BY <3>1, <3>2
  <2>8. \A u \in Threads : HolderOK(u)'
    BY <1>0, <1>1 DEF LockInv, HolderOK, Moves, InRelease, AllocTid
  <2> QED
    BY <2>6, <2>7, <2>8 DEF LockInv
<1> QED
  BY <1>2, <1>3
LEMMA SemaStepLockInv ==
  ASSUME Good, LockInv, NEW t \in Threads, SemaStep(t)
  PROVE  LockInv'
<1>0. CallTypes /\ SyncTypes /\ CallsOK(t)
  BY DEF Good, TypeOK, Calls
<1>1. CASE sd_block(t)
  BY <1>0, <1>1, QuietLockInv DEF sd_block, Goto, CallTypes, AllThreads, LockQuiet, Moves,
                                  InRelease, AllocTid
<1>2. CASE sd_fault(t)
  BY <1>2, StillLockInv DEF sd_fault, Panic, semaVars
<1>3. CASE su_preempt(t) \/ su_scan(t)
  BY <1>0, <1>3, QuietLockInv DEF su_preempt, su_scan, semaVars, Goto, CallTypes, AllThreads,
                                  LockQuiet, Moves, InRelease, AllocTid
<1>4. CASE su_restore(t)
  BY <1>0, <1>4, QuietLockInv DEF su_restore, CallSetPriority, ReturnTo, semaVars, Goto, CallTypes,
                                  AllThreads, LockQuiet, Moves, InRelease, AllocTid
<1>5. CASE su_yield(t)
  <2>1. regs[t].sret \in {"run", "tc_unblock", "cw_down", "cb"}
    BY <1>0, <1>5 DEF su_yield, At, CallsOK, UpReturn, InUp
  <2> QED
    BY <1>0, <1>5, <2>1, QuietLockInv DEF su_yield, ReturnTo, semaVars, Goto, CallTypes, AllThreads,
                                          LockQuiet, Moves, InRelease, AllocTid
<1> QED
  BY <1>1, <1>2, <1>3, <1>4, <1>5, TakeLockInv, UpLockInv DEF SemaStep

\* The owner that stores itself as the holder stays the only owner.
LEMMA OwnLockInv ==
  ASSUME Good, LockInv, NEW t \in Threads, la_own(t)
  PROVE  LockInv'
<1> DEFINE k == regs[t].lock
<1>0. /\ CallTypes /\ SyncTypes /\ CallsOK(t) /\ value' = value
      /\ k \in Locks /\ regs[t].lret \in {"run", "tc_read"} /\ Owns(t, k)
  BY DEF Good, TypeOK, Calls, CallsOK, la_own, At, semaVars, InAcquire, Owns
<1>1. /\ Moves(t) /\ pc'[t] = regs[t].lret
      /\ regs'[t].lock = k \/ pc'[t] = "run"
      /\ holder' = [holder EXCEPT ![k] = t]
  BY <1>0 DEF la_own, ReturnTo, Goto, CallTypes, AllThreads, Moves
<1>2. ASSUME NEW u \in Threads, NEW l \in Locks, Owns(u, l)'
      PROVE  Owns(u, l)
  BY <1>0, <1>1, <1>2 DEF Moves, Owns, SyncTypes
<1>3. LockExclusive' /\ \A l \in Locks : ValueOK(l)'
  BY <1>0, <1>2 DEF LockInv, LockExclusive, ValueOK
<1>4. ASSUME NEW u \in Threads
      PROVE  HolderOK(u)'
  <2>1. CASE u = t
    BY <1>0, <1>1, <2>1 DEF HolderOK, InRelease, AllocTid, SyncTypes
  <2>2. CASE u # t
    <3>1. HolderOK(u) /\ pc'[u] = pc[u] /\ regs'[u] = regs[u] /\ ~Owns(u, k)
      BY <1>0, <1>1, <2>2 DEF LockInv, LockExclusive, Moves
    <3>2. CASE pc[u] \in InRelease \cup AllocTid
      <4>1. regs[u].lock \in Locks /\ holder[regs[u].lock] = u
        BY <3>1, <3>2 DEF Good, Calls, CallsOK, HolderOK
      <4>2. regs[u].lock # k
        BY <3>1, <4>1 DEF Owns
      <4> QED
        BY <1>1, <3>1, <3>2, <4>1, <4>2 DEF HolderOK, InRelease, AllocTid, SyncTypes
    <3>3. CASE pc[u] = "su" /\ regs[u].sema \in Locks
      <4>1. regs[u].sema # k
        BY <3>1, <3>3 DEF Owns
      <4> QED
        BY <1>1, <3>1, <3>3, <4>1 DEF HolderOK, InRelease, AllocTid, SyncTypes
    <3>4. CASE pc[u] \notin InRelease \cup AllocTid /\ ~(pc[u] = "su" /\ regs[u].sema \in Locks)
      BY <3>1, <3>4 DEF HolderOK
    <3> QED
      BY <3>2, <3>3, <3>4
  <2> QED
    BY <2>1, <2>2
<1> QED
  BY <1>3, <1>4 DEF LockInv

\* The holder that clears the holder owns the lock until it has upped its
\* semaphore.
LEMMA ClearLockInv ==
  ASSUME Good, LockInv, NEW t \in Threads, lr_clear(t)
  PROVE  LockInv'
<1> DEFINE k == regs[t].lock
<1>0. /\ CallTypes /\ SyncTypes /\ value' = value
      /\ k \in Locks /\ holder[k] = t /\ Owns(t, k)
  BY DEF Good, TypeOK, Calls, CallsOK, LockInv, HolderOK, lr_clear, At, semaVars, InRelease, Owns
<1>1. /\ Moves(t) /\ pc'[t] = "su" /\ regs'[t].sema = k
      /\ holder' = [holder EXCEPT ![k] = Null]
  BY <1>0 DEF lr_clear, CallUp, Goto, CallTypes, Registers, AllThreads, Moves
<1>2. ASSUME NEW u \in Threads, NEW l \in Locks, Owns(u, l)'
      PROVE  Owns(u, l)
  <2>1. Null \notin Threads
    BY ThreadAssumption
  <2> QED
    BY <1>0, <1>1, <1>2, <2>1 DEF Moves, Owns, SyncTypes
<1>3. LockExclusive' /\ \A l \in Locks : ValueOK(l)'
  BY <1>0, <1>2 DEF LockInv, LockExclusive, ValueOK
<1>4. ASSUME NEW u \in Threads
      PROVE  HolderOK(u)'
  <2>1. CASE u = t
    BY <1>0, <1>1, <2>1 DEF HolderOK, InRelease, AllocTid, SyncTypes
  <2>2. CASE u # t
    <3>1. HolderOK(u) /\ pc'[u] = pc[u] /\ regs'[u] = regs[u] /\ CallsOK(u)
      BY <1>1, <2>2 DEF LockInv, Moves, Good, Calls
    <3>2. pc[u] \in InRelease \cup AllocTid => regs[u].lock # k /\ regs[u].lock \in Locks
      BY <1>0, <2>2, <3>1 DEF HolderOK, CallsOK
    <3> QED
      BY <1>0, <1>1, <3>1, <3>2 DEF HolderOK, SyncTypes
  <2> QED
    BY <2>1, <2>2
<1> QED
  BY <1>3, <1>4 DEF LockInv

LEMMA LockStepLockInv ==
  ASSUME Good, LockInv, NEW t \in Threads, LockStep(t)
  PROVE  LockInv'
<1>0. CallTypes /\ CallsOK(t) /\ HolderOK(t)
  BY DEF Good, TypeOK, Calls, LockInv
<1>1. CASE la_check(t) \/ la_donee(t)
  BY <1>0, <1>1, QuietLockInv DEF la_check, la_donee, CallDown, semaVars, Goto, CallTypes,
                                  AllThreads, LockQuiet, Moves, InRelease, AllocTid
<1>2. CASE la_link(t) \/ la_donate(t) \/ la_nested(t)
  BY <1>0, <1>2, QuietLockInv DEF la_link, la_donate, la_nested, semaVars, Goto, CallTypes,
                                  AllThreads, LockQuiet, Moves, InRelease, AllocTid
<1>3. CASE la_fault(t) \/ la_corrupt(t) \/ lr_corrupt(t)
  BY <1>3, StillLockInv DEF la_fault, la_corrupt, lr_corrupt, Panic, semaVars
<1>4. CASE lr_donors(t) \/ lr_restore(t)
  BY <1>0, <1>4, QuietLockInv DEF lr_donors, lr_restore, At, HolderOK, semaVars, Goto, CallTypes,
                                  AllThreads, LockQuiet, Moves, InRelease, AllocTid
<1> QED
  BY <1>1, <1>2, <1>3, <1>4, OwnLockInv, ClearLockInv DEF LockStep

LEMMA CondStepLockInv ==
  ASSUME Good, LockInv, NEW t \in Threads, CondStep(t)
  PROVE  LockInv'
<1>0. CallTypes /\ SyncTypes /\ CallsOK(t) /\ Threads \cap Locks = {}
  BY ThreadAssumption DEF Good, TypeOK, Calls
<1>1. CASE cw_down(t) \/ cw_acquire(t)
  BY <1>0, <1>1, QuietLockInv DEF cw_down, cw_acquire, CallDown, CallAcquire, semaVars, Goto,
                                  CallTypes, AllThreads, LockQuiet, Moves, InRelease, AllocTid
<1>2. CASE cb(t)
  <2>1. regs[t].cond \in Conds
    BY <1>0, <1>2 DEF cb, At, CallsOK
  <2>2. CASE cond_waiters[regs[t].cond] = <<>>
    BY <1>0, <1>2, <2>2, QuietLockInv DEF cb, ReturnTo, semaVars, Goto, CallTypes, AllThreads,
                                          LockQuiet, Moves, InRelease, AllocTid
  <2>3. CASE cond_waiters[regs[t].cond] # <<>>
    <3>1. CallSignal(t, regs[t].cond, "cb") /\ "cb" \in Labels /\ PriorityTypes
      BY <1>2, <2>3 DEF cb, Labels, Good, TypeOK
    <3>2. \/ MovesTo(t, "cb", regs[t])
          \/ \E u \in Threads : MovesTo(t, "su", [regs[t] EXCEPT !.sema = u, !.sret = "cb"])
      BY <1>0, <2>1, <3>1, SignalMoves
    <3> QED
      BY <1>0, <1>2, <3>2, QuietLockInv DEF cb, MovesTo, semaVars, CallTypes, Registers, LockQuiet,
                                            InRelease, AllocTid
  <2> QED
    BY <2>2, <2>3
<1> QED
  BY <1>1, <1>2 DEF CondStep
LEMMA CallLockInv ==
  ASSUME Good, LockInv, NEW t \in Threads, Call(t)
  PROVE  LockInv'
<1>0. /\ CallTypes /\ SyncTypes /\ PriorityTypes
      /\ Threads \cap Locks = {} /\ Locks \cap Semas = {} /\ UserLocks \subseteq Locks
      /\ CondLock \in [Conds -> UserLocks]
  BY ThreadAssumption, KernelAssumption DEF Good, TypeOK, UserLocks
<1>1. ASSUME NEW l \in UserLocks, Acquire(t, l) \/ Release(t, l)
      PROVE  LockInv'
  BY <1>0, <1>1, QuietLockInv DEF Acquire, Release, CallAcquire, CallRelease, lockVars, semaVars,
       lock_held_by_current_thread, Goto, CallTypes, Registers, AllThreads, LockQuiet, Moves,
       InRelease, AllocTid
<1>2. ASSUME NEW s \in Semas, Down(t, s) \/ Up(t, s)
      PROVE  LockInv'
  BY <1>0, <1>2, QuietLockInv DEF Down, Up, CallDown, CallUp, lockVars, semaVars, Goto, CallTypes,
       Registers, AllThreads, LockQuiet, Moves, InRelease, AllocTid
<1>3. ASSUME NEW c \in Conds, Wait(t, c)
      PROVE  LockInv'
  <2> DEFINE l == CondLock[c]
  <2>1. l \in Locks /\ holder[l] = t /\ holder' = holder
    BY <1>0, <1>3 DEF Wait, lock_held_by_current_thread
  <2>2. \A k \in Locks : value'[k] = value[k]
    BY <1>0, <1>3 DEF Wait, CallWait, SyncTypes, SemaObjs
  <2>3. Moves(t) /\ pc'[t] = "lr_donors" /\ regs'[t].lock = l
    BY <1>0, <1>3 DEF Wait, CallWait, Goto, CallTypes, Registers, AllThreads, Moves
  <2> QED
    BY <2>1, <2>2, <2>3, QuietLockInv DEF LockQuiet, InRelease, AllocTid
<1>4. ASSUME NEW c \in Conds, Signal(t, c)
      PROVE  LockInv'
  <2>1. CallSignal(t, c, "run") /\ "run" \in Labels /\ holder' = holder /\ value' = value
    BY <1>4 DEF Signal, semaVars, Labels
  <2>2. \/ MovesTo(t, "run", NoCall)
        \/ \E u \in Threads : MovesTo(t, "su", [regs[t] EXCEPT !.sema = u, !.sret = "run"])
    BY <1>0, <2>1, SignalMoves
  <2>3. Moves(t) /\ pc'[t] \in {"run", "su"} /\ (pc'[t] = "su" => regs'[t].sema \in Threads)
    <3>1. CASE MovesTo(t, "run", NoCall)
      BY <3>1 DEF MovesTo
    <3>2. ASSUME NEW u \in Threads, MovesTo(t, "su", [regs[t] EXCEPT !.sema = u, !.sret = "run"])
          PROVE  Moves(t) /\ pc'[t] = "su" /\ regs'[t].sema = u
      BY <1>0, <3>2 DEF MovesTo, CallTypes, Registers
    <3> QED
      BY <2>2, <3>1, <3>2
  <2>4. LockQuiet(t)
    BY <1>0, <2>1, <2>3 DEF LockQuiet, InRelease, AllocTid
  <2> QED
    BY <1>0, <2>4, QuietLockInv
<1>5. ASSUME NEW c \in Conds, Broadcast(t, c)
      PROVE  LockInv'
  BY <1>0, <1>5, QuietLockInv DEF Broadcast, CallBroadcast, lockVars, semaVars, Goto, CallTypes,
       AllThreads, LockQuiet, Moves, InRelease, AllocTid
<1>6. ASSUME NEW p \in Priorities, SetPriority(t, p)
      PROVE  LockInv'
  BY <1>0, <1>6, QuietLockInv DEF SetPriority, CallSetPriority, ReturnTo, lockVars, semaVars, Goto,
       CallTypes, AllThreads, LockQuiet, Moves, InRelease, AllocTid
<1>7. ASSUME NEW c \in Threads, NEW p \in Priorities, Create(t, c, p)
      PROVE  LockInv'
  BY <1>0, <1>7, QuietLockInv DEF Create, CallCreate, lockVars, semaVars, Goto, CallTypes,
       AllThreads, LockQuiet, Moves, InRelease, AllocTid
<1>8. CASE Exit(t)
  BY <1>0, <1>8, QuietLockInv DEF Exit, thread_exit, lockVars, semaVars, Goto, CallTypes,
       AllThreads, LockQuiet, Moves, InRelease, AllocTid
<1> QED
  BY <1>1, <1>2, <1>3, <1>4, <1>5, <1>6, <1>7, <1>8 DEF Call

\* Every step of the kernel keeps the exclusion of the locks.
LEMMA NextLockInv ==
  ASSUME Good, LockInv, [Next]_vars
  PROVE  LockInv'
<1>1. ASSUME NEW t \in Threads, Step(t)
      PROVE  LockInv'
  BY <1>1, ThreadStepQuiet, QuietLockInv, SemaStepLockInv, LockStepLockInv, CondStepLockInv DEF Step
<1>2. CASE Tick \/ IdleTurn \/ UNCHANGED vars
  BY <1>2, StillLockInv DEF Tick, thread_tick, IdleTurn, idle, lockVars, semaVars, vars
<1>3. CASE Interrupt
  <2>1. PICK s \in Semas : intr_up(s)
    BY <1>3 DEF Interrupt
  <2>2. SyncTypes /\ s \notin Locks /\ s \in SemaObjs
    BY <2>1, ThreadAssumption DEF Good, TypeOK, SemaObjs
  <2>3. value' = [value EXCEPT ![s] = @ + 1]
    BY <2>1 DEF intr_up, wake
  <2>4. \A l \in Locks : value'[l] = value[l]
    BY <2>2, <2>3 DEF SyncTypes, SemaObjs
  <2> QED
    BY <2>1, <2>4, StillLockInv DEF intr_up
<1> QED
  BY <1>1, <1>2, <1>3, CallLockInv DEF Next

\* No two threads ever own the same lock: not between semaphore_down() and the
\* store of the holder in lock_acquire() (lock.c:97-98), nor between the reset
\* of the holder and semaphore_up() in lock_release() (lock.c:135-136).
THEOREM LockMutualExclusion == Spec => []LockExclusive
<1>1. Init => Good /\ LockInv
  BY InitInv DEF Inv, Good
<1>2. Good /\ LockInv /\ [Next]_vars => (Good /\ LockInv)'
  BY NextGood, NextLockInv
<1>3. LockInv => LockExclusive
  BY DEF LockInv
<1> QED
  BY <1>1, <1>2, <1>3, PTL DEF Spec

----------------------------------------------------------------------------
(* tid_lock, and waiters on condition variables. *)

\* t is in lock_acquire(), or in semaphore_down() for it.
Acquiring(t) ==
  pc[t] \in InAcquire \/ (pc[t] \in {"sd", "sd_woken"} /\ regs[t].sret = "la_own")

\* t is in semaphore_up(), or in the calls that it makes.
Upping(t) ==
  pc[t] \in InUp \/ (pc[t] \in {"sp_set", "sp_scan"} /\ regs[t].pret = "su_yield")

\* t is in condvar_wait() and has given up the lock, but does not ask for it yet.
Parked(t) ==
  \/ Upping(t) /\ regs[t].sret = "cw_down"
  \/ pc[t] \in {"cw_down", "cw_acquire"}
  \/ pc[t] \in {"sd", "sd_woken"} /\ regs[t].sret = "cw_acquire"

\* The lock tid_lock is taken by allocate_tid() only, and a thread that waits for a
\* signal has released its lock.
TidLockOK(t) ==
  /\ regs[t].waiter => regs[t].lock # TidLock
  /\ Acquiring(t) => (regs[t].lock = TidLock <=> regs[t].lret = "tc_read")
  /\ pc[t] \in AllocTid => regs[t].lock = TidLock
  /\ holder[TidLock] = t => pc[t] \in AllocTid \cup InRelease /\ regs[t].lock = TidLock
  /\ Parked(t) => holder[regs[t].lock] # t
  /\ pc[t] = "run" => ~regs[t].waiter

\* t has a tid for the thread that it creates, which does not have it yet.
Pending(t) ==
  \/ pc[t] = "tc_unblock"
  \/ (pc[t] \in InRelease \/ Upping(t)) /\ regs[t].sret = "tc_unblock"

TidInv ==
  /\ TidsUnique
  /\ \A t \in Threads : tid[t] < next_tid
  /\ \A t \in Threads : pc[t] = "tc_incr" => regs[t].tid = next_tid
  /\ \A t \in Threads : Pending(t) =>
       /\ regs[t].tid < next_tid
       /\ \A u \in Threads : tid[u] # regs[t].tid
       /\ \A u \in Threads : Pending(u) /\ regs[u].tid = regs[t].tid => u = t

TidLockInv == \A t \in Threads : TidLockOK(t)

\* t creates a thread that has not started.
Creating(t) ==
  \/ Acquiring(t) /\ regs[t].lret = "tc_read"
  \/ pc[t] \in AllocTid
  \/ Pending(t)

\* The new thread is blocked, but waits for no semaphore, and only its creator
\* will unblock it.
ChildOK(t) ==
  Creating(t) =>
    /\ status[regs[t].child] = "BLOCKED" /\ pc[regs[t].child] = "run"
    /\ \A u \in Threads : Creating(u) /\ regs[u].child = regs[t].child => u = t

\* The run queue and the statuses belong together.
QueueOK ==
  /\ \A t \in AllThreads : status[t] = "RUNNING" <=> t = cur
  /\ IsInjective(ready_list)
  /\ \A t \in Threads : status[t] = "READY" <=> t \in ToSet(ready_list)

\* So do the wait list of s and the threads in it.
WaitersOK(s) ==
  /\ IsInjective(waiters[s])
  /\ \A t \in ToSet(waiters[s]) :
       status[t] = "BLOCKED" /\ pc[t] = "sd_woken" /\ regs[t].sema = s

ElemInv ==
  /\ QueueOK
  /\ \A s \in SemaObjs : WaitersOK(s)
  /\ \A t \in Threads : ChildOK(t)
  /\ \A t \in Threads : status[t] = "UNUSED" => pc[t] = "run"

MoreInv == TidInv /\ TidLockInv /\ ElemInv

----------------------------------------------------------------------------
(* The holders of the locks. *)

\* A step of t leaves what others hold.
OthersKeep(t) ==
  /\ Moves(t)
  /\ \A u \in Threads, l \in Locks : u # t => (holder'[l] = u <=> holder[l] = u)

\* A holder changes only where lock.c stores one.
LEMMA StepHolder ==
  ASSUME Good, NEW t \in Threads, Call(t) \/ Step(t)
  PROVE  \/ holder' = holder
         \/ la_own(t) \/ lr_clear(t)
<1>1. CASE Call(t)
  BY <1>1 DEF Call, Acquire, Release, Down, Up, Wait, Signal, Broadcast, SetPriority, Create, Exit,
              lockVars
<1>2. CASE Step(t)
  <2>1. CASE ThreadStep(t) /\ UNCHANGED lockVars
    BY <2>1 DEF lockVars
  <2>2. CASE SemaStep(t)
    BY <2>2 DEF SemaStep, sd_take, sd_block, sd_fault, su, su_preempt, su_scan, su_restore, su_yield
  <2>3. CASE LockStep(t)
    BY <2>3 DEF LockStep, la_check, la_link, la_donate, la_nested, la_donee, la_fault, la_corrupt,
                lr_donors, lr_restore, lr_corrupt
  <2>4. CASE CondStep(t)
    BY <2>4 DEF CondStep, cw_down, cw_acquire, cb
  <2> QED
    BY <1>2, <2>1, <2>2, <2>3, <2>4 DEF Step
<1> QED
  BY <1>1, <1>2

\* A step of t moves t only.
LEMMA StepMoves ==
  ASSUME Good, NEW t \in Threads, Call(t) \/ Step(t)
  PROVE  Moves(t)
<1>0. CallTypes /\ PriorityTypes /\ SyncTypes /\ CallsOK(t)
  BY DEF Good, TypeOK, Calls
<1>1. CASE Call(t)
  <2>1. ASSUME NEW c \in Conds, Signal(t, c)
        PROVE  Moves(t)
    BY <1>0, <2>1, SignalMoves DEF Signal, Labels, MovesTo
  <2>2. ASSUME NEW c \in Conds, Wait(t, c)
        PROVE  Moves(t)
    BY <1>0, <2>2 DEF Wait, CallWait, Goto, CallTypes, AllThreads, Moves
  <2>3. ASSUME NEW c \in Conds, Broadcast(t, c)
        PROVE  Moves(t)
    BY <1>0, <2>3 DEF Broadcast, CallBroadcast, Goto, CallTypes, AllThreads, Moves
  <2>4. ASSUME NEW p \in Priorities, SetPriority(t, p)
        PROVE  Moves(t)
    BY <1>0, <2>4 DEF SetPriority, CallSetPriority, ReturnTo, Goto, CallTypes, AllThreads, Moves
  <2>5. ASSUME NEW c \in Threads, NEW p \in Priorities, Create(t, c, p)
        PROVE  Moves(t)
    BY <1>0, <2>5 DEF Create, CallCreate, Goto, CallTypes, AllThreads, Moves
  <2>6. ASSUME NEW l, Acquire(t, l) \/ Release(t, l) \/ Down(t, l) \/ Up(t, l) \/ Exit(t)
        PROVE  Moves(t)
    BY <1>0, <2>6 DEF Acquire, Release, Down, Up, Exit, CallAcquire, CallRelease, CallDown, CallUp,
                      thread_exit, Goto, CallTypes, AllThreads, Moves
  <2> QED
    BY <1>1, <2>1, <2>2, <2>3, <2>4, <2>5, <2>6 DEF Call
<1>2. CASE Step(t)
  <2>1. CASE ThreadStep(t)
    BY <1>0, <2>1 DEF ThreadStep, sp_set, sp_scan, tc_read, tc_incr, tc_unblock, tc_compare,
                      ReturnTo, Goto, CallTypes, AllThreads, Moves
  <2>2. CASE SemaStep(t)
    BY <1>0, <2>2 DEF SemaStep, sd_take, sd_block, sd_fault, su, su_preempt, su_scan, su_restore,
                      su_yield, CallSetPriority, ReturnTo, Goto, Panic, CallTypes, AllThreads, Moves
  <2>3. CASE LockStep(t)
    BY <1>0, <2>3 DEF LockStep, la_check, la_link, la_donate, la_nested, la_donee, la_fault,
                      la_corrupt, la_own, lr_donors, lr_restore, lr_corrupt, lr_clear, CallDown,
                      CallUp, ReturnTo, Goto, Panic, CallTypes, AllThreads, Moves
  <2>4. CASE cw_down(t) \/ cw_acquire(t)
    BY <1>0, <2>4 DEF cw_down, cw_acquire, CallDown, CallAcquire, Goto, CallTypes, AllThreads, Moves
  <2>5. CASE cb(t)
    <3>1. regs[t].cond \in Conds
      BY <1>0, <2>5 DEF cb, At, CallsOK
    <3>2. CASE cond_waiters[regs[t].cond] = <<>>
      BY <1>0, <2>5, <3>2 DEF cb, ReturnTo, Goto, CallTypes, AllThreads, Moves
    <3>3. CASE cond_waiters[regs[t].cond] # <<>>
      BY <1>0, <2>5, <3>1, <3>3, SignalMoves DEF cb, Labels, MovesTo
    <3> QED
      BY <3>2, <3>3
  <2> QED
    BY <1>2, <2>1, <2>2, <2>3, <2>4, <2>5 DEF Step, CondStep
<1> QED
  BY <1>1, <1>2

LEMMA StepOthersKeep ==
  ASSUME Good, LockInv, NEW t \in Threads, Call(t) \/ Step(t)
  PROVE  OthersKeep(t)
<1>0. Moves(t) /\ SyncTypes /\ CallsOK(t) /\ HolderOK(t) /\ Null \notin Threads
  BY StepMoves, ThreadAssumption DEF Good, TypeOK, Calls, LockInv
<1>1. CASE holder' = holder
  BY <1>0, <1>1 DEF OthersKeep
<1>2. CASE la_own(t)
  <2> DEFINE k == regs[t].lock
  <2>1. k \in Locks /\ Owns(t, k) /\ holder' = [holder EXCEPT ![k] = t]
    BY <1>0, <1>2 DEF la_own, At, CallsOK, InAcquire, Owns
  <2>2. \A u \in Threads : u # t => holder[k] # u
    BY <2>1 DEF LockInv, LockExclusive, Owns
  <2> QED
    BY <1>0, <2>1, <2>2 DEF OthersKeep, SyncTypes
<1>3. CASE lr_clear(t)
  <2>1. /\ regs[t].lock \in Locks /\ holder[regs[t].lock] = t
        /\ holder' = [holder EXCEPT ![regs[t].lock] = Null]
    BY <1>0, <1>3 DEF lr_clear, At, CallsOK, HolderOK, InRelease
  <2> QED
    BY <1>0, <2>1 DEF OthersKeep, SyncTypes
<1> QED
  BY <1>1, <1>2, <1>3, StepHolder

----------------------------------------------------------------------------
(* tid_lock *)

LEMMA TidLockMoves ==
  ASSUME Good, TidLockInv, NEW t \in Threads, OthersKeep(t), TidLockOK(t)'
  PROVE  TidLockInv'
<1> SUFFICES ASSUME NEW u \in Threads, u # t
             PROVE  TidLockOK(u)'
  BY DEF TidLockInv
<1>1. pc'[u] = pc[u] /\ regs'[u] = regs[u] /\ TidLockOK(u) /\ CallsOK(u) /\ TidLock \in Locks
  BY ThreadAssumption DEF OthersKeep, Moves, TidLockInv, Good, Calls
<1>2. Acquiring(u)' = Acquiring(u) /\ Parked(u)' = Parked(u)
  BY <1>1 DEF Acquiring, Parked, Upping
<1>3. Parked(u) => regs[u].lock \in Locks
  BY <1>1 DEF Parked, Upping, CallsOK, UpReturn, DownReturn
<1> QED
  BY <1>1, <1>2, <1>3 DEF TidLockOK, OthersKeep

\* Back in its own function t waits for no signal and does not hold tid_lock.
LEMMA RunTidLock ==
  ASSUME NEW t \in Threads, TidLockOK(t), MovesTo(t, "run", NoCall), holder' = holder,
         pc[t] \notin AllocTid \cup InRelease
  PROVE  TidLockOK(t)'
BY ThreadAssumption DEF MovesTo, NoCall, TidLockOK, Acquiring, Parked, Upping, InAcquire, InRelease,
                        InUp, AllocTid

LEMMA ThreadStepTidLock ==
  ASSUME Good, TidLockInv, NEW t \in Threads, ThreadStep(t), holder' = holder
  PROVE  TidLockOK(t)'
<1>0. CallTypes /\ CallsOK(t) /\ TidLockOK(t) /\ TidLock \in Locks
  BY ThreadAssumption DEF Good, TypeOK, Calls, TidLockInv
<1> USE DEF TidLockOK, Acquiring, Parked, Upping, InAcquire, InRelease, InUp, AllocTid
<1>1. CASE sp_set(t) \/ tc_unblock(t)
  BY <1>0, <1>1 DEF sp_set, tc_unblock, At, Goto, CallTypes, AllThreads
<1>2. CASE sp_scan(t) \/ tc_compare(t)
  <2> DEFINE label == IF pc[t] = "sp_scan" THEN regs[t].pret ELSE "run"
  <2>1. ReturnTo(t, label) /\ label \in {"run", "su_yield"} /\ label \in Labels
    BY <1>0, <1>2 DEF sp_scan, tc_compare, At, CallsOK, Labels
  <2>2. MovesTo(t, label, IF label = "run" THEN NoCall ELSE regs[t])
    BY <1>0, <2>1, ReturnMoves
  <2>3. pc[t] \in {"sp_scan", "tc_compare"} /\ (label = "su_yield" => Upping(t))
    BY <1>2 DEF sp_scan, tc_compare, At
  <2> HIDE DEF label
  <2>4. CASE label = "run"
    BY <1>0, <2>2, <2>3, <2>4, RunTidLock
  <2>5. CASE label = "su_yield"
    BY <1>0, <2>2, <2>3, <2>5 DEF MovesTo
  <2> QED
    BY <2>1, <2>4, <2>5
<1>3. CASE tc_read(t) \/ tc_incr(t)
  BY <1>0, <1>3 DEF tc_read, tc_incr, At, Goto, CallTypes, AllThreads, Registers
<1> QED
  BY <1>1, <1>2, <1>3 DEF ThreadStep

LEMMA SemaStepTidLock ==
  ASSUME Good, TidLockInv, NEW t \in Threads, SemaStep(t)
  PROVE  TidLockOK(t)'
<1>0. CallTypes /\ CallsOK(t) /\ TidLockOK(t) /\ TidLock \in Locks
  BY ThreadAssumption DEF Good, TypeOK, Calls, TidLockInv
<1> USE DEF TidLockOK, Acquiring, Parked, Upping, InAcquire, InRelease, InUp, AllocTid
<1>1. CASE sd_take(t)
  BY <1>0, <1>1, ThreadAssumption DEF sd_take, At, ReturnTo, Goto, CallTypes, AllThreads, CallsOK,
                                      DownReturn, NoCall
<1>2. CASE sd_block(t)
  BY <1>0, <1>2 DEF sd_block, At, Goto, CallTypes, AllThreads
<1>3. CASE sd_fault(t)
  BY <1>0, <1>3 DEF sd_fault, Panic
<1>4. CASE su(t)
  BY <1>0, <1>4 DEF su, At, Goto, CallTypes, AllThreads, Registers
<1>5. CASE su_preempt(t) \/ su_scan(t)
  BY <1>0, <1>5 DEF su_preempt, su_scan, At, Goto, CallTypes, AllThreads
<1>6. CASE su_restore(t)
  <2>1. /\ pc'[t] \in {"su_yield", "sp_set"} /\ regs'[t].pret \in {regs[t].pret, "su_yield"}
        /\ pc'[t] = "sp_set" => regs'[t].pret = "su_yield"
        /\ regs'[t].lock = regs[t].lock /\ regs'[t].sret = regs[t].sret
        /\ regs'[t].waiter = regs[t].waiter /\ regs'[t].lret = regs[t].lret
    BY <1>0, <1>6 DEF su_restore, CallSetPriority, ReturnTo, Goto, CallTypes, AllThreads, Registers
  <2>2. pc[t] = "su_restore" /\ holder' = holder
    BY <1>6 DEF su_restore, At
  <2> QED
    BY <1>0, <2>1, <2>2
<1>7. CASE su_yield(t)
  BY <1>0, <1>7, ThreadAssumption DEF su_yield, At, ReturnTo, Goto, CallTypes, AllThreads, CallsOK,
                                      UpReturn, NoCall
<1> QED
  BY <1>1, <1>2, <1>3, <1>4, <1>5, <1>6, <1>7 DEF SemaStep

LEMMA LockStepTidLock ==
  ASSUME Good, LockInv, TidLockInv, NEW t \in Threads, LockStep(t)
  PROVE  TidLockOK(t)'
<1>0. CallTypes /\ SyncTypes /\ CallsOK(t) /\ HolderOK(t) /\ TidLockOK(t) /\ TidLock \in Locks
  BY ThreadAssumption DEF Good, TypeOK, Calls, TidLockInv, LockInv
<1> USE DEF TidLockOK, Acquiring, Parked, Upping, InAcquire, InRelease, InUp, AllocTid
<1>1. CASE la_check(t) \/ la_donee(t)
  BY <1>0, <1>1 DEF la_check, la_donee, At, CallDown, Goto, CallTypes, AllThreads, Registers
<1>2. CASE la_link(t) \/ la_donate(t) \/ la_nested(t)
  BY <1>0, <1>2 DEF la_link, la_donate, la_nested, At, Goto, CallTypes, AllThreads
<1>3. CASE la_fault(t) \/ la_corrupt(t) \/ lr_corrupt(t)
  BY <1>0, <1>3 DEF la_fault, la_corrupt, lr_corrupt, Panic
<1>4. CASE lr_donors(t) \/ lr_restore(t)
  BY <1>0, <1>4 DEF lr_donors, lr_restore, At, Goto, CallTypes, AllThreads
<1>5. CASE la_own(t)
  BY <1>0, <1>5, ThreadAssumption DEF la_own, At, ReturnTo, Goto, CallTypes, SyncTypes, AllThreads,
                                      CallsOK, NoCall
<1>6. CASE lr_clear(t)
  BY <1>0, <1>6, ThreadAssumption DEF lr_clear, At, CallUp, Goto, CallTypes, SyncTypes, AllThreads,
                                      CallsOK, UpReturn, HolderOK, Registers
<1> QED
  BY <1>1, <1>2, <1>3, <1>4, <1>5, <1>6 DEF LockStep

LEMMA CondStepTidLock ==
  ASSUME Good, TidLockInv, NEW t \in Threads, CondStep(t)
  PROVE  TidLockOK(t)'
<1>0. CallTypes /\ PriorityTypes /\ SyncTypes /\ CallsOK(t) /\ TidLockOK(t) /\ TidLock \in Locks
  BY ThreadAssumption DEF Good, TypeOK, Calls, TidLockInv
<1> USE DEF TidLockOK, Acquiring, Parked, Upping, InAcquire, InRelease, InUp, AllocTid
<1>1. CASE cw_down(t) \/ cw_acquire(t)
  BY <1>0, <1>1 DEF cw_down, cw_acquire, At, CallDown, CallAcquire, Goto, CallTypes, AllThreads,
                    Registers, CallsOK
<1>2. CASE cb(t)
  <2>1. regs[t].cond \in Conds
    BY <1>0, <1>2 DEF cb, At, CallsOK
  <2>2. CASE cond_waiters[regs[t].cond] = <<>>
    BY <1>0, <1>2, <2>2, ThreadAssumption DEF cb, At, ReturnTo, Goto, CallTypes, AllThreads, NoCall
  <2>3. CASE cond_waiters[regs[t].cond] # <<>>
    <3>1. CallSignal(t, regs[t].cond, "cb") /\ "cb" \in Labels
      BY <1>2, <2>3 DEF cb, Labels
    <3>2. \/ MovesTo(t, "cb", regs[t])
          \/ \E u \in Threads : MovesTo(t, "su", [regs[t] EXCEPT !.sema = u, !.sret = "cb"])
      BY <1>0, <2>1, <3>1, SignalMoves
    <3> QED
      BY <1>0, <1>2, <3>2 DEF cb, At, MovesTo, CallTypes, Registers
  <2> QED
    BY <2>2, <2>3
<1> QED
  BY <1>1, <1>2 DEF CondStep

LEMMA CallTidLock ==
  ASSUME Good, TidLockInv, NEW t \in Threads, Call(t)
  PROVE  TidLockOK(t)'
<1>0. /\ CallTypes /\ PriorityTypes /\ SyncTypes /\ CallsOK(t) /\ TidLockOK(t)
      /\ TidLock \in Locks /\ TidLock \notin UserLocks /\ UserLocks \subseteq Locks
      /\ CondLock \in [Conds -> UserLocks]
  BY ThreadAssumption, KernelAssumption DEF Good, TypeOK, Calls, TidLockInv, UserLocks
<1> USE DEF TidLockOK, Acquiring, Parked, Upping, InAcquire, InRelease, InUp, AllocTid
<1>1. ASSUME NEW l \in UserLocks, Acquire(t, l) \/ Release(t, l)
      PROVE  TidLockOK(t)'
  BY <1>0, <1>1 DEF Acquire, Release, Calling, At, CallAcquire, CallRelease, lockVars, Goto, CallTypes,
       AllThreads, Registers
<1>2. ASSUME NEW s \in Semas, Down(t, s) \/ Up(t, s)
      PROVE  TidLockOK(t)'
  BY <1>0, <1>2 DEF Down, Up, Calling, At, CallDown, CallUp, lockVars, Goto, CallTypes, AllThreads,
       Registers
<1>3. ASSUME NEW c \in Conds, Wait(t, c)
      PROVE  TidLockOK(t)'
  BY <1>0, <1>3 DEF Wait, Calling, At, CallWait, Goto, CallTypes, AllThreads, Registers
<1>4. ASSUME NEW c \in Conds, Signal(t, c)
      PROVE  TidLockOK(t)'
  <2>1. /\ CallSignal(t, c, "run") /\ "run" \in Labels /\ holder' = holder
        /\ pc[t] = "run"
    BY <1>4 DEF Signal, Calling, At, Labels
  <2>2. \/ MovesTo(t, "run", NoCall)
        \/ \E u \in Threads : MovesTo(t, "su", [regs[t] EXCEPT !.sema = u, !.sret = "run"])
    BY <1>0, <2>1, SignalMoves
  <2>3. CASE MovesTo(t, "run", NoCall)
    BY <1>0, <2>1, <2>3, RunTidLock
  <2>4. ASSUME NEW u \in Threads, MovesTo(t, "su", [regs[t] EXCEPT !.sema = u, !.sret = "run"])
        PROVE  TidLockOK(t)'
    <3>1. /\ pc'[t] = "su" /\ regs'[t].sret = "run" /\ regs'[t].lock = regs[t].lock
          /\ regs'[t].lret = regs[t].lret /\ regs'[t].waiter = regs[t].waiter
      BY <1>0, <2>4 DEF MovesTo, CallTypes, Registers
    <3> QED
      BY <1>0, <2>1, <3>1
  <2> QED
    BY <2>2, <2>3, <2>4
<1>5. ASSUME NEW c \in Conds, Broadcast(t, c)
      PROVE  TidLockOK(t)'
  BY <1>0, <1>5 DEF Broadcast, Calling, At, CallBroadcast, lockVars, Goto, CallTypes, AllThreads,
       Registers
<1>6. ASSUME NEW p \in Priorities, SetPriority(t, p)
      PROVE  TidLockOK(t)'
  <2>1. pc[t] = "run" /\ holder' = holder /\ "run" \in Labels
    BY <1>6 DEF SetPriority, Calling, At, lockVars, Labels
  <2>2. CASE ReturnTo(t, "run")
    BY <1>0, <2>1, <2>2, ReturnMoves, RunTidLock
  <2>3. CASE Goto(t, "sp_set") /\ regs' = [regs EXCEPT ![t].pret = "run"]
    BY <1>0, <2>1, <2>3 DEF Goto, CallTypes, AllThreads, Registers
  <2> QED
    BY <1>6, <2>2, <2>3 DEF SetPriority, CallSetPriority
<1>7. ASSUME NEW c \in Threads, NEW p \in Priorities, Create(t, c, p)
      PROVE  TidLockOK(t)'
  BY <1>0, <1>7 DEF Create, Calling, At, CallCreate, lockVars, Goto, CallTypes, AllThreads, Registers
<1>8. CASE Exit(t)
  BY <1>0, <1>8 DEF Exit, thread_exit, At, lockVars, Goto, CallTypes, AllThreads
<1> QED
  BY <1>1, <1>2, <1>3, <1>4, <1>5, <1>6, <1>7, <1>8 DEF Call

LEMMA NextTidLock ==
  ASSUME Good, LockInv, TidLockInv, [Next]_vars
  PROVE  TidLockInv'
<1>1. ASSUME NEW t \in Threads, Call(t) \/ Step(t)
      PROVE  TidLockInv'
  <2>1. OthersKeep(t)
    BY <1>1, StepOthersKeep
  <2>2. TidLockOK(t)'
    BY <1>1, ThreadStepTidLock, SemaStepTidLock, LockStepTidLock, CondStepTidLock, CallTidLock
       DEF Step, lockVars
  <2> QED
    BY <2>1, <2>2, TidLockMoves
<1>2. CASE Tick \/ IdleTurn \/ Interrupt \/ UNCHANGED vars
  <2>1. pc' = pc /\ regs' = regs /\ holder' = holder
    BY <1>2 DEF Tick, thread_tick, IdleTurn, idle, Interrupt, intr_up, lockVars, vars
  <2> QED
    BY <2>1 DEF TidLockInv, TidLockOK, Acquiring, Parked, Upping
<1> QED
  BY <1>1, <1>2 DEF Next

LEMMA InitTidLock == Init => TidLockInv
<1> SUFFICES ASSUME Init, NEW t \in Threads
             PROVE  TidLockOK(t)
  BY DEF TidLockInv
<1>1. pc[t] = "run" /\ regs[t] = NoCall /\ holder[TidLock] = Null /\ Null # t /\ TidLock \in Locks
  BY ThreadAssumption DEF Init, AllThreads
<1> QED
  BY <1>1, ThreadAssumption DEF TidLockOK, Acquiring, Parked, Upping, InAcquire, InRelease, InUp, AllocTid, NoCall

----------------------------------------------------------------------------
(* What a step of t leaves as it is: the locks that t owns and the one that it
   asks for, the tid that it has in hand, the thread that it creates. *)

SteadyLocks(t) ==
  /\ AsksFor(t)' = AsksFor(t)
  /\ \A l \in Locks : Owns(t, l)' <=> Owns(t, l)

SteadyTid(t) ==
  /\ pc'[t] # "tc_incr"
  /\ Pending(t)' => Pending(t) /\ regs'[t].tid = regs[t].tid

SteadyChild(t) ==
  Creating(t)' => Creating(t) /\ regs'[t].child = regs[t].child

Steady(t) == SteadyLocks(t) /\ SteadyTid(t) /\ SteadyChild(t)

LEMMA RunSteady ==
  ASSUME NEW t \in Threads, MovesTo(t, "run", NoCall), holder' = holder,
         pc[t] \notin {"la_own", "su", "la_check", "la_link", "la_donate", "la_nested", "la_donee",
                       "sd", "sd_woken"}
  PROVE  Steady(t)
BY DEF MovesTo, Steady, SteadyLocks, SteadyTid, SteadyChild, AsksFor, Owns, Pending, Creating,
       Acquiring, Upping, InAcquire, InRelease, InUp, AllocTid

LEMMA ThreadSteady ==
  ASSUME Good, NEW t \in Threads, ThreadStep(t), holder' = holder
  PROVE  /\ SteadyLocks(t) /\ SteadyChild(t)
         /\ SteadyTid(t) \/ tc_read(t) \/ tc_incr(t)
<1>0. CallTypes /\ CallsOK(t)
  BY DEF Good, TypeOK, Calls
<1> USE DEF Steady, SteadyLocks, SteadyTid, SteadyChild, AsksFor, Owns, Pending, Creating, Acquiring,
            Upping, InAcquire, InRelease, InUp, AllocTid
<1>1. CASE sp_set(t) \/ tc_unblock(t)
  BY <1>0, <1>1 DEF sp_set, tc_unblock, At, Goto, CallTypes, AllThreads
<1>2. CASE sp_scan(t) \/ tc_compare(t)
  <2> DEFINE label == IF pc[t] = "sp_scan" THEN regs[t].pret ELSE "run"
  <2>1. ReturnTo(t, label) /\ label \in {"run", "su_yield"} /\ label \in Labels
    BY <1>0, <1>2 DEF sp_scan, tc_compare, At, CallsOK, Labels
  <2>2. MovesTo(t, label, IF label = "run" THEN NoCall ELSE regs[t])
    BY <1>0, <2>1, ReturnMoves
  <2>3. pc[t] \in {"sp_scan", "tc_compare"} /\ (label = "su_yield" => Upping(t))
    BY <1>2 DEF sp_scan, tc_compare, At
  <2> HIDE DEF label
  <2>4. CASE label = "run"
    BY <1>0, <2>2, <2>3, <2>4, RunSteady
  <2>5. CASE label = "su_yield"
    BY <1>0, <2>2, <2>3, <2>5 DEF MovesTo
  <2> QED
    BY <2>1, <2>4, <2>5
<1>3. CASE tc_read(t) \/ tc_incr(t)
  BY <1>0, <1>3 DEF tc_read, tc_incr, At, Goto, CallTypes, AllThreads, Registers
<1> QED
  BY <1>1, <1>2, <1>3 DEF ThreadStep

LEMMA SemaSteady ==
  ASSUME Good, NEW t \in Threads, SemaStep(t)
  PROVE  /\ SteadyTid(t) /\ SteadyChild(t)
         /\ SteadyLocks(t) \/ sd_take(t) \/ su(t)
<1>0. CallTypes /\ CallsOK(t)
  BY DEF Good, TypeOK, Calls
<1> USE DEF Steady, SteadyLocks, SteadyTid, SteadyChild, AsksFor, Owns, Pending, Creating, Acquiring,
            Upping, InAcquire, InRelease, InUp, AllocTid
<1>1. CASE sd_take(t)
  BY <1>0, <1>1, ThreadAssumption DEF sd_take, At, ReturnTo, Goto, CallTypes, AllThreads, CallsOK,
                                      DownReturn, NoCall
<1>2. CASE sd_block(t)
  BY <1>0, <1>2 DEF sd_block, At, Goto, CallTypes, AllThreads
<1>3. CASE sd_fault(t)
  BY <1>0, <1>3 DEF sd_fault, Panic, At
<1>4. CASE su(t)
  BY <1>0, <1>4 DEF su, At, Goto, CallTypes, AllThreads, Registers
<1>5. CASE su_preempt(t) \/ su_scan(t)
  BY <1>0, <1>5 DEF su_preempt, su_scan, At, Goto, CallTypes, AllThreads
<1>6. CASE su_restore(t)
  <2>1. /\ pc'[t] \in {"su_yield", "sp_set"} /\ regs'[t].sret = regs[t].sret
        /\ regs'[t].tid = regs[t].tid /\ regs'[t].child = regs[t].child
    BY <1>0, <1>6 DEF su_restore, CallSetPriority, ReturnTo, Goto, CallTypes, AllThreads, Registers
  <2>2. pc[t] = "su_restore" /\ holder' = holder
    BY <1>6 DEF su_restore, At
  <2> QED
    BY <1>0, <2>1, <2>2
<1>7. CASE su_yield(t)
  BY <1>0, <1>7, ThreadAssumption DEF su_yield, At, ReturnTo, Goto, CallTypes, AllThreads, CallsOK,
                                      UpReturn, NoCall
<1> QED
  BY <1>1, <1>2, <1>3, <1>4, <1>5, <1>6, <1>7 DEF SemaStep

LEMMA LockSteady ==
  ASSUME Good, LockInv, NEW t \in Threads, LockStep(t)
  PROVE  Steady(t)
<1>0. CallTypes /\ SyncTypes /\ CallsOK(t) /\ HolderOK(t) /\ Null \notin Threads
  BY ThreadAssumption DEF Good, TypeOK, Calls, LockInv
<1> USE DEF Steady, SteadyLocks, SteadyTid, SteadyChild, AsksFor, Owns, Pending, Creating, Acquiring,
            Upping, InAcquire, InRelease, InUp, AllocTid
<1>1. CASE la_check(t) \/ la_donee(t)
  BY <1>0, <1>1 DEF la_check, la_donee, At, CallDown, Goto, CallTypes, AllThreads, Registers
<1>2. CASE la_link(t) \/ la_donate(t) \/ la_nested(t)
  BY <1>0, <1>2 DEF la_link, la_donate, la_nested, At, Goto, CallTypes, AllThreads
<1>3. CASE la_fault(t) \/ la_corrupt(t) \/ lr_corrupt(t)
  BY <1>0, <1>3 DEF la_fault, la_corrupt, lr_corrupt, Panic, At
<1>4. CASE lr_donors(t) \/ lr_restore(t)
  BY <1>0, <1>4 DEF lr_donors, lr_restore, At, Goto, CallTypes, AllThreads
<1>5. CASE la_own(t)
  BY <1>0, <1>5 DEF la_own, At, ReturnTo, Goto, CallTypes, SyncTypes, AllThreads, CallsOK, NoCall
<1>6. CASE lr_clear(t)
  BY <1>0, <1>6 DEF lr_clear, At, CallUp, Goto, CallTypes, SyncTypes, AllThreads, CallsOK, HolderOK,
                    Registers
<1> QED
  BY <1>1, <1>2, <1>3, <1>4, <1>5, <1>6 DEF LockStep

LEMMA CondSteady ==
  ASSUME Good, NEW t \in Threads, CondStep(t)
  PROVE  /\ SteadyTid(t) /\ SteadyChild(t)
         /\ SteadyLocks(t) \/ cw_acquire(t)
<1>0. CallTypes /\ PriorityTypes /\ SyncTypes /\ CallsOK(t) /\ Threads \cap Locks = {}
  BY ThreadAssumption DEF Good, TypeOK, Calls
<1> USE DEF Steady, SteadyLocks, SteadyTid, SteadyChild, AsksFor, Owns, Pending, Creating, Acquiring,
            Upping, InAcquire, InRelease, InUp, AllocTid
<1>1. CASE cw_down(t) \/ cw_acquire(t)
  BY <1>0, <1>1 DEF cw_down, cw_acquire, At, CallDown, CallAcquire, Goto, CallTypes, AllThreads,
                    Registers, CallsOK
<1>2. CASE cb(t)
  <2>1. regs[t].cond \in Conds
    BY <1>0, <1>2 DEF cb, At, CallsOK
  <2>2. CASE cond_waiters[regs[t].cond] = <<>>
    BY <1>0, <1>2, <2>2, ReturnMoves, RunSteady DEF cb, At, Labels
  <2>3. CASE cond_waiters[regs[t].cond] # <<>>
    <3>1. CallSignal(t, regs[t].cond, "cb") /\ "cb" \in Labels
      BY <1>2, <2>3 DEF cb, Labels
    <3>2. \/ MovesTo(t, "cb", regs[t])
          \/ \E u \in Threads : MovesTo(t, "su", [regs[t] EXCEPT !.sema = u, !.sret = "cb"])
      BY <1>0, <2>1, <3>1, SignalMoves
    <3>3. pc[t] = "cb" /\ holder' = holder
      BY <1>2 DEF cb, At
    <3>4. /\ pc'[t] \in {"cb", "su"} /\ (pc'[t] = "su" => regs'[t].sret = "cb" /\ regs'[t].sema \in Threads)
          /\ regs'[t].lock = regs[t].lock
      <4>1. CASE MovesTo(t, "cb", regs[t])
        BY <4>1 DEF MovesTo
      <4>2. ASSUME NEW u \in Threads, MovesTo(t, "su", [regs[t] EXCEPT !.sema = u, !.sret = "cb"])
            PROVE  /\ pc'[t] = "su" /\ regs'[t].sret = "cb" /\ regs'[t].sema = u
                   /\ regs'[t].lock = regs[t].lock
        BY <1>0, <4>2 DEF MovesTo, CallTypes, Registers
      <4> QED
        BY <3>2, <4>1, <4>2
    <3> QED
      BY <1>0, <3>3, <3>4
  <2> QED
    BY <2>2, <2>3
<1> QED
  BY <1>1, <1>2 DEF CondStep

LEMMA CallSteady ==
  ASSUME Good, NEW t \in Threads, Call(t)
  PROVE  /\ SteadyTid(t)
         /\ SteadyChild(t) \/ \E c \in Threads, p \in Priorities : Create(t, c, p)
         /\ \/ SteadyLocks(t)
            \/ \E c \in Threads, p \in Priorities : Create(t, c, p)
            \/ \E l \in UserLocks : Acquire(t, l)
<1>0. /\ CallTypes /\ PriorityTypes /\ SyncTypes /\ CallsOK(t)
      /\ Threads \cap Locks = {} /\ Semas \cap Locks = {} /\ UserLocks \subseteq Locks
      /\ CondLock \in [Conds -> UserLocks]
  BY ThreadAssumption, KernelAssumption DEF Good, TypeOK, Calls, UserLocks
<1> USE DEF Steady, SteadyLocks, SteadyTid, SteadyChild, AsksFor, Owns, Pending, Creating, Acquiring,
            Upping, InAcquire, InRelease, InUp, AllocTid
<1>1. ASSUME NEW l \in UserLocks, Acquire(t, l)
      PROVE  SteadyTid(t) /\ SteadyChild(t)
  BY <1>0, <1>1 DEF Acquire, Calling, At, CallAcquire, lockVars, Goto, CallTypes, AllThreads,
       Registers
<1>2. ASSUME NEW l \in UserLocks, Release(t, l)
      PROVE  Steady(t)
  BY <1>0, <1>2 DEF Release, At, CallRelease, lockVars, Goto, CallTypes, AllThreads, Registers
<1>3. ASSUME NEW s \in Semas, Down(t, s) \/ Up(t, s)
      PROVE  Steady(t)
  BY <1>0, <1>3 DEF Down, Up, Calling, At, CallDown, CallUp, lockVars, Goto, CallTypes, AllThreads,
       Registers
<1>4. ASSUME NEW c \in Conds, Wait(t, c)
      PROVE  Steady(t)
  BY <1>0, <1>4 DEF Wait, Calling, At, CallWait, Goto, CallTypes, AllThreads, Registers
<1>5. ASSUME NEW c \in Conds, Signal(t, c)
      PROVE  Steady(t)
  <2>1. CallSignal(t, c, "run") /\ "run" \in Labels /\ holder' = holder /\ pc[t] = "run"
    BY <1>5 DEF Signal, Calling, At, Labels
  <2>2. \/ MovesTo(t, "run", NoCall)
        \/ \E u \in Threads : MovesTo(t, "su", [regs[t] EXCEPT !.sema = u, !.sret = "run"])
    BY <1>0, <2>1, SignalMoves
  <2>3. CASE MovesTo(t, "run", NoCall)
    BY <2>1, <2>3, RunSteady
  <2>4. ASSUME NEW u \in Threads, MovesTo(t, "su", [regs[t] EXCEPT !.sema = u, !.sret = "run"])
        PROVE  Steady(t)
    BY <1>0, <2>1, <2>4 DEF MovesTo, CallTypes, Registers
  <2> QED
    BY <2>2, <2>3, <2>4
<1>6. ASSUME NEW c \in Conds, Broadcast(t, c)
      PROVE  Steady(t)
  BY <1>0, <1>6 DEF Broadcast, Calling, At, CallBroadcast, lockVars, Goto, CallTypes, AllThreads,
       Registers
<1>7. ASSUME NEW p \in Priorities, SetPriority(t, p)
      PROVE  Steady(t)
  <2>1. pc[t] = "run" /\ holder' = holder /\ "run" \in Labels
    BY <1>7 DEF SetPriority, Calling, At, lockVars, Labels
  <2>2. CASE ReturnTo(t, "run")
    BY <1>0, <2>1, <2>2, ReturnMoves, RunSteady
  <2>3. CASE Goto(t, "sp_set") /\ regs' = [regs EXCEPT ![t].pret = "run"]
    BY <1>0, <2>1, <2>3 DEF Goto, CallTypes, AllThreads, Registers
  <2> QED
    BY <1>7, <2>2, <2>3 DEF SetPriority, CallSetPriority
<1>8. ASSUME NEW c \in Threads, NEW p \in Priorities, Create(t, c, p)
      PROVE  SteadyTid(t)
  BY <1>0, <1>8 DEF Create, Calling, At, CallCreate, lockVars, Goto, CallTypes, AllThreads, Registers
<1>9. CASE Exit(t)
  BY <1>0, <1>9 DEF Exit, thread_exit, At, lockVars, Goto, CallTypes, AllThreads
<1> HIDE DEF SteadyLocks, SteadyTid, SteadyChild
<1> QED
  BY <1>1, <1>2, <1>3, <1>4, <1>5, <1>6, <1>7, <1>8, <1>9 DEF Call

----------------------------------------------------------------------------
(* Thread identifiers. *)

\* A step of t that gives out no tid.
LEMMA QuietTids ==
  ASSUME TidInv, NEW t \in Threads, Moves(t), SteadyTid(t), tid' = tid, next_tid' = next_tid
  PROVE  TidInv'
<1>1. \A u \in Threads : pc'[u] = "tc_incr" => pc[u] = "tc_incr" /\ regs'[u].tid = regs[u].tid
  BY DEF SteadyTid, Moves
<1>2. ASSUME NEW u \in Threads, Pending(u)'
      PROVE  Pending(u) /\ regs'[u].tid = regs[u].tid
  <2>1. CASE u # t
    BY <1>2, <2>1 DEF Moves, Pending, Upping
  <2> QED
    BY <1>2, <2>1 DEF SteadyTid
<1> QED
  BY <1>1, <1>2 DEF TidInv, TidsUnique

\* tid = next_tid++ under tid_lock: nobody else is between the read and the write.
LEMMA IncrTids ==
  ASSUME Good, LockInv, TidLockInv, TidInv, NEW t \in Threads, Moves(t), tc_incr(t)
  PROVE  TidInv'
<1>0. /\ CallTypes /\ regs[t].tid = next_tid /\ next_tid \in Nat
  BY DEF Good, TypeOK, CallTypes, TidInv, tc_incr, At
<1>1. /\ pc[t] = "tc_incr" /\ pc'[t] = "lr_donors" /\ regs'[t] = [regs[t] EXCEPT !.sret = "tc_unblock"]
      /\ tid' = tid /\ next_tid' = next_tid + 1
  BY <1>0 DEF tc_incr, At, Goto, CallTypes, AllThreads
<1>2. regs'[t].tid = next_tid
  BY <1>0, <1>1 DEF CallTypes, Registers
<1>3. ASSUME NEW u \in Threads, u # t
      PROVE  pc'[u] = pc[u] /\ regs'[u] = regs[u] /\ pc[u] # "tc_incr"
  <2>1. CASE pc[u] = "tc_incr"
    <3>1. holder[TidLock] = u /\ holder[TidLock] = t
      BY <1>1, <2>1 DEF LockInv, HolderOK, TidLockInv, TidLockOK, AllocTid
    <3> QED
      BY <1>3, <3>1
  <2> QED
    BY <1>3, <2>1 DEF Moves
<1>4. \A u \in Threads : tid[u] \in Nat /\ regs[u].tid \in Nat
  BY <1>0 DEF CallTypes, Registers
<1>5. ASSUME NEW u \in Threads, Pending(u)', u # t
      PROVE  Pending(u) /\ regs'[u].tid = regs[u].tid
  BY <1>3, <1>5 DEF Pending, Upping
<1>6. \A u \in Threads : tid'[u] < next_tid' /\ tid'[u] # next_tid
  BY <1>0, <1>1, <1>4 DEF TidInv
<1>7. \A u \in Threads : pc'[u] # "tc_incr"
  BY <1>1, <1>3
<1>8. ASSUME NEW u \in Threads, Pending(u)'
      PROVE  /\ regs'[u].tid < next_tid'
             /\ \A x \in Threads : tid'[x] # regs'[u].tid
             /\ \A x \in Threads : Pending(x)' /\ regs'[x].tid = regs'[u].tid => x = u
  <2>1. \A x \in Threads : Pending(x)' /\ x # t =>
           Pending(x) /\ regs'[x].tid = regs[x].tid /\ regs[x].tid < next_tid /\ regs[x].tid \in Nat
    BY <1>4, <1>5 DEF TidInv
  <2>2. CASE u = t
    <3>1. next_tid' = next_tid + 1 /\ next_tid \in Nat
      BY <1>0, <1>1
    <3>2. regs'[u].tid = next_tid /\ next_tid < next_tid'
      BY <1>2, <2>2, <3>1
    <3>3. \A x \in Threads : Pending(x)' /\ x # t => regs'[x].tid # next_tid
      BY <1>0, <2>1
    <3> QED
      BY <1>6, <2>2, <3>2, <3>3
  <2>3. CASE u # t
    <3>1. Pending(u) /\ regs'[u].tid = regs[u].tid /\ regs[u].tid < next_tid
      BY <1>8, <2>1, <2>3
    <3>2. \A x \in Threads : tid'[x] # regs'[u].tid
      BY <1>1, <3>1 DEF TidInv
    <3>3. \A x \in Threads : Pending(x)' /\ regs'[x].tid = regs'[u].tid => x = u
      BY <1>0, <1>2, <2>1, <3>1 DEF TidInv
    <3> QED
      BY <1>0, <1>1, <1>4, <3>1, <3>2, <3>3
  <2> QED
    BY <2>2, <2>3
<1> QED
  BY <1>1, <1>6, <1>7, <1>8 DEF TidInv, TidsUnique

\* The new thread gets the tid that was set aside for it.
LEMMA UnblockTids ==
  ASSUME Good, TidInv, NEW t \in Threads, Moves(t), SteadyTid(t), tc_unblock(t)
  PROVE  TidInv'
<1> DEFINE c == regs[t].child
<1>0. CallTypes /\ c \in Threads /\ pc[t] = "tc_unblock" /\ pc'[t] = "tc_compare"
  BY DEF Good, TypeOK, Calls, CallsOK, CallTypes, AllThreads, tc_unblock, At, Goto
<1>1. tid' = [tid EXCEPT ![c] = regs[t].tid] /\ next_tid' = next_tid
  BY DEF tc_unblock
<1>2. Pending(t) /\ ~Pending(t)'
  BY <1>0 DEF Pending, Upping, InRelease, InUp
<1>3. \A u \in Threads : tid[u] # regs[t].tid
  BY <1>2 DEF TidInv
<1>4. tid \in [Threads -> Nat]
  BY <1>0 DEF CallTypes
<1>5. TidsUnique'
  BY <1>0, <1>1, <1>3, <1>4 DEF TidsUnique, TidInv
<1>6. \A u \in Threads : tid'[u] < next_tid'
  BY <1>0, <1>1, <1>2, <1>4 DEF TidInv
<1>7. \A u \in Threads : pc'[u] = "tc_incr" => regs'[u].tid = next_tid'
  BY <1>0, <1>1 DEF TidInv, Moves
<1>8. ASSUME NEW u \in Threads, Pending(u)'
      PROVE  u # t /\ Pending(u) /\ regs'[u] = regs[u]
  BY <1>2, <1>8 DEF Moves, Pending, Upping
<1>9. ASSUME NEW u \in Threads, Pending(u)'
      PROVE  /\ regs'[u].tid < next_tid'
             /\ \A x \in Threads : tid'[x] # regs'[u].tid
             /\ \A x \in Threads : Pending(x)' /\ regs'[x].tid = regs'[u].tid => x = u
  <2>1. u # t /\ Pending(u) /\ regs'[u] = regs[u]
    BY <1>8, <1>9
  <2>2. regs[t].tid # regs[u].tid
    BY <1>2, <2>1 DEF TidInv
  <2>3. \A x \in Threads : tid'[x] # regs'[u].tid
    BY <1>0, <1>1, <1>4, <2>1, <2>2 DEF TidInv
  <2>4. \A x \in Threads : Pending(x)' /\ regs'[x].tid = regs'[u].tid => x = u
    BY <1>8, <2>1 DEF TidInv
  <2> QED
    BY <1>1, <2>1, <2>3, <2>4 DEF TidInv
<1> QED
  BY <1>5, <1>6, <1>7, <1>9 DEF TidInv

LEMMA NextTids ==
  ASSUME Good, LockInv, TidLockInv, TidInv, [Next]_vars
  PROVE  TidInv'
<1>1. ASSUME NEW t \in Threads, Call(t)
      PROVE  TidInv'
  <2>1. tid' = tid /\ next_tid' = next_tid
    BY <1>1 DEF Call, Acquire, Release, Down, Up, Wait, Signal, Broadcast, SetPriority, Create, Exit,
                CallCreate, thread_exit, tidVars
  <2> QED
    BY <1>1, <2>1, StepMoves, CallSteady, QuietTids
<1>2. ASSUME NEW t \in Threads, Step(t)
      PROVE  TidInv'
  <2>0. Moves(t)
    BY <1>2, StepMoves
  <2>1. CASE ThreadStep(t) /\ holder' = holder
    <3>1. CASE tc_incr(t)
      BY <2>0, <3>1, IncrTids
    <3>2. CASE tc_unblock(t)
      <4>1. SteadyTid(t)
        BY <3>2 DEF tc_unblock, SteadyTid, Goto, Pending, Upping, InUp, InRelease, Good, TypeOK,
                    CallTypes, AllThreads
      <4> QED
        BY <2>0, <3>2, <4>1, UnblockTids
    <3>3. CASE tc_read(t)
      <4>1. /\ pc[t] = "tc_read" /\ pc'[t] = "tc_incr" /\ regs'[t].tid = next_tid
            /\ tid' = tid /\ next_tid' = next_tid
        BY <3>3 DEF tc_read, At, Goto, tidVars, Good, TypeOK, CallTypes, AllThreads, Registers
      <4>2. \A u \in Threads : Pending(u)' => u # t /\ Pending(u) /\ regs'[u] = regs[u]
        BY <2>0, <4>1 DEF Moves, Pending, Upping, InRelease, InUp
      <4>3. \A u \in Threads : pc'[u] = "tc_incr" => regs'[u].tid = next_tid
        BY <2>0, <4>1 DEF Moves, TidInv
      <4> QED
        BY <4>1, <4>2, <4>3 DEF TidInv, TidsUnique
    <3>4. CASE sp_set(t) \/ sp_scan(t) \/ tc_compare(t)
      <4>1. tid' = tid /\ next_tid' = next_tid
        BY <3>4 DEF sp_set, sp_scan, tc_compare, tidVars
      <4>2. ~tc_read(t) /\ ~tc_incr(t)
        BY <3>4 DEF sp_set, sp_scan, tc_compare, tc_read, tc_incr, At
      <4> QED
        BY <2>0, <2>1, <4>1, <4>2, ThreadSteady, QuietTids
    <3> QED
      BY <2>1, <3>1, <3>2, <3>3, <3>4 DEF ThreadStep
  <2>2. CASE SemaStep(t)
    <3>1. tid' = tid /\ next_tid' = next_tid
      BY <2>2 DEF SemaStep, sd_take, sd_block, sd_fault, su, su_preempt, su_scan, su_restore,
                  su_yield, Panic, tidVars
    <3> QED
      BY <2>0, <2>2, <3>1, SemaSteady, QuietTids
  <2>3. CASE LockStep(t)
    <3>1. tid' = tid /\ next_tid' = next_tid
      BY <2>3 DEF LockStep, la_check, la_link, la_donate, la_nested, la_donee, la_fault, la_corrupt,
                  la_own, lr_donors, lr_restore, lr_corrupt, lr_clear, Panic, tidVars
    <3> QED
      BY <2>0, <2>3, <3>1, LockSteady, QuietTids DEF Steady
  <2>4. CASE CondStep(t)
    <3>1. tid' = tid /\ next_tid' = next_tid
      BY <2>4 DEF CondStep, cw_down, cw_acquire, cb, tidVars
    <3> QED
      BY <2>0, <2>4, <3>1, CondSteady, QuietTids
  <2> QED
    BY <1>2, <2>1, <2>2, <2>3, <2>4 DEF Step, lockVars
<1>3. CASE Tick \/ IdleTurn \/ Interrupt \/ UNCHANGED vars
  <2>1. pc' = pc /\ regs' = regs /\ tid' = tid /\ next_tid' = next_tid
    BY <1>3 DEF Tick, thread_tick, IdleTurn, idle, Interrupt, intr_up, vars, tidVars
  <2> QED
    BY <2>1 DEF TidInv, TidsUnique, Pending, Upping
<1> QED
  BY <1>1, <1>2, <1>3 DEF Next

LEMMA InitTids == Init => TidInv
<1> SUFFICES ASSUME Init
             PROVE  TidInv
  OBVIOUS
<1>1. \A t \in Threads : pc[t] = "run"
  BY DEF Init, AllThreads
<1>2. /\ tid \in [Threads -> 0..(Cardinality(Started) + 1)]
      /\ \A t \in Threads : tid[t] = 0 <=> t \notin Started
      /\ \A t, u \in Started : tid[t] = tid[u] => t = u
  BY TidsExist DEF Init
<1>3. next_tid = Cardinality(Started) + 2 /\ Cardinality(Started) \in Nat
  BY ThreadAssumption, FS_Subset, FS_CardinalityType DEF Init
<1> QED
  BY <1>1, <1>2, <1>3 DEF TidInv, TidsUnique, Pending, Upping, InRelease, InUp

\* Two threads never get the same identifier, however preemptions fall between
\* the read and the write of next_tid (thread.c:226): tid_lock is held by
\* allocate_tid() only, and nobody else reads the counter under it.
THEOREM TidsNeverShared == Spec => []TidsUnique
<1> DEFINE I == Good /\ LockInv /\ TidLockInv /\ TidInv
<1>1. Init => I
  BY InitInv, InitTidLock, InitTids DEF Inv, Good
<1>2. I /\ [Next]_vars => I'
  BY NextGood, NextLockInv, NextTidLock, NextTids
<1>3. I => TidsUnique
  BY DEF TidInv
<1> HIDE DEF I
<1> QED
  BY <1>1, <1>2, <1>3, PTL DEF Spec

----------------------------------------------------------------------------
(* Refinement: the locks implement AbstractLock. *)

LEMMA OwnerIs ==
  ASSUME LockExclusive, NEW l \in Locks, NEW t \in Threads, Owns(t, l)
  PROVE  OwnerOf(l) = t
BY DEF LockExclusive, OwnerOf

LEMMA OwnerIsNext ==
  ASSUME LockExclusive', NEW l \in Locks, NEW t \in Threads, Owns(t, l)'
  PROVE  OwnerOf(l)' = t
BY DEF LockExclusive, OwnerOf

LEMMA FreeNow ==
  ASSUME NEW l \in Locks, \A t \in Threads : ~Owns(t, l)
  PROVE  OwnerOf(l) = Null
BY DEF OwnerOf

LEMMA FreeNext ==
  ASSUME NEW l \in Locks, \A t \in Threads : ~Owns(t, l)'
  PROVE  OwnerOf(l)' = Null
BY DEF OwnerOf

\* The owner of a lock stays if who owns it stays.
LEMMA OwnerStays ==
  ASSUME LockExclusive, LockExclusive', NEW l \in Locks,
         \A t \in Threads : Owns(t, l)' <=> Owns(t, l)
  PROVE  OwnerOf(l)' = OwnerOf(l)
<1>1. CASE \E t \in Threads : Owns(t, l)
  BY <1>1, OwnerIs, OwnerIsNext
<1>2. CASE \A t \in Threads : ~Owns(t, l)
  BY <1>2, FreeNow, FreeNext
<1> QED
  BY <1>1, <1>2

\* What the others own and ask for stays in a step of t.
LEMMA OthersStay ==
  ASSUME NEW t \in Threads, OthersKeep(t), NEW u \in Threads, u # t
  PROVE  /\ AsksFor(u)' = AsksFor(u)
         /\ \A l \in Locks : Owns(u, l)' <=> Owns(u, l)
BY DEF OthersKeep, Moves, AsksFor, Owns

LEMMA AbstractStutter ==
  ASSUME LockExclusive, LockExclusive', NEW t \in Threads, OthersKeep(t), SteadyLocks(t)
  PROVE  UNCHANGED Abstract!vars
<1>1. \A l \in Locks : OwnerOf(l)' = OwnerOf(l)
  BY OthersStay, OwnerStays DEF SteadyLocks
<1>2. \A u \in Threads : AsksFor(u)' = AsksFor(u)
  BY OthersStay DEF SteadyLocks
<1> QED
  BY <1>1, <1>2 DEF Abstract!vars

LEMMA AbstractAsk ==
  ASSUME LockExclusive, LockExclusive', NEW t \in Threads, OthersKeep(t), NEW k \in Locks,
         AsksFor(t) = Null, AsksFor(t)' = k, ~Owns(t, k),
         \A l \in Locks : Owns(t, l)' <=> Owns(t, l)
  PROVE  Abstract!Ask(t, k)
<1>1. \A l \in Locks : OwnerOf(l)' = OwnerOf(l)
  BY OthersStay, OwnerStays
<1>2. \A u \in Threads : AsksFor(u)' = IF u = t THEN k ELSE AsksFor(u)
  BY OthersStay
<1>3. OwnerOf(k) # t
  BY ThreadAssumption DEF OwnerOf
<1> QED
  BY <1>1, <1>2, <1>3 DEF Abstract!Ask

LEMMA AbstractGrant ==
  ASSUME LockExclusive, LockExclusive', NEW t \in Threads, OthersKeep(t), NEW k \in Locks,
         AsksFor(t) = k, AsksFor(t)' = Null, \A u \in Threads : ~Owns(u, k),
         \A l \in Locks : Owns(t, l)' <=> Owns(t, l) \/ l = k
  PROVE  Abstract!Grant(t, k)
<1>1. \A l \in Locks : l # k => OwnerOf(l)' = OwnerOf(l)
  BY OthersStay, OwnerStays
<1>2. OwnerOf(k) = Null /\ OwnerOf(k)' = t
  BY FreeNow, OwnerIsNext
<1>3. \A u \in Threads : AsksFor(u)' = IF u = t THEN Null ELSE AsksFor(u)
  BY OthersStay
<1> QED
  BY <1>1, <1>2, <1>3 DEF Abstract!Grant

LEMMA AbstractGiveBack ==
  ASSUME LockExclusive, LockExclusive', NEW t \in Threads, OthersKeep(t), NEW k \in Locks,
         AsksFor(t) = Null, AsksFor(t)' = Null, Owns(t, k),
         \A l \in Locks : Owns(t, l)' <=> Owns(t, l) /\ l # k
  PROVE  Abstract!GiveBack(t, k)
<1>1. \A l \in Locks : l # k => OwnerOf(l)' = OwnerOf(l)
  BY OthersStay, OwnerStays
<1>2. \A u \in Threads : ~Owns(u, k)'
  BY OthersStay DEF LockExclusive
<1>3. OwnerOf(k) = t /\ OwnerOf(k)' = Null
  BY <1>2, OwnerIs, FreeNext
<1>4. \A u \in Threads : AsksFor(u)' = AsksFor(u)
  BY OthersStay
<1> QED
  BY <1>1, <1>3, <1>4 DEF Abstract!GiveBack

\* lock_acquire() is called by a thread that does not own the lock.
LEMMA AskStep ==
  ASSUME Good, TidLockInv, LockExclusive, LockExclusive', NEW t \in Threads, OthersKeep(t),
         \/ \E l \in UserLocks : Acquire(t, l)
         \/ \E c \in Threads, p \in Priorities : Create(t, c, p)
         \/ cw_acquire(t)
  PROVE  \E l \in Locks : Abstract!Ask(t, l)
<1>0. CallTypes /\ CallsOK(t) /\ TidLockOK(t) /\ TidLock \in Locks /\ UserLocks \subseteq Locks
  BY ThreadAssumption DEF Good, TypeOK, Calls, TidLockInv, UserLocks
<1>1. ASSUME NEW k \in Locks, pc[t] \in {"run", "cw_acquire"}, pc'[t] = "la_check",
             regs'[t].lock = k, holder' = holder, holder[k] # t
      PROVE  Abstract!Ask(t, k)
  <2>1. AsksFor(t) = Null /\ AsksFor(t)' = k /\ ~Owns(t, k)
    BY <1>1 DEF AsksFor, Owns
  <2>2. \A l \in Locks : Owns(t, l)' <=> Owns(t, l)
    BY <1>1 DEF Owns
  <2> QED
    BY <2>1, <2>2, AbstractAsk
<1>2. ASSUME NEW l \in UserLocks, Acquire(t, l)
      PROVE  \E k \in Locks : Abstract!Ask(t, k)
  <2>1. /\ pc[t] = "run" /\ pc'[t] = "la_check" /\ regs'[t].lock = l /\ holder' = holder
        /\ holder[l] # t
    BY <1>0, <1>2 DEF Acquire, Calling, At, CallAcquire, lock_held_by_current_thread, Goto, lockVars,
                      CallTypes, AllThreads, Registers
  <2> QED
    BY <1>0, <1>1, <2>1
<1>3. ASSUME NEW c \in Threads, NEW p \in Priorities, Create(t, c, p)
      PROVE  Abstract!Ask(t, TidLock)
  <2>1. /\ pc[t] = "run" /\ pc'[t] = "la_check" /\ regs'[t].lock = TidLock /\ holder' = holder
    BY <1>0, <1>3 DEF Create, Calling, At, CallCreate, Goto, lockVars, CallTypes, AllThreads,
                      Registers
  <2>2. holder[TidLock] # t
    BY <1>0, <2>1 DEF TidLockOK, AllocTid, InRelease
  <2> QED
    BY <1>0, <1>1, <2>1, <2>2
<1>4. CASE cw_acquire(t)
  <2>1. /\ pc[t] = "cw_acquire" /\ pc'[t] = "la_check" /\ regs'[t].lock = regs[t].lock
        /\ holder' = holder
    BY <1>0, <1>4 DEF cw_acquire, At, CallAcquire, Goto, CallTypes, AllThreads, Registers
  <2>2. regs[t].lock \in Locks /\ holder[regs[t].lock] # t
    BY <1>0, <2>1 DEF CallsOK, TidLockOK, Parked
  <2> QED
    BY <1>1, <2>1, <2>2
<1> QED
  BY <1>0, <1>2, <1>3, <1>4

\* The decrement in semaphore_down() grants the lock.
LEMMA GrantStep ==
  ASSUME Good, LockInv, LockExclusive', NEW t \in Threads, OthersKeep(t), sd_take(t)
  PROVE  SteadyLocks(t) \/ \E l \in Locks : Abstract!Grant(t, l)
<1> DEFINE k == regs[t].lock
<1>0. /\ CallTypes /\ SyncTypes /\ DownReturn(t) /\ holder' = holder /\ LockExclusive
      /\ pc[t] \in {"sd", "sd_woken"}
  BY DEF Good, TypeOK, Calls, CallsOK, sd_take, At, LockInv
<1>1. pc'[t] = regs[t].sret /\ (regs[t].sret # "run" => regs'[t] = regs[t])
  BY <1>0 DEF sd_take, ReturnTo, Goto, CallTypes, AllThreads
<1>2. CASE regs[t].sret # "la_own"
  BY <1>0, <1>1, <1>2 DEF DownReturn, SteadyLocks, AsksFor, Owns
<1>3. CASE regs[t].sret = "la_own"
  <2>1. k \in Locks /\ regs[t].sema = k
    BY <1>0, <1>3 DEF DownReturn
  <2>2. \A u \in Threads : ~Owns(u, k)
    <3>1. value[k] = 1
      BY <2>1 DEF sd_take, LockInv, ValueOK
    <3> QED
      BY <2>1, <3>1 DEF LockInv, ValueOK
  <2>3. AsksFor(t) = k /\ AsksFor(t)' = Null
    BY <1>0, <1>1, <1>3 DEF AsksFor
  <2>4. \A l \in Locks : Owns(t, l)' <=> Owns(t, l) \/ l = k
    BY <1>0, <1>1, <1>3 DEF Owns
  <2> QED
    BY <1>0, <2>1, <2>2, <2>3, <2>4, AbstractGrant
<1> QED
  BY <1>2, <1>3

\* The increment in semaphore_up() gives the lock back.
LEMMA GiveBackStep ==
  ASSUME Good, LockInv, LockExclusive', NEW t \in Threads, OthersKeep(t), su(t)
  PROVE  SteadyLocks(t) \/ \E l \in Locks : Abstract!GiveBack(t, l)
<1> DEFINE s == regs[t].sema
<1>0. /\ pc[t] = "su" /\ pc'[t] = "su_preempt" /\ holder' = holder /\ HolderOK(t) /\ LockExclusive
      /\ Null \notin Threads
  BY ThreadAssumption DEF Good, TypeOK, CallTypes, AllThreads, su, At, Goto, LockInv
<1>1. AsksFor(t) = Null /\ AsksFor(t)' = Null
  BY <1>0 DEF AsksFor
<1>2. CASE s \notin Locks
  BY <1>0, <1>1, <1>2 DEF SteadyLocks, Owns
<1>3. CASE s \in Locks
  <2>1. Owns(t, s) /\ holder[s] = Null
    BY <1>0, <1>3 DEF Owns, HolderOK
  <2>2. \A l \in Locks : Owns(t, l)' <=> Owns(t, l) /\ l # s
    BY <1>0, <2>1 DEF Owns
  <2> QED
    BY <1>0, <1>1, <1>3, <2>1, <2>2, AbstractGiveBack
<1> QED
  BY <1>2, <1>3

LEMMA NextAbstract ==
  ASSUME Good, LockInv, TidLockInv, LockInv', [Next]_vars
  PROVE  [Abstract!Next]_Abstract!vars
<1>0. LockExclusive /\ LockExclusive'
  BY DEF LockInv
<1>1. ASSUME NEW t \in Threads, Call(t) \/ Step(t)
      PROVE  [Abstract!Next]_Abstract!vars
  <2>1. OthersKeep(t)
    BY <1>1, StepOthersKeep
  <2>2. \/ SteadyLocks(t)
        \/ \E l \in UserLocks : Acquire(t, l)
        \/ \E c \in Threads, p \in Priorities : Create(t, c, p)
        \/ cw_acquire(t) \/ sd_take(t) \/ su(t)
    <3>1. CASE Call(t)
      BY <3>1, CallSteady
    <3>2. CASE Step(t)
      BY <3>2, ThreadSteady, SemaSteady, LockSteady, CondSteady DEF Step, lockVars, Steady
    <3> QED
      BY <1>1, <3>1, <3>2
  <2>3. CASE SteadyLocks(t)
    BY <1>0, <2>1, <2>3, AbstractStutter
  <2>4. ASSUME NEW l \in Locks, Abstract!Ask(t, l) \/ Abstract!Grant(t, l) \/ Abstract!GiveBack(t, l)
        PROVE  Abstract!Next
    BY <2>4 DEF Abstract!Next
  <2> QED
    BY <1>0, <2>1, <2>2, <2>3, <2>4, AskStep, GrantStep, GiveBackStep
<1>2. CASE Tick \/ IdleTurn \/ Interrupt \/ UNCHANGED vars
  <2>1. pc' = pc /\ regs' = regs /\ holder' = holder
    BY <1>2 DEF Tick, thread_tick, IdleTurn, idle, Interrupt, intr_up, lockVars, vars
  <2>2. \A t \in Threads, l \in Locks : Owns(t, l)' <=> Owns(t, l)
    BY <2>1 DEF Owns
  <2>3. \A l \in Locks : OwnerOf(l)' = OwnerOf(l)
    BY <1>0, <2>2, OwnerStays
  <2>4. \A t \in Threads : AsksFor(t)' = AsksFor(t)
    BY <2>1 DEF AsksFor
  <2> QED
    BY <2>3, <2>4 DEF Abstract!vars
<1> QED
  BY <1>1, <1>2 DEF Next

LEMMA InitAbstract == Init => Abstract!Init
<1> SUFFICES ASSUME Init
             PROVE  Abstract!Init
  OBVIOUS
<1>1. \A t \in Threads : pc[t] = "run"
  BY DEF Init, AllThreads
<1>2. \A l \in Locks : OwnerOf(l) = Null
  BY <1>1, ThreadAssumption, FreeNow DEF Init, Owns
<1>3. \A t \in Threads : AsksFor(t) = Null
  BY <1>1 DEF AsksFor
<1> QED
  BY <1>2, <1>3 DEF Abstract!Init

\* The locks of lock.c, with all that semaphores, donation, preemption and
\* condition variables do around them, implement AbstractLock: a lock goes to a
\* thread that asked for it while nobody has it, and is given back by its owner
\* only (lock.c:82-99, 120-137).
THEOREM LocksImplementAbstract == Spec => ImplementsLock
<1> DEFINE I == Good /\ LockInv /\ TidLockInv
<1>1. Init => I /\ Abstract!Init
  BY InitInv, InitTidLock, InitAbstract DEF Inv, Good
<1>2. I /\ [Next]_vars => I' /\ [Abstract!Next]_Abstract!vars
  BY NextGood, NextLockInv, NextTidLock, NextAbstract
<1> HIDE DEF I
<1> QED
  BY <1>1, <1>2, PTL DEF Spec, ImplementsLock, Abstract!Spec

----------------------------------------------------------------------------
(* sharedelem: the run queue. *)

\* The threads that are blocked stay so, and no page gets unused.
BlockedStay ==
  \A u \in Threads : /\ status[u] = "BLOCKED" => status'[u] = "BLOCKED"
                     /\ status'[u] = "UNUSED" => status[u] = "UNUSED"

LEMMA ScheduleQueue ==
  ASSUME cur \in AllThreads, NEW r \in Seq(Threads), IsInjective(r),
         NEW st \in [AllThreads -> Statuses],
         \A u \in AllThreads : st[u] # "RUNNING",
         \A u \in Threads : st[u] = "READY" <=> u \in ToSet(r),
         schedule(r, st)
  PROVE  /\ QueueOK'
         /\ \A u \in Threads : /\ st[u] = "BLOCKED" => status'[u] = "BLOCKED"
                               /\ status'[u] = "UNUSED" => st[u] = "UNUSED"
<1> DEFINE next == IF r = <<>> THEN Idle ELSE Head(r)
           reaped == IF st[cur] = "DYING" /\ cur # Initial
                       THEN [st EXCEPT ![cur] = "FREED"] ELSE st
<1>0. /\ Idle \in AllThreads /\ Idle \notin Threads /\ Threads \subseteq AllThreads
      /\ cur' = next /\ status' = [reaped EXCEPT ![next] = "RUNNING"]
      /\ ready_list' = IF r = <<>> THEN r ELSE Tail(r)
  BY ThreadAssumption DEF AllThreads, schedule
<1>1. /\ reaped \in [AllThreads -> Statuses]
      /\ \A u \in AllThreads : reaped[u] # "RUNNING"
      /\ \A u \in AllThreads : reaped[u] = "READY" <=> st[u] = "READY"
      /\ \A u \in AllThreads : reaped[u] = "BLOCKED" <=> st[u] = "BLOCKED"
      /\ \A u \in AllThreads : reaped[u] = "UNUSED" <=> st[u] = "UNUSED"
  BY DEF Statuses
<1> HIDE DEF reaped
<1>2. CASE r = <<>>
  <2>1. cur' = Idle /\ ready_list' = <<>> /\ status' = [reaped EXCEPT ![Idle] = "RUNNING"]
    BY <1>0, <1>2
  <2>2. ToSet(r) = {} /\ IsInjective(<<>>)
    BY <1>2 DEF ToSet, IsInjective
  <2> QED
    BY <1>0, <1>1, <1>2, <2>1, <2>2 DEF QueueOK
<1>3. CASE r # <<>>
  <2>1. /\ Head(r) \in ToSet(r) /\ Head(r) \in Threads /\ IsInjective(Tail(r))
        /\ ToSet(Tail(r)) = ToSet(r) \ {Head(r)}
    BY <1>3, HeadAndTail
  <2>2. cur' = Head(r) /\ ready_list' = Tail(r) /\ status' = [reaped EXCEPT ![Head(r)] = "RUNNING"]
    BY <1>0, <1>3
  <2> QED
    BY <1>0, <1>1, <2>1, <2>2 DEF QueueOK
<1> QED
  BY <1>2, <1>3

LEMMA YieldQueue ==
  ASSUME SchedTypes, QueueOK, thread_yield
  PROVE  QueueOK' /\ BlockedStay
<1> DEFINE r == IF cur = Idle THEN ready_list
                              ELSE list_insert_ordered(ready_list, cur, priority)
           st == [status EXCEPT ![cur] = "READY"]
<1>0. /\ cur \in AllThreads /\ ready_list \in Seq(Threads) /\ status \in [AllThreads -> Statuses]
      /\ Threads \subseteq AllThreads /\ Idle \notin Threads
      /\ cur # Idle => cur \in Threads
  BY ThreadAssumption DEF SchedTypes, AllThreads
<1>1. /\ r \in Seq(Threads) /\ IsInjective(r)
      /\ ToSet(r) = IF cur = Idle THEN ToSet(ready_list) ELSE ToSet(ready_list) \cup {cur}
  <2>1. cur # Idle => cur \notin ToSet(ready_list)
    BY <1>0 DEF QueueOK
  <2>2. IsInjective(ready_list)
    BY DEF QueueOK
  <2>3. CASE cur = Idle
    BY <1>0, <2>2, <2>3
  <2>4. CASE cur # Idle
    <3>1. r = list_insert_ordered(ready_list, cur, priority) /\ cur \in Threads
      BY <1>0, <2>4
    <3> HIDE DEF r
    <3> QED
      BY <1>0, <2>1, <2>2, <2>4, <3>1, InsertOrdered
  <2> QED
    BY <2>3, <2>4
<1>2. st \in [AllThreads -> Statuses] /\ status[cur] = "RUNNING"
  BY <1>0 DEF Statuses, QueueOK
<1>3. \A u \in AllThreads : st[u] # "RUNNING"
  BY <1>0 DEF QueueOK
<1>4. \A u \in Threads : st[u] = "READY" <=> u \in ToSet(r)
  BY <1>0, <1>1 DEF QueueOK
<1>5. \A u \in Threads : /\ status[u] = "BLOCKED" => st[u] = "BLOCKED"
                         /\ st[u] = "UNUSED" => status[u] = "UNUSED"
  BY <1>0, <1>2
<1>6. schedule(r, st)
  BY DEF thread_yield
<1> HIDE DEF r, st
<1> QED
  BY <1>0, <1>1, <1>2, <1>3, <1>4, <1>5, <1>6, ScheduleQueue DEF BlockedStay

LEMMA YieldIfQueue ==
  ASSUME SchedTypes, QueueOK, NEW cond, YieldIf(cond)
  PROVE  QueueOK' /\ BlockedStay
<1>1. CASE cond
  BY <1>1, YieldQueue DEF YieldIf
<1>2. CASE ~cond
  BY <1>2 DEF YieldIf, schedVars, QueueOK, BlockedStay
<1> QED
  BY <1>1, <1>2

\* The running thread leaves the CPU as blocked or dying.
LEMMA LeaveQueue ==
  ASSUME SchedTypes, QueueOK, NEW how \in {"BLOCKED", "DYING"},
         schedule(ready_list, [status EXCEPT ![cur] = how])
  PROVE  /\ QueueOK' /\ BlockedStay
         /\ cur \in Threads /\ how = "BLOCKED" => status'[cur] = "BLOCKED"
<1> DEFINE st == [status EXCEPT ![cur] = how]
<1>0. /\ cur \in AllThreads /\ ready_list \in Seq(Threads) /\ status \in [AllThreads -> Statuses]
      /\ Threads \subseteq AllThreads /\ status[cur] = "RUNNING"
  BY DEF SchedTypes, AllThreads, QueueOK
<1>1. st \in [AllThreads -> Statuses] /\ \A u \in AllThreads : st[u] # "RUNNING"
  BY <1>0 DEF Statuses, QueueOK
<1>2. \A u \in Threads : st[u] = "READY" <=> u \in ToSet(ready_list)
  BY <1>0 DEF QueueOK
<1>3. /\ \A u \in Threads : /\ status[u] = "BLOCKED" => st[u] = "BLOCKED"
                            /\ st[u] = "UNUSED" => status[u] = "UNUSED"
      /\ st[cur] = how
  BY <1>0
<1>4. IsInjective(ready_list) /\ schedule(ready_list, st)
  BY DEF QueueOK
<1> HIDE DEF st
<1>5. /\ QueueOK'
      /\ \A u \in Threads : /\ st[u] = "BLOCKED" => status'[u] = "BLOCKED"
                            /\ status'[u] = "UNUSED" => st[u] = "UNUSED"
  BY <1>0, <1>1, <1>2, <1>4, ScheduleQueue
<1> QED
  BY <1>3, <1>5 DEF BlockedStay

\* A blocked thread joins the run queue.
LEMMA UnblockQueue ==
  ASSUME SchedTypes, QueueOK, NEW t \in Threads, status[t] = "BLOCKED", thread_unblock(t)
  PROVE  /\ QueueOK' /\ status'[t] = "READY"
         /\ \A u \in AllThreads : u # t => status'[u] = status[u]
<1>0. /\ cur' = cur /\ ready_list \in Seq(Threads) /\ status' = [status EXCEPT ![t] = "READY"]
      /\ status \in [AllThreads -> Statuses] /\ Threads \subseteq AllThreads
  BY DEF SchedTypes, thread_unblock, AllThreads
<1>1. t \notin ToSet(ready_list)
  BY DEF QueueOK
<1>2. IsInjective(ready_list') /\ ToSet(ready_list') = ToSet(ready_list) \cup {t}
  BY <1>0, <1>1, InsertOrdered DEF thread_unblock, QueueOK
<1> QED
  BY <1>0, <1>2 DEF QueueOK

----------------------------------------------------------------------------
(* sharedelem: the wait lists. *)

\* A step of t in which nobody starts to wait or is woken.
QuietElem(t) ==
  /\ cur = t /\ Moves(t)
  /\ QueueOK' /\ BlockedStay
  /\ \A s \in SemaObjs : waiters'[s] \in {waiters[s], <<>>}

LEMMA ChildrenKept ==
  ASSUME Good, ElemInv, NEW t \in Threads, cur = t, Moves(t), SteadyChild(t),
         \A c \in Threads : status[c] = "BLOCKED" /\ pc[c] = "run" => status'[c] = "BLOCKED"
  PROVE  \A u \in Threads : ChildOK(u)'
<1>1. \A u \in Threads : Creating(u) => regs[u].child \in Threads
  BY DEF Good, Calls, CallsOK, UpReturn, Creating, Acquiring, Pending, Upping, InAcquire, InRelease,
         AllocTid
<1>2. status[t] = "RUNNING" /\ \A u \in Threads : Creating(u) => regs[u].child # t
  BY <1>1 DEF ElemInv, QueueOK, ChildOK, AllThreads
<1>3. \A u \in Threads : Creating(u)' => Creating(u) /\ regs'[u].child = regs[u].child
  BY DEF Moves, SteadyChild, Creating, Acquiring, Pending, Upping
<1> QED
  BY <1>1, <1>2, <1>3 DEF ElemInv, ChildOK, Moves

LEMMA QuietElemInv ==
  ASSUME Good, ElemInv, NEW t \in Threads, QuietElem(t), SteadyChild(t)
  PROVE  ElemInv'
<1>0. /\ status[t] = "RUNNING" /\ SyncTypes /\ Threads \subseteq AllThreads
      /\ Threads \subseteq SemaObjs
  BY DEF QuietElem, ElemInv, QueueOK, AllThreads, Good, TypeOK, SemaObjs
<1>1. ASSUME NEW s \in SemaObjs
      PROVE  WaitersOK(s)'
  <2>1. WaitersOK(s) /\ ToSet(waiters[s]) \subseteq Threads
    BY <1>0 DEF ElemInv, SyncTypes, ToSet
  <2>2. IsInjective(<<>>) /\ ToSet(<<>>) = {}
    BY DEF IsInjective, ToSet
  <2>3. CASE waiters'[s] = <<>>
    BY <2>2, <2>3 DEF WaitersOK
  <2>4. CASE waiters'[s] = waiters[s]
    BY <1>0, <2>1, <2>4 DEF WaitersOK, QuietElem, BlockedStay, Moves
  <2> QED
    BY <2>3, <2>4 DEF QuietElem
<1>2. \A u \in Threads : ChildOK(u)'
  BY ChildrenKept DEF QuietElem, BlockedStay
<1>3. \A u \in Threads : status'[u] = "UNUSED" => pc'[u] = "run"
  BY <1>0 DEF QuietElem, BlockedStay, Moves, ElemInv
<1> QED
  BY <1>1, <1>2, <1>3 DEF ElemInv, QuietElem

\* A step that leaves the scheduler's and the semaphores' lists alone.
LEMMA SameElem ==
  ASSUME Good, ElemInv, NEW t \in Threads, cur = t, Moves(t), SteadyChild(t),
         UNCHANGED schedVars, \A s \in SemaObjs : waiters'[s] \in {waiters[s], <<>>}
  PROVE  ElemInv'
<1>1. QueueOK' /\ BlockedStay
  BY DEF ElemInv, QueueOK, BlockedStay, schedVars
<1> QED
  BY <1>1, QuietElemInv DEF QuietElem

\* semaphore_down(): the running thread is in no list and joins one.
LEMMA BlockElemInv ==
  ASSUME Good, ElemInv, NEW t \in Threads, Moves(t), SteadyChild(t), sd_block(t)
  PROVE  ElemInv'
<1> DEFINE s == regs[t].sema
<1>0. /\ CallTypes /\ SyncTypes /\ SchedTypes /\ s \in SemaObjs /\ cur = t
      /\ Threads \subseteq AllThreads /\ pc'[t] = "sd_woken" /\ regs' = regs
      /\ pc[t] \in {"sd", "sd_woken"}
  BY DEF Good, TypeOK, Calls, CallsOK, DownReturn, CallTypes, AllThreads, sd_block, At, Goto
<1>1. /\ QueueOK' /\ BlockedStay /\ status'[t] = "BLOCKED" /\ status[t] = "RUNNING"
  BY <1>0, LeaveQueue DEF sd_block, thread_block, ElemInv, QueueOK
<1>2. /\ t \notin ToSet(waiters[s])
  BY <1>0, <1>1 DEF ElemInv, WaitersOK
<1>3. PICK key : waiters' = [waiters EXCEPT ![s] = list_insert_ordered(@, t, key)]
  BY DEF sd_block
<1>4. /\ ToSet(waiters'[s]) = ToSet(waiters[s]) \cup {t} /\ IsInjective(waiters'[s])
  <2>1. waiters[s] \in Seq(Threads) /\ IsInjective(waiters[s])
    BY <1>0 DEF SyncTypes, ElemInv, WaitersOK
  <2>2. waiters'[s] = list_insert_ordered(waiters[s], t, key)
    BY <1>0, <1>3 DEF SyncTypes
  <2> QED
    BY <1>2, <2>1, <2>2, InsertOrdered
<1>5. ASSUME NEW x \in SemaObjs
      PROVE  WaitersOK(x)'
  <2>1. WaitersOK(x) /\ ToSet(waiters[x]) \subseteq Threads
    BY <1>0 DEF ElemInv, SyncTypes, ToSet
  <2>2. CASE x = s
    BY <1>0, <1>1, <1>4, <2>1, <2>2 DEF WaitersOK, Moves, BlockedStay
  <2>3. CASE x # s
    BY <1>0, <1>1, <1>3, <2>1, <2>3 DEF WaitersOK, Moves, BlockedStay, SyncTypes
  <2> QED
    BY <2>2, <2>3
<1>6. \A u \in Threads : ChildOK(u)'
  BY <1>0, <1>1, ChildrenKept DEF BlockedStay
<1>7. \A u \in Threads : status'[u] = "UNUSED" => pc'[u] = "run"
  BY <1>0, <1>1 DEF BlockedStay, Moves, ElemInv
<1> QED
  BY <1>1, <1>5, <1>6, <1>7 DEF ElemInv

\* semaphore_up() takes a waiter off the list before it joins the run queue.
LEMMA WakeLists ==
  ASSUME Good, ElemInv, NEW s \in SemaObjs, wake(s)
  PROVE  /\ QueueOK'
         /\ \A x \in SemaObjs : IsInjective(waiters'[x]) /\ ToSet(waiters'[x]) \subseteq ToSet(waiters[x])
         /\ \A x \in SemaObjs : x # s => waiters'[x] = waiters[x]
         /\ value' = [value EXCEPT ![s] = @ + 1]
         /\ \/ waiters[s] = <<>> /\ waiters' = waiters /\ UNCHANGED schedVars
            \/ \E h \in ToSet(waiters[s]) :
                 /\ h \in Threads /\ h = Head(list_sort(waiters[s], priority))
                 /\ ToSet(waiters'[s]) = ToSet(waiters[s]) \ {h}
                 /\ status[h] = "BLOCKED" /\ status'[h] = "READY"
                 /\ \A u \in AllThreads : u # h => status'[u] = status[u]
<1> DEFINE sorted == list_sort(waiters[s], priority)
<1>0. SchedTypes /\ PriorityTypes /\ SyncTypes /\ QueueOK
  BY DEF Good, TypeOK, ElemInv
<1>1. /\ waiters[s] \in Seq(Threads) /\ \A u \in Threads : priority[u] \in Int
      /\ \A x \in SemaObjs : WaitersOK(x)
  BY <1>0 DEF SyncTypes, PriorityTypes, AllThreads, ElemInv
<1>2. /\ sorted \in Seq(Threads) /\ Len(sorted) = Len(waiters[s])
      /\ ToSet(sorted) = ToSet(waiters[s]) /\ IsInjective(sorted)
  BY <1>1, SortPermutes DEF WaitersOK
<1>3. CASE waiters[s] = <<>>
  <2>1. UNCHANGED schedVars /\ waiters' = waiters /\ value' = [value EXCEPT ![s] = @ + 1]
    BY <1>3 DEF wake
  <2>2. QueueOK'
    BY <1>0, <2>1 DEF QueueOK, schedVars
  <2> QED
    BY <1>1, <1>3, <2>1, <2>2 DEF WaitersOK
<1>4. CASE waiters[s] # <<>>
  <2>0. thread_unblock(Head(sorted)) /\ waiters' = [waiters EXCEPT ![s] = Tail(sorted)]
        /\ value' = [value EXCEPT ![s] = @ + 1]
    BY <1>4 DEF wake
  <2> HIDE DEF sorted
  <2>1. sorted # <<>>
    BY <1>1, <1>2, <1>4
  <2>2. /\ Head(sorted) \in ToSet(waiters[s]) /\ Head(sorted) \in Threads
        /\ IsInjective(Tail(sorted)) /\ ToSet(Tail(sorted)) = ToSet(waiters[s]) \ {Head(sorted)}
    BY <1>2, <2>1, HeadAndTail
  <2>3. status[Head(sorted)] = "BLOCKED"
    BY <1>1, <2>2 DEF WaitersOK
  <2>4. /\ QueueOK' /\ status'[Head(sorted)] = "READY"
        /\ \A u \in AllThreads : u # Head(sorted) => status'[u] = status[u]
    BY <1>0, <2>0, <2>2, <2>3, UnblockQueue
  <2>5. /\ waiters'[s] = Tail(sorted)
        /\ \A x \in SemaObjs : x # s => waiters'[x] = waiters[x]
    BY <1>0, <2>0 DEF SyncTypes
  <2>6. ASSUME NEW x \in SemaObjs
        PROVE  IsInjective(waiters'[x]) /\ ToSet(waiters'[x]) \subseteq ToSet(waiters[x])
    <3>1. IsInjective(waiters[x])
      BY <1>1 DEF WaitersOK
    <3>2. CASE x = s
      BY <2>2, <2>5, <3>2
    <3>3. CASE x # s
      BY <2>5, <3>1, <3>3
    <3> QED
      BY <3>2, <3>3
  <2>7. ToSet(waiters'[s]) = ToSet(waiters[s]) \ {Head(sorted)}
    BY <2>2, <2>5
  <2> QED
    BY <2>0, <2>2, <2>3, <2>4, <2>5, <2>6, <2>7 DEF sorted
<1> QED
  BY <1>3, <1>4

LEMMA WakeElemInv ==
  ASSUME Good, ElemInv, NEW s \in SemaObjs, wake(s),
         \A u \in Threads : status[u] = "BLOCKED" => pc'[u] = pc[u] /\ regs'[u] = regs[u],
         \A u \in Threads : Creating(u)' => Creating(u) /\ regs'[u].child = regs[u].child,
         \A u \in Threads : status[u] = "UNUSED" => pc'[u] = pc[u]
  PROVE  ElemInv'
<1>0. SyncTypes /\ Threads \subseteq AllThreads
  BY DEF Good, TypeOK, AllThreads
<1>1. /\ QueueOK'
      /\ \A x \in SemaObjs : IsInjective(waiters'[x]) /\ ToSet(waiters'[x]) \subseteq ToSet(waiters[x])
      /\ \A x \in SemaObjs : x # s => waiters'[x] = waiters[x]
  BY WakeLists
<1>2. ASSUME NEW x \in SemaObjs, NEW u \in ToSet(waiters'[x])
      PROVE  status'[u] = "BLOCKED"
  <2>0. ToSet(waiters[x]) \subseteq Threads
    BY <1>0 DEF SyncTypes, ToSet
  <2>1. u \in ToSet(waiters[x]) /\ u \in Threads /\ status[u] = "BLOCKED" /\ regs[u].sema = x
    BY <1>1, <1>2, <2>0 DEF ElemInv, WaitersOK
  <2>2. CASE UNCHANGED schedVars
    BY <2>1, <2>2 DEF schedVars
  <2>3. ASSUME NEW h \in ToSet(waiters[s]), ToSet(waiters'[s]) = ToSet(waiters[s]) \ {h},
               \A y \in AllThreads : y # h => status'[y] = status[y]
        PROVE  status'[u] = "BLOCKED"
    <3>1. regs[h].sema = s
      BY <2>3 DEF ElemInv, WaitersOK
    <3>2. u # h
      BY <1>2, <2>1, <2>3, <3>1
    <3> QED
      BY <1>0, <2>1, <2>3, <3>2
  <2> QED
    BY <2>2, <2>3, WakeLists
<1>3. ASSUME NEW x \in SemaObjs
      PROVE  WaitersOK(x)'
  <2>1. ToSet(waiters[x]) \subseteq Threads /\ WaitersOK(x)
    BY <1>0 DEF ElemInv, SyncTypes, ToSet
  <2> QED
    BY <1>1, <1>2, <2>1 DEF WaitersOK
\* The thread that is woken was in semaphore_down().
<1>4. ASSUME NEW u \in Threads, status[u] = "BLOCKED", pc[u] = "run"
      PROVE  status'[u] = "BLOCKED"
  <2>1. \A h \in ToSet(waiters[s]) : pc[h] = "sd_woken"
    BY DEF ElemInv, WaitersOK
  <2> QED
    BY <1>0, <1>4, <2>1, WakeLists DEF schedVars
<1>5. ASSUME NEW u \in Threads
      PROVE  ChildOK(u)'
  <2>1. Creating(u) => regs[u].child \in Threads
    BY DEF Good, Calls, CallsOK, UpReturn, Creating, Acquiring, Pending, Upping, InAcquire, InRelease,
           AllocTid
  <2> QED
    BY <1>4, <2>1 DEF ElemInv, ChildOK
<1>6. ASSUME NEW u \in Threads, status'[u] = "UNUSED"
      PROVE  pc'[u] = "run"
  <2>1. status[u] = "UNUSED"
    BY <1>0, <1>6, WakeLists DEF schedVars
  <2> QED
    BY <2>1 DEF ElemInv
<1> QED
  BY <1>1, <1>3, <1>5, <1>6 DEF ElemInv

LEMMA UnblockElemInv ==
  ASSUME Good, ElemInv, NEW t \in Threads, Moves(t), tc_unblock(t), waiters' = waiters
  PROVE  ElemInv'
<1> DEFINE c == regs[t].child
<1>0. /\ SchedTypes /\ SyncTypes /\ cur = t /\ pc[t] = "tc_unblock" /\ pc'[t] = "tc_compare"
      /\ regs' = regs /\ c \in Threads /\ Threads \subseteq AllThreads
  BY DEF Good, TypeOK, Calls, CallsOK, CallTypes, AllThreads, tc_unblock, At, Goto
<1>1. Creating(t) /\ ~Creating(t)'
  BY <1>0 DEF Creating, Acquiring, Pending, Upping, InAcquire, AllocTid, InRelease, InUp
<1>2. status[c] = "BLOCKED" /\ pc[c] = "run" /\ c # t
  BY <1>0, <1>1 DEF ElemInv, ChildOK
<1>3. /\ QueueOK' /\ status'[c] = "READY" /\ \A u \in AllThreads : u # c => status'[u] = status[u]
  BY <1>0, <1>2, UnblockQueue DEF tc_unblock, ElemInv
<1>4. ASSUME NEW s \in SemaObjs
      PROVE  WaitersOK(s)'
  <2>1. WaitersOK(s) /\ ToSet(waiters[s]) \subseteq Threads
    BY <1>0 DEF ElemInv, SyncTypes, ToSet
  <2>2. c \notin ToSet(waiters[s]) /\ t \notin ToSet(waiters[s])
    BY <1>0, <1>2, <2>1 DEF WaitersOK
  <2> QED
    BY <1>0, <1>3, <2>1, <2>2 DEF WaitersOK, Moves
<1>5. ASSUME NEW u \in Threads
      PROVE  ChildOK(u)'
  <2>1. \A x \in Threads : Creating(x)' => x # t /\ Creating(x)
    BY <1>1 DEF Moves, Creating, Acquiring, Pending, Upping
  <2>2. Creating(u) => regs[u].child \in Threads
    BY DEF Good, Calls, CallsOK, UpReturn, Creating, Acquiring, Pending, Upping, InAcquire, InRelease,
           AllocTid
  <2>3. Creating(u)' => regs[u].child # c /\ regs[u].child # t
    BY <1>0, <1>1, <2>1 DEF ElemInv, ChildOK
  <2> QED
    BY <1>0, <1>3, <2>1, <2>2, <2>3 DEF ElemInv, ChildOK, Moves
<1>6. \A u \in Threads : status'[u] = "UNUSED" => pc'[u] = "run"
  <2>1. status[t] = "RUNNING"
    BY <1>0 DEF ElemInv, QueueOK
  <2> QED
    BY <1>0, <1>2, <1>3, <2>1 DEF Moves, ElemInv
<1> QED
  BY <1>3, <1>4, <1>5, <1>6 DEF ElemInv

LEMMA CreateElemInv ==
  ASSUME Good, ElemInv, NEW t \in Threads, Moves(t), NEW c \in Threads, NEW p \in Priorities,
         Create(t, c, p)
  PROVE  ElemInv'
<1>0. /\ SchedTypes /\ SyncTypes /\ cur = t /\ pc[t] = "run" /\ pc'[t] = "la_check"
      /\ regs'[t].child = c /\ Threads \subseteq AllThreads /\ waiters' = waiters
      /\ cur' = cur /\ ready_list' = ready_list
      /\ status[c] = "UNUSED" /\ status' = [status EXCEPT ![c] = "BLOCKED"]
  BY DEF Good, TypeOK, CallTypes, Registers, AllThreads, Create, Calling, CallCreate, At, Goto,
         lockVars, semaVars
<1>1. status[t] = "RUNNING" /\ c # t /\ pc[c] = "run" /\ pc'[c] = "run"
  BY <1>0 DEF ElemInv, QueueOK, Moves
<1>2. /\ status'[c] = "BLOCKED" /\ \A u \in AllThreads : u # c => status'[u] = status[u]
  BY <1>0 DEF SchedTypes
<1>3. QueueOK'
  BY <1>0, <1>1, <1>2 DEF QueueOK, ElemInv
<1>4. ASSUME NEW s \in SemaObjs
      PROVE  WaitersOK(s)'
  <2>1. WaitersOK(s) /\ ToSet(waiters[s]) \subseteq Threads
    BY <1>0 DEF ElemInv, SyncTypes, ToSet
  <2> QED
    BY <1>0, <1>1, <1>2, <2>1 DEF WaitersOK, Moves
<1>5. ASSUME NEW u \in Threads
      PROVE  ChildOK(u)'
  <2>1. \A x \in Threads : x # t /\ Creating(x)' =>
           /\ Creating(x) /\ regs'[x] = regs[x] /\ regs[x].child \in Threads
           /\ regs[x].child # c /\ regs[x].child # t
    <3>1. \A x \in Threads : Creating(x) => regs[x].child \in Threads
      BY DEF Good, Calls, CallsOK, UpReturn, Creating, Acquiring, Pending, Upping, InAcquire,
             InRelease, AllocTid
    <3>2. \A x \in Threads : x # t /\ Creating(x)' => Creating(x) /\ regs'[x] = regs[x]
      BY DEF Moves, Creating, Acquiring, Pending, Upping
    <3> QED
      BY <1>0, <1>1, <3>1, <3>2 DEF ElemInv, ChildOK
  <2>2. CASE u = t
    BY <1>0, <1>1, <1>2, <2>1, <2>2 DEF ChildOK
  <2>3. CASE u # t
    BY <1>0, <1>2, <2>1, <2>3 DEF ElemInv, ChildOK, Moves
  <2> QED
    BY <2>2, <2>3
<1>6. \A u \in Threads : status'[u] = "UNUSED" => pc'[u] = "run"
  BY <1>0, <1>1, <1>2 DEF Moves, ElemInv
<1> QED
  BY <1>3, <1>4, <1>5, <1>6 DEF ElemInv

LEMMA StepElemInv ==
  ASSUME Good, LockInv, ElemInv, NEW t \in Threads, Step(t)
  PROVE  ElemInv'
<1>0. Moves(t) /\ SchedTypes /\ QueueOK /\ CallTypes /\ CallsOK(t)
  BY StepMoves DEF Good, TypeOK, ElemInv, Calls
<1>1. CASE ThreadStep(t) /\ UNCHANGED lockVars
  <2>0. SteadyChild(t) /\ waiters' = waiters
    BY <1>1, ThreadSteady DEF lockVars, semaVars
  <2>1. CASE tc_unblock(t)
    BY <1>0, <2>0, <2>1, UnblockElemInv
  <2>2. CASE sp_scan(t) \/ tc_compare(t)
    <3>1. QueueOK' /\ BlockedStay /\ cur = t
      BY <1>0, <2>2, YieldIfQueue DEF sp_scan, tc_compare, At
    <3> QED
      BY <1>0, <2>0, <3>1, QuietElemInv DEF QuietElem
  <2>3. CASE sp_set(t) \/ tc_read(t) \/ tc_incr(t)
    BY <1>0, <2>0, <2>3, SameElem DEF sp_set, tc_read, tc_incr, At
  <2> QED
    BY <1>1, <2>1, <2>2, <2>3 DEF ThreadStep
<1>2. CASE SemaStep(t)
  <2>0. SteadyChild(t)
    BY <1>2, SemaSteady
  <2>1. CASE sd_take(t) \/ sd_fault(t) \/ su_restore(t)
    BY <1>0, <2>0, <2>1, SameElem DEF sd_take, sd_fault, su_restore, Panic, At, semaVars
  <2>2. CASE sd_block(t)
    BY <1>0, <2>0, <2>2, BlockElemInv
  <2>3. CASE su(t)
    <3>1. cur = t /\ wake(regs[t].sema) /\ regs[t].sema \in SemaObjs /\ status[t] = "RUNNING"
      BY <1>0, <2>3 DEF su, At, CallsOK, QueueOK, AllThreads
    <3>2. \A u \in Threads : Creating(u)' => Creating(u) /\ regs'[u].child = regs[u].child
      BY <1>0, <2>0 DEF Moves, SteadyChild, Creating, Acquiring, Pending, Upping
    <3> QED
      BY <1>0, <3>1, <3>2, WakeElemInv DEF Moves
  <2>4. CASE su_preempt(t) \/ su_scan(t) \/ su_yield(t)
    <3>1. QueueOK' /\ BlockedStay /\ cur = t /\ waiters' = waiters
      BY <1>0, <2>4, YieldIfQueue, YieldQueue DEF su_preempt, su_scan, su_yield, At, semaVars
    <3> QED
      BY <1>0, <2>0, <3>1, QuietElemInv DEF QuietElem
  <2> QED
    BY <1>2, <2>1, <2>2, <2>3, <2>4 DEF SemaStep
<1>3. CASE LockStep(t)
  <2>1. SteadyChild(t)
    BY <1>3, LockSteady DEF Steady
  <2>2. cur = t /\ UNCHANGED schedVars /\ waiters' = waiters
    BY <1>3 DEF LockStep, la_check, la_link, la_donate, la_nested, la_donee, la_fault, la_corrupt,
                la_own, lr_donors, lr_restore, lr_corrupt, lr_clear, At, Panic, semaVars
  <2> QED
    BY <1>0, <2>1, <2>2, SameElem
<1>4. CASE CondStep(t)
  <2>1. cur = t /\ UNCHANGED schedVars /\ waiters' = waiters
    BY <1>4 DEF CondStep, cw_down, cw_acquire, cb, At, semaVars
  <2> QED
    BY <1>0, <1>4, <2>1, SameElem, CondSteady
<1> QED
  BY <1>1, <1>2, <1>3, <1>4 DEF Step

LEMMA CallElemInv ==
  ASSUME Good, ElemInv, NEW t \in Threads, Call(t)
  PROVE  ElemInv'
<1>0. Moves(t) /\ SchedTypes /\ SyncTypes /\ QueueOK
  BY StepMoves DEF Good, TypeOK, ElemInv
<1>1. ASSUME NEW c \in Threads, NEW p \in Priorities, Create(t, c, p)
      PROVE  ElemInv'
  BY <1>0, <1>1, CreateElemInv
<1>2. ASSUME SteadyChild(t), Exit(t)
      PROVE  ElemInv'
  <2>1. QueueOK' /\ BlockedStay /\ cur = t /\ waiters' = waiters
    BY <1>0, <1>2, LeaveQueue DEF Exit, thread_exit, At, lockVars, semaVars
  <2> QED
    BY <1>0, <1>2, <2>1, QuietElemInv DEF QuietElem
<1>3. ASSUME SteadyChild(t), NEW c \in Conds, Wait(t, c)
      PROVE  ElemInv'
  <2>1. \A s \in SemaObjs : waiters'[s] \in {waiters[s], <<>>}
    BY <1>0, <1>3 DEF Wait, CallWait, SyncTypes
  <2> QED
    BY <1>0, <1>3, <2>1, SameElem DEF Wait, Calling, At
<1>4. ASSUME SteadyChild(t), NEW x, NEW p,
             \/ Acquire(t, x) \/ Release(t, x) \/ Down(t, x) \/ Up(t, x) \/ Signal(t, x)
             \/ Broadcast(t, x) \/ SetPriority(t, p)
      PROVE  ElemInv'
  <2>1. cur = t /\ UNCHANGED schedVars /\ waiters' = waiters
    BY <1>4 DEF Acquire, Release, Down, Up, Signal, Broadcast, SetPriority, Calling, At, lockVars,
                semaVars
  <2> QED
    BY <1>0, <1>4, <2>1, SameElem
<1>5. SteadyChild(t) \/ \E c \in Threads, p \in Priorities : Create(t, c, p)
  BY CallSteady
<1> QED
  BY <1>1, <1>2, <1>3, <1>4, <1>5 DEF Call

LEMMA NextElemInv ==
  ASSUME Good, LockInv, ElemInv, [Next]_vars
  PROVE  ElemInv'
<1>0. SchedTypes /\ SyncTypes /\ QueueOK
  BY DEF Good, TypeOK, ElemInv
\* No thread moves, and who waits stays blocked.
<1>1. ASSUME pc' = pc, regs' = regs, waiters' = waiters, QueueOK', BlockedStay
      PROVE  ElemInv'
  <2>1. \A s \in SemaObjs : WaitersOK(s)'
    BY <1>0, <1>1 DEF ElemInv, WaitersOK, BlockedStay, SyncTypes, ToSet
  <2>2. \A u \in Threads : Creating(u) => regs[u].child \in Threads
    BY DEF Good, Calls, CallsOK, UpReturn, Creating, Acquiring, Pending, Upping, InAcquire, InRelease,
           AllocTid
  <2>3. \A u \in Threads : ChildOK(u)'
    <3>1. \A u \in Threads : Creating(u)' <=> Creating(u)
      BY <1>1 DEF Creating, Acquiring, Pending, Upping
    <3> QED
      BY <1>1, <2>2, <3>1 DEF ElemInv, ChildOK, BlockedStay
  <2> QED
    BY <1>1, <2>1, <2>3 DEF ElemInv, BlockedStay
<1>2. CASE Tick
  BY <1>0, <1>1, <1>2, YieldQueue DEF Tick, thread_tick, lockVars, semaVars
<1>3. CASE IdleTurn
  <2>1. QueueOK' /\ BlockedStay
    BY <1>0, <1>3, LeaveQueue DEF IdleTurn, idle, thread_block
  <2> QED
    BY <1>1, <1>3, <2>1 DEF IdleTurn, idle, lockVars, semaVars
<1>4. CASE Interrupt
  <2>1. PICK s \in Semas : intr_up(s)
    BY <1>4 DEF Interrupt
  <2>2. wake(s) /\ pc' = pc /\ regs' = regs /\ s \in SemaObjs
    BY <2>1 DEF intr_up, SemaObjs
  <2>3. \A u \in Threads : Creating(u)' <=> Creating(u)
    BY <2>2 DEF Creating, Acquiring, Pending, Upping
  <2> QED
    BY <2>2, <2>3, WakeElemInv
<1>5. CASE UNCHANGED vars
  <2>1. QueueOK' /\ BlockedStay
    BY <1>0, <1>5 DEF vars, schedVars, QueueOK, BlockedStay
  <2> QED
    BY <1>1, <1>5, <2>1 DEF vars, lockVars, semaVars
<1> QED
  BY <1>2, <1>3, <1>4, <1>5, StepElemInv, CallElemInv DEF Next

LEMMA InitElem == Init => ElemInv
<1> SUFFICES ASSUME Init
             PROVE  ElemInv
  OBVIOUS
<1>0. /\ Threads \subseteq AllThreads /\ Started \subseteq Threads /\ cur \in Started
      /\ IsFiniteSet(Started \ {cur})
  BY ThreadAssumption, FS_Subset DEF Init, AllThreads
<1>1. \A t \in Threads : pc[t] = "run"
  BY <1>0 DEF Init
<1>2. ready_list \in SetToSeqs(Started \ {cur})
  BY DEF Init
<1>3. IsInjective(ready_list) /\ ToSet(ready_list) = Started \ {cur}
  BY <1>0, <1>2, Arrangement
<1>4. \A t \in AllThreads : status[t] = IF t = cur THEN "RUNNING" ELSE IF t \in Started THEN "READY"
                                       ELSE IF t = Idle THEN "BLOCKED" ELSE "UNUSED"
  BY DEF Init
<1>5. QueueOK
  BY <1>0, <1>3, <1>4, ThreadAssumption DEF QueueOK
<1>6. \A s \in SemaObjs : WaitersOK(s)
  BY DEF Init, WaitersOK, IsInjective, ToSet
<1> QED
  BY <1>1, <1>5, <1>6 DEF ElemInv, ChildOK, Creating, Acquiring, Pending, Upping, InAcquire, InRelease,
                          InUp, AllocTid

\* A thread is in one list at a time: sharedelem links it into the run queue
\* while it is ready, into the wait list of one semaphore while it is blocked
\* there, and into nothing else (thread.h:77-82); the assertions on the status in
\* thread_unblock() and thread_current() hold (thread.c:292, 334).
THEOREM SharedElem == Spec => []SharedElemExclusive
<1> DEFINE I == Good /\ LockInv /\ ElemInv
<1>1. Init => I
  BY InitInv, InitElem DEF Inv, Good
<1>2. I /\ [Next]_vars => I'
  BY NextGood, NextLockInv, NextElemInv
<1>3. I => SharedElemExclusive
  BY DEF ElemInv, QueueOK, WaitersOK, SharedElemExclusive
<1> HIDE DEF I
<1> QED
  BY <1>1, <1>2, <1>3, PTL DEF Spec

----------------------------------------------------------------------------
(* No up is lost on a waiter. *)

LEMMA WokenFinite == \A s : IsFiniteSet(Woken(s)) /\ Cardinality(Woken(s)) \in Nat
BY ThreadAssumption, FS_Subset, FS_CardinalityType DEF Woken

\* A step in which no value and no wait list changes and nobody enters or leaves
\* semaphore_down() by another way.
LEMMA SameWoken ==
  ASSUME NoLostWakeup,
         \A s \in SemaObjs : waiters'[s] # <<>> => waiters'[s] = waiters[s] /\ value'[s] = value[s],
         \A t \in Threads : pc[t] = "sd_woken" <=> pc'[t] = "sd_woken",
         \A t \in Threads : pc[t] = "sd_woken" => regs'[t].sema = regs[t].sema
  PROVE  NoLostWakeup'
<1> SUFFICES ASSUME NEW s \in SemaObjs, waiters'[s] # <<>>
             PROVE  (value[s] <= Cardinality(Woken(s)))'
  BY DEF NoLostWakeup
<1>1. waiters'[s] = waiters[s] /\ value'[s] = value[s] /\ value[s] <= Cardinality(Woken(s))
  BY DEF NoLostWakeup
<1>2. Woken(s)' = Woken(s)
  BY <1>1 DEF Woken
<1> QED
  BY <1>1, <1>2

\* The waiter that an up takes off the list is one more that was woken.
LEMMA WakeWoken ==
  ASSUME Good, ElemInv, NoLostWakeup, NEW s \in SemaObjs, wake(s),
         \A t \in Threads : pc[t] = "sd_woken" <=> pc'[t] = "sd_woken",
         \A t \in Threads : pc[t] = "sd_woken" => regs'[t].sema = regs[t].sema
  PROVE  NoLostWakeup'
<1>0. SyncTypes /\ value' = [value EXCEPT ![s] = @ + 1]
  BY WakeLists DEF Good, TypeOK
<1> SUFFICES ASSUME NEW x \in SemaObjs, waiters'[x] # <<>>
             PROVE  (value[x] <= Cardinality(Woken(x)))'
  BY DEF NoLostWakeup
<1>1. CASE x # s
  <2>1. waiters'[x] = waiters[x] /\ value'[x] = value[x]
    BY <1>0, <1>1, WakeLists DEF SyncTypes
  <2>2. Woken(x)' = Woken(x)
    BY <2>1 DEF Woken
  <2> QED
    BY <2>1, <2>2 DEF NoLostWakeup
<1>2. CASE x = s
  <2>1. PICK h \in ToSet(waiters[s]) : h \in Threads /\ ToSet(waiters'[s]) = ToSet(waiters[s]) \ {h}
    <3>1. ~(waiters[s] = <<>> /\ waiters' = waiters)
      BY <1>2
    <3> QED
      BY <3>1, WakeLists
  <2>2. pc[h] = "sd_woken" /\ regs[h].sema = s
    BY <2>1 DEF ElemInv, WaitersOK
  <2>3. Woken(s)' = Woken(s) \cup {h} /\ h \notin Woken(s)
    BY <2>1, <2>2 DEF Woken
  <2>4. Cardinality(Woken(s)') = Cardinality(Woken(s)) + 1
    BY <2>3, WokenFinite, FS_AddElement
  <2>5. waiters[s] # <<>> /\ value[s] \in Nat
    <3>1. ToSet(<<>>) = {}
      BY DEF ToSet
    <3> QED
      BY <1>0, <2>1, <3>1 DEF SyncTypes
  <2>6. value'[s] = value[s] + 1 /\ value[s] <= Cardinality(Woken(s))
    BY <1>0, <2>5 DEF NoLostWakeup, SyncTypes
  <2> QED
    BY <1>2, <2>4, <2>5, <2>6, WokenFinite
<1> QED
  BY <1>1, <1>2

\* A thread that takes the value was woken, or finds more than the woken need.
LEMMA TakeWoken ==
  ASSUME Good, ElemInv, NoLostWakeup, NEW t \in Threads, Moves(t), sd_take(t)
  PROVE  NoLostWakeup'
<1> DEFINE s == regs[t].sema
<1>0. /\ SyncTypes /\ s \in SemaObjs /\ value[s] > 0 /\ value' = [value EXCEPT ![s] = @ - 1]
      /\ waiters' = waiters /\ pc[t] \in {"sd", "sd_woken"} /\ cur = t
      /\ pc'[t] # "sd_woken"
  BY DEF Good, TypeOK, Calls, CallsOK, DownReturn, CallTypes, AllThreads, sd_take, At, ReturnTo, Goto
<1>1. \A x \in SemaObjs : t \notin ToSet(waiters[x])
  BY <1>0 DEF ElemInv, QueueOK, WaitersOK, AllThreads
<1> SUFFICES ASSUME NEW x \in SemaObjs, waiters'[x] # <<>>
             PROVE  (value[x] <= Cardinality(Woken(x)))'
  BY DEF NoLostWakeup
<1>2. value[x] \in Nat /\ value[x] <= Cardinality(Woken(x)) /\ Cardinality(Woken(x)) \in Nat
  BY <1>0, WokenFinite DEF NoLostWakeup, SyncTypes
<1>3. CASE x # s
  <2>1. value'[x] = value[x]
    BY <1>0, <1>3 DEF SyncTypes
  <2>2. Woken(x)' = Woken(x)
    BY <1>0, <1>3 DEF Woken, Moves
  <2> QED
    BY <1>2, <2>1, <2>2
<1>4. CASE x = s
  <2>1. value'[x] = value[x] - 1 /\ regs[t].sema = x
    BY <1>0, <1>4 DEF SyncTypes
  <2>2. CASE pc[t] = "sd"
    <3>1. Woken(x)' = Woken(x)
      BY <1>0, <2>2 DEF Woken, Moves
    <3> QED
      BY <1>2, <2>1, <3>1
  <2>3. CASE pc[t] = "sd_woken"
    <3>1. Woken(x)' = Woken(x) \ {t} /\ t \in Woken(x)
      BY <1>0, <1>1, <2>1, <2>3 DEF Woken, Moves
    <3>2. Cardinality(Woken(x)') = Cardinality(Woken(x)) - 1
      BY <3>1, WokenFinite, FS_RemoveElement
    <3> QED
      BY <1>2, <2>1, <3>2
  <2> QED
    BY <1>0, <2>2, <2>3
<1> QED
  BY <1>3, <1>4

\* A thread that starts to wait found the value 0.
LEMMA BlockWoken ==
  ASSUME Good, ElemInv, NoLostWakeup, NEW t \in Threads, Moves(t), sd_block(t)
  PROVE  NoLostWakeup'
<1> DEFINE s == regs[t].sema
<1>0. /\ SyncTypes /\ s \in SemaObjs /\ value[s] = 0 /\ value' = value /\ regs' = regs
      /\ pc[t] \in {"sd", "sd_woken"}
  BY DEF Good, TypeOK, Calls, CallsOK, DownReturn, sd_block, At
<1>1. \A x \in SemaObjs : x # s => waiters'[x] = waiters[x]
  BY DEF sd_block, SyncTypes
<1> SUFFICES ASSUME NEW x \in SemaObjs, waiters'[x] # <<>>
             PROVE  (value[x] <= Cardinality(Woken(x)))'
  BY DEF NoLostWakeup
<1>2. CASE x = s
  <2>1. \A y : IsFiniteSet(Woken(y)') /\ Cardinality(Woken(y)') \in Nat
    BY ThreadAssumption, FS_Subset, FS_CardinalityType DEF Woken
  <2> QED
    BY <1>0, <1>2, <2>1
<1>3. CASE x # s
  <2>1. Woken(x)' = Woken(x)
    BY <1>0, <1>1, <1>3 DEF Woken, Moves
  <2> QED
    BY <1>0, <1>1, <1>3, <2>1 DEF NoLostWakeup
<1> QED
  BY <1>2, <1>3

\* Only semaphore_down() enters and leaves the label sd_woken.
LEMMA WaitsInDownOnly ==
  ASSUME Good, NEW t \in Threads, Call(t) \/ Step(t)
  PROVE  \/ sd_take(t) \/ sd_block(t)
         \/ /\ pc[t] = "sd_woken" <=> pc'[t] = "sd_woken"
            /\ pc[t] = "sd_woken" => regs'[t].sema = regs[t].sema
<1>0. CallTypes /\ PriorityTypes /\ SyncTypes /\ CallsOK(t)
  BY DEF Good, TypeOK, Calls
<1>1. CASE Call(t)
  <2>1. ASSUME NEW c \in Conds, Signal(t, c)
        PROVE  pc[t] = "run" /\ pc'[t] # "sd_woken"
    BY <1>0, <2>1, SignalMoves DEF Signal, Calling, At, Labels, MovesTo
  <2>2. pc[t] = "run" /\ pc'[t] # "sd_woken"
    BY <1>0, <1>1, <2>1 DEF Call, Acquire, Release, Down, Up, Wait, Broadcast, SetPriority, Create,
         Exit, Calling, At, CallAcquire, CallRelease, CallDown, CallUp, CallWait, CallBroadcast,
         CallSetPriority, CallCreate, thread_exit, ReturnTo, Goto, CallTypes, AllThreads
  <2> QED
    BY <2>2
<1>2. CASE Step(t)
  <2>1. CASE ThreadStep(t)
    BY <1>0, <2>1 DEF ThreadStep, sp_set, sp_scan, tc_read, tc_incr, tc_unblock, tc_compare, At,
                      ReturnTo, Goto, CallTypes, AllThreads, CallsOK
  <2>2. CASE SemaStep(t)
    BY <1>0, <2>2 DEF SemaStep, sd_fault, su, su_preempt, su_scan, su_restore, su_yield, At, ReturnTo,
                      Goto, Panic, CallSetPriority, CallTypes, AllThreads, CallsOK, UpReturn, InUp
  <2>3. CASE LockStep(t)
    BY <1>0, <2>3 DEF LockStep, la_check, la_link, la_donate, la_nested, la_donee, la_fault,
                la_corrupt, la_own, lr_donors, lr_restore, lr_corrupt, lr_clear, At, Panic, CallDown,
                CallUp, ReturnTo, Goto, CallTypes, AllThreads, CallsOK
  <2>4. CASE cw_down(t) \/ cw_acquire(t)
    BY <1>0, <2>4 DEF cw_down, cw_acquire, At, CallDown, CallAcquire, Goto, CallTypes, AllThreads
  <2>5. CASE cb(t)
    <3>1. regs[t].cond \in Conds /\ pc[t] = "cb"
      BY <1>0, <2>5 DEF cb, At, CallsOK
    <3>2. CASE cond_waiters[regs[t].cond] = <<>>
      BY <1>0, <2>5, <3>1, <3>2 DEF cb, ReturnTo, Goto, CallTypes, AllThreads
    <3>3. CASE cond_waiters[regs[t].cond] # <<>>
      BY <1>0, <2>5, <3>1, <3>3, SignalMoves DEF cb, Labels, MovesTo
    <3> QED
      BY <3>2, <3>3
  <2> QED
    BY <1>2, <2>1, <2>2, <2>3, <2>4, <2>5 DEF Step, CondStep
<1> QED
  BY <1>1, <1>2

LEMMA NextNoLostWakeup ==
  ASSUME Good, ElemInv, NoLostWakeup, [Next]_vars
  PROVE  NoLostWakeup'
<1>0. SyncTypes
  BY DEF Good, TypeOK
<1>1. ASSUME NEW t \in Threads, Call(t) \/ Step(t), ~sd_take(t), ~sd_block(t), ~su(t)
      PROVE  NoLostWakeup'
  <2>1. /\ \A u \in Threads : pc[u] = "sd_woken" <=> pc'[u] = "sd_woken"
        /\ \A u \in Threads : pc[u] = "sd_woken" => regs'[u].sema = regs[u].sema
    BY <1>1, WaitsInDownOnly, StepMoves DEF Moves
  <2>2. \A s \in SemaObjs : waiters'[s] # <<>> => waiters'[s] = waiters[s] /\ value'[s] = value[s]
    <3>1. ASSUME NEW c \in Conds, Wait(t, c)
          PROVE  \A s \in SemaObjs : waiters'[s] # <<>> => waiters'[s] = waiters[s] /\ value'[s] = value[s]
      BY <1>0, <3>1 DEF Wait, CallWait, SyncTypes
    <3>2. CASE Call(t) /\ \A c \in Conds : ~Wait(t, c)
      BY <3>2 DEF Call, Acquire, Release, Down, Up, Signal, Broadcast, SetPriority, Create, Exit,
                  lockVars, semaVars
    <3>3. CASE Step(t)
      <4>1. CASE SemaStep(t)
        BY <1>1, <4>1 DEF SemaStep, sd_fault, su_preempt, su_scan, su_restore, su_yield, semaVars
      <4>2. CASE LockStep(t)
        BY <4>2 DEF LockStep, la_check, la_link, la_donate, la_nested, la_donee, la_fault, la_corrupt,
                    la_own, lr_donors, lr_restore, lr_corrupt, lr_clear, semaVars
      <4>3. CASE CondStep(t)
        BY <4>3 DEF CondStep, cw_down, cw_acquire, cb, semaVars
      <4> QED
        BY <3>3, <4>1, <4>2, <4>3 DEF Step, lockVars, semaVars
    <3> QED
      BY <1>1, <3>1, <3>2, <3>3
  <2> QED
    BY <2>1, <2>2, SameWoken
<1>2. ASSUME NEW t \in Threads, Call(t) \/ Step(t), sd_take(t) \/ sd_block(t)
      PROVE  NoLostWakeup'
  BY <1>2, StepMoves, TakeWoken, BlockWoken
<1>3. ASSUME NEW t \in Threads, Call(t) \/ Step(t), su(t)
      PROVE  NoLostWakeup'
  <2>1. wake(regs[t].sema) /\ regs[t].sema \in SemaObjs
    BY <1>3 DEF Good, Calls, CallsOK, su, At
  <2>2. ~sd_take(t) /\ ~sd_block(t)
    BY <1>3 DEF su, sd_take, sd_block, At
  <2>3. /\ \A u \in Threads : pc[u] = "sd_woken" <=> pc'[u] = "sd_woken"
        /\ \A u \in Threads : pc[u] = "sd_woken" => regs'[u].sema = regs[u].sema
    BY <1>3, <2>2, WaitsInDownOnly, StepMoves DEF Moves
  <2> QED
    BY <2>1, <2>3, WakeWoken
<1>4. CASE Tick \/ IdleTurn \/ UNCHANGED vars
  BY <1>4, SameWoken DEF Tick, thread_tick, IdleTurn, idle, lockVars, semaVars, vars
<1>5. CASE Interrupt
  <2>1. PICK s \in Semas : intr_up(s)
    BY <1>5 DEF Interrupt
  <2>2. wake(s) /\ s \in SemaObjs /\ pc' = pc /\ regs' = regs
    BY <2>1 DEF intr_up, SemaObjs
  <2> QED
    BY <2>2, WakeWoken
<1> QED
  BY <1>1, <1>2, <1>3, <1>4, <1>5 DEF Next

\* No up is lost on a waiter (semaphore.c:104-110): while threads wait for a
\* semaphore, each unit of its value is matched by a thread that was woken and
\* has not taken it yet, whoever takes values in between.
THEOREM NoWakeupLost == Spec => []NoLostWakeup
<1> DEFINE I == Good /\ LockInv /\ ElemInv /\ NoLostWakeup
<1>1. Init => I
  <2>1. Init => NoLostWakeup
    BY DEF Init, NoLostWakeup
  <2> QED
    BY <2>1, InitInv, InitElem DEF Inv, Good
<1>2. I /\ [Next]_vars => I'
  BY NextGood, NextLockInv, NextElemInv, NextNoLostWakeup
<1> HIDE DEF I
<1>3. I => NoLostWakeup
  BY DEF I
<1> QED
  BY <1>1, <1>2, <1>3, PTL DEF Spec

----------------------------------------------------------------------------
(* Condition variables. *)

\* t is in condvar_wait().
InWait(t) ==
  \/ (pc[t] \in InRelease \/ Upping(t)) /\ regs[t].sret = "cw_down"
  \/ pc[t] \in {"cw_down", "cw_acquire"}
  \/ pc[t] \in {"sd", "sd_woken"} /\ regs[t].sret = "cw_acquire"
  \/ Acquiring(t) /\ regs[t].lret = "run"

\* t is in condvar_broadcast().
InBroadcast(t) == pc[t] = "cb" \/ (Upping(t) /\ regs[t].sret = "cb")

\* Who waits for a signal does so in condvar_wait(), on its own semaphore; who
\* broadcasts holds the lock all the time.
SignalOK(t) ==
  /\ regs[t].waiter => InWait(t)
  /\ regs[t].sret = "cw_down" =>
       regs[t].waiter /\ (pc[t] \in InRelease \/ Upping(t) \/ pc[t] = "cw_down")
  /\ pc[t] = "cw_down" => regs[t].sret = "cw_down"
  /\ pc[t] \in InRelease => regs[t].sret # "cb"
  /\ pc[t] \in {"sd", "sd_woken"} => (regs[t].sema \in Threads <=> regs[t].sret = "cw_acquire")
  /\ pc[t] \in {"sd", "sd_woken"} /\ regs[t].sret = "cw_acquire" => regs[t].sema = t
  /\ pc[t] \in {"su", "su_preempt", "su_scan"} /\ regs[t].sret = "cw_down" => regs[t].sema \in Locks
  /\ InBroadcast(t) => holder[CondLock[regs[t].cond]] = t

\* t works on the semaphore of u in condvar_signal().
Signalling(t, u) == pc[t] \in {"su", "su_preempt", "su_scan"} /\ regs[t].sema = u

\* It holds the lock that u needs to leave condvar_wait().
SignallerOK(t, u) ==
  Signalling(t, u) =>
    /\ regs[u].waiter /\ holder[regs[u].lock] = t
    /\ pc[t] = "su" => AwaitsSignal(u) /\ value[u] = 0

Listed(u) == \E c \in Conds : u \in ToSet(cond_waiters[c])

Upped(u) == value[u] = 1 \/ \E t \in Threads : pc[t] = "su" /\ regs[t].sema = u

AwaitOK(u) == AwaitsSignal(u) => value[u] \in {0, 1} /\ (Listed(u) <=> ~Upped(u))

ListOK(c) ==
  /\ IsInjective(cond_waiters[c])
  /\ \A u \in ToSet(cond_waiters[c]) :
       /\ AwaitsSignal(u) /\ regs[u].lock = CondLock[c]
       /\ \A d \in Conds : u \in ToSet(cond_waiters[d]) => d = c

SignalInv ==
  /\ \A t \in Threads : SignalOK(t)
  /\ \A t, u \in Threads : SignallerOK(t, u)
  /\ \A u \in Threads : AwaitOK(u)
  /\ \A c \in Conds : ListOK(c)

\* What a step of t leaves as it is: whether it waits for a signal, with which
\* lock, and whom it signals.
SteadySignal(t) ==
  /\ AwaitsSignal(t)' <=> AwaitsSignal(t)
  /\ regs[t].waiter => (regs'[t].waiter /\ regs'[t].lock = regs[t].lock) \/ pc[t] = "la_own"
  /\ \A u \in Threads : Signalling(t, u)' => Signalling(t, u) /\ holder' = holder
  /\ \A u \in Threads : pc'[t] = "su" /\ regs'[t].sema = u <=> pc[t] = "su" /\ regs[t].sema = u

\* A thread that does not wait for a signal returns to its function.
LEMMA RunSignal ==
  ASSUME NEW t \in Threads, MovesTo(t, "run", NoCall), ~AwaitsSignal(t), pc[t] # "su",
         regs[t].waiter => pc[t] = "la_own"
  PROVE  SignalOK(t)' /\ SteadySignal(t)
BY DEF MovesTo, NoCall, SignalOK, SteadySignal, InBroadcast, AwaitsSignal, Signalling, Upping,
       InRelease, InUp

LEMMA ThreadSignal ==
  ASSUME Good, NEW t \in Threads, SignalOK(t), ThreadStep(t), holder' = holder
  PROVE  SignalOK(t)' /\ SteadySignal(t)
<1>0. CallTypes /\ CallsOK(t)
  BY DEF Good, TypeOK, Calls
<1> USE DEF SignalOK, SteadySignal, InBroadcast, InWait, AwaitsSignal, Signalling, Acquiring, Upping,
            InAcquire, InRelease, InUp, AllocTid
<1>1. CASE sp_set(t) \/ tc_unblock(t)
  BY <1>0, <1>1 DEF sp_set, tc_unblock, At, Goto, CallTypes, AllThreads
<1>2. CASE sp_scan(t) \/ tc_compare(t)
  <2> DEFINE label == IF pc[t] = "sp_scan" THEN regs[t].pret ELSE "run"
  <2>1. ReturnTo(t, label) /\ label \in {"run", "su_yield"} /\ label \in Labels
    BY <1>0, <1>2 DEF sp_scan, tc_compare, At, CallsOK, Labels
  <2>2. MovesTo(t, label, IF label = "run" THEN NoCall ELSE regs[t])
    BY <1>0, <2>1, ReturnMoves
  <2>3. /\ pc[t] \in {"sp_scan", "tc_compare"}
        /\ label = "su_yield" <=> pc[t] = "sp_scan" /\ regs[t].pret = "su_yield"
    BY <1>0, <1>2 DEF sp_scan, tc_compare, At, CallsOK
  <2> HIDE DEF label
  <2>4. CASE label = "run"
    <3>1. ~AwaitsSignal(t) /\ ~regs[t].waiter
      BY <2>3, <2>4
    <3> QED
      BY <2>2, <2>3, <2>4, <3>1, RunSignal
  <2>5. CASE label = "su_yield"
    BY <1>0, <1>2, <2>2, <2>3, <2>5 DEF MovesTo
  <2> QED
    BY <2>1, <2>4, <2>5
<1>3. CASE tc_read(t) \/ tc_incr(t)
  BY <1>0, <1>3 DEF tc_read, tc_incr, At, Goto, CallTypes, AllThreads, Registers
<1> QED
  BY <1>1, <1>2, <1>3 DEF ThreadStep

LEMMA SemaSignal ==
  ASSUME Good, NEW t \in Threads, SignalOK(t), SemaStep(t)
  PROVE  /\ SignalOK(t)'
         /\ \/ SteadySignal(t)
            \/ sd_take(t) /\ regs[t].sema = t
            \/ su(t) /\ regs[t].sema \in Threads
<1>0. CallTypes /\ CallsOK(t) /\ Threads \cap Locks = {}
  BY ThreadAssumption DEF Good, TypeOK, Calls
<1> USE DEF SignalOK, SteadySignal, InBroadcast, InWait, AwaitsSignal, Signalling, Acquiring, Upping,
            InAcquire, InRelease, InUp, AllocTid
<1>1. CASE sd_take(t)
  <2>1. pc[t] \in {"sd", "sd_woken"} /\ DownReturn(t)
    BY <1>0, <1>1 DEF sd_take, At, CallsOK
  <2>2. CASE regs[t].sret = "run"
    <3>1. MovesTo(t, "run", NoCall)
      BY <1>0, <1>1, <2>2, ReturnMoves DEF sd_take, Labels
    <3>2. ~AwaitsSignal(t) /\ ~regs[t].waiter
      BY <2>1, <2>2
    <3> QED
      BY <2>1, <3>1, <3>2, RunSignal
  <2>3. CASE regs[t].sret \in {"la_own", "cw_acquire"}
    <3>1. pc'[t] = regs[t].sret /\ regs'[t] = regs[t] /\ holder' = holder
      BY <1>0, <1>1, <2>3 DEF sd_take, ReturnTo, Goto, CallTypes, AllThreads
    <3> QED
      BY <1>0, <1>1, <2>1, <2>3, <3>1
  <2> QED
    BY <2>1, <2>2, <2>3 DEF DownReturn
<1>2. CASE sd_block(t)
  BY <1>0, <1>2 DEF sd_block, At, Goto, CallTypes, AllThreads
<1>3. CASE sd_fault(t)
  BY <1>0, <1>3 DEF sd_fault, Panic, At
<1>4. CASE su(t)
  <2>1. /\ pc[t] = "su" /\ pc'[t] = "su_preempt" /\ holder' = holder
        /\ regs'[t].sema = regs[t].sema /\ regs'[t].sret = regs[t].sret
        /\ regs'[t].waiter = regs[t].waiter /\ regs'[t].lock = regs[t].lock
        /\ regs'[t].cond = regs[t].cond
    BY <1>0, <1>4 DEF su, At, Goto, CallTypes, AllThreads, Registers
  <2> QED
    BY <1>0, <1>4, <2>1
<1>5. CASE su_preempt(t) \/ su_scan(t)
  BY <1>0, <1>5 DEF su_preempt, su_scan, At, Goto, CallTypes, AllThreads
<1>6. CASE su_restore(t)
  <2>1. /\ pc'[t] \in {"su_yield", "sp_set"}
        /\ pc'[t] = "sp_set" => regs'[t].pret = "su_yield"
        /\ regs'[t].sema = regs[t].sema /\ regs'[t].sret = regs[t].sret
        /\ regs'[t].waiter = regs[t].waiter /\ regs'[t].lock = regs[t].lock
        /\ regs'[t].cond = regs[t].cond
    BY <1>0, <1>6 DEF su_restore, CallSetPriority, ReturnTo, Goto, CallTypes, AllThreads, Registers
  <2>2. pc[t] = "su_restore" /\ holder' = holder
    BY <1>6 DEF su_restore, At
  <2> QED
    BY <1>0, <2>1, <2>2
<1>7. CASE su_yield(t)
  <2>1. pc[t] = "su_yield" /\ UpReturn(t) /\ holder' = holder
    BY <1>0, <1>7 DEF su_yield, At, CallsOK
  <2>2. CASE regs[t].sret = "run"
    <3>1. MovesTo(t, "run", NoCall)
      BY <1>0, <1>7, <2>2, ReturnMoves DEF su_yield, Labels
    <3>2. ~AwaitsSignal(t) /\ ~regs[t].waiter
      BY <2>1, <2>2
    <3> QED
      BY <2>1, <3>1, <3>2, RunSignal
  <2>3. CASE regs[t].sret # "run"
    <3>1. pc'[t] = regs[t].sret /\ regs'[t] = regs[t]
      BY <1>0, <1>7, <2>3 DEF su_yield, ReturnTo, Goto, CallTypes, AllThreads
    <3> QED
      BY <1>0, <2>1, <2>3, <3>1 DEF UpReturn
  <2> QED
    BY <2>2, <2>3
<1> QED
  BY <1>1, <1>2, <1>3, <1>4, <1>5, <1>6, <1>7 DEF SemaStep

LEMMA LockSignal ==
  ASSUME Good, LockInv, NEW t \in Threads, SignalOK(t), LockStep(t)
  PROVE  SignalOK(t)' /\ SteadySignal(t)
<1>0. CallTypes /\ SyncTypes /\ CallsOK(t) /\ HolderOK(t) /\ Threads \cap Locks = {}
  BY ThreadAssumption DEF Good, TypeOK, Calls, LockInv
<1> USE DEF SignalOK, SteadySignal, InBroadcast, InWait, AwaitsSignal, Signalling, Acquiring, Upping,
            InAcquire, InRelease, InUp, AllocTid
<1>1. CASE la_check(t) \/ la_donee(t)
  <2>1. /\ pc[t] \in {"la_check", "la_donee"} /\ holder' = holder /\ regs[t].lock \in Locks
        /\ \/ pc'[t] = "la_link" /\ regs'[t] = regs[t]
           \/ /\ pc'[t] = "sd" /\ regs'[t].sema = regs[t].lock /\ regs'[t].sret = "la_own"
              /\ regs'[t].waiter = regs[t].waiter /\ regs'[t].lock = regs[t].lock
              /\ regs'[t].lret = regs[t].lret
    BY <1>0, <1>1 DEF la_check, la_donee, At, CallDown, Goto, CallTypes, AllThreads, Registers, CallsOK
  <2> QED
    BY <1>0, <2>1
<1>2. CASE la_link(t) \/ la_donate(t) \/ la_nested(t)
  BY <1>0, <1>2 DEF la_link, la_donate, la_nested, At, Goto, CallTypes, AllThreads
<1>3. CASE la_fault(t) \/ la_corrupt(t) \/ lr_corrupt(t)
  BY <1>0, <1>3 DEF la_fault, la_corrupt, lr_corrupt, Panic, At
<1>4. CASE lr_donors(t) \/ lr_restore(t)
  BY <1>0, <1>4 DEF lr_donors, lr_restore, At, Goto, CallTypes, AllThreads
<1>5. CASE la_own(t)
  <2>1. pc[t] = "la_own" /\ ~AwaitsSignal(t) /\ regs[t].lret \in {"run", "tc_read"}
    BY <1>0, <1>5 DEF la_own, At, CallsOK
  <2>2. CASE regs[t].lret = "run"
    <3>1. MovesTo(t, "run", NoCall)
      BY <1>0, <1>5, <2>2, ReturnMoves DEF la_own, Labels
    <3> QED
      BY <2>1, <3>1, RunSignal
  <2>3. CASE regs[t].lret = "tc_read"
    <3>1. pc'[t] = "tc_read" /\ regs'[t] = regs[t]
      BY <1>0, <1>5, <2>3 DEF la_own, ReturnTo, Goto, CallTypes, AllThreads
    <3> QED
      BY <1>0, <2>1, <2>3, <3>1
  <2> QED
    BY <2>1, <2>2, <2>3
<1>6. CASE lr_clear(t)
  <2>1. /\ pc[t] = "lr_clear" /\ regs[t].lock \in Locks
        /\ pc'[t] = "su" /\ regs'[t].sema = regs[t].lock /\ regs'[t].sret = regs[t].sret
        /\ regs'[t].waiter = regs[t].waiter /\ regs'[t].lock = regs[t].lock
    BY <1>0, <1>6 DEF lr_clear, At, CallUp, Goto, CallTypes, AllThreads, Registers, CallsOK
  <2> QED
    BY <1>0, <2>1
<1> QED
  BY <1>1, <1>2, <1>3, <1>4, <1>5, <1>6 DEF LockStep

LEMMA CondSignal ==
  ASSUME Good, NEW t \in Threads, SignalOK(t), CondStep(t)
  PROVE  /\ SignalOK(t)'
         /\ SteadySignal(t) \/ (cb(t) /\ cond_waiters[regs[t].cond] # <<>>)
<1>0. /\ CallTypes /\ PriorityTypes /\ SyncTypes /\ CallsOK(t) /\ Threads \cap Locks = {}
  BY ThreadAssumption DEF Good, TypeOK, Calls
<1> USE DEF SignalOK, SteadySignal, InBroadcast, InWait, AwaitsSignal, Signalling, Acquiring, Upping,
            InAcquire, InRelease, InUp, AllocTid
<1>1. CASE cw_down(t)
  <2>1. /\ pc[t] = "cw_down" /\ pc'[t] = "sd" /\ regs'[t].sema = t /\ regs'[t].sret = "cw_acquire"
        /\ regs'[t].waiter = regs[t].waiter /\ regs'[t].lock = regs[t].lock /\ holder' = holder
        /\ regs[t].waiter
    BY <1>0, <1>1 DEF cw_down, At, CallDown, Goto, CallTypes, AllThreads, Registers, CallsOK
  <2> QED
    BY <1>0, <2>1
<1>2. CASE cw_acquire(t)
  <2>1. /\ pc[t] = "cw_acquire" /\ pc'[t] = "la_check" /\ regs'[t].lret = "run"
        /\ regs'[t].sret = regs[t].sret /\ regs'[t].sema = regs[t].sema
        /\ regs'[t].waiter = regs[t].waiter /\ regs'[t].lock = regs[t].lock /\ holder' = holder
    BY <1>0, <1>2 DEF cw_acquire, At, CallAcquire, Goto, CallTypes, AllThreads, Registers
  <2>2. regs[t].sret # "cw_down"
    BY <2>1
  <2>3. ~AwaitsSignal(t) /\ ~AwaitsSignal(t)'
    BY <2>1, <2>2
  <2>4. SignalOK(t)'
    BY <2>1, <2>2
  <2>5. SteadySignal(t)
    BY <2>1, <2>3
  <2> QED
    BY <2>4, <2>5
<1>3. CASE cb(t)
  <2>1. regs[t].cond \in Conds /\ pc[t] = "cb" /\ holder' = holder
    BY <1>0, <1>3 DEF cb, At, CallsOK
  <2>2. CASE cond_waiters[regs[t].cond] = <<>>
    <3>1. MovesTo(t, "run", NoCall)
      BY <1>0, <1>3, <2>2, ReturnMoves DEF cb, Labels
    <3> QED
      BY <2>1, <3>1, RunSignal
  <2>3. CASE cond_waiters[regs[t].cond] # <<>>
    <3>1. CallSignal(t, regs[t].cond, "cb") /\ "cb" \in Labels
      BY <1>3, <2>3 DEF cb, Labels
    <3>2. \/ MovesTo(t, "cb", regs[t])
          \/ \E u \in Threads : MovesTo(t, "su", [regs[t] EXCEPT !.sema = u, !.sret = "cb"])
      BY <1>0, <2>1, <3>1, SignalMoves
    <3>3. ASSUME NEW u \in Threads, MovesTo(t, "su", [regs[t] EXCEPT !.sema = u, !.sret = "cb"])
          PROVE  /\ pc'[t] = "su" /\ regs'[t].sema = u /\ regs'[t].sret = "cb"
                 /\ regs'[t].waiter = regs[t].waiter /\ regs'[t].cond = regs[t].cond
      BY <1>0, <3>3 DEF MovesTo, CallTypes, Registers
    <3>4. ~regs[t].waiter
      BY <2>1
    <3>5. SignalOK(t)'
      BY <1>0, <2>1, <3>2, <3>3, <3>4 DEF MovesTo
    <3> QED
      BY <1>3, <2>3, <3>5
  <2> QED
    BY <2>2, <2>3
<1> QED
  BY <1>1, <1>2, <1>3 DEF CondStep

LEMMA CallSignalSteady ==
  ASSUME Good, TidLockInv, NEW t \in Threads, SignalOK(t), Call(t)
  PROVE  /\ SignalOK(t)'
         /\ \/ SteadySignal(t)
            \/ \E c \in Conds : Wait(t, c)
            \/ \E c \in Conds : Signal(t, c) /\ cond_waiters[c] # <<>>
<1>0. /\ CallTypes /\ PriorityTypes /\ SyncTypes /\ CallsOK(t) /\ (pc[t] = "run" => ~regs[t].waiter)
      /\ Threads \cap Locks = {} /\ Threads \cap Semas = {}
  BY ThreadAssumption DEF Good, TypeOK, Calls, TidLockInv, TidLockOK
<1> USE DEF SignalOK, SteadySignal, InBroadcast, InWait, AwaitsSignal, Signalling, Acquiring, Upping,
            InAcquire, InRelease, InUp, AllocTid
<1>1. ASSUME NEW l \in UserLocks, Acquire(t, l) \/ Release(t, l)
      PROVE  SignalOK(t)' /\ SteadySignal(t)
  <2>1. /\ pc[t] = "run" /\ holder' = holder /\ regs'[t].waiter = regs[t].waiter
        /\ \/ pc'[t] = "la_check" /\ regs'[t].sret = regs[t].sret
           \/ pc'[t] = "lr_donors" /\ regs'[t].sret = "run"
    BY <1>0, <1>1 DEF Acquire, Release, Calling, At, CallAcquire, CallRelease, lockVars, Goto,
         CallTypes, AllThreads, Registers
  <2>2. regs[t].sret # "cw_down"
    BY <1>0, <2>1
  <2> QED
    BY <1>0, <2>1, <2>2
<1>2. ASSUME NEW s \in Semas, Down(t, s) \/ Up(t, s)
      PROVE  SignalOK(t)' /\ SteadySignal(t)
  <2>1. /\ pc[t] = "run" /\ pc'[t] \in {"sd", "su"} /\ holder' = holder
        /\ regs'[t].waiter = regs[t].waiter /\ regs'[t].sret = "run" /\ regs'[t].sema = s
    BY <1>0, <1>2 DEF Down, Up, Calling, At, CallDown, CallUp, lockVars, Goto, CallTypes, AllThreads,
         Registers
  <2> QED
    BY <1>0, <2>1
<1>3. ASSUME NEW c \in Conds, Wait(t, c)
      PROVE  SignalOK(t)'
  <2>1. pc'[t] = "lr_donors" /\ regs'[t].waiter /\ regs'[t].sret = "cw_down"
    BY <1>0, <1>3 DEF Wait, CallWait, Goto, CallTypes, AllThreads, Registers
  <2> QED
    BY <1>0, <2>1
<1>4. ASSUME NEW c \in Conds, Signal(t, c)
      PROVE  SignalOK(t)' /\ (SteadySignal(t) \/ cond_waiters[c] # <<>>)
  <2>1. CallSignal(t, c, "run") /\ "run" \in Labels /\ holder' = holder /\ pc[t] = "run"
    BY <1>4 DEF Signal, Calling, At, Labels
  <2>2. \/ MovesTo(t, "run", NoCall)
        \/ \E u \in Threads : MovesTo(t, "su", [regs[t] EXCEPT !.sema = u, !.sret = "run"])
    BY <1>0, <2>1, SignalMoves
  <2>3. CASE MovesTo(t, "run", NoCall)
    BY <1>0, <2>1, <2>3, RunSignal
  <2>4. ASSUME NEW u \in Threads, MovesTo(t, "su", [regs[t] EXCEPT !.sema = u, !.sret = "run"])
        PROVE  SignalOK(t)' /\ cond_waiters[c] # <<>>
    <3>1. /\ pc'[t] = "su" /\ regs'[t].sema = u /\ regs'[t].sret = "run"
          /\ regs'[t].waiter = regs[t].waiter
      BY <1>0, <2>4 DEF MovesTo, CallTypes, Registers
    <3>2. cond_waiters[c] # <<>>
      BY <1>0, <2>1, <3>1 DEF CallSignal, ReturnTo, Goto, CallTypes, AllThreads
    <3> QED
      BY <1>0, <2>1, <3>1, <3>2
  <2> QED
    BY <2>2, <2>3, <2>4
<1>5. ASSUME NEW c \in Conds, Broadcast(t, c)
      PROVE  SignalOK(t)' /\ SteadySignal(t)
  <2>1. /\ pc[t] = "run" /\ pc'[t] = "cb" /\ holder' = holder /\ holder[CondLock[c]] = t
        /\ regs'[t].waiter = regs[t].waiter /\ regs'[t].sret = regs[t].sret /\ regs'[t].cond = c
    BY <1>0, <1>5 DEF Broadcast, Calling, At, CallBroadcast, lock_held_by_current_thread, lockVars,
         Goto, CallTypes, AllThreads, Registers
  <2> QED
    BY <1>0, <2>1
<1>6. ASSUME NEW p \in Priorities, SetPriority(t, p)
      PROVE  SignalOK(t)' /\ SteadySignal(t)
  <2>1. pc[t] = "run" /\ holder' = holder /\ "run" \in Labels
    BY <1>6 DEF SetPriority, Calling, At, lockVars, Labels
  <2>2. CASE ReturnTo(t, "run")
    BY <1>0, <2>1, <2>2, ReturnMoves, RunSignal
  <2>3. CASE Goto(t, "sp_set") /\ regs' = [regs EXCEPT ![t].pret = "run"]
    <3>1. /\ pc'[t] = "sp_set" /\ regs'[t].pret = "run"
          /\ regs'[t].waiter = regs[t].waiter /\ regs'[t].sret = regs[t].sret
      BY <1>0, <2>3 DEF Goto, CallTypes, AllThreads, Registers
    <3> QED
      BY <1>0, <2>1, <3>1
  <2> QED
    BY <1>6, <2>2, <2>3 DEF SetPriority, CallSetPriority
<1>7. ASSUME NEW c \in Threads, NEW p \in Priorities, Create(t, c, p)
      PROVE  SignalOK(t)' /\ SteadySignal(t)
  <2>1. /\ pc[t] = "run" /\ pc'[t] = "la_check" /\ holder' = holder
        /\ regs'[t].waiter = regs[t].waiter /\ regs'[t].sret = regs[t].sret
    BY <1>0, <1>7 DEF Create, Calling, At, CallCreate, lockVars, Goto, CallTypes, AllThreads, Registers
  <2> QED
    BY <1>0, <2>1
<1>8. CASE Exit(t)
  BY <1>0, <1>8 DEF Exit, thread_exit, At, lockVars, Goto, CallTypes, AllThreads
<1> HIDE DEF SignalOK, SteadySignal
<1> QED
  BY <1>1, <1>2, <1>3, <1>4, <1>5, <1>6, <1>7, <1>8 DEF Call

\* A thread that awaits a signal has its semaphore, and the lock that it will need.
LEMMA Waiting ==
  ASSUME Good, NEW u \in Threads, SignalOK(u), AwaitsSignal(u)
  PROVE  /\ regs[u].waiter /\ regs[u].lock \in Locks
         /\ pc[u] \notin {"run", "cb", "la_own"} /\ ~(pc[u] = "su" /\ regs[u].sema = u)
<1>0. CallsOK(u) /\ Threads \cap Locks = {}
  BY ThreadAssumption DEF Good, Calls
<1>1. CASE regs[u].sret = "cw_down"
  BY <1>0, <1>1 DEF CallsOK, SignalOK, Upping, InUp, InRelease
<1>2. CASE regs[u].sema = u /\ pc[u] \in {"sd", "sd_woken"}
  BY <1>0, <1>2 DEF CallsOK, SignalOK, DownReturn
<1> QED
  BY <1>1, <1>2 DEF AwaitsSignal

\* Nobody signals himself.
LEMMA NotOwnSignal ==
  ASSUME NEW t \in Threads, SignalOK(t), regs[t].waiter
  PROVE  ~Signalling(t, t)
BY ThreadAssumption DEF SignalOK, InWait, Signalling, Acquiring, Upping, InAcquire, InUp, InRelease

\* A step of t keeps SignalOK of the others.
LEMMA OthersSignalOK ==
  ASSUME Good, SignalInv, NEW t \in Threads, OthersKeep(t), SignalOK(t)'
  PROVE  \A u \in Threads : SignalOK(u)'
<1> SUFFICES ASSUME NEW u \in Threads, u # t
             PROVE  SignalOK(u)'
  OBVIOUS
<1>1. /\ pc'[u] = pc[u] /\ regs'[u] = regs[u] /\ SignalOK(u) /\ CallsOK(u)
      /\ CondLock \in [Conds -> UserLocks] /\ UserLocks \subseteq Locks
  BY KernelAssumption DEF OthersKeep, Moves, SignalInv, Good, Calls, UserLocks
<1>2. InWait(u)' = InWait(u) /\ InBroadcast(u)' = InBroadcast(u) /\ Upping(u)' = Upping(u)
  BY <1>1 DEF InWait, InBroadcast, Acquiring, Upping
<1>3. InBroadcast(u) => regs[u].cond \in Conds
  BY <1>1 DEF InBroadcast, Upping, CallsOK, UpReturn
<1> QED
  BY <1>1, <1>2, <1>3 DEF SignalOK, OthersKeep

\* Two threads that t is not among keep what holds between them.
LEMMA OthersSignallerOK ==
  ASSUME Good, SignalInv, NEW t \in Threads, OthersKeep(t),
         NEW a \in Threads, NEW b \in Threads, a # t, b # t, value'[b] = value[b]
  PROVE  SignallerOK(a, b)'
<1>1. /\ pc'[a] = pc[a] /\ regs'[a] = regs[a] /\ pc'[b] = pc[b] /\ regs'[b] = regs[b]
      /\ SignallerOK(a, b) /\ CallsOK(b)
  BY DEF OthersKeep, Moves, SignalInv, Good, Calls
<1>2. Signalling(a, b)' = Signalling(a, b) /\ AwaitsSignal(b)' = AwaitsSignal(b)
  BY <1>1 DEF Signalling, AwaitsSignal
<1>3. regs[b].waiter => (holder'[regs[b].lock] = a <=> holder[regs[b].lock] = a)
  BY <1>1 DEF CallsOK, OthersKeep
<1> QED
  BY <1>1, <1>2, <1>3 DEF SignallerOK

LEMMA SteadySignalInv ==
  ASSUME Good, LockInv, SignalInv, NEW t \in Threads, OthersKeep(t), SignalOK(t)',
         SteadySignal(t), \A u \in Threads : value'[u] = value[u], cond_waiters' = cond_waiters
  PROVE  SignalInv'
<1>1. \A u \in Threads : u # t => pc'[u] = pc[u] /\ regs'[u] = regs[u]
  BY DEF OthersKeep, Moves
<1>2. \A u \in Threads : AwaitsSignal(u)' <=> AwaitsSignal(u)
  BY <1>1 DEF SteadySignal, AwaitsSignal
<1>3. \A u \in Threads : SignalOK(u)'
  BY OthersSignalOK
<1>4. ASSUME NEW a \in Threads, NEW b \in Threads
      PROVE  SignallerOK(a, b)'
  <2>1. CASE a # t /\ b # t
    BY <2>1, OthersSignallerOK
  <2>2. CASE a = t /\ b # t
    <3>1. regs'[b] = regs[b] /\ SignallerOK(t, b)
      BY <1>1, <2>2 DEF SignalInv
    <3>2. Signalling(t, b)' => Signalling(t, b) /\ holder' = holder
      BY DEF SteadySignal
    <3>3. Signalling(t, b)' /\ pc'[t] = "su" => pc[t] = "su"
      BY DEF SteadySignal, Signalling
    <3> QED
      BY <1>2, <2>2, <3>1, <3>2, <3>3 DEF SignallerOK
  <2>3. CASE a = t /\ b = t
    <3>1. SignalOK(t) /\ SignallerOK(t, t)
      BY DEF SignalInv
    <3>2. ~Signalling(t, t)
      BY <3>1, NotOwnSignal DEF SignallerOK
    <3> QED
      BY <2>3, <3>2 DEF SteadySignal, SignallerOK
  <2>4. CASE a # t /\ b = t
    <3>1. pc'[a] = pc[a] /\ regs'[a] = regs[a] /\ SignallerOK(a, t) /\ CallsOK(t)
      BY <1>1, <2>4 DEF SignalInv, Good, Calls
    <3>2. CASE ~Signalling(a, t)
      BY <2>4, <3>1, <3>2 DEF SignallerOK, Signalling
    <3>3. CASE Signalling(a, t)
      <4>1. regs[t].waiter /\ holder[regs[t].lock] = a /\ regs[t].lock \in Locks
        BY <3>1, <3>3 DEF SignallerOK, CallsOK
      <4>2. pc[t] # "la_own"
        BY <2>4, <4>1 DEF LockInv, LockExclusive, Owns
      <4>3. regs'[t].waiter /\ regs'[t].lock = regs[t].lock
        BY <4>1, <4>2 DEF SteadySignal
      <4>4. holder'[regs[t].lock] = a
        BY <2>4, <4>1 DEF OthersKeep
      <4> QED
        BY <1>2, <2>4, <3>1, <3>3, <4>3, <4>4 DEF SignallerOK
    <3> QED
      BY <3>2, <3>3
  <2> QED
    BY <2>1, <2>2, <2>3, <2>4
<1>5. ASSUME NEW u \in Threads
      PROVE  AwaitOK(u)'
  <2>1. ASSUME NEW a \in Threads
        PROVE  (pc'[a] = "su" /\ regs'[a].sema = u) <=> (pc[a] = "su" /\ regs[a].sema = u)
    <3>1. CASE a = t
      BY <3>1 DEF SteadySignal
    <3>2. CASE a # t
      BY <1>1, <3>2
    <3> QED
      BY <3>1, <3>2
  <2>2. Upped(u)' = Upped(u) /\ Listed(u)' = Listed(u) /\ AwaitOK(u)
    BY <2>1 DEF Upped, Listed, SignalInv
  <2> QED
    BY <1>2, <2>2 DEF AwaitOK
<1>6. ASSUME NEW c \in Conds
      PROVE  ListOK(c)'
  <2>1. ListOK(c)
    BY DEF SignalInv
  <2>2. ASSUME NEW u \in ToSet(cond_waiters[c])
        PROVE  regs'[u].lock = regs[u].lock
    <3>1. u \in Threads
      BY DEF Good, TypeOK, SyncTypes, ToSet
    <3>2. AwaitsSignal(u) /\ SignalOK(u)
      BY <2>1, <2>2, <3>1 DEF ListOK, SignalInv
    <3>3. regs[u].waiter /\ pc[u] # "la_own"
      BY <3>1, <3>2, Waiting
    <3> QED
      BY <1>1, <3>1, <3>3 DEF SteadySignal
  <2>3. \A u \in ToSet(cond_waiters[c]) : u \in Threads
    BY DEF Good, TypeOK, SyncTypes, ToSet
  <2> QED
    BY <1>2, <2>1, <2>2, <2>3 DEF ListOK
<1> QED
  BY <1>3, <1>4, <1>5, <1>6 DEF SignalInv

\* condvar_wait() puts a waiter with a fresh semaphore on the list.
LEMMA WaitSignalInv ==
  ASSUME Good, SignalInv, TidLockInv, NEW t \in Threads, NEW c \in Conds, Wait(t, c),
         OthersKeep(t), SignalOK(t)'
  PROVE  SignalInv'
<1>0. /\ CallTypes /\ PriorityTypes /\ SyncTypes /\ Threads \cap Locks = {}
      /\ pc[t] = "run" /\ ~regs[t].waiter
  BY ThreadAssumption DEF Good, TypeOK, TidLockInv, TidLockOK, Wait, Calling, At
<1>1. \A u \in Threads : u # t => pc'[u] = pc[u] /\ regs'[u] = regs[u]
  BY DEF OthersKeep, Moves
<1>2. /\ pc'[t] = "lr_donors" /\ regs'[t].lock = CondLock[c] /\ regs'[t].sret = "cw_down"
      /\ holder' = holder
  BY <1>0 DEF Wait, CallWait, Goto, CallTypes, AllThreads, Registers
<1>3. value'[t] = 0 /\ \A u \in Threads : u # t => value'[u] = value[u]
  BY <1>0 DEF Wait, CallWait, SyncTypes, SemaObjs
<1>4. /\ \A d \in Conds : d # c => cond_waiters'[d] = cond_waiters[d]
      /\ ToSet(cond_waiters'[c]) = ToSet(cond_waiters[c]) \cup {t}
      /\ t \notin ToSet(cond_waiters[c]) /\ IsInjective(cond_waiters[c])
         => IsInjective(cond_waiters'[c])
  <2> DEFINE key == [condvar_key EXCEPT ![t] = -1]
  <2>1. cond_waiters[c] \in Seq(Threads)
    BY <1>0 DEF SyncTypes
  <2>2. cond_waiters' = [cond_waiters EXCEPT ![c] = list_insert_ordered(cond_waiters[c], t, key)]
    BY <1>0 DEF Wait, CallWait, SyncTypes
  <2> HIDE DEF key
  <2>3. cond_waiters'[c] = list_insert_ordered(cond_waiters[c], t, key)
    BY <1>0, <2>2 DEF SyncTypes
  <2>4. \A d \in Conds : d # c => cond_waiters'[d] = cond_waiters[d]
    BY <1>0, <2>2 DEF SyncTypes
  <2>5. /\ ToSet(cond_waiters'[c]) = ToSet(cond_waiters[c]) \cup {t}
        /\ IsInjective(cond_waiters[c]) /\ t \notin ToSet(cond_waiters[c])
           => IsInjective(cond_waiters'[c])
    BY <2>1, <2>3, InsertOrdered
  <2> QED
    BY <2>4, <2>5
<1>5. ~AwaitsSignal(t)
  BY <1>0, Waiting DEF SignalInv
<1>6. \A d \in Conds : t \notin ToSet(cond_waiters[d])
  BY <1>5 DEF SignalInv, ListOK
<1>7. ASSUME NEW a \in Threads
      PROVE  ~Signalling(a, t)
  BY <1>0 DEF SignalInv, SignallerOK
<1>8. AwaitsSignal(t)' /\ \A u \in Threads : u # t => AwaitsSignal(u)' = AwaitsSignal(u)
  BY <1>1, <1>2 DEF AwaitsSignal
<1>9. ASSUME NEW a \in Threads, NEW b \in Threads
      PROVE  SignallerOK(a, b)'
  <2>1. CASE a # t /\ b # t
    BY <1>3, <2>1, OthersSignallerOK
  <2>2. CASE a = t
    BY <1>2, <2>2 DEF SignallerOK, Signalling
  <2>3. CASE a # t /\ b = t
    BY <1>1, <1>7, <2>3 DEF SignallerOK, Signalling
  <2> QED
    BY <2>1, <2>2, <2>3
<1>10. ASSUME NEW u \in Threads
       PROVE  AwaitOK(u)'
  <2>1. CASE u = t
    <3>1. Listed(u)'
      BY <1>4, <2>1 DEF Listed
    <3>2. ASSUME NEW a \in Threads
          PROVE  ~(pc'[a] = "su" /\ regs'[a].sema = u)
      BY <1>1, <1>2, <1>7, <2>1 DEF Signalling
    <3> QED
      BY <1>3, <2>1, <3>1, <3>2 DEF AwaitOK, Upped
  <2>2. CASE u # t
    <3>1. Listed(u)' = Listed(u)
      BY <1>4, <2>2 DEF Listed
    <3>2. \A a \in Threads :
            (pc'[a] = "su" /\ regs'[a].sema = u) <=> (pc[a] = "su" /\ regs[a].sema = u)
      BY <1>0, <1>1, <1>2
    <3>3. Upped(u)' = Upped(u) /\ AwaitOK(u)
      BY <1>3, <2>2, <3>2 DEF Upped, SignalInv
    <3> QED
      BY <1>3, <1>8, <2>2, <3>1, <3>3 DEF AwaitOK
  <2> QED
    BY <2>1, <2>2
<1>11. ASSUME NEW d \in Conds
       PROVE  ListOK(d)'
  <2>1. ListOK(d) /\ ListOK(c)
    BY DEF SignalInv
  <2>2. IsInjective(cond_waiters'[d])
    BY <1>4, <1>6, <2>1 DEF ListOK
  <2>3. ASSUME NEW u \in ToSet(cond_waiters'[d])
        PROVE  /\ AwaitsSignal(u)' /\ regs'[u].lock = CondLock[d]
               /\ \A e \in Conds : u \in ToSet(cond_waiters'[e]) => e = d
    <3>1. CASE u = t
      BY <1>2, <1>4, <1>6, <1>8, <2>3, <3>1
    <3>2. CASE u # t
      <4>1. u \in ToSet(cond_waiters[d]) /\ u \in Threads
        <5>1. u \in ToSet(cond_waiters[d])
          BY <1>4, <2>3, <3>2
        <5> QED
          BY <1>0, <5>1 DEF SyncTypes, ToSet
      <4>2. \A e \in Conds : u \in ToSet(cond_waiters'[e]) => u \in ToSet(cond_waiters[e])
        BY <1>4, <3>2
      <4> QED
        BY <1>1, <1>8, <2>1, <3>2, <4>1, <4>2 DEF ListOK
    <3> QED
      BY <3>1, <3>2
  <2> QED
    BY <2>2, <2>3 DEF ListOK
<1>12. \A u \in Threads : SignalOK(u)'
  BY OthersSignalOK
<1> QED
  BY <1>9, <1>10, <1>11, <1>12 DEF SignalInv

\* condvar_signal() takes one waiter off the list.
LEMMA ListTake ==
  ASSUME Good, NEW t \in Threads, NEW c \in Conds, NEW ret \in Labels,
         CallSignal(t, c, ret), cond_waiters[c] # <<>>, IsInjective(cond_waiters[c])
  PROVE  \E u \in ToSet(cond_waiters[c]) :
           /\ u \in Threads
           /\ pc'[t] = "su" /\ regs'[t].sema = u /\ regs'[t].sret = ret
           /\ regs'[t].waiter = regs[t].waiter /\ regs'[t].lock = regs[t].lock
           /\ \A d \in Conds : d # c => cond_waiters'[d] = cond_waiters[d]
           /\ ToSet(cond_waiters'[c]) = ToSet(cond_waiters[c]) \ {u}
           /\ IsInjective(cond_waiters'[c])
<1>0. CallTypes /\ PriorityTypes /\ SyncTypes /\ Threads \subseteq SemaObjs
  BY DEF Good, TypeOK, SemaObjs
<1> DEFINE l == cond_waiters[c]
           sorted == list_sort(l, condvar_key)
<1>1. l \in Seq(Threads) /\ l # <<>>
  BY <1>0 DEF SyncTypes
<1>2. \A u \in Threads : condvar_key[u] \in Int
  <2> SUFFICES ASSUME NEW u \in Threads
               PROVE  condvar_key[u] \in Int
    OBVIOUS
  <2>1. condvar_key[u] = IF waiters[u] = <<>> THEN -1 ELSE priority[Head(waiters[u])]
    BY DEF condvar_key
  <2>2. waiters[u] # <<>> => Head(waiters[u]) \in AllThreads
    BY <1>0 DEF SyncTypes, AllThreads
  <2> QED
    BY <1>0, <2>1, <2>2 DEF PriorityTypes
<1>3. /\ sorted \in Seq(Threads) /\ Len(sorted) = Len(l) /\ ToSet(sorted) = ToSet(l)
      /\ IsInjective(sorted)
  BY <1>1, <1>2, SortPermutes
<1>4. /\ cond_waiters' = [cond_waiters EXCEPT ![c] = Tail(sorted)]
      /\ CallUp(t, Head(sorted), ret)
  BY DEF CallSignal
<1> HIDE DEF sorted
<1>5. sorted # <<>>
  BY <1>1, <1>3
<1>6. /\ Head(sorted) \in ToSet(l) /\ Head(sorted) \in Threads
      /\ IsInjective(Tail(sorted)) /\ ToSet(Tail(sorted)) = ToSet(l) \ {Head(sorted)}
  BY <1>3, <1>5, HeadAndTail
<1>7. MovesTo(t, "su", [regs[t] EXCEPT !.sema = Head(sorted), !.sret = ret])
  BY <1>0, <1>4, <1>6, UpMoves
<1>8. /\ pc'[t] = "su" /\ regs'[t].sema = Head(sorted) /\ regs'[t].sret = ret
      /\ regs'[t].waiter = regs[t].waiter /\ regs'[t].lock = regs[t].lock
  BY <1>0, <1>7 DEF MovesTo, CallTypes, Registers
<1>9. /\ \A d \in Conds : d # c => cond_waiters'[d] = cond_waiters[d]
      /\ cond_waiters'[c] = Tail(sorted)
  BY <1>0, <1>4 DEF SyncTypes
<1> QED
  BY <1>6, <1>8, <1>9

LEMMA TakeSignalInv ==
  ASSUME Good, SignalInv, NEW t \in Threads, NEW c \in Conds, NEW ret \in {"run", "cb"},
         CallSignal(t, c, ret), cond_waiters[c] # <<>>, OthersKeep(t), SignalOK(t)',
         pc[t] \in {"run", "cb"}, ~regs[t].waiter, holder[CondLock[c]] = t,
         holder' = holder, value' = value
  PROVE  SignalInv'
<1>0. SyncTypes /\ ListOK(c) /\ ret \in Labels
  BY DEF Good, TypeOK, SignalInv, Labels
<1>1. \A u \in Threads : u # t => pc'[u] = pc[u] /\ regs'[u] = regs[u]
  BY DEF OthersKeep, Moves
<1>2. PICK v \in ToSet(cond_waiters[c]) :
         /\ v \in Threads
         /\ pc'[t] = "su" /\ regs'[t].sema = v /\ regs'[t].sret = ret
         /\ regs'[t].waiter = regs[t].waiter /\ regs'[t].lock = regs[t].lock
         /\ \A d \in Conds : d # c => cond_waiters'[d] = cond_waiters[d]
         /\ ToSet(cond_waiters'[c]) = ToSet(cond_waiters[c]) \ {v}
         /\ IsInjective(cond_waiters'[c])
  BY <1>0, ListTake DEF ListOK
<1>3. ~AwaitsSignal(t)
  BY Waiting DEF SignalInv
<1>4. /\ AwaitsSignal(v) /\ regs[v].lock = CondLock[c] /\ v # t
      /\ \A d \in Conds : v \in ToSet(cond_waiters[d]) => d = c
  BY <1>0, <1>3 DEF ListOK
<1>5. regs[v].waiter /\ SignalOK(v) /\ AwaitOK(v)
  BY <1>2, <1>4, Waiting DEF SignalInv
<1>6. Listed(v) /\ ~Upped(v) /\ value[v] = 0
  <2>1. Listed(v)
    BY <1>2 DEF Listed
  <2> QED
    BY <1>4, <1>5, <2>1 DEF AwaitOK, Upped
<1>7. \A u \in Threads : AwaitsSignal(u)' = AwaitsSignal(u)
  BY <1>1, <1>2, <1>3 DEF AwaitsSignal
<1>8. ~Listed(v)' /\ \A u \in Threads : u # v => Listed(u)' = Listed(u)
  <2>1. \A d \in Conds : v \notin ToSet(cond_waiters'[d])
    BY <1>2, <1>4
  <2>2. \A u \in Threads, d \in Conds :
          u # v => (u \in ToSet(cond_waiters'[d]) <=> u \in ToSet(cond_waiters[d]))
    BY <1>2
  <2> QED
    BY <2>1, <2>2 DEF Listed
<1>9. Upped(v)' /\ \A u \in Threads : u # v => Upped(u)' = Upped(u)
  <2>1. Upped(v)'
    BY <1>2 DEF Upped
  <2>2. \A u, a \in Threads : u # v =>
          ((pc'[a] = "su" /\ regs'[a].sema = u) <=> (pc[a] = "su" /\ regs[a].sema = u))
    BY <1>1, <1>2
  <2> QED
    BY <2>1, <2>2 DEF Upped
<1>10. ASSUME NEW a \in Threads, NEW b \in Threads
       PROVE  SignallerOK(a, b)'
  <2>1. CASE a # t /\ b # t
    BY <2>1, OthersSignallerOK
  <2>2. CASE a = t /\ b = v
    <3>1. regs'[v] = regs[v] /\ AwaitsSignal(v)'
      BY <1>1, <1>2, <1>4, <1>7
    <3> QED
      BY <1>4, <1>5, <1>6, <2>2, <3>1 DEF SignallerOK
  <2>3. CASE a = t /\ b # v
    BY <1>2, <2>3 DEF SignallerOK, Signalling
  <2>4. CASE a # t /\ b = t
    <3>1. ~Signalling(a, t)
      BY DEF SignalInv, SignallerOK
    <3> QED
      BY <1>1, <2>4, <3>1 DEF SignallerOK, Signalling
  <2> QED
    BY <2>1, <2>2, <2>3, <2>4
<1>11. ASSUME NEW u \in Threads
       PROVE  AwaitOK(u)'
  <2>1. CASE u = v
    BY <1>6, <1>8, <1>9, <2>1 DEF AwaitOK
  <2>2. CASE u # v
    BY <1>7, <1>8, <1>9, <2>2 DEF AwaitOK, SignalInv
  <2> QED
    BY <2>1, <2>2
<1>12. ASSUME NEW d \in Conds
       PROVE  ListOK(d)'
  <2>1. ListOK(d)
    BY DEF SignalInv
  <2>2. IsInjective(cond_waiters'[d]) /\ ToSet(cond_waiters'[d]) \subseteq ToSet(cond_waiters[d])
    BY <1>2, <2>1 DEF ListOK
  <2>3. \A e \in Conds : ToSet(cond_waiters'[e]) \subseteq ToSet(cond_waiters[e])
    BY <1>2
  <2>4. \A u \in ToSet(cond_waiters[d]) : u \in Threads
    BY <1>0 DEF SyncTypes, ToSet
  <2>5. \A u \in ToSet(cond_waiters[d]) : u # t
    BY <1>3, <2>1 DEF ListOK
  <2> QED
    BY <1>1, <1>7, <2>1, <2>2, <2>3, <2>4, <2>5 DEF ListOK
<1>13. \A u \in Threads : SignalOK(u)'
  BY OthersSignalOK
<1> QED
  BY <1>10, <1>11, <1>12, <1>13 DEF SignalInv

\* semaphore_up() ups the semaphore of a waiter.
LEMMA UpSignalInv ==
  ASSUME Good, SignalInv, NEW t \in Threads, su(t), regs[t].sema \in Threads, OthersKeep(t),
         SignalOK(t)', cond_waiters' = cond_waiters
  PROVE  SignalInv'
<1> DEFINE v == regs[t].sema
<1>0. CallTypes /\ SyncTypes /\ Threads \subseteq SemaObjs
  BY DEF Good, TypeOK, SemaObjs
<1>1. \A u \in Threads : u # t => pc'[u] = pc[u] /\ regs'[u] = regs[u]
  BY DEF OthersKeep, Moves
<1>2. /\ pc[t] = "su" /\ pc'[t] = "su_preempt" /\ holder' = holder
      /\ regs'[t].sema = v /\ regs'[t].sret = regs[t].sret
      /\ regs'[t].waiter = regs[t].waiter /\ regs'[t].lock = regs[t].lock
  BY <1>0 DEF su, At, Goto, CallTypes, AllThreads, Registers
<1>3. /\ regs[v].waiter /\ holder[regs[v].lock] = t /\ AwaitsSignal(v) /\ value[v] = 0
      /\ AwaitOK(v) /\ SignalOK(v)
  BY <1>2 DEF SignalInv, SignallerOK, Signalling
<1>4. value'[v] = 1 /\ \A u \in Threads : u # v => value'[u] = value[u]
  BY <1>0, <1>3 DEF su, wake, SyncTypes
<1>5. v # t
  BY <1>2, <1>3, NotOwnSignal DEF Signalling
<1>6. \A u \in Threads : AwaitsSignal(u)' = AwaitsSignal(u)
  BY <1>1, <1>2 DEF AwaitsSignal
<1>7. \A u \in Threads : u # t => (regs[u].waiter => regs[u].lock \in Locks)
  BY DEF Good, Calls, CallsOK
<1>8. ASSUME NEW a \in Threads, NEW b \in Threads
      PROVE  SignallerOK(a, b)'
  <2>1. CASE a = t
    <3>1. CASE b = v
      BY <1>1, <1>2, <1>3, <1>5, <2>1, <3>1 DEF SignallerOK
    <3>2. CASE b # v
      BY <1>2, <2>1, <3>2 DEF SignallerOK, Signalling
    <3> QED
      BY <3>1, <3>2
  <2>2. CASE a # t
    <3>1. /\ SignallerOK(a, b) /\ Signalling(a, b)' = Signalling(a, b) /\ pc'[a] = pc[a]
          /\ regs'[b].waiter = regs[b].waiter /\ regs'[b].lock = regs[b].lock
      BY <1>1, <1>2, <2>2 DEF SignalInv, Signalling
    <3>2. b = v => ~Signalling(a, b)
      BY <1>3, <2>2, <3>1 DEF SignallerOK
    <3> QED
      BY <1>2, <1>4, <1>6, <3>1, <3>2 DEF SignallerOK
  <2> QED
    BY <2>1, <2>2
<1>9. ASSUME NEW u \in Threads
      PROVE  AwaitOK(u)'
  <2>1. Listed(u)' = Listed(u) /\ AwaitOK(u)
    BY DEF Listed, SignalInv
  <2>2. CASE u = v
    <3>1. Upped(u) /\ Upped(u)' /\ value'[u] = 1
      BY <1>2, <1>4, <2>2 DEF Upped
    <3> QED
      BY <1>3, <2>1, <2>2, <3>1 DEF AwaitOK
  <2>3. CASE u # v
    <3>1. \A a \in Threads :
            (pc'[a] = "su" /\ regs'[a].sema = u) <=> (pc[a] = "su" /\ regs[a].sema = u)
      BY <1>1, <1>2, <2>3
    <3>2. Upped(u)' = Upped(u)
      BY <1>4, <2>3, <3>1 DEF Upped
    <3> QED
      BY <1>4, <1>6, <2>1, <2>3, <3>2 DEF AwaitOK
  <2> QED
    BY <2>2, <2>3
<1>10. ASSUME NEW c \in Conds
       PROVE  ListOK(c)'
  <2>1. ListOK(c) /\ \A u \in ToSet(cond_waiters[c]) : u \in Threads
    BY <1>0 DEF SignalInv, SyncTypes, ToSet
  <2>2. \A u \in Threads : regs'[u].lock = regs[u].lock
    BY <1>1, <1>2
  <2> QED
    BY <1>6, <2>1, <2>2 DEF ListOK
<1>11. \A u \in Threads : SignalOK(u)'
  BY OthersSignalOK
<1> QED
  BY <1>8, <1>9, <1>10, <1>11 DEF SignalInv

\* A waiter gets its signal.
LEMMA DownSignalInv ==
  ASSUME Good, SignalInv, NEW t \in Threads, sd_take(t), regs[t].sema = t, OthersKeep(t),
         SignalOK(t)', cond_waiters' = cond_waiters
  PROVE  SignalInv'
<1>0. CallTypes /\ SyncTypes /\ CallsOK(t) /\ SignalOK(t) /\ AwaitOK(t)
  BY DEF Good, TypeOK, Calls, SignalInv
<1>1. \A u \in Threads : u # t => pc'[u] = pc[u] /\ regs'[u] = regs[u]
  BY DEF OthersKeep, Moves
<1>2. /\ pc[t] \in {"sd", "sd_woken"} /\ regs[t].sret = "cw_acquire" /\ value[t] > 0
      /\ holder' = holder
  BY <1>0 DEF sd_take, At, SignalOK
<1>3. pc'[t] = "cw_acquire" /\ regs'[t] = regs[t]
  BY <1>0, <1>2 DEF sd_take, ReturnTo, Goto, CallTypes, AllThreads
<1>4. \A u \in Threads : u # t => value'[u] = value[u]
  BY <1>0 DEF sd_take, SyncTypes
<1>5. /\ AwaitsSignal(t) /\ ~AwaitsSignal(t)'
      /\ \A u \in Threads : u # t => AwaitsSignal(u)' = AwaitsSignal(u)
  BY <1>1, <1>2, <1>3 DEF AwaitsSignal
<1>6. ~Listed(t)
  <2>1. Upped(t)
    BY <1>0, <1>2, <1>5 DEF AwaitOK, Upped
  <2> QED
    BY <1>0, <1>5, <2>1 DEF AwaitOK
<1>7. ASSUME NEW a \in Threads, NEW b \in Threads
      PROVE  SignallerOK(a, b)'
  <2>1. SignallerOK(a, b)
    BY DEF SignalInv
  <2>2. CASE a = t
    BY <1>3, <2>2 DEF SignallerOK, Signalling
  <2>3. CASE a # t /\ b # t
    BY <1>4, <2>3, OthersSignallerOK
  <2>4. CASE a # t /\ b = t
    BY <1>1, <1>2, <1>3, <2>1, <2>4 DEF SignallerOK, Signalling
  <2> QED
    BY <2>2, <2>3, <2>4
<1>8. ASSUME NEW u \in Threads, u # t
      PROVE  AwaitOK(u)'
  <2>1. Listed(u)' = Listed(u) /\ AwaitOK(u)
    BY DEF Listed, SignalInv
  <2>2. \A a \in Threads :
          (pc'[a] = "su" /\ regs'[a].sema = u) <=> (pc[a] = "su" /\ regs[a].sema = u)
    BY <1>1, <1>2, <1>3
  <2>3. Upped(u)' = Upped(u)
    BY <1>4, <1>8, <2>2 DEF Upped
  <2> QED
    BY <1>4, <1>5, <1>8, <2>1, <2>3 DEF AwaitOK
<1>9. ASSUME NEW c \in Conds
      PROVE  ListOK(c)'
  <2>1. ListOK(c) /\ \A u \in ToSet(cond_waiters[c]) : u \in Threads /\ u # t
    BY <1>0, <1>6 DEF SignalInv, SyncTypes, ToSet, Listed
  <2> QED
    BY <1>1, <1>5, <2>1 DEF ListOK
<1>10. \A u \in Threads : SignalOK(u)'
  BY OthersSignalOK
<1> QED
  BY <1>5, <1>7, <1>8, <1>9, <1>10 DEF SignalInv, AwaitOK

\* The rest of the calls and steps leave the waiters' semaphores and lists alone.
LEMMA QuietSignal ==
  ASSUME Good, NEW t \in Threads, SignalOK(t), Call(t) \/ Step(t),
         ~(sd_take(t) /\ regs[t].sema = t), ~(su(t) /\ regs[t].sema \in Threads),
         \A c \in Conds : ~Wait(t, c) /\ ~(Signal(t, c) /\ cond_waiters[c] # <<>>),
         ~(cb(t) /\ cond_waiters[regs[t].cond] # <<>>)
  PROVE  (\A u \in Threads : value'[u] = value[u]) /\ cond_waiters' = cond_waiters
<1>0. SyncTypes /\ CallsOK(t)
  BY DEF Good, TypeOK, Calls
<1>1. CASE Call(t)
  BY <1>1 DEF Call, Acquire, Release, Down, Up, Signal, CallSignal, Broadcast, SetPriority,
              Create, Exit, lockVars, semaVars
<1>2. CASE ThreadStep(t) /\ UNCHANGED lockVars
  BY <1>2 DEF lockVars, semaVars
<1>3. CASE SemaStep(t) /\ UNCHANGED cond_waiters
  <2>1. CASE sd_take(t)
    <3>1. regs[t].sema \notin Threads
      BY <1>0, <2>1 DEF sd_take, At, SignalOK
    <3> QED
      BY <1>0, <1>3, <2>1, <3>1 DEF sd_take, SyncTypes
  <2>2. CASE su(t)
    BY <1>0, <1>3, <2>2 DEF su, wake, SyncTypes
  <2>3. CASE ~sd_take(t) /\ ~su(t)
    BY <1>3, <2>3 DEF SemaStep, sd_block, sd_fault, su_preempt, su_scan, su_restore, su_yield, semaVars
  <2> QED
    BY <2>1, <2>2, <2>3
<1>4. CASE LockStep(t) /\ UNCHANGED cond_waiters
  BY <1>4 DEF LockStep, la_check, la_link, la_donate, la_nested, la_donee, la_fault, la_corrupt,
              la_own, lr_donors, lr_restore, lr_corrupt, lr_clear, semaVars
<1>5. CASE CondStep(t)
  BY <1>5 DEF CondStep, cw_down, cw_acquire, cb, semaVars
<1> QED
  BY <1>1, <1>2, <1>3, <1>4, <1>5 DEF Step

LEMMA NextSignalInv ==
  ASSUME Good, LockInv, TidLockInv, SignalInv, [Next]_vars
  PROVE  SignalInv'
<1>1. ASSUME NEW t \in Threads, Call(t) \/ Step(t)
      PROVE  SignalInv'
  <2>0. OthersKeep(t) /\ SignalOK(t) /\ CallsOK(t) /\ (pc[t] = "run" => ~regs[t].waiter)
    BY <1>1, StepOthersKeep DEF SignalInv, Good, Calls, TidLockInv, TidLockOK
  <2>1. /\ SignalOK(t)'
        /\ \/ SteadySignal(t)
           \/ sd_take(t) /\ regs[t].sema = t
           \/ su(t) /\ regs[t].sema \in Threads
           \/ cb(t) /\ cond_waiters[regs[t].cond] # <<>>
           \/ \E c \in Conds : Wait(t, c)
           \/ \E c \in Conds : Signal(t, c) /\ cond_waiters[c] # <<>>
    BY <1>1, <2>0, ThreadSignal, SemaSignal, LockSignal, CondSignal, CallSignalSteady
       DEF Step, lockVars
  <2>2. CASE sd_take(t) /\ regs[t].sema = t
    <3>1. cond_waiters' = cond_waiters
      BY <1>1, <2>2 DEF sd_take, At, Step, Call, Acquire, Release, Down, Up, Wait, Signal, Broadcast,
           SetPriority, Create, Exit, Calling, lockVars, CondStep, cw_down, cw_acquire, cb, thread_exit
    <3> QED
      BY <2>0, <2>1, <2>2, <3>1, DownSignalInv
  <2>3. CASE su(t) /\ regs[t].sema \in Threads
    <3>1. cond_waiters' = cond_waiters
      BY <1>1, <2>3 DEF su, At, Step, Call, Acquire, Release, Down, Up, Wait, Signal, Broadcast,
           SetPriority, Create, Exit, Calling, lockVars, CondStep, cw_down, cw_acquire, cb, thread_exit
    <3> QED
      BY <2>0, <2>1, <2>3, <3>1, UpSignalInv
  <2>4. CASE cb(t) /\ cond_waiters[regs[t].cond] # <<>>
    <3>1. /\ pc[t] = "cb" /\ regs[t].cond \in Conds /\ holder' = holder /\ value' = value
          /\ CallSignal(t, regs[t].cond, "cb")
      BY <2>0, <2>4 DEF cb, At, CallsOK, semaVars
    <3>2. holder[CondLock[regs[t].cond]] = t /\ ~regs[t].waiter
      BY <2>0, <3>1 DEF SignalOK, InBroadcast, InWait, Upping, Acquiring, InAcquire, InRelease, InUp
    <3> QED
      BY <2>0, <2>1, <2>4, <3>1, <3>2, TakeSignalInv
  <2>5. ASSUME NEW c \in Conds, Wait(t, c)
        PROVE  SignalInv'
    BY <2>0, <2>1, <2>5, WaitSignalInv
  <2>6. ASSUME NEW c \in Conds, Signal(t, c), cond_waiters[c] # <<>>
        PROVE  SignalInv'
    <3>1. /\ pc[t] = "run" /\ holder' = holder /\ value' = value /\ CallSignal(t, c, "run")
          /\ holder[CondLock[c]] = t
      BY <2>6 DEF Signal, Calling, At, lock_held_by_current_thread, semaVars
    <3> QED
      BY <2>0, <2>1, <2>6, <3>1, TakeSignalInv
  <2>7. CASE /\ ~(sd_take(t) /\ regs[t].sema = t) /\ ~(su(t) /\ regs[t].sema \in Threads)
             /\ \A c \in Conds : ~Wait(t, c) /\ ~(Signal(t, c) /\ cond_waiters[c] # <<>>)
             /\ ~(cb(t) /\ cond_waiters[regs[t].cond] # <<>>)
    <3>1. (\A u \in Threads : value'[u] = value[u]) /\ cond_waiters' = cond_waiters
      BY <1>1, <2>0, <2>7, QuietSignal
    <3>2. SteadySignal(t)
      BY <2>1, <2>7
    <3> QED
      BY <2>0, <2>1, <3>1, <3>2, SteadySignalInv
  <2> QED
    BY <2>2, <2>3, <2>4, <2>5, <2>6, <2>7
<1>2. CASE Tick \/ IdleTurn \/ Interrupt \/ UNCHANGED vars
  <2>1. /\ pc' = pc /\ regs' = regs /\ holder' = holder /\ cond_waiters' = cond_waiters
        /\ \A u \in Threads : value'[u] = value[u]
    <3>1. CASE Interrupt
      <4>1. Semas \cap Threads = {} /\ SyncTypes
        BY ThreadAssumption DEF Good, TypeOK
      <4>2. PICK s \in Semas : intr_up(s)
        BY <3>1 DEF Interrupt
      <4>3. value' = [value EXCEPT ![s] = @ + 1]
        BY <4>2 DEF intr_up, wake
      <4> QED
        BY <3>1, <4>1, <4>2, <4>3 DEF Interrupt, intr_up, SyncTypes, SemaObjs
    <3>2. CASE ~Interrupt
      BY <1>2, <3>2 DEF Tick, thread_tick, IdleTurn, idle, lockVars, semaVars, vars
    <3> QED
      BY <3>1, <3>2
  <2>2. /\ \A t \in Threads : SignalOK(t)' = SignalOK(t) /\ AwaitsSignal(t)' = AwaitsSignal(t)
        /\ \A t, u \in Threads : Signalling(t, u)' = Signalling(t, u)
        /\ \A t \in Threads : Upped(t)' = Upped(t) /\ Listed(t)' = Listed(t)
    BY <2>1 DEF SignalOK, InWait, InBroadcast, AwaitsSignal, Acquiring, Upping, Signalling, Upped, Listed
  <2>3. \A c \in Conds : \A u \in ToSet(cond_waiters[c]) : u \in Threads
    BY DEF Good, TypeOK, SyncTypes, ToSet
  <2> QED
    BY <2>1, <2>2, <2>3 DEF SignalInv, SignallerOK, AwaitOK, ListOK
<1> QED
  BY <1>1, <1>2 DEF Next

LEMMA InitSignal == Init => SignalInv
<1> SUFFICES ASSUME Init
             PROVE  SignalInv
  OBVIOUS
<1>1. /\ \A t \in Threads : pc[t] = "run" /\ regs[t] = NoCall
      /\ \A c \in Conds : cond_waiters[c] = <<>>
  BY DEF Init, AllThreads
<1>2. \A t \in Threads : SignalOK(t) /\ ~AwaitsSignal(t)
  BY <1>1 DEF NoCall, SignalOK, AwaitsSignal, InBroadcast, Upping, InRelease, InUp
<1>3. \A c \in Conds : ListOK(c)
  BY <1>1 DEF ListOK, IsInjective, ToSet
<1> QED
  BY <1>1, <1>2, <1>3 DEF SignalInv, SignallerOK, Signalling, AwaitOK

\* condvar_signal() and condvar_broadcast() work on a semaphore on the stack of
\* another thread; the lock that the signaller holds keeps that thread in
\* condvar_wait() until semaphore_up() is done with it (condvar.c:86-116).
THEOREM SignallersFindWaiters == Spec => []SignalFindsWaiter
<1> DEFINE I == Good /\ LockInv /\ TidLockInv /\ SignalInv
<1>1. Init => I
  BY InitInv, InitTidLock, InitSignal DEF Inv, Good
<1>2. I /\ [Next]_vars => I'
  BY NextGood, NextLockInv, NextTidLock, NextSignalInv
<1> HIDE DEF I
<1>3. I => SignalFindsWaiter
  BY DEF I, SignalInv, SignallerOK, Signalling, SignalFindsWaiter
<1> QED
  BY <1>1, <1>2, <1>3, PTL DEF Spec

\* A waiter is on the list of its condition variable until a signal takes it
\* off, and from then on its semaphore is up, or about to be, until it has
\* passed semaphore_down() (condvar.c:86-116).
THEOREM NoSignalLost == Spec => []SignalNotLost
<1> DEFINE I == Good /\ LockInv /\ TidLockInv /\ SignalInv
<1>1. Init => I
  BY InitInv, InitTidLock, InitSignal DEF Inv, Good
<1>2. I /\ [Next]_vars => I'
  BY NextGood, NextLockInv, NextTidLock, NextSignalInv
<1> HIDE DEF I
<1>3. I => SignalNotLost
  BY DEF I, SignalInv, AwaitOK, Listed, Upped, SignalNotLost
<1> QED
  BY <1>1, <1>2, <1>3, PTL DEF Spec

----------------------------------------------------------------------------
(* Who is woken. *)

LeaveHighest ==
  \A s \in SemaObjs : \A t \in ToSet(waiters[s]) \ ToSet(waiters'[s]) :
    \A u \in ToSet(waiters[s]) : priority[u] <= priority[t]

LEMMA WakeHighest ==
  ASSUME Good, ElemInv, NEW s \in SemaObjs, wake(s)
  PROVE  LeaveHighest
<1>0. /\ waiters[s] \in Seq(Threads) /\ \A u \in Threads : priority[u] \in Int
  BY DEF Good, TypeOK, SyncTypes, PriorityTypes, AllThreads
<1>1. \A x \in SemaObjs : x # s => waiters'[x] = waiters[x]
  BY WakeLists
<1>2. \A t \in ToSet(waiters[s]) \ ToSet(waiters'[s]) : t = Head(list_sort(waiters[s], priority))
  BY WakeLists
<1>3. \A u \in ToSet(waiters[s]) : priority[u] <= priority[Head(list_sort(waiters[s], priority))]
  BY <1>0, SortHead
<1> QED
  BY <1>1, <1>2, <1>3 DEF LeaveHighest

\* Only the thread itself waits for the semaphore on its stack.
LEMMA FreshSemaphore ==
  ASSUME Good, ElemInv, SignalInv, NEW t \in Threads, pc[t] = "run"
  PROVE  ToSet(waiters[t]) = {}
<1> SUFFICES ASSUME NEW u \in ToSet(waiters[t])
             PROVE  FALSE
  OBVIOUS
<1>1. u \in Threads /\ t \in SemaObjs
  BY DEF Good, TypeOK, SyncTypes, ToSet, SemaObjs
<1>2. pc[u] = "sd_woken" /\ regs[u].sema = t
  BY <1>1 DEF ElemInv, WaitersOK
<1>3. u = t
  BY <1>1, <1>2 DEF SignalInv, SignalOK
<1> QED
  BY <1>2, <1>3

LEMMA NextHighest ==
  ASSUME Good, ElemInv, SignalInv, [Next]_vars
  PROVE  LeaveHighest
<1>0. SyncTypes
  BY DEF Good, TypeOK
<1>1. ASSUME \A s \in SemaObjs : ToSet(waiters[s]) \subseteq ToSet(waiters'[s])
      PROVE  LeaveHighest
  BY <1>1 DEF LeaveHighest
<1>2. ASSUME NEW t \in Threads, Call(t)
      PROVE  LeaveHighest
  <2>1. ASSUME NEW c \in Conds, Wait(t, c)
        PROVE  LeaveHighest
    <3>1. pc[t] = "run" /\ waiters' = [waiters EXCEPT ![t] = <<>>]
      BY <2>1 DEF Wait, Calling, At, CallWait
    <3>2. ToSet(waiters[t]) = {}
      BY <3>1, FreshSemaphore
    <3>3. \A s \in SemaObjs : s # t => waiters'[s] = waiters[s]
      BY <1>0, <3>1 DEF SyncTypes
    <3> QED
      BY <1>1, <3>2, <3>3
  <2>2. CASE \A c \in Conds : ~Wait(t, c)
    <3>1. waiters' = waiters
      BY <1>2, <2>2 DEF Call, Acquire, Release, Down, Up, Signal, Broadcast, SetPriority, Create,
                        Exit, lockVars, semaVars
    <3> QED
      BY <1>1, <3>1
  <2> QED
    BY <2>1, <2>2
<1>3. ASSUME NEW t \in Threads, Step(t)
      PROVE  LeaveHighest
  <2>1. CASE su(t)
    <3>1. wake(regs[t].sema) /\ regs[t].sema \in SemaObjs
      BY <2>1 DEF su, At, Good, Calls, CallsOK
    <3> QED
      BY <3>1, WakeHighest
  <2>2. CASE sd_block(t)
    <3>1. PICK key : waiters' = [waiters EXCEPT ![regs[t].sema] = list_insert_ordered(@, t, key)]
      BY <2>2 DEF sd_block
    <3>2. ASSUME NEW s \in SemaObjs
          PROVE  ToSet(waiters[s]) \subseteq ToSet(waiters'[s])
      <4>1. waiters[s] \in Seq(Threads)
        BY <1>0 DEF SyncTypes
      <4>2. ToSet(list_insert_ordered(waiters[s], t, key)) = ToSet(waiters[s]) \cup {t}
        BY <4>1, InsertOrdered
      <4>3. waiters'[s] \in {waiters[s], list_insert_ordered(waiters[s], t, key)}
        BY <1>0, <3>1 DEF SyncTypes
      <4> QED
        BY <4>2, <4>3
    <3> QED
      BY <1>1, <3>2
  <2>3. CASE ~su(t) /\ ~sd_block(t)
    <3>1. CASE SemaStep(t)
      <4>1. waiters' = waiters
        BY <2>3, <3>1 DEF SemaStep, sd_take, sd_fault, su_preempt, su_scan, su_restore, su_yield, semaVars
      <4> QED
        BY <1>1, <4>1
    <3>2. CASE LockStep(t)
      <4>1. waiters' = waiters
        BY <3>2 DEF LockStep, la_check, la_link, la_donate, la_nested, la_donee, la_fault, la_corrupt,
              la_own, lr_donors, lr_restore, lr_corrupt, lr_clear, semaVars
      <4> QED
        BY <1>1, <4>1
    <3>3. CASE CondStep(t) \/ UNCHANGED lockVars
      <4>1. waiters' = waiters
        BY <3>3 DEF CondStep, cw_down, cw_acquire, cb, lockVars, semaVars
      <4> QED
        BY <1>1, <4>1
    <3> QED
      BY <1>3, <3>1, <3>2, <3>3 DEF Step
  <2> QED
    BY <2>1, <2>2, <2>3
<1>4. CASE Interrupt
  <2>1. PICK s \in Semas : wake(s)
    BY <1>4 DEF Interrupt, intr_up
  <2> QED
    BY <2>1, WakeHighest DEF SemaObjs
<1>5. CASE Tick \/ IdleTurn \/ UNCHANGED vars
  <2>1. waiters' = waiters
    BY <1>5 DEF Tick, IdleTurn, lockVars, semaVars, vars
  <2> QED
    BY <1>1, <2>1
<1> QED
  BY <1>2, <1>3, <1>4, <1>5 DEF Next

\* semaphore_up() sorts the wait list again before it takes the first thread, so
\* that donations to waiting threads count (semaphore.c:106-107).
THEOREM HighestIsWoken == Spec => UpWakesHighest
<1> DEFINE I == Good /\ LockInv /\ TidLockInv /\ ElemInv /\ SignalInv
<1>1. Init => I
  BY InitInv, InitTidLock, InitElem, InitSignal DEF Inv, Good
<1>2. I /\ [Next]_vars => I'
  BY NextGood, NextLockInv, NextTidLock, NextElemInv, NextSignalInv
<1>3. I /\ [Next]_vars => LeaveHighest
  BY NextHighest
<1> HIDE DEF I
<1>4. Spec => [][LeaveHighest]_vars
  BY <1>1, <1>2, <1>3, PTL DEF Spec
<1> QED
  BY <1>4 DEF UpWakesHighest, LeaveHighest
=============================================================================
