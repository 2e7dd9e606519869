-------------------------------- MODULE Lock --------------------------------
(***************************************************************************)
(* Lab2/lock.c: locks with priority donation.  Everything in it but the    *)
(* calls to the semaphore runs with interrupts on: each statement is a     *)
(* step, and lock->holder is read again by each.                           *)
(***************************************************************************)
EXTENDS Semaphore

CallAcquire(t, l, ret) ==
  /\ Goto(t, "la_check")
  /\ regs' = [regs EXCEPT ![t].lock = l, ![t].lret = ret]

CallRelease(t, l, ret) ==
  /\ Goto(t, "lr_donors")
  /\ regs' = [regs EXCEPT ![t].lock = l, ![t].sret = ret]

lock_held_by_current_thread(t, l) == holder[l] = t

\* t's p_elem is linked into the donors of some thread.
Linked(t) == \E h \in Threads : t \in ToSet(priority_list[h])

\* list_insert_ordered(l, t) follows a link into the page of a dead thread.
InsertFaults(l, t) ==
  \E i \in DOMAIN l : Freed(l[i]) /\ \A j \in 1..(i - 1) : priority[t] <= priority[l[j]]

\* So does a walk through the whole list.
WalkFaults(l) == \E i \in DOMAIN l : Freed(l[i])

----------------------------------------------------------------------------
(* lock_acquire() *)

la_check(t) ==
  LET l == regs[t].lock
  IN /\ At(t, "la_check")
     /\ IF holder[l] # Null
          THEN /\ lock_temp' = [lock_temp EXCEPT ![t] = l]
               /\ Goto(t, "la_link")
               /\ UNCHANGED regs
          ELSE /\ CallDown(t, l, "la_own")
               /\ UNCHANGED lock_temp
     /\ UNCHANGED <<schedVars, tidVars, priority, prev_priority, priority_list, donee,
                    semaVars, holder, panic>>

\* The waiter joins the holder's donors.
la_link(t) ==
  LET h == holder[regs[t].lock]
  IN /\ At(t, "la_link")
     /\ h # Null /\ ~Linked(t) /\ ~InsertFaults(priority_list[h], t)
     /\ priority_list' =
          [priority_list EXCEPT ![h] = list_insert_ordered(@, t, priority)]
     /\ Goto(t, "la_donate")
     /\ UNCHANGED <<schedVars, tidVars, priority, prev_priority, lock_temp, donee, regs,
                    semaVars, holder, panic>>

la_donate(t) ==
  LET h == holder[regs[t].lock]
  IN /\ At(t, "la_donate")
     /\ h # Null
     /\ priority' = [priority EXCEPT ![h] = priority[t]]
     /\ Goto(t, "la_nested")
     /\ UNCHANGED <<schedVars, donateVars, tidVars, prev_priority, regs, semaVars, holder, panic>>

\* One level of nested donation, to the thread the holder donated to last; a
\* donation to a dead one is written into its page.
la_nested(t) ==
  LET h == holder[regs[t].lock]
      d == donee[h]
  IN /\ At(t, "la_nested")
     /\ h # Null
     /\ priority' = IF d # Null /\ ~Freed(d) /\ priority[h] > priority[d]
                      THEN [priority EXCEPT ![d] = priority[h]] ELSE priority
     /\ Goto(t, "la_donee")
     /\ UNCHANGED <<schedVars, donateVars, tidVars, prev_priority, regs, semaVars, holder, panic>>

la_donee(t) ==
  LET l == regs[t].lock
  IN /\ At(t, "la_donee")
     /\ donee' = [donee EXCEPT ![t] = holder[l]]
     /\ CallDown(t, l, "la_own")
     /\ UNCHANGED <<schedVars, tidVars, priority, prev_priority, priority_list, lock_temp,
                    semaVars, holder, panic>>

\* The holder released the lock since it was found taken, and
\* lock->holder->... faults.
la_fault(t) ==
  /\ At(t, "la_link") \/ At(t, "la_donate") \/ At(t, "la_nested")
  /\ holder[regs[t].lock] = Null
  /\ Panic("lock_acquire: null holder")
  /\ UNCHANGED <<semaVars, holder>>

\* The list functions have no defined result from here: p_elem is inserted
\* while it is still in a list, or a donor's page is gone.
la_corrupt(t) ==
  LET h == holder[regs[t].lock]
  IN /\ At(t, "la_link")
     /\ h # Null /\ (Linked(t) \/ InsertFaults(priority_list[h], t))
     /\ Panic("lock_acquire: corrupt list of donors")
     /\ UNCHANGED <<semaVars, holder>>

la_own(t) ==
  /\ At(t, "la_own")
  /\ holder' = [holder EXCEPT ![regs[t].lock] = t]
  /\ ReturnTo(t, regs[t].lret)
  /\ UNCHANGED <<schedVars, donateVars, tidVars, priority, prev_priority, semaVars, panic>>

----------------------------------------------------------------------------
(* lock_release() *)

\* If the priority differs from the thread's own, the donors that wait for
\* this lock are unlinked, and the donors of each of them are sorted.
DonorsGone(t) == {u \in ToSet(priority_list[t]) : lock_temp[u] = regs[t].lock}

lr_donors(t) ==
  LET gone == DonorsGone(t)
  IN /\ At(t, "lr_donors")
     /\ IF prev_priority[t] = priority[t]
          THEN Goto(t, "lr_clear") /\ UNCHANGED priority_list
          ELSE /\ \A u \in gone \cup {t} : ~WalkFaults(priority_list[u])
               /\ Goto(t, "lr_restore")
               /\ priority_list' = [u \in Threads |->
                    IF u = t THEN list_remove_all(priority_list[t], gone)
                    ELSE IF u \in gone THEN list_sort(priority_list[u], priority)
                    ELSE priority_list[u]]
     /\ UNCHANGED <<schedVars, tidVars, priority, prev_priority, lock_temp, donee, regs,
                    semaVars, holder, panic>>

\* The first of the donors left gives its priority, or the thread gets its own.
lr_restore(t) ==
  /\ At(t, "lr_restore")
  /\ \E p \in IF priority_list[t] # <<>> THEN PriorityReads(Head(priority_list[t]))
                                         ELSE {prev_priority[t]} :
       priority' = [priority EXCEPT ![t] = p]
  /\ Goto(t, "lr_clear")
  /\ UNCHANGED <<schedVars, donateVars, tidVars, prev_priority, regs, semaVars, holder, panic>>

lr_corrupt(t) ==
  /\ At(t, "lr_donors")
  /\ prev_priority[t] # priority[t]
  /\ \E u \in DonorsGone(t) \cup {t} : WalkFaults(priority_list[u])
  /\ Panic("lock_release: corrupt list of donors")
  /\ UNCHANGED <<semaVars, holder>>

\* Mutant: the holder is not cleared.
lr_clear_NoReset(t) ==
  /\ At(t, "lr_clear")
  /\ CallUp(t, regs[t].lock, regs[t].sret)
  /\ UNCHANGED <<schedVars, donateVars, tidVars, priority, prev_priority, semaVars, holder, panic>>

lr_clear(t) ==
  /\ At(t, "lr_clear")
  /\ holder' = [holder EXCEPT ![regs[t].lock] = Null]
  /\ CallUp(t, regs[t].lock, regs[t].sret)
  /\ UNCHANGED <<schedVars, donateVars, tidVars, priority, prev_priority, semaVars, panic>>
=============================================================================
