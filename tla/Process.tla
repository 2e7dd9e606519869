------------------------------ MODULE Process ------------------------------
(***************************************************************************)
(* Lab3/process.c and the system calls exec, wait and exit: processes that *)
(* start others, wait for them and exit.  A process is known by its tid    *)
(* and has a page with its struct thread that is freed once it is dead.    *)
(* Nothing here disables interrupts, so that processes interleave at every *)
(* store to a list of children, whose elements are linked as in the Pintos *)
(* list library: what is removed may have been removed before, and another *)
(* process may be changing the same list.                                  *)
(***************************************************************************)
EXTENDS Integers

CONSTANTS
  MaxTid,    \* bound: the last process to be created
  MaxCalls,  \* bound: how often the processes call exec or wait
  Codes      \* exit codes that programs choose

ASSUME ProcessAssumption ==
  /\ MaxTid \in Nat /\ MaxTid >= 3
  /\ MaxCalls \in Nat
  /\ Codes \subseteq Int

NULL == 0
Main == 1           \* the initial thread; the idle thread has tid 2
User == 3..MaxTid
Procs == {Main} \cup User

\* List elements: the ends of the list of p's children, and p's child_elem.
head(p) == <<"head", p>>
tail(p) == <<"tail", p>>
elem(p) == <<"elem", p>>
Nodes == {"head", "tail", "elem"} \X Procs

VARIABLES
  next_tid,     \* of allocate_tid()
  parent, child,               \* members of struct thread, as are
  is_waiting, exit_stat, sem,  \* these three
  next, prev,   \* the pointers of list elements
  exit_c,       \* exit codes by tid
  sem_process,  \* the value of process_execute()'s local semaphore
  loaded,       \* start_process()'s local variable
  arg, t, ex_code,  \* process_wait()'s parameter and local variables
  pc,           \* where each process is
  calls,        \* how many calls of exec and wait there have been
  panic         \* a page that is freed, or a stack frame that is gone, was used

threadVars == <<parent, child, is_waiting, exit_stat, sem>>
listVars == <<next, prev>>
execVars == <<next_tid, sem_process, loaded>>
waitVars == <<arg, t, ex_code>>
vars == <<threadVars, listVars, execVars, waitVars, exit_c, pc, calls, panic>>

Init ==
  /\ next_tid = 3
  /\ parent = [p \in Procs |-> NULL]
  /\ child = [p \in Procs |-> NULL]
  /\ is_waiting = [p \in Procs |-> FALSE]
  /\ exit_stat = [p \in Procs |-> 0]
  /\ sem = [p \in Procs |-> 0]
  /\ next = [n \in Nodes |-> IF n[1] = "head" THEN tail(n[2]) ELSE n]
  /\ prev = [n \in Nodes |-> IF n[1] = "tail" THEN head(n[2]) ELSE n]
  /\ exit_c = [p \in Procs |-> 0]
  /\ sem_process = [p \in Procs |-> 0]
  /\ loaded = [p \in Procs |-> FALSE]
  /\ arg = [p \in Procs |-> NULL]
  /\ t = [p \in Procs |-> NULL]
  /\ ex_code = [p \in Procs |-> 0]
  /\ pc = [p \in Procs |-> IF p = Main THEN "run" ELSE "unused"]
  /\ calls = 0
  /\ panic = FALSE

At(p, from) == ~panic /\ pc[p] = from
Goto(p, to) == pc' = [pc EXCEPT ![p] = to]

Freed(n) == pc[n[2]] = "dead"

----------------------------------------------------------------------------
(* The list library, store by store *)

\* list_push_back(): the element's own pointers, then those of its neighbours.
PushOwn(p, e) ==
  /\ prev' = [prev EXCEPT ![e] = prev[tail(p)]]
  /\ next' = [next EXCEPT ![e] = tail(p)]

PushNext(p, e) == next' = [next EXCEPT ![prev[tail(p)]] = e]

PushPrev(p, e) == prev' = [prev EXCEPT ![tail(p)] = e]

\* list_remove(): the pointers of the two neighbours.
RemoveNext(e) == next' = [next EXCEPT ![prev[e]] = next[e]]

RemovePrev(e) == prev' = [prev EXCEPT ![next[e]] = prev[e]]

----------------------------------------------------------------------------
(* exec *)

Calling(p) ==
  /\ At(p, "run")
  /\ calls < MaxCalls
  /\ calls' = calls + 1

\* A lock makes this one step.
allocate_tid == next_tid' = next_tid + 1

\* A new thread has no children yet and a semaphore of value 0.
init_thread(c) ==
  /\ is_waiting' = [is_waiting EXCEPT ![c] = FALSE]
  /\ exit_stat' = [exit_stat EXCEPT ![c] = 0]
  /\ sem' = [sem EXCEPT ![c] = 0]
  /\ next' = [next EXCEPT ![head(c)] = tail(c)]
  /\ prev' = [prev EXCEPT ![tail(c)] = head(c)]

thread_create(p, c) ==
  /\ init_thread(c)
  /\ allocate_tid
  /\ child' = [child EXCEPT ![p] = c]
  /\ parent' = [parent EXCEPT ![c] = p]
  /\ pc' = [pc EXCEPT ![p] = "exec_down", ![c] = "start"]

\* Mutant: the parent does not wait for its child.
process_execute_NoWait(p) ==
  /\ Calling(p)
  /\ p = Main => child[Main] = NULL
  /\ next_tid \in User
  /\ sem_process' = [sem_process EXCEPT ![p] = 1]
  /\ thread_create(p, next_tid)
  /\ UNCHANGED <<loaded, waitVars, exit_c, panic>>

\* Up to semaphore_down().  The initial thread runs one program.
process_execute(p) ==
  /\ Calling(p)
  /\ p = Main => child[Main] = NULL
  /\ next_tid \in User
  /\ sem_process' = [sem_process EXCEPT ![p] = 0]
  /\ thread_create(p, next_tid)
  /\ UNCHANGED <<loaded, waitVars, exit_c, panic>>

\* The rest, and of sys_exec(), whose look at the file changes its result only.
exec_down(p) ==
  /\ At(p, "exec_down")
  /\ sem_process[p] > 0
  /\ sem_process' = [sem_process EXCEPT ![p] = @ - 1]
  /\ Goto(p, "run")
  /\ UNCHANGED <<threadVars, listVars, next_tid, loaded, waitVars, exit_c, calls, panic>>

\* start_process() pushes the new process onto the list of its parent's children.
push_child(c) ==
  /\ \/ /\ At(c, "start")
        /\ PushOwn(parent[c], elem(c))
        /\ Goto(c, "push_next")
     \/ /\ At(c, "push_next")
        /\ PushNext(parent[c], elem(c))
        /\ Goto(c, "push_prev")
        /\ UNCHANGED prev
     \/ /\ At(c, "push_prev")
        /\ PushPrev(parent[c], elem(c))
        /\ Goto(c, "load")
        /\ UNCHANGED next
  /\ UNCHANGED <<threadVars, execVars, waitVars, exit_c, calls, panic>>

\* It loads the program and lets the parent go on.
load(c) ==
  /\ At(c, "load")
  /\ \E l \in BOOLEAN : loaded' = [loaded EXCEPT ![c] = l]
  /\ sem_process' = [sem_process EXCEPT ![parent[c]] = @ + 1]
  /\ Goto(c, "free")
  /\ UNCHANGED <<threadVars, listVars, next_tid, waitVars, exit_c, calls, panic>>

\* Then it reads new_param, on the parent's stack, to free the command line.
free_cmd_line(c) ==
  LET gone == \A p \in Procs : child[p] = c => pc[p] # "exec_down" IN
  /\ At(c, "free")
  /\ \/ Goto(c, IF loaded[c] THEN "run" ELSE "exit_pop") /\ UNCHANGED panic
     \/ gone /\ panic' = TRUE /\ UNCHANGED pc
  /\ loaded' = [loaded EXCEPT ![c] = FALSE]
  /\ UNCHANGED <<threadVars, listVars, next_tid, sem_process, waitVars, exit_c, calls>>

----------------------------------------------------------------------------
(* wait *)

\* process_wait() returns.
Returns(p) ==
  /\ Goto(p, "run")
  /\ arg' = [arg EXCEPT ![p] = NULL]
  /\ t' = [t EXCEPT ![p] = NULL]
  /\ ex_code' = [ex_code EXCEPT ![p] = 0]

\* The initial thread waits for the program it ran, programs for any tid.
\* is_alive, tested first, is set for every thread and never reset.
process_wait(p, i) ==
  LET e == next[head(p)] IN
  /\ Calling(p)
  /\ p = Main => i = child[Main]
  /\ IF i < 0
       THEN UNCHANGED <<arg, t, pc>>
       ELSE /\ arg' = [arg EXCEPT ![p] = i]
            /\ t' = [t EXCEPT ![p] = IF e = tail(p) THEN NULL ELSE e[2]]
            /\ Goto(p, IF e = tail(p) THEN "wait_code" ELSE "wait_find")
  /\ UNCHANGED <<threadVars, listVars, execVars, ex_code, exit_c, panic>>

\* The loop ends at the child with the tid, or else at the last one.
wait_find(p) ==
  LET e == next[elem(t[p])] IN
  /\ At(p, "wait_find")
  /\ IF Freed(elem(t[p]))
       THEN panic' = TRUE /\ UNCHANGED <<t, pc>>
       ELSE /\ UNCHANGED panic
            /\ IF t[p] = arg[p] \/ e = tail(p)
                 THEN Goto(p, "wait_code") /\ UNCHANGED t
                 ELSE t' = [t EXCEPT ![p] = e[2]] /\ UNCHANGED pc
  /\ UNCHANGED <<threadVars, listVars, execVars, arg, ex_code, exit_c, calls>>

wait_code(p) ==
  /\ At(p, "wait_code")
  /\ ex_code' = [ex_code EXCEPT ![p] = exit_c[arg[p]]]
  /\ Goto(p, "wait_reset")
  /\ UNCHANGED <<threadVars, listVars, execVars, arg, t, exit_c, calls, panic>>

wait_reset(p) ==
  /\ At(p, "wait_reset")
  /\ exit_c' = [exit_c EXCEPT ![arg[p]] = -1]
  /\ IF t[p] = NULL THEN Returns(p) ELSE Goto(p, "wait_flag") /\ UNCHANGED waitVars
  /\ UNCHANGED <<threadVars, listVars, execVars, calls, panic>>

\* A freed page holds any value of is_waiting; what is written there is lost.
wait_flag(p) ==
  /\ At(p, "wait_flag")
  /\ \E waiting \in IF Freed(elem(t[p])) THEN BOOLEAN ELSE {is_waiting[t[p]]} :
       /\ is_waiting' = [is_waiting EXCEPT ![t[p]] = TRUE]
       /\ IF waiting THEN Returns(p) ELSE Goto(p, "wait_down") /\ UNCHANGED waitVars
  /\ UNCHANGED <<parent, child, exit_stat, sem, listVars, execVars, exit_c, calls, panic>>

\* A semaphore in a freed page does not block: its value is as it was, after
\* the child's semaphore_up(), or overwritten by palloc_free_page().
wait_down(p) ==
  /\ At(p, "wait_down")
  /\ sem[t[p]] > 0
  /\ sem' = [sem EXCEPT ![t[p]] = @ - 1]
  /\ Goto(p, "wait_return")
  /\ UNCHANGED <<parent, child, is_waiting, exit_stat, listVars, execVars, waitVars, exit_c, calls, panic>>

\* It returns exit_c[arg].
wait_return(p) ==
  /\ At(p, "wait_return")
  /\ Returns(p)
  /\ UNCHANGED <<threadVars, listVars, execVars, exit_c, calls, panic>>

----------------------------------------------------------------------------
(* exit *)

sys_exit(p, code) ==
  /\ At(p, "run") /\ p # Main
  /\ exit_stat' = [exit_stat EXCEPT ![p] = code]
  /\ Goto(p, "exit_pop")
  /\ UNCHANGED <<parent, child, is_waiting, sem, listVars, execVars, waitVars, exit_c, calls, panic>>

\* One turn of the loop over the children, which removes the first, or its end.
exit_pop(p) ==
  LET e == next[head(p)] IN
  /\ \/ /\ At(p, "exit_pop") /\ e = tail(p)
        /\ Goto(p, "exit_remove")
        /\ t' = [t EXCEPT ![p] = NULL]
        /\ UNCHANGED <<parent, listVars, panic>>
     \/ /\ At(p, "exit_pop") /\ e # tail(p) /\ ~Freed(e)
        /\ t' = [t EXCEPT ![p] = e[2]]
        /\ RemoveNext(e)
        /\ Goto(p, "exit_popped")
        /\ UNCHANGED <<parent, prev, panic>>
     \/ /\ At(p, "exit_popped") /\ ~Freed(elem(t[p]))
        /\ RemovePrev(elem(t[p]))
        /\ parent' = [parent EXCEPT ![t[p]] = NULL]
        /\ Goto(p, "exit_pop")
        /\ UNCHANGED <<next, t, panic>>
     \/ /\ \/ At(p, "exit_pop") /\ e # tail(p) /\ Freed(e)
           \/ At(p, "exit_popped") /\ Freed(elem(t[p]))
        /\ panic' = TRUE
        /\ UNCHANGED <<parent, listVars, t, pc>>
  /\ UNCHANGED <<child, is_waiting, exit_stat, sem, execVars, arg, ex_code, exit_c, calls>>

\* Also when the parent has removed the element before.
exit_remove(p) ==
  /\ \/ /\ At(p, "exit_remove")
        /\ RemoveNext(elem(p))
        /\ Goto(p, "exit_removed")
        /\ UNCHANGED prev
     \/ /\ At(p, "exit_removed")
        /\ RemovePrev(elem(p))
        /\ Goto(p, "exit_code")
        /\ UNCHANGED next
  /\ UNCHANGED <<threadVars, execVars, waitVars, exit_c, calls, panic>>

\* Mutants: the parent is woken before the code is there; or not at all.
exit_code_Late(p) ==
  /\ \/ /\ At(p, "exit_code")
        /\ sem' = [sem EXCEPT ![p] = @ + 1]
        /\ Goto(p, "exit_up")
        /\ UNCHANGED exit_c
     \/ /\ At(p, "exit_up")
        /\ exit_c' = [exit_c EXCEPT ![p] = exit_stat[p]]
        /\ Goto(p, "dying")
        /\ UNCHANGED sem
  /\ UNCHANGED <<parent, child, is_waiting, exit_stat, listVars, execVars, waitVars, calls, panic>>

exit_code_NoUp(p) ==
  /\ At(p, "exit_code")
  /\ exit_c' = [exit_c EXCEPT ![p] = exit_stat[p]]
  /\ Goto(p, "dying")
  /\ UNCHANGED <<threadVars, listVars, execVars, waitVars, calls, panic>>

exit_code(p) ==
  /\ \/ /\ At(p, "exit_code")
        /\ exit_c' = [exit_c EXCEPT ![p] = exit_stat[p]]
        /\ Goto(p, "exit_up")
        /\ UNCHANGED sem
     \/ /\ At(p, "exit_up")
        /\ sem' = [sem EXCEPT ![p] = @ + 1]
        /\ Goto(p, "dying")
        /\ UNCHANGED exit_c
  /\ UNCHANGED <<parent, child, is_waiting, exit_stat, listVars, execVars, waitVars, calls, panic>>

\* The thread that runs next frees the page: its pointers are no longer read.
thread_exit(p) ==
  /\ At(p, "dying")
  /\ Goto(p, "dead")
  /\ parent' = [parent EXCEPT ![p] = NULL]
  /\ child' = [child EXCEPT ![p] = NULL]
  /\ next' = [n \in Nodes |-> IF n[2] = p THEN n ELSE next[n]]
  /\ prev' = [n \in Nodes |-> IF n[2] = p THEN n ELSE prev[n]]
  /\ UNCHANGED <<is_waiting, exit_stat, sem, execVars, waitVars, exit_c, calls, panic>>

----------------------------------------------------------------------------
Call(p) ==
  \/ process_execute(p)
  \/ \E i \in {-1} \cup (User \cap 3..next_tid) : process_wait(p, i)

\* The steps that change only what is declared here.
Proceed(p) ==
  \/ exec_down(p) \/ push_child(p)
  \/ wait_find(p) \/ wait_code(p) \/ wait_reset(p) \/ wait_flag(p) \/ wait_down(p) \/ wait_return(p)
  \/ exit_pop(p) \/ exit_remove(p) \/ exit_code(p)

Step(p) == Proceed(p) \/ load(p) \/ free_cmd_line(p) \/ thread_exit(p)

Exit(p) == \E code \in Codes : sys_exit(p, code)

Next == \E p \in Procs : Call(p) \/ Step(p) \/ Exit(p)

Spec == Init /\ [][Next]_vars

----------------------------------------------------------------------------
(* Properties *)

Starting == {"start", "push_next", "push_prev", "load"}

\* A process that is being started uses its parent's list and semaphore: the
\* parent waits for it in process_execute() until start_process() ups it.
ParentWaits ==
  \A c \in User : pc[c] \in Starting => pc[parent[c]] = "exec_down" /\ child[parent[c]] = c

\* Who blocks in process_wait() on the child it asked for goes on only after
\* process_exit() of that child has stored its exit code, and then finds that or
\* the -1 of another reset, never the code of one that had the entry before
\* (process.c:244-258, 291-292).
WaitNotEarly ==
  \A p \in Procs :
    pc[p] = "wait_return" /\ t[p] = arg[p] =>
      /\ pc[t[p]] \in {"dying", "dead"}
      /\ exit_c[arg[p]] \in {exit_stat[t[p]], -1}

\* Whoever blocks in process_wait() returns from it, as process_exit() ups the
\* semaphore, unless the kernel has panicked: no two processes wait for each
\* other, whatever tids they ask for.
WaitReturns == \A p \in Procs : []<>(panic \/ pc[p] # "wait_down")

\* process_exit() takes a process off its parent's list, so that the list does
\* not lead into a page that is freed.
DeadUnlisted == \A p \in Procs : pc[p] # "dead" => ~Freed(next[head(p)])
=============================================================================
