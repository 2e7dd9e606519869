---------------------------- MODULE SyscallProof ----------------------------
(***************************************************************************)
(* Lab 3, for any number of processes, of calls and of entries in the      *)
(* table of files.  A program's file calls either leave the processes      *)
(* alone, end the program or panic, so what is proved about processes is   *)
(* proved about ProcStep, the steps that the variables of Process can take *)
(* in the composed specification, and what is proved about files needs of  *)
(* the processes only that there are such.                                 *)
(***************************************************************************)
EXTENDS Syscall, WellFoundedInduction, TLAPS

ExceptPanic == <<threadVars, listVars, execVars, waitVars, exit_c, pc, calls>>

\* A system call that is not in the switch.
Leave(p) ==
  /\ At(p, "run") /\ p # Main
  /\ Goto(p, "exit_pop")
  /\ UNCHANGED <<threadVars, listVars, execVars, waitVars, exit_c, calls, panic>>

ProcStep(p) ==
  \/ Call(p)
  \/ Step(p)
  \/ \E code \in Int : sys_exit(p, code)
  \/ Leave(p)
  \/ UNCHANGED ExceptPanic /\ panic' \in {panic, TRUE}

\* What a system call on files does to the processes.
LEMMA FileStepProc ==
  ASSUME NEW p \in Procs, FileStep(p)
  PROVE  \/ \E code \in Int : sys_exit(p, code)
         \/ Leave(p)
         \/ UNCHANGED ExceptPanic /\ panic' \in {panic, TRUE}
<1>0. -1 \in Int
  OBVIOUS
<1>1. CASE bad_pointer(p)
  BY <1>0, <1>1 DEF bad_pointer
<1>2. CASE unimplemented(p)
  BY <1>2 DEF unimplemented, Running, At, Goto, Leave, threadVars, listVars, execVars, waitVars
<1>3. ASSUME NEW name \in Names, NEW fd \in Descriptors, sys_create(p, name) \/ sys_open(p, name, fd)
      PROVE  UNCHANGED ExceptPanic /\ panic' \in {panic, TRUE}
  BY <1>3 DEF sys_create, sys_open, ExceptPanic, vars
<1>4. ASSUME NEW name \in Names, sys_create(p, name)
      PROVE  UNCHANGED ExceptPanic /\ panic' \in {panic, TRUE}
  BY <1>4 DEF sys_create, ExceptPanic, vars
<1>5. ASSUME NEW fd \in Descriptors, filesize_handler(p, fd) \/ close_handler(p, fd)
      PROVE  UNCHANGED ExceptPanic /\ panic' \in {panic, TRUE}
  BY <1>5 DEF filesize_handler, close_handler, ExceptPanic, vars
<1>6. ASSUME NEW fd \in Descriptors, NEW size \in Sizes, sys_read(p, fd, size)
      PROVE  \E code \in Int : sys_exit(p, code)
  BY <1>0, <1>6 DEF sys_read
<1>7. ASSUME NEW fd \in Descriptors, NEW size \in Sizes, sys_write(p, fd, size)
      PROVE  UNCHANGED ExceptPanic /\ panic' \in {panic, TRUE}
  BY <1>7 DEF sys_write, ExceptPanic
<1> QED
  BY <1>1, <1>2, <1>3, <1>4, <1>5, <1>6, <1>7 DEF FileStep

\* What the whole of Lab 3 does to the processes.
LEMMA SysNextProc ==
  ASSUME [SysNext]_sysVars
  PROVE  \E p \in Procs : ProcStep(p)
<1>1. Main \in Procs
  BY DEF Procs
<1>2. CASE UNCHANGED sysVars
  BY <1>1, <1>2 DEF sysVars, vars, ProcStep, ExceptPanic
<1>3. ASSUME NEW p \in Procs, sys_exec(p) \/ wait_handler(p)
      PROVE  Call(p)
  BY <1>3 DEF sys_exec, wait_handler, Call
<1>4. ASSUME NEW p \in Procs, FileStep(p)
      PROVE  ProcStep(p)
  BY <1>4, FileStepProc DEF ProcStep
<1>5. ASSUME NEW p \in Procs, SysStep(p)
      PROVE  Step(p)
  BY <1>5 DEF SysStep, start_process, exit_thread, Step
<1>6. ASSUME NEW p \in Procs, exit_handler(p)
      PROVE  \E code \in Int : sys_exit(p, code)
  BY <1>6, ProcessAssumption DEF exit_handler, Exit
<1> QED
  BY <1>2, <1>3, <1>4, <1>5, <1>6 DEF SysNext, file_handler, ProcStep

----------------------------------------------------------------------------
(* Types *)

Labels == {"unused", "run", "exec_down", "start", "push_next", "push_prev", "load", "free",
           "wait_find", "wait_code", "wait_reset", "wait_flag", "wait_down", "wait_return",
           "exit_pop", "exit_popped", "exit_remove", "exit_removed", "exit_code", "exit_up",
           "dying", "dead"}

InWait == {"wait_find", "wait_code", "wait_reset", "wait_flag", "wait_down", "wait_return"}

HasT == {"wait_find", "wait_flag", "wait_down", "wait_return", "exit_popped"}

Types ==
  /\ next_tid \in 3..(MaxTid + 1)
  /\ parent \in [Procs -> Procs \cup {NULL}]
  /\ child \in [Procs -> User \cup {NULL}]
  /\ exit_stat \in [Procs -> Int]
  /\ sem \in [Procs -> Nat]
  /\ is_waiting \in [Procs -> BOOLEAN]
  /\ next \in [Nodes -> Nodes]
  /\ prev \in [Nodes -> Nodes]
  /\ exit_c \in [Procs -> Int]
  /\ sem_process \in [Procs -> Nat]
  /\ loaded \in [Procs -> BOOLEAN]
  /\ arg \in [Procs -> User \cup {NULL}]
  /\ t \in [Procs -> Procs \cup {NULL}]
  /\ ex_code \in [Procs -> Int]
  /\ pc \in [Procs -> Labels]
  /\ calls \in Nat
  /\ panic \in BOOLEAN

\* Where a process is, its local variables have the values that it needs there,
\* and the processes that have not been created are the ones from next_tid on.
Places ==
  /\ \A p \in Procs : pc[p] \in InWait => arg[p] \in User
  /\ \A p \in Procs : pc[p] \in HasT => t[p] \in Procs
  /\ \A p \in User : pc[p] = "unused" <=> p >= next_tid
  /\ pc[Main] # "unused"

\* Facts about the sets that processes and list elements are in.
LEMMA ProcFacts ==
  /\ Main \in Procs /\ Main \notin User /\ NULL \notin Procs
  /\ User \subseteq Procs
  /\ \A c \in Procs : c # Main => c \in User
BY ProcessAssumption DEF Main, User, Procs, NULL

LEMMA NodeFacts ==
  /\ \A p \in Procs : head(p) \in Nodes /\ tail(p) \in Nodes /\ elem(p) \in Nodes
  /\ \A p \in Procs : head(p)[1] = "head" /\ tail(p)[1] = "tail" /\ elem(p)[1] = "elem"
  /\ \A p \in Procs : head(p)[2] = p /\ tail(p)[2] = p /\ elem(p)[2] = p
  /\ \A n \in Nodes : n[2] \in Procs
  /\ \A n \in Nodes : n = head(n[2]) \/ n = tail(n[2]) \/ n = elem(n[2])
BY DEF head, tail, elem, Nodes

----------------------------------------------------------------------------
(* Families.  A process that is started belongs to the family of the one    *)
(* that starts it, also after that has gone; a list element is in a family  *)
(* as the head and tail of the list of children, or as the child_elem of a  *)
(* child.  Whatever stores to the lists are lost when two processes change  *)
(* one list, pointers never lead out of a family, so that nobody but its    *)
(* own parent resets a process's parent.                                    *)

RegionOf(fam, n) == IF n[1] = "elem" THEN fam[n[2]] ELSE n[2]

Family(fam) ==
  /\ \A c \in Procs : IF pc[c] = "unused" \/ c = Main THEN fam[c] = -c ELSE fam[c] \in Procs
  /\ \A c \in Procs : parent[c] \in {NULL, fam[c]}
  /\ \A n \in Nodes : RegionOf(fam, next[n]) = RegionOf(fam, n)
  /\ \A n \in Nodes : RegionOf(fam, prev[n]) = RegionOf(fam, n)
  /\ \A n \in Nodes, q \in Procs : next[n] = head(q) => n = head(q) /\ pc[q] = "dead"
  /\ \A p \in Procs : pc[p] = "exit_popped" => fam[t[p]] = p

Families == \E fam \in [Procs -> Int] : Family(fam)

\* ParentWaits with what its induction needs.
Starts ==
  \A c \in Procs : pc[c] \in Starting =>
    /\ parent[c] \in Procs
    /\ pc[parent[c]] = "exec_down"
    /\ child[parent[c]] = c
    /\ sem_process[parent[c]] = 0

ProcInv == Types /\ Places /\ Families /\ Starts

\* Initially there is only the initial thread, which has no children.
LEMMA InitProcInv == SysInit => ProcInv
<1> SUFFICES ASSUME Init
             PROVE  ProcInv
  BY DEF SysInit
<1> USE ProcFacts, NodeFacts
<1>1. Types
  <2>1. next_tid \in 3..(MaxTid + 1)
    BY ProcessAssumption DEF Init
  <2>2. next \in [Nodes -> Nodes] /\ prev \in [Nodes -> Nodes]
    BY DEF Init
  <2>3. /\ parent \in [Procs -> Procs \cup {NULL}] /\ child \in [Procs -> User \cup {NULL}]
        /\ arg \in [Procs -> User \cup {NULL}] /\ t \in [Procs -> Procs \cup {NULL}]
        /\ exit_stat \in [Procs -> Int] /\ exit_c \in [Procs -> Int] /\ ex_code \in [Procs -> Int]
        /\ sem \in [Procs -> Nat] /\ sem_process \in [Procs -> Nat]
    BY DEF Init
  <2>4. is_waiting \in [Procs -> BOOLEAN] /\ loaded \in [Procs -> BOOLEAN] /\ panic \in BOOLEAN
    BY DEF Init
  <2>5. pc \in [Procs -> Labels] /\ calls \in Nat
    BY DEF Init, Labels
  <2> QED
    BY <2>1, <2>2, <2>3, <2>4, <2>5 DEF Types
<1>2. Places
  BY ProcessAssumption DEF Init, Places, InWait, HasT, User
<1>3a. \A c \in Procs : -c \in Int
  BY DEF Procs, Main, User
<1>3. Families
  <2> DEFINE fam == [c \in Procs |-> -c]
  <2>1. /\ fam \in [Procs -> Int]
        /\ \A c \in Procs : fam[c] = -c
    BY <1>3a
  <2> HIDE DEF fam
  <2>2. \A c \in Procs : pc[c] = "unused" \/ c = Main
    BY DEF Init
  <2>3. \A n \in Nodes : RegionOf(fam, next[n]) = RegionOf(fam, n) /\ RegionOf(fam, prev[n]) = RegionOf(fam, n)
    BY DEF Init, RegionOf
  <2>4. \A n \in Nodes, q \in Procs : next[n] # head(q)
    BY DEF Init
  <2> QED
    BY <2>1, <2>2, <2>3, <2>4 DEF Init, Families, Family
<1>4. Starts
  BY DEF Init, Starts, Starting
<1> QED
  BY <1>1, <1>2, <1>3, <1>4 DEF ProcInv

\* A process that is not there does not change its pc but by being created.
LEMMA TypesStep ==
  ASSUME ProcInv, NEW p \in Procs, ProcStep(p)
  PROVE  Types' /\ Places'
<1> USE ProcFacts
<1> USE DEF ProcInv
<1>0. /\ next \in [Nodes -> Nodes] /\ prev \in [Nodes -> Nodes]
      /\ sem \in [Procs -> Nat] /\ sem_process \in [Procs -> Nat]
      /\ exit_c \in [Procs -> Int]
      /\ parent \in [Procs -> Procs \cup {NULL}] /\ t \in [Procs -> Procs \cup {NULL}]
      /\ pc \in [Procs -> Labels] /\ panic \in BOOLEAN
  BY DEF Types
<1>1. CASE process_execute(p)
  <2> DEFINE c == next_tid
  <2>1. /\ c \in User /\ c \in 3..MaxTid /\ pc[p] = "run" /\ pc[c] = "unused" /\ c # p
    BY <1>1 DEF process_execute, Calling, At, User, Types, Places
  <2>2. /\ is_waiting' = [is_waiting EXCEPT ![c] = FALSE]
        /\ exit_stat' = [exit_stat EXCEPT ![c] = 0]
        /\ sem' = [sem EXCEPT ![c] = 0]
        /\ next' = [next EXCEPT ![head(c)] = tail(c)]
        /\ prev' = [prev EXCEPT ![tail(c)] = head(c)]
        /\ next_tid' = c + 1
        /\ child' = [child EXCEPT ![p] = c]
        /\ parent' = [parent EXCEPT ![c] = p]
        /\ pc' = [pc EXCEPT ![p] = "exec_down", ![c] = "start"]
        /\ sem_process' = [sem_process EXCEPT ![p] = 0]
        /\ calls' = calls + 1
        /\ UNCHANGED <<loaded, waitVars, exit_c, panic>>
    BY <1>1 DEF process_execute, Calling, thread_create, init_thread, allocate_tid
  <2>3. next_tid' \in 3..(MaxTid + 1)
    BY <2>1, <2>2, ProcessAssumption
  <2>4. Types'
    BY <2>1, <2>2, <2>3, NodeFacts DEF Types, Labels, waitVars
  <2>5. \A q \in Procs : pc'[q] = IF q = p THEN "exec_down" ELSE IF q = c THEN "start" ELSE pc[q]
    BY <1>0, <2>1, <2>2
  <2>6. Places'
    <3>1. \A q \in User : pc'[q] = "unused" <=> q >= next_tid'
      <4> SUFFICES ASSUME NEW q \in User
                   PROVE  pc'[q] = "unused" <=> q >= c + 1
        BY <2>2
      <4>1. CASE q = p
        BY <2>1, <2>5, <4>1 DEF Places
      <4>2. CASE q # p
        BY <2>1, <2>5, <4>2 DEF Places, User
      <4> QED
        BY <4>1, <4>2
    <3>2. \A q \in Procs : pc'[q] \in InWait \cup HasT => pc'[q] = pc[q]
      BY <2>5 DEF InWait, HasT
    <3>3. pc'[Main] # "unused"
      BY <2>5 DEF Places
    <3>4. arg' = arg /\ t' = t
      BY <2>2 DEF waitVars
    <3> QED
      BY <3>1, <3>2, <3>3, <3>4 DEF Places, InWait, HasT
  <2> QED
    BY <2>4, <2>6
<1>2. ASSUME NEW i \in {-1} \cup (User \cap 3..next_tid), process_wait(p, i)
      PROVE  Types' /\ Places'
  <2> DEFINE e == next[head(p)]
  <2>1. e[2] \in Procs
    BY <1>0, NodeFacts
  <2>2. pc[p] = "run" /\ calls' \in Nat
    BY <1>2 DEF process_wait, Calling, At, Types
  <2>3. CASE i < 0
    BY <1>2, <2>2, <2>3 DEF process_wait, Types, Places, threadVars, listVars, execVars
  <2>4. CASE ~(i < 0)
    <3>1. /\ arg' = [arg EXCEPT ![p] = i] /\ i \in User
          /\ t' = [t EXCEPT ![p] = IF e = tail(p) THEN NULL ELSE e[2]]
          /\ pc' = [pc EXCEPT ![p] = IF e = tail(p) THEN "wait_code" ELSE "wait_find"]
          /\ UNCHANGED <<threadVars, listVars, execVars, ex_code, exit_c, panic>>
      BY <1>2, <2>4 DEF process_wait, Goto
    <3>2. Types'
      BY <2>1, <2>2, <3>1 DEF Types, Labels, threadVars, listVars, execVars
    <3>3. pc'[p] \in {"wait_code", "wait_find"} /\ (pc'[p] = "wait_find" => t'[p] \in Procs) /\ arg'[p] \in User
      BY <2>1, <3>1 DEF Types
    <3>4. \A q \in Procs : q # p => pc'[q] = pc[q] /\ t'[q] = t[q] /\ arg'[q] = arg[q]
      BY <3>1 DEF Types
    <3>5. Places'
      BY <2>2, <3>1, <3>3, <3>4 DEF Places, InWait, HasT, execVars
    <3> QED
      BY <3>2, <3>5
  <2> QED
    BY <2>3, <2>4
<1>3. CASE exec_down(p)
  BY <1>3 DEF exec_down, At, Goto, Types, Places, Labels, InWait, HasT, threadVars, listVars, waitVars
<1>4. CASE push_child(p)
  <2>1. pc[p] \in Starting /\ parent[p] \in Procs
    BY <1>4 DEF push_child, At, Starts, Starting
  <2>2. next' \in [Nodes -> Nodes] /\ prev' \in [Nodes -> Nodes]
    <3>1. tail(parent[p]) \in Nodes /\ elem(p) \in Nodes
      BY <2>1, NodeFacts
    <3>2. \/ PushOwn(parent[p], elem(p))
          \/ PushNext(parent[p], elem(p)) /\ UNCHANGED prev
          \/ PushPrev(parent[p], elem(p)) /\ UNCHANGED next
      BY <1>4 DEF push_child
    <3> QED
      BY <1>0, <3>1, <3>2 DEF PushOwn, PushNext, PushPrev
  <2>3. UNCHANGED <<threadVars, execVars, waitVars, exit_c, calls, panic>>
    BY <1>4 DEF push_child
  <2>4. \E to \in {"push_next", "push_prev", "load"} : pc' = [pc EXCEPT ![p] = to]
    BY <1>4 DEF push_child, Goto
  <2>5. Types'
    BY <2>2, <2>3, <2>4 DEF Types, Labels, threadVars, execVars, waitVars
  <2>6. Places'
    BY <2>1, <2>3, <2>4 DEF Types, Places, InWait, HasT, Starting, execVars, waitVars
  <2> QED
    BY <2>5, <2>6
<1>5. CASE load(p)
  <2>1. parent[p] \in Procs
    BY <1>5 DEF load, At, Starts, Starting
  <2>4. sem_process[parent[p]] + 1 \in Nat
    BY <1>0, <2>1
  <2>5. loaded' \in [Procs -> BOOLEAN] /\ sem_process' \in [Procs -> Nat]
    BY <1>0, <1>5, <2>4 DEF load, Types
  <2>6. /\ pc' = [pc EXCEPT ![p] = "free"]
        /\ UNCHANGED <<threadVars, listVars, next_tid, waitVars, exit_c, calls, panic>>
    BY <1>5 DEF load, Goto
  <2>2. Types'
    BY <2>5, <2>6 DEF Types, Labels, threadVars, listVars, waitVars
  <2>3. Places'
    BY <1>5 DEF load, At, Goto, Types, Places, InWait, HasT, waitVars
  <2> QED
    BY <2>2, <2>3
<1>6. CASE free_cmd_line(p)
  <2>1. pc' \in [Procs -> Labels] /\ panic' \in BOOLEAN
    BY <1>0, <1>6 DEF free_cmd_line, Goto, Labels
  <2>2. loaded' \in [Procs -> BOOLEAN]
    BY <1>6 DEF free_cmd_line, Types
  <2>4. UNCHANGED <<threadVars, listVars, next_tid, sem_process, waitVars, exit_c, calls>>
    BY <1>6 DEF free_cmd_line
  <2>5. Types'
    BY <2>1, <2>2, <2>4 DEF Types, threadVars, listVars, waitVars
  <2>3. Places'
    BY <1>6 DEF free_cmd_line, At, Goto, Types, Places, InWait, HasT, waitVars
  <2> QED
    BY <2>3, <2>5
<1>7. CASE wait_find(p)
  <2>1. t[p] \in Procs /\ next[elem(t[p])] \in Nodes
    BY <1>0, <1>7, NodeFacts DEF wait_find, At, Places, HasT
  <2>2. t' \in [Procs -> Procs \cup {NULL}] /\ pc' \in [Procs -> Labels] /\ panic' \in BOOLEAN
    <3>1. elem(t[p]) # next[elem(t[p])] => next[elem(t[p])][2] \in Procs \cup {NULL}
      BY <2>1, NodeFacts
    <3>2. panic' \in BOOLEAN
      BY <1>0, <1>7 DEF wait_find
    <3>3. \/ UNCHANGED t
          \/ t' = [t EXCEPT ![p] = next[elem(t[p])][2]] /\ next[elem(t[p])][2] \in Procs \cup {NULL}
      BY <1>7, <2>1, NodeFacts DEF wait_find
    <3>4. UNCHANGED pc \/ pc' = [pc EXCEPT ![p] = "wait_code"]
      BY <1>7 DEF wait_find, Goto
    <3> QED
      BY <1>0, <3>2, <3>3, <3>4 DEF Labels
  <2>3. Types'
    BY <1>7, <2>2 DEF wait_find, Types, threadVars, listVars, execVars
  <2>4. \/ UNCHANGED pc /\ t' = [t EXCEPT ![p] = next[elem(t[p])][2]]
        \/ UNCHANGED t /\ UNCHANGED pc
        \/ UNCHANGED t /\ pc' = [pc EXCEPT ![p] = "wait_code"]
    BY <1>7 DEF wait_find, Goto
  <2>6. /\ UNCHANGED <<arg, next_tid>> /\ pc[p] = "wait_find" /\ t \in [Procs -> Procs \cup {NULL}] /\ pc \in [Procs -> Labels]
    BY <1>0, <1>7 DEF wait_find, At, Types, threadVars, execVars
  <2>7. /\ \A q \in Procs : q # p => pc'[q] = pc[q] /\ t'[q] = t[q]
        /\ pc'[p] \in {"wait_find", "wait_code"} /\ t'[p] \in Procs
    <3>1. next[elem(t[p])][2] \in Procs
      BY <2>1, NodeFacts
    <3> QED
      BY <2>1, <2>4, <2>6, <3>1
  <2>5. Places'
    BY <1>0, <2>6, <2>7, ProcFacts DEF Places, InWait, HasT
  <2> QED
    BY <2>3, <2>5
<1>8. CASE wait_code(p)
  <2>1. arg[p] \in User
    BY <1>8 DEF wait_code, At, Places, InWait
  <2>2. /\ ex_code' = [ex_code EXCEPT ![p] = exit_c[arg[p]]] /\ exit_c[arg[p]] \in Int
        /\ pc' = [pc EXCEPT ![p] = "wait_reset"] /\ pc[p] = "wait_code"
        /\ UNCHANGED <<threadVars, listVars, execVars, arg, t, exit_c, calls, panic>>
    BY <1>0, <1>8, <2>1 DEF wait_code, At, Goto
  <2>3. Types'
    BY <2>2 DEF Types, Labels, threadVars, listVars, execVars
  <2>4. Places'
    BY <2>1, <2>2 DEF Types, Places, InWait, HasT, execVars
  <2> QED
    BY <2>3, <2>4
<1>9. CASE wait_reset(p)
  <2>1. arg[p] \in User /\ pc[p] = "wait_reset"
    BY <1>9 DEF wait_reset, At, Places, InWait
  <2>2. exit_c' \in [Procs -> Int]
    BY <1>0, <1>9, <2>1 DEF wait_reset
  <2>3. UNCHANGED <<threadVars, listVars, execVars, calls, panic>>
    BY <1>9 DEF wait_reset
  <2>4. CASE t[p] = NULL
    <3>1. Returns(p)
      BY <1>9, <2>4 DEF wait_reset
    <3>2. Types'
      BY <2>2, <2>3, <3>1 DEF Returns, Goto, Types, Labels, threadVars, listVars, execVars
    <3>3. Places'
      BY <2>1, <2>3, <3>1 DEF Returns, Goto, Types, Places, InWait, HasT, execVars
    <3> QED
      BY <3>2, <3>3
  <2>5. CASE t[p] # NULL
    <3>1. pc' = [pc EXCEPT ![p] = "wait_flag"] /\ UNCHANGED waitVars /\ t[p] \in Procs
      BY <1>0, <1>9, <2>5 DEF wait_reset, Goto
    <3>2. Types'
      BY <2>2, <2>3, <3>1 DEF Types, Labels, threadVars, listVars, execVars, waitVars
    <3>3. Places'
      BY <2>1, <2>3, <3>1 DEF Types, Places, InWait, HasT, execVars, waitVars
    <3> QED
      BY <3>2, <3>3
  <2> QED
    BY <2>4, <2>5
<1>10. CASE wait_flag(p)
  <2>1. t[p] \in Procs /\ pc[p] = "wait_flag" /\ arg[p] \in User
    BY <1>10 DEF wait_flag, At, Places, HasT, InWait
  <2>2. /\ is_waiting' = [is_waiting EXCEPT ![t[p]] = TRUE]
        /\ Returns(p) \/ (Goto(p, "wait_down") /\ UNCHANGED waitVars)
        /\ UNCHANGED <<parent, child, exit_stat, sem, listVars, execVars, exit_c, calls, panic>>
    <3>1. PICK waiting \in BOOLEAN \cup {is_waiting[t[p]]} :
            /\ is_waiting' = [is_waiting EXCEPT ![t[p]] = TRUE]
            /\ IF waiting THEN Returns(p) ELSE Goto(p, "wait_down") /\ UNCHANGED waitVars
      BY <1>10 DEF wait_flag
    <3>2. UNCHANGED <<parent, child, exit_stat, sem, listVars, execVars, exit_c, calls, panic>>
      BY <1>10 DEF wait_flag
    <3> QED
      BY <3>1, <3>2
  <2>3. CASE Returns(p)
    BY <2>1, <2>2, <2>3 DEF Returns, Goto, Types, Places, Labels, InWait, HasT, listVars, execVars
  <2>4. CASE Goto(p, "wait_down") /\ UNCHANGED waitVars
    BY <2>1, <2>2, <2>4 DEF Goto, Types, Places, Labels, InWait, HasT, listVars, execVars, waitVars
  <2> QED
    BY <2>2, <2>3, <2>4
<1>11. CASE wait_down(p)
  <2>1. t[p] \in Procs /\ pc[p] = "wait_down" /\ arg[p] \in User
    BY <1>11 DEF wait_down, At, Places, HasT, InWait
  <2>2. sem' \in [Procs -> Nat]
    <3>1. sem' = [sem EXCEPT ![t[p]] = sem[t[p]] - 1] /\ sem[t[p]] > 0 /\ sem[t[p]] \in Nat
      BY <1>0, <1>11, <2>1 DEF wait_down
    <3>2. sem[t[p]] - 1 \in Nat
      BY <3>1
    <3> QED
      BY <1>0, <3>1, <3>2
  <2> QED
    BY <1>11, <2>1, <2>2 DEF wait_down, Goto, Types, Places, Labels, InWait, HasT, listVars, execVars, waitVars
<1>12. CASE wait_return(p)
  BY <1>12 DEF wait_return, At, Returns, Goto, Types, Places, Labels, InWait, HasT,
    threadVars, listVars, execVars
<1>13. CASE exit_pop(p)
  <2>1. UNCHANGED <<child, is_waiting, exit_stat, sem, execVars, arg, ex_code, exit_c, calls>>
    BY <1>13 DEF exit_pop
  <2>2. pc[p] = "exit_popped" => t[p] \in Procs
    BY DEF Places, HasT
  <2>3. /\ next' \in [Nodes -> Nodes] /\ prev' \in [Nodes -> Nodes]
        /\ parent' \in [Procs -> Procs \cup {NULL}] /\ panic' \in BOOLEAN
    <3>1. \/ UNCHANGED <<parent, listVars>>
          \/ RemoveNext(next[head(p)]) /\ UNCHANGED <<parent, prev>>
          \/ /\ t[p] \in Procs
             /\ RemovePrev(elem(t[p])) /\ parent' = [parent EXCEPT ![t[p]] = NULL] /\ UNCHANGED next
      BY <1>13, <2>2 DEF exit_pop, At
    <3>2. panic' \in {panic, TRUE}
      BY <1>13 DEF exit_pop
    <3>3. next[head(p)] \in Nodes
      BY <1>0, NodeFacts
    <3>4. CASE UNCHANGED <<parent, listVars>>
      BY <1>0, <3>2, <3>4 DEF listVars
    <3>5. CASE RemoveNext(next[head(p)]) /\ UNCHANGED <<parent, prev>>
      BY <1>0, <3>2, <3>3, <3>5 DEF RemoveNext
    <3>6. CASE /\ t[p] \in Procs
               /\ RemovePrev(elem(t[p])) /\ parent' = [parent EXCEPT ![t[p]] = NULL] /\ UNCHANGED next
      BY <1>0, <3>2, <3>6, NodeFacts DEF RemovePrev
    <3> QED
      BY <3>1, <3>4, <3>5, <3>6
  <2>4. \/ pc' = pc /\ t' = t
        \/ pc' = [pc EXCEPT ![p] = "exit_remove"] /\ t' = [t EXCEPT ![p] = NULL]
        \/ pc' = [pc EXCEPT ![p] = "exit_popped"] /\ t' = [t EXCEPT ![p] = next[head(p)][2]]
        \/ pc' = [pc EXCEPT ![p] = "exit_pop"] /\ t' = t
    BY <1>13 DEF exit_pop, Goto
  <2>5. pc[p] \in {"exit_pop", "exit_popped"}
    BY <1>13 DEF exit_pop, At
  <2>6. next[head(p)][2] \in Procs
    BY <1>0, NodeFacts
  <2>7. Types'
    BY <2>1, <2>3, <2>4, <2>6 DEF Types, Labels, execVars
  <2>8. Places'
    BY <2>1, <2>4, <2>5, <2>6 DEF Types, Places, InWait, HasT, execVars
  <2> QED
    BY <2>7, <2>8
<1>14. CASE exit_remove(p)
  <2>1. next' \in [Nodes -> Nodes] /\ prev' \in [Nodes -> Nodes]
    <3>1. elem(p) \in Nodes
      BY NodeFacts
    <3>2. \/ RemoveNext(elem(p)) /\ UNCHANGED prev
          \/ RemovePrev(elem(p)) /\ UNCHANGED next
      BY <1>14 DEF exit_remove
    <3> QED
      BY <1>0, <3>1, <3>2 DEF RemoveNext, RemovePrev
  <2> QED
    BY <1>14, <2>1 DEF exit_remove, At, Goto, Types, Places, Labels, InWait, HasT,
      threadVars, execVars, waitVars
<1>15. CASE exit_code(p)
  <2>1. sem' \in [Procs -> Nat] /\ exit_c' \in [Procs -> Int]
    <3>1. exit_stat[p] \in Int /\ sem[p] + 1 \in Nat
      BY <1>0 DEF Types
    <3>2. \/ exit_c' = [exit_c EXCEPT ![p] = exit_stat[p]] /\ UNCHANGED sem
          \/ sem' = [sem EXCEPT ![p] = sem[p] + 1] /\ UNCHANGED exit_c
      BY <1>15 DEF exit_code
    <3> QED
      BY <1>0, <3>1, <3>2
  <2> QED
    BY <1>15, <2>1 DEF exit_code, At, Goto, Types, Places, Labels, InWait, HasT,
      listVars, execVars, waitVars
<1>16. CASE thread_exit(p)
  <2>1. next' \in [Nodes -> Nodes] /\ prev' \in [Nodes -> Nodes]
    BY <1>0, <1>16, NodeFacts DEF thread_exit
  <2> QED
    BY <1>16, <2>1 DEF thread_exit, At, Goto, Types, Places, Labels, InWait, HasT,
      execVars, waitVars
<1>17. ASSUME NEW code \in Int, sys_exit(p, code)
       PROVE  Types' /\ Places'
  BY <1>17 DEF sys_exit, At, Goto, Types, Places, Labels, InWait, HasT, listVars, execVars, waitVars
<1>18. CASE Leave(p)
  BY <1>18 DEF Leave, At, Goto, Types, Places, Labels, InWait, HasT, threadVars, listVars, execVars, waitVars
<1>19. CASE UNCHANGED ExceptPanic /\ panic' \in {panic, TRUE}
  BY <1>19 DEF ExceptPanic, Types, Places, threadVars, listVars, execVars, waitVars
<1> QED
  BY <1>1, <1>2, <1>3, <1>4, <1>5, <1>6, <1>7, <1>8, <1>9, <1>10, <1>11, <1>12, <1>13, <1>14,
     <1>15, <1>16, <1>17, <1>18, <1>19 DEF ProcStep, Call, Step, Proceed

\* A step keeps the families if pointers stay in theirs.
LEMMA FamilyFrame ==
  ASSUME NEW fam \in [Procs -> Int], Family(fam),
         \A q \in Procs : pc'[q] = "unused" <=> pc[q] = "unused",
         \A q \in Procs : pc[q] = "dead" => pc'[q] = "dead",
         \A q \in Procs : parent'[q] \in {NULL, parent[q]},
         \A n \in Nodes :
           \/ next'[n] = next[n]
           \/ /\ RegionOf(fam, next'[n]) = RegionOf(fam, n)
              /\ \A q \in Procs : next'[n] = head(q) => n = head(q) /\ pc'[q] = "dead",
         \A n \in Nodes : prev'[n] = prev[n] \/ RegionOf(fam, prev'[n]) = RegionOf(fam, n),
         \A q \in Procs : pc'[q] = "exit_popped" => fam[t'[q]] = q
  PROVE  Family(fam)'
<1>1. \A c \in Procs : IF pc'[c] = "unused" \/ c = Main THEN fam[c] = -c ELSE fam[c] \in Procs
  BY DEF Family
<1>2. \A c \in Procs : parent'[c] \in {NULL, fam[c]}
  BY DEF Family
<1>3. \A n \in Nodes : RegionOf(fam, next'[n]) = RegionOf(fam, n)
  BY DEF Family
<1>4. \A n \in Nodes : RegionOf(fam, prev'[n]) = RegionOf(fam, n)
  BY DEF Family
<1>5. \A n \in Nodes, q \in Procs : next'[n] = head(q) => n = head(q) /\ pc'[q] = "dead"
  BY DEF Family
<1> QED
  BY <1>1, <1>2, <1>3, <1>4, <1>5 DEF Family, RegionOf

\* Where no pointer, parent or child popped changes.
LEMMA FamilyQuiet ==
  ASSUME NEW fam \in [Procs -> Int], Family(fam), pc \in [Procs -> Labels],
         NEW p \in Procs, NEW to \in Labels,
         pc' = [pc EXCEPT ![p] = to] \/ pc' = pc,
         pc[p] \notin {"unused", "dead"},
         pc'[p] \notin {"unused", "exit_popped"},
         UNCHANGED <<parent, next, prev>>,
         \A q \in Procs : q # p => t'[q] = t[q]
  PROVE  Family(fam)'
<1>1. \A q \in Procs : q # p => pc'[q] = pc[q]
  OBVIOUS
<1>2. \A q \in Procs : pc'[q] = "exit_popped" => fam[t'[q]] = q
  BY <1>1 DEF Family
<1> QED
  BY <1>1, <1>2, FamilyFrame

\* A new process is in nobody's list: it joins its parent's family.
LEMMA FamilyGrows ==
  ASSUME ProcInv, NEW p \in Procs, process_execute(p)
  PROVE  Families'
<1> USE ProcFacts
<1> DEFINE c == next_tid
<1>0. /\ next \in [Nodes -> Nodes] /\ prev \in [Nodes -> Nodes]
      /\ parent \in [Procs -> Procs \cup {NULL}] /\ t \in [Procs -> Procs \cup {NULL}]
      /\ pc \in [Procs -> Labels]
  BY DEF ProcInv, Types
<1>1. /\ c \in User /\ pc[p] = "run" /\ pc[c] = "unused" /\ c # p /\ c # Main
  BY DEF process_execute, Calling, At, ProcInv, Places, User, Main
<1>2. /\ next' = [next EXCEPT ![head(c)] = tail(c)]
      /\ prev' = [prev EXCEPT ![tail(c)] = head(c)]
      /\ parent' = [parent EXCEPT ![c] = p]
      /\ pc' = [pc EXCEPT ![p] = "exec_down", ![c] = "start"]
      /\ t' = t
  BY DEF process_execute, thread_create, init_thread, waitVars
<1>3. PICK fam \in [Procs -> Int] : Family(fam)
  BY DEF ProcInv, Families
<1>4. PICK new \in [Procs -> Int] : new[c] = p /\ \A q \in Procs : q # c => new[q] = fam[q]
  <2>0. p \in Int
    BY DEF Procs, User, Main
  <2>1. [fam EXCEPT ![c] = p] \in [Procs -> Int]
    BY <2>0
  <2> QED
    BY <1>1, <2>1
<1>5. \A q \in Procs : fam[q] = -c => q = c
  <2> SUFFICES ASSUME NEW q \in Procs, fam[q] = -c
               PROVE  q = c
    OBVIOUS
  <2>1. fam[q] = -q
    BY <1>1, <1>3 DEF Family, Procs, User, Main
  <2> QED
    BY <1>1, <2>1 DEF Procs, User, Main
<1>6. \A n \in Nodes : n # elem(c) => RegionOf(new, n) = RegionOf(fam, n)
  BY <1>4, NodeFacts DEF RegionOf
<1>7. RegionOf(fam, elem(c)) = -c /\ RegionOf(new, elem(c)) = p
  BY <1>1, <1>3, <1>4, NodeFacts DEF RegionOf, Family
<1>8. \A n \in Nodes : RegionOf(fam, n) = -c => n = elem(c)
  <2> SUFFICES ASSUME NEW n \in Nodes, RegionOf(fam, n) = -c
               PROVE  n = elem(c)
    OBVIOUS
  <2>1. n[2] \in Procs /\ n[2] # -c
    BY <1>1, NodeFacts DEF Procs, User, Main
  <2>2. n[1] = "elem" /\ fam[n[2]] = -c
    BY <2>1 DEF RegionOf
  <2>3. n[2] = c
    BY <1>5, <2>1, <2>2
  <2> QED
    BY <2>2, <2>3, NodeFacts DEF head, tail, elem
<1>9. ASSUME NEW n \in Nodes, NEW m \in Nodes, RegionOf(fam, m) = RegionOf(fam, n)
      PROVE  RegionOf(new, m) = RegionOf(new, n)
  <2>1. CASE n = elem(c)
    BY <1>7, <1>8, <1>9, <2>1
  <2>2. CASE m = elem(c)
    BY <1>7, <1>8, <1>9, <2>2
  <2>3. CASE n # elem(c) /\ m # elem(c)
    BY <1>6, <1>9, <2>3
  <2> QED
    BY <2>1, <2>2, <2>3
<1>10. RegionOf(new, head(c)) = RegionOf(new, tail(c))
  BY <1>1, NodeFacts DEF RegionOf
<1>11. head(c) \in Nodes /\ tail(c) \in Nodes
  BY <1>1, NodeFacts
<1>12. \A n \in Nodes : RegionOf(new, next'[n]) = RegionOf(new, n)
  BY <1>0, <1>2, <1>3, <1>9, <1>10, <1>11 DEF Family
<1>13. \A n \in Nodes : RegionOf(new, prev'[n]) = RegionOf(new, n)
  BY <1>0, <1>2, <1>3, <1>9, <1>10, <1>11 DEF Family
<1>14. \A q \in Procs : pc'[q] = IF q = p THEN "exec_down" ELSE IF q = c THEN "start" ELSE pc[q]
  BY <1>0, <1>1, <1>2
<1>15. \A n \in Nodes, q \in Procs : next'[n] = head(q) => n = head(q) /\ pc'[q] = "dead"
  <2> SUFFICES ASSUME NEW n \in Nodes, NEW q \in Procs, next'[n] = head(q)
               PROVE  n = head(q) /\ pc'[q] = "dead"
    OBVIOUS
  <2>1. tail(c) # head(q)
    BY DEF head, tail
  <2>2. next[n] = head(q)
    BY <1>0, <1>2, <1>11, <2>1
  <2>3. n = head(q) /\ pc[q] = "dead"
    BY <1>3, <2>2 DEF Family
  <2> QED
    BY <1>1, <1>14, <2>3
<1>16. \A q \in Procs : IF pc'[q] = "unused" \/ q = Main THEN new[q] = -q ELSE new[q] \in Procs
  BY <1>1, <1>3, <1>4, <1>14 DEF Family
<1>17. \A q \in Procs : parent'[q] \in {NULL, new[q]}
  BY <1>0, <1>1, <1>2, <1>3, <1>4 DEF Family
<1>18. \A q \in Procs : pc'[q] = "exit_popped" => new[t'[q]] = q
  <2> SUFFICES ASSUME NEW q \in Procs, pc'[q] = "exit_popped"
               PROVE  new[t'[q]] = q
    OBVIOUS
  <2>1. pc[q] = "exit_popped"
    BY <1>14
  <2>2. t[q] \in Procs /\ fam[t[q]] = q
    BY <1>3, <2>1 DEF ProcInv, Places, HasT, Family
  <2>3. t[q] # c
    BY <1>1, <1>3, <2>2 DEF Family, Procs, User, Main
  <2> QED
    BY <1>2, <1>4, <2>2, <2>3
<1>19. Family(new)'
  BY <1>12, <1>13, <1>15, <1>16, <1>17, <1>18 DEF Family, RegionOf
<1> QED
  BY <1>4, <1>19 DEF Families

\* exit pops children of its own family, and stores keep the families apart.
LEMMA FamilyStep ==
  ASSUME ProcInv, NEW p \in Procs, ProcStep(p)
  PROVE  Families'
<1> USE ProcFacts
<1>0. /\ next \in [Nodes -> Nodes] /\ prev \in [Nodes -> Nodes]
      /\ parent \in [Procs -> Procs \cup {NULL}] /\ t \in [Procs -> Procs \cup {NULL}]
      /\ pc \in [Procs -> Labels]
  BY DEF ProcInv, Types
<1>1. CASE process_execute(p)
  BY <1>1, FamilyGrows
<1>2. PICK fam \in [Procs -> Int] : Family(fam)
  BY DEF ProcInv, Families
<1> SUFFICES ASSUME ~process_execute(p)
             PROVE  Family(fam)'
  BY <1>1 DEF Families
<1>3. /\ \A n \in Nodes : next[n] \in Nodes /\ RegionOf(fam, next[n]) = RegionOf(fam, n)
      /\ \A n \in Nodes : prev[n] \in Nodes /\ RegionOf(fam, prev[n]) = RegionOf(fam, n)
  BY <1>0, <1>2 DEF Family
<1>4. ASSUME NEW i \in {-1} \cup (User \cap 3..next_tid), process_wait(p, i)
      PROVE  Family(fam)'
  <2>1. /\ pc[p] = "run" /\ UNCHANGED <<parent, next, prev>>
        /\ \/ pc' = pc /\ t' = t
           \/ /\ \E to \in {"wait_code", "wait_find"} : pc' = [pc EXCEPT ![p] = to]
              /\ \E c : t' = [t EXCEPT ![p] = c]
    BY <1>4 DEF process_wait, Calling, At, Goto, threadVars, listVars
  <2>2. \A q \in Procs : q # p => t'[q] = t[q]
    BY <1>0, <2>1
  <2> QED
    BY <1>0, <1>2, <2>1, <2>2, FamilyQuiet DEF Labels
<1>5. CASE push_child(p)
  <2> DEFINE q == parent[p]
  <2>1. pc[p] \in {"start", "push_next", "push_prev"} /\ q \in Procs /\ parent' = parent /\ t' = t
    BY <1>5 DEF push_child, At, ProcInv, Starts, Starting, threadVars, waitVars
  <2>2. fam[p] = q
    BY <1>2, <2>1 DEF Family
  <2>3. /\ elem(p) \in Nodes /\ tail(q) \in Nodes /\ prev[tail(q)] \in Nodes
        /\ RegionOf(fam, elem(p)) = q /\ RegionOf(fam, tail(q)) = q /\ RegionOf(fam, prev[tail(q)]) = q
    BY <1>3, <2>1, <2>2, NodeFacts DEF RegionOf
  <2>4. \A r \in Procs : elem(p) # head(r) /\ tail(q) # head(r)
    BY DEF head, tail, elem
  <2>5. \A n \in Nodes :
          /\ next'[n] # next[n] => next'[n] \in {elem(p), tail(q)} /\ RegionOf(fam, n) = q
          /\ prev'[n] # prev[n] => prev'[n] \in {elem(p), prev[tail(q)]} /\ RegionOf(fam, n) = q
    <3>1. CASE PushOwn(q, elem(p))
      BY <1>0, <2>3, <3>1 DEF PushOwn
    <3>2. CASE PushNext(q, elem(p)) /\ UNCHANGED prev
      BY <1>0, <2>3, <3>2 DEF PushNext
    <3>3. CASE PushPrev(q, elem(p)) /\ UNCHANGED next
      BY <1>0, <2>3, <3>3 DEF PushPrev
    <3> QED
      BY <1>5, <3>1, <3>2, <3>3 DEF push_child
  <2>6. \E to \in {"push_next", "push_prev", "load"} : pc' = [pc EXCEPT ![p] = to]
    BY <1>5 DEF push_child, Goto
  <2>7. \A r \in Procs : (r # p => pc'[r] = pc[r]) /\ pc'[p] \notin {"unused", "dead", "exit_popped"}
    BY <1>0, <2>6
  <2>8. \A r \in Procs : pc'[r] = "exit_popped" => fam[t'[r]] = r
    BY <1>2, <2>1, <2>7 DEF Family
  <2> QED
    BY <1>2, <2>1, <2>3, <2>4, <2>5, <2>7, <2>8, FamilyFrame
<1>6. CASE exit_remove(p)
  <2>1. pc[p] \in {"exit_remove", "exit_removed"} /\ parent' = parent /\ t' = t
    BY <1>6 DEF exit_remove, At, threadVars, waitVars
  <2>2. \E to \in {"exit_removed", "exit_code"} : pc' = [pc EXCEPT ![p] = to]
    BY <1>6 DEF exit_remove, Goto
  <2>3. \A r \in Procs : (r # p => pc'[r] = pc[r]) /\ pc'[p] \notin {"unused", "dead", "exit_popped"}
    BY <1>0, <2>2
  <2>4. elem(p) \in Nodes /\ next[elem(p)] \in Nodes /\ prev[elem(p)] \in Nodes
    BY <1>3, NodeFacts
  <2>5. \A n \in Nodes :
          /\ next'[n] # next[n] => n = prev[elem(p)] /\ next'[n] = next[elem(p)]
          /\ prev'[n] # prev[n] => n = next[elem(p)] /\ prev'[n] = prev[elem(p)]
    BY <1>0, <1>6, <2>4 DEF exit_remove, RemoveNext, RemovePrev
  <2>6. \A r \in Procs : next[elem(p)] # head(r)
    BY <1>2, <2>4 DEF Family, head, elem
  <2>7. \A r \in Procs : pc'[r] = "exit_popped" => fam[t'[r]] = r
    BY <1>2, <2>1, <2>3 DEF Family
  <2> QED
    BY <1>2, <1>3, <2>1, <2>3, <2>4, <2>5, <2>6, <2>7, FamilyFrame
<1>7. CASE exit_pop(p)
  <2> DEFINE e == next[head(p)]
  <2>0. head(p) \in Nodes /\ e \in Nodes /\ RegionOf(fam, e) = p
    BY <1>3, NodeFacts DEF RegionOf
  <2>1. pc[p] \in {"exit_pop", "exit_popped"}
    BY <1>7 DEF exit_pop, At
  <2>2. CASE At(p, "exit_pop") /\ e = tail(p)
    <3>1. pc' = [pc EXCEPT ![p] = "exit_remove"] /\ t' = [t EXCEPT ![p] = NULL] /\ UNCHANGED <<parent, next, prev>>
      BY <1>7, <2>2 DEF exit_pop, At, Goto, listVars
    <3>2. \A q \in Procs : q # p => t'[q] = t[q]
      BY <1>0, <3>1
    <3> QED
      BY <1>0, <1>2, <2>1, <3>1, <3>2, FamilyQuiet DEF Labels
  <2>3. CASE At(p, "exit_pop") /\ e # tail(p) /\ ~Freed(e)
    <3> DEFINE c == e[2]
    <3>1. /\ pc' = [pc EXCEPT ![p] = "exit_popped"] /\ t' = [t EXCEPT ![p] = c]
          /\ next' = [next EXCEPT ![prev[e]] = next[e]] /\ UNCHANGED <<parent, prev>>
      BY <1>7, <2>3 DEF exit_pop, At, Goto, RemoveNext
    <3>2. pc[p] = "exit_pop"
      BY <2>3 DEF At
    <3>3. \A q \in Procs : e # head(q)
      BY <1>2, <2>0, <3>2 DEF Family, head
    <3>4. \A q \in Procs : e # tail(q)
      BY <2>0, <2>3, NodeFacts DEF RegionOf
    <3>5. c \in Procs /\ e = elem(c) /\ fam[c] = p
      BY <2>0, <3>3, <3>4, NodeFacts DEF RegionOf
    <3>6. \A n \in Nodes : next'[n] # next[n] => n = prev[e] /\ next'[n] = next[e]
      BY <1>0, <3>1
    <3>7. \A q \in Procs : next[e] # head(q)
      BY <1>2, <2>0, <3>3 DEF Family
    <3>8. \A q \in Procs : (q # p => pc'[q] = pc[q] /\ t'[q] = t[q]) /\ pc'[p] = "exit_popped" /\ t'[p] = c
      BY <1>0, <3>1
    <3>9. \A q \in Procs : pc'[q] = "exit_popped" => fam[t'[q]] = q
      BY <1>2, <3>5, <3>8 DEF Family
    <3>10. \A n \in Nodes :
             \/ next'[n] = next[n]
             \/ /\ RegionOf(fam, next'[n]) = RegionOf(fam, n)
                /\ \A q \in Procs : next'[n] # head(q)
      BY <1>3, <2>0, <3>6, <3>7
    <3> QED
      BY <1>2, <3>1, <3>2, <3>8, <3>9, <3>10, FamilyFrame
  <2>4. CASE At(p, "exit_popped") /\ ~Freed(elem(t[p]))
    <3> DEFINE x == elem(t[p])
    <3>1. /\ pc' = [pc EXCEPT ![p] = "exit_pop"] /\ t' = t
          /\ prev' = [prev EXCEPT ![next[x]] = prev[x]] /\ next' = next
          /\ parent' = [parent EXCEPT ![t[p]] = NULL]
      BY <1>7, <2>4 DEF exit_pop, At, Goto, RemovePrev
    <3>2. pc[p] = "exit_popped" /\ x \in Nodes
      BY <2>4, NodeFacts DEF At, ProcInv, Places, HasT
    <3>3. \A n \in Nodes : prev'[n] # prev[n] => n = next[x] /\ prev'[n] = prev[x]
      BY <1>0, <3>1
    <3>4. \A q \in Procs : (q # p => pc'[q] = pc[q]) /\ pc'[p] = "exit_pop" /\ parent'[q] \in {NULL, parent[q]}
      BY <1>0, <3>1
    <3>5. \A q \in Procs : pc'[q] = "exit_popped" => fam[t'[q]] = q
      BY <1>2, <3>1, <3>4 DEF Family
    <3>6. \A n \in Nodes : prev'[n] = prev[n] \/ RegionOf(fam, prev'[n]) = RegionOf(fam, n)
      BY <1>3, <3>2, <3>3
    <3> QED
      BY <1>2, <3>1, <3>2, <3>4, <3>5, <3>6, FamilyFrame
  <2>5. CASE UNCHANGED <<parent, listVars, t, pc>>
    BY <1>2, <2>5 DEF Family, RegionOf, listVars
  <2> QED
    BY <1>7, <2>2, <2>3, <2>4, <2>5 DEF exit_pop
<1>8. CASE thread_exit(p)
  <2>1. /\ pc[p] = "dying" /\ pc' = [pc EXCEPT ![p] = "dead"] /\ t' = t
        /\ parent' = [parent EXCEPT ![p] = NULL]
        /\ next' = [n \in Nodes |-> IF n[2] = p THEN n ELSE next[n]]
        /\ prev' = [n \in Nodes |-> IF n[2] = p THEN n ELSE prev[n]]
    BY <1>8 DEF thread_exit, At, Goto, waitVars
  <2>2. \A q \in Procs : (q # p => pc'[q] = pc[q]) /\ pc'[p] = "dead" /\ parent'[q] \in {NULL, parent[q]}
    BY <1>0, <2>1
  <2>3. \A n \in Nodes : next'[n] = next[n] \/ (next'[n] = n /\ n[2] = p)
    BY <2>1
  <2>4. \A n \in Nodes : prev'[n] = prev[n] \/ prev'[n] = n
    BY <2>1
  <2>5. \A n \in Nodes :
          \/ next'[n] = next[n]
          \/ /\ RegionOf(fam, next'[n]) = RegionOf(fam, n)
             /\ \A q \in Procs : next'[n] = head(q) => n = head(q) /\ pc'[q] = "dead"
    BY <2>2, <2>3, NodeFacts
  <2>6. \A q \in Procs : pc'[q] = "exit_popped" => fam[t'[q]] = q
    BY <1>2, <2>1, <2>2 DEF Family
  <2> QED
    BY <1>2, <2>1, <2>2, <2>4, <2>5, <2>6, FamilyFrame
<1>9. CASE UNCHANGED ExceptPanic
  BY <1>2, <1>9 DEF ExceptPanic, threadVars, listVars, waitVars, Family, RegionOf
<1>10. CASE Returns(p) /\ UNCHANGED <<parent, next, prev>> /\ pc[p] \in InWait
  <2>1. pc' = [pc EXCEPT ![p] = "run"] /\ \A q \in Procs : q # p => t'[q] = t[q]
    BY <1>0, <1>10 DEF Returns, Goto
  <2> QED
    BY <1>0, <1>2, <1>10, <2>1, FamilyQuiet DEF Labels, InWait
<1>11. ASSUME NEW to \in Labels \ {"unused", "exit_popped"}, pc[p] \notin {"unused", "dead"},
              Goto(p, to) \/ pc' = pc, pc[p] # "exit_popped", UNCHANGED <<parent, next, prev>>,
              \A q \in Procs : q # p => t'[q] = t[q]
       PROVE  Family(fam)'
  <2>1. pc' = [pc EXCEPT ![p] = to] \/ pc' = pc
    BY <1>11 DEF Goto
  <2>2. pc'[p] \notin {"unused", "exit_popped"}
    BY <1>0, <1>11, <2>1
  <2> QED
    BY <1>0, <1>2, <1>11, <2>1, <2>2, FamilyQuiet
<1>12. CASE wait_find(p)
  <2>1. \A q \in Procs : q # p => t'[q] = t[q]
    BY <1>0, <1>12 DEF wait_find
  <2> QED
    BY <1>11, <1>12, <2>1 DEF wait_find, At, Labels, threadVars, listVars
<1>13. CASE wait_reset(p)
  <2>1. CASE t[p] = NULL
    BY <1>10, <1>13, <2>1 DEF wait_reset, At, InWait, threadVars, listVars
  <2>2. CASE t[p] # NULL
    BY <1>11, <1>13, <2>2 DEF wait_reset, At, Labels, threadVars, listVars, waitVars
  <2> QED
    BY <2>1, <2>2
<1>14. CASE wait_flag(p)
  <2>1. /\ pc[p] = "wait_flag" /\ UNCHANGED <<parent, next, prev>>
        /\ Returns(p) \/ (Goto(p, "wait_down") /\ UNCHANGED waitVars)
    <3>1. PICK waiting \in BOOLEAN \cup {is_waiting[t[p]]} :
            IF waiting THEN Returns(p) ELSE Goto(p, "wait_down") /\ UNCHANGED waitVars
      BY <1>14 DEF wait_flag
    <3> QED
      BY <1>14, <3>1 DEF wait_flag, At, listVars
  <2> QED
    BY <1>10, <1>11, <2>1 DEF Labels, InWait, waitVars
<1>15. CASE wait_return(p)
  BY <1>10, <1>15 DEF wait_return, At, InWait, threadVars, listVars
<1>16. CASE exec_down(p)
  BY <1>11, <1>16 DEF exec_down, At, Labels, threadVars, listVars, waitVars
<1>17. CASE load(p)
  BY <1>11, <1>17 DEF load, At, Labels, threadVars, listVars, waitVars
<1>18. CASE free_cmd_line(p)
  BY <1>11, <1>18 DEF free_cmd_line, At, Labels, threadVars, listVars, waitVars
<1>19. CASE wait_code(p)
  BY <1>11, <1>19 DEF wait_code, At, Labels, threadVars, listVars
<1>20. CASE wait_down(p)
  BY <1>11, <1>20 DEF wait_down, At, Labels, listVars, waitVars
<1>21. CASE exit_code(p)
  BY <1>11, <1>21 DEF exit_code, At, Labels, listVars, waitVars
<1>22. ASSUME NEW code \in Int, sys_exit(p, code)
       PROVE  Family(fam)'
  BY <1>11, <1>22 DEF sys_exit, At, Labels, listVars, waitVars
<1>23. CASE Leave(p)
  BY <1>11, <1>23 DEF Leave, At, Labels, threadVars, listVars, waitVars
<1> QED
  BY <1>4, <1>5, <1>6, <1>7, <1>8, <1>9, <1>12, <1>13, <1>14, <1>15, <1>16, <1>17, <1>18, <1>19,
     <1>20, <1>21, <1>22, <1>23 DEF ProcStep, Call, Step, Proceed

\* A process stays where it waits for its child, and a child its, as long as
\* neither is touched.
LEMMA StartsFrame ==
  ASSUME Starts, pc \in [Procs -> Labels], parent \in [Procs -> Procs \cup {NULL}],
         NEW p \in Procs, NEW to \in Labels,
         pc' = [pc EXCEPT ![p] = to] \/ pc' = pc,
         to \in Starting => pc[p] \in Starting,
         \A c \in Procs : pc[c] \in Starting /\ parent[c] = p => pc'[p] = "exec_down",
         \A c \in Procs : pc'[c] \in Starting =>
           /\ parent'[c] = parent[c]
           /\ child'[parent[c]] = child[parent[c]]
           /\ sem_process'[parent[c]] = sem_process[parent[c]]
  PROVE  Starts'
<1> SUFFICES ASSUME NEW c \in Procs, pc'[c] \in Starting
             PROVE  /\ parent'[c] \in Procs
                    /\ pc'[parent'[c]] = "exec_down"
                    /\ child'[parent'[c]] = c
                    /\ sem_process'[parent'[c]] = 0
  BY DEF Starts
<1>1. pc[c] \in Starting
  OBVIOUS
<1>2. /\ parent[c] \in Procs /\ pc[parent[c]] = "exec_down" /\ child[parent[c]] = c
      /\ sem_process[parent[c]] = 0
  BY <1>1 DEF Starts
<1>3. pc'[parent[c]] = "exec_down"
  <2>1. CASE parent[c] = p
    BY <1>1, <2>1
  <2>2. CASE parent[c] # p
    BY <1>2, <2>2
  <2> QED
    BY <2>1, <2>2
<1> QED
  BY <1>2, <1>3

\* Nobody but start_process() lets go on a process that has a child starting.
LEMMA StartsStep ==
  ASSUME ProcInv, NEW p \in Procs, ProcStep(p)
  PROVE  Starts'
<1> USE ProcFacts
<1>0. /\ child \in [Procs -> User \cup {NULL}] /\ sem_process \in [Procs -> Nat]
      /\ parent \in [Procs -> Procs \cup {NULL}] /\ t \in [Procs -> Procs \cup {NULL}]
      /\ pc \in [Procs -> Labels] /\ Starts
  BY DEF ProcInv, Types
<1>1. CASE process_execute(p)
  <2> DEFINE c == next_tid
  <2>1. /\ c \in User /\ pc[p] = "run" /\ pc[c] = "unused" /\ c # p
    BY <1>1 DEF process_execute, Calling, At, ProcInv, Places, User
  <2>2. /\ child' = [child EXCEPT ![p] = c]
        /\ parent' = [parent EXCEPT ![c] = p]
        /\ pc' = [pc EXCEPT ![p] = "exec_down", ![c] = "start"]
        /\ sem_process' = [sem_process EXCEPT ![p] = 0]
    BY <1>1 DEF process_execute, thread_create
  <2>3. /\ parent'[c] = p /\ pc'[p] = "exec_down" /\ child'[p] = c /\ sem_process'[p] = 0
    BY <1>0, <2>1, <2>2
  <2>4. ASSUME NEW d \in Procs, d # c, pc'[d] \in Starting
        PROVE  /\ parent'[d] \in Procs /\ pc'[parent'[d]] = "exec_down"
               /\ child'[parent'[d]] = d /\ sem_process'[parent'[d]] = 0
    <3>1. d # p /\ pc[d] \in Starting
      BY <1>0, <2>1, <2>2, <2>4 DEF Starting
    <3>2. /\ parent[d] \in Procs /\ pc[parent[d]] = "exec_down"
          /\ child[parent[d]] = d /\ sem_process[parent[d]] = 0
      BY <1>0, <3>1 DEF Starts
    <3>3. parent[d] # p /\ parent[d] # c /\ parent'[d] = parent[d]
      BY <1>0, <2>1, <2>2, <2>4, <3>2
    <3> QED
      BY <1>0, <2>2, <3>2, <3>3
  <2> QED
    BY <2>3, <2>4 DEF Starts
<1>2. CASE exec_down(p)
  <2>1. /\ sem_process[p] > 0 /\ pc' = [pc EXCEPT ![p] = "run"]
        /\ sem_process' = [sem_process EXCEPT ![p] = sem_process[p] - 1]
        /\ parent' = parent /\ child' = child /\ pc[p] = "exec_down"
    BY <1>2 DEF exec_down, At, Goto, threadVars
  <2>2. ASSUME NEW c \in Procs, pc[c] \in Starting
        PROVE  parent[c] \in Procs /\ parent[c] # p
    BY <1>0, <2>1, <2>2 DEF Starts
  <2>3. \A c \in Procs : pc'[c] \in Starting => pc[c] \in Starting
    BY <1>0, <2>1 DEF Starting
  <2>4. \A c \in Procs : pc'[c] \in Starting => sem_process'[parent[c]] = sem_process[parent[c]]
    BY <1>0, <2>1, <2>2, <2>3
  <2>5. "run" \in Labels /\ "run" \notin Starting
    BY DEF Labels, Starting
  <2> QED
    BY <1>0, <2>1, <2>2, <2>4, <2>5, StartsFrame
<1>3. CASE push_child(p)
  <2>1. PICK to \in {"push_next", "push_prev", "load"} : pc' = [pc EXCEPT ![p] = to]
    BY <1>3 DEF push_child, Goto
  <2>2. pc[p] \in Starting /\ pc[p] # "exec_down" /\ UNCHANGED <<parent, child, sem_process>>
    BY <1>3 DEF push_child, At, Starting, threadVars, execVars
  <2>3. \A c \in Procs : pc[c] \in Starting => parent[c] # p
    BY <1>0, <2>2 DEF Starts
  <2>4. to \in Labels
    BY DEF Labels
  <2> QED
    BY <1>0, <2>1, <2>2, <2>3, <2>4, StartsFrame
<1>4. CASE load(p)
  <2>1. /\ pc' = [pc EXCEPT ![p] = "free"] /\ pc[p] = "load" /\ UNCHANGED <<parent, child>>
        /\ sem_process' = [sem_process EXCEPT ![parent[p]] = sem_process[parent[p]] + 1]
    BY <1>4 DEF load, At, Goto, threadVars
  <2>2. \A c \in Procs : pc'[c] \in Starting => c # p /\ pc[c] \in Starting
    BY <1>0, <2>1 DEF Starting
  <2>3. pc[p] \in Starting
    BY <2>1 DEF Starting
  <2>4. \A c \in Procs : pc'[c] \in Starting => parent[c] # parent[p]
    BY <1>0, <2>2, <2>3 DEF Starts
  <2>5. \A c \in Procs : pc[c] \in Starting => parent[c] \in Procs /\ parent[c] # p
    BY <1>0, <2>1 DEF Starts
  <2>6. \A c \in Procs : pc'[c] \in Starting => sem_process'[parent[c]] = sem_process[parent[c]]
    BY <1>0, <2>1, <2>2, <2>4, <2>5
  <2>7. "free" \in Labels /\ "free" \notin Starting
    BY DEF Labels, Starting
  <2> QED
    BY <1>0, <2>1, <2>5, <2>6, <2>7, StartsFrame
<1>5. CASE exit_pop(p)
  <2>1. /\ pc[p] \in {"exit_pop", "exit_popped"} /\ UNCHANGED <<child, sem_process>>
        /\ pc' = pc \/ \E to \in {"exit_remove", "exit_popped", "exit_pop"} : pc' = [pc EXCEPT ![p] = to]
        /\ parent' = parent \/ (pc[p] = "exit_popped" /\ parent' = [parent EXCEPT ![t[p]] = NULL])
    BY <1>5 DEF exit_pop, At, Goto, execVars
  <2>2. PICK to \in {"exit_remove", "exit_popped", "exit_pop"} : pc' = pc \/ pc' = [pc EXCEPT ![p] = to]
    BY <2>1
  <2>3. \A c \in Procs : pc'[c] \in Starting => pc[c] \in Starting
    BY <1>0, <2>2 DEF Starting
  <2>4. PICK fam \in [Procs -> Int] : Family(fam)
    BY DEF ProcInv, Families
  <2>5. \A c \in Procs : pc[c] \in Starting => parent[c] # p
    BY <1>0, <2>1 DEF Starts
  <2>6. \A c \in Procs : pc[c] \in Starting /\ pc[p] = "exit_popped" => c # t[p]
    <3> SUFFICES ASSUME NEW c \in Procs, pc[c] \in Starting, pc[p] = "exit_popped", c = t[p]
                 PROVE  FALSE
      OBVIOUS
    <3>1. fam[c] = p /\ parent[c] \in Procs /\ parent[c] \in {NULL, fam[c]}
      BY <1>0, <2>4 DEF Family, Starts
    <3> QED
      BY <2>5, <3>1
  <2>7. \A c \in Procs : pc'[c] \in Starting => parent'[c] = parent[c]
    BY <1>0, <2>1, <2>3, <2>6
  <2>8. to \in Labels /\ to \notin Starting
    BY DEF Labels, Starting
  <2> QED
    BY <1>0, <2>1, <2>2, <2>5, <2>7, <2>8, StartsFrame
<1>6. CASE thread_exit(p)
  <2>1. /\ pc[p] = "dying" /\ pc' = [pc EXCEPT ![p] = "dead"]
        /\ parent' = [parent EXCEPT ![p] = NULL]
        /\ child' = [child EXCEPT ![p] = NULL]
        /\ sem_process' = sem_process
    BY <1>6 DEF thread_exit, At, Goto, execVars
  <2>2. \A c \in Procs : pc'[c] \in Starting => c # p /\ pc[c] \in Starting
    BY <1>0, <2>1 DEF Starting
  <2>3. \A c \in Procs : pc[c] \in Starting => parent[c] \in Procs /\ parent[c] # p
    BY <1>0, <2>1 DEF Starts
  <2>4. \A c \in Procs : pc'[c] \in Starting => parent'[c] = parent[c] /\ child'[parent[c]] = child[parent[c]]
    BY <1>0, <2>1, <2>2, <2>3
  <2>5. "dead" \in Labels /\ "dead" \notin Starting
    BY DEF Labels, Starting
  <2> QED
    BY <1>0, <2>1, <2>3, <2>4, <2>5, StartsFrame
<1>7. ASSUME NEW to \in Labels \ Starting, Goto(p, to) \/ pc' = pc,
             pc[p] # "exec_down", UNCHANGED <<parent, child, sem_process>>
      PROVE  Starts'
  <2>1. \A c \in Procs : pc[c] \in Starting => parent[c] # p
    BY <1>0, <1>7 DEF Starts
  <2>2. pc' = pc \/ pc' = [pc EXCEPT ![p] = to]
    BY <1>7 DEF Goto
  <2> QED
    BY <1>0, <1>7, <2>1, <2>2, StartsFrame
<1>8. ASSUME NEW i \in {-1} \cup (User \cap 3..next_tid), process_wait(p, i)
      PROVE  Starts'
  <2>1. \/ pc' = pc
        \/ Goto(p, "wait_code")
        \/ Goto(p, "wait_find")
    BY <1>8 DEF process_wait
  <2> QED
    BY <1>7, <1>8, <2>1 DEF process_wait, Calling, At, Labels, Starting, threadVars, execVars
<1>9. CASE exit_remove(p)
  BY <1>7, <1>9 DEF exit_remove, At, Labels, Starting, threadVars, execVars
<1>10. CASE UNCHANGED ExceptPanic
  BY <1>0, <1>10 DEF ExceptPanic, threadVars, execVars, Starts
<1>11. CASE wait_find(p)
  BY <1>7, <1>11 DEF wait_find, At, Labels, Starting, threadVars, execVars
<1>12. CASE wait_code(p)
  BY <1>7, <1>12 DEF wait_code, At, Labels, Starting, threadVars, execVars
<1>13. CASE wait_reset(p)
  BY <1>7, <1>13 DEF wait_reset, Returns, At, Labels, Starting, threadVars, execVars
<1>14. CASE wait_flag(p)
  <2>1. /\ pc[p] = "wait_flag" /\ UNCHANGED <<parent, child, sem_process>>
        /\ Goto(p, "run") \/ Goto(p, "wait_down")
    <3>1. PICK waiting \in BOOLEAN \cup {is_waiting[t[p]]} :
            IF waiting THEN Returns(p) ELSE Goto(p, "wait_down") /\ UNCHANGED waitVars
      BY <1>14 DEF wait_flag
    <3> QED
      BY <1>14, <3>1 DEF wait_flag, Returns, At, execVars
  <2> QED
    BY <1>7, <2>1 DEF Labels, Starting
<1>15. CASE wait_down(p)
  BY <1>7, <1>15 DEF wait_down, At, Labels, Starting, execVars
<1>16. CASE wait_return(p)
  BY <1>7, <1>16 DEF wait_return, Returns, At, Labels, Starting, threadVars, execVars
<1>17. CASE free_cmd_line(p)
  BY <1>7, <1>17 DEF free_cmd_line, At, Labels, Starting, threadVars, execVars
<1>18. CASE exit_code(p)
  BY <1>7, <1>18 DEF exit_code, At, Labels, Starting, execVars
<1>19. ASSUME NEW code \in Int, sys_exit(p, code)
       PROVE  Starts'
  BY <1>7, <1>19 DEF sys_exit, At, Labels, Starting, execVars
<1>20. CASE Leave(p)
  BY <1>7, <1>20 DEF Leave, At, Labels, Starting, threadVars, execVars
<1> QED
  BY <1>1, <1>2, <1>3, <1>4, <1>5, <1>6, <1>8, <1>9, <1>10, <1>11, <1>12, <1>13, <1>14, <1>15,
     <1>16, <1>17, <1>18, <1>19, <1>20 DEF ProcStep, Call, Step, Proceed

\* Every step keeps the types, the families and who waits for whom.
LEMMA ProcInvStep == ProcInv /\ [SysNext]_sysVars => ProcInv'
<1> SUFFICES ASSUME ProcInv, [SysNext]_sysVars
             PROVE  ProcInv'
  OBVIOUS
<1>1. PICK p \in Procs : ProcStep(p)
  BY SysNextProc
<1> QED
  BY <1>1, TypesStep, FamilyStep, StartsStep DEF ProcInv

LEMMA ProcInvariant == SysSpec => []ProcInv
BY InitProcInv, ProcInvStep, PTL DEF SysSpec

\* A process that is being started finds its parent waiting for it, with the
\* list it pushes itself onto and the semaphore it ups.
THEOREM ParentIsThere == SysSpec => []ParentWaits
<1>1. ProcInv => ParentWaits
  BY ProcFacts DEF ProcInv, Starts, ParentWaits
<1> QED
  BY <1>1, ProcInvariant, PTL

----------------------------------------------------------------------------
(* Exits.  A child's semaphore is upped once its exit code is stored, and    *)
(* neither its exit_stat nor where it is changes in a page that is dead.     *)

Gone == {"dying", "dead"}

Exits ==
  /\ \A c \in Procs : sem[c] > 0 => pc[c] \in Gone
  /\ \A c \in Procs : pc[c] \in {"exit_up"} \cup Gone => exit_c[c] \in {exit_stat[c], -1}
  /\ \A p \in Procs : pc[p] = "wait_return" => pc[t[p]] \in Gone

LEMMA InitExits == SysInit => Exits
<1> SUFFICES ASSUME Init
             PROVE  Exits
  BY DEF SysInit
<1> QED
  BY DEF Init, Exits, Gone

\* A step that touches no exit code and no semaphore of a dead process.
LEMMA ExitsFrame ==
  ASSUME Exits, Places, pc \in [Procs -> Labels],
         NEW p \in Procs, NEW to \in Labels,
         pc' = [pc EXCEPT ![p] = to] \/ pc' = pc,
         to \notin {"exit_up", "wait_return"},
         pc[p] \notin Gone \/ to \in Gone,
         to \in Gone => pc[p] \in {"exit_up"} \cup Gone,
         \A q \in Procs : q # p => t'[q] = t[q],
         pc' = pc => t' = t \/ pc[p] # "wait_return",
         UNCHANGED <<sem, exit_stat>>,
         \A q \in Procs : exit_c'[q] \in {exit_c[q], -1}
  PROVE  Exits'
<1>1. \A q \in Procs : q # p => pc'[q] = pc[q]
  OBVIOUS
<1>2. \A q \in Procs : pc[q] \in Gone => pc'[q] \in Gone
  OBVIOUS
<1>3. \A q \in Procs : pc'[q] \in {"exit_up"} \cup Gone => pc[q] \in {"exit_up"} \cup Gone
  OBVIOUS
<1>4. \A q \in Procs : pc'[q] = "wait_return" => pc[q] = "wait_return" /\ t'[q] = t[q] /\ t[q] \in Procs
  BY DEF Places, HasT
<1>5. \A c \in Procs : sem'[c] > 0 => pc'[c] \in Gone
  BY <1>2 DEF Exits
<1>6. \A c \in Procs : pc'[c] \in {"exit_up"} \cup Gone => exit_c'[c] \in {exit_stat'[c], -1}
  BY <1>3 DEF Exits
<1>7. \A q \in Procs : pc'[q] = "wait_return" => pc'[t'[q]] \in Gone
  BY <1>2, <1>4 DEF Exits
<1> QED
  BY <1>5, <1>6, <1>7 DEF Exits

\* Only process_exit() stores an exit code other than -1, and ups afterwards.
LEMMA ExitsStep ==
  ASSUME ProcInv, Exits, NEW p \in Procs, ProcStep(p)
  PROVE  Exits'
<1> USE ProcFacts
<1>0. /\ sem \in [Procs -> Nat] /\ exit_c \in [Procs -> Int] /\ exit_stat \in [Procs -> Int]
      /\ t \in [Procs -> Procs \cup {NULL}] /\ arg \in [Procs -> User \cup {NULL}]
      /\ pc \in [Procs -> Labels] /\ Places /\ next_tid \in Int
  BY DEF ProcInv, Types
<1>1. CASE process_execute(p)
  <2> DEFINE c == next_tid
  <2>1. /\ c \in User /\ pc[p] = "run" /\ pc[c] = "unused" /\ c # p
    BY <1>0, <1>1 DEF process_execute, Calling, At, Places, User
  <2>2. /\ sem' = [sem EXCEPT ![c] = 0]
        /\ exit_stat' = [exit_stat EXCEPT ![c] = 0]
        /\ pc' = [pc EXCEPT ![p] = "exec_down", ![c] = "start"]
        /\ exit_c' = exit_c /\ t' = t
    BY <1>1 DEF process_execute, thread_create, init_thread, waitVars
  <2>3. \A q \in Procs :
          /\ q \notin {p, c} => pc'[q] = pc[q] /\ sem'[q] = sem[q] /\ exit_stat'[q] = exit_stat[q]
          /\ pc'[p] = "exec_down" /\ pc'[c] = "start" /\ sem'[c] = 0 /\ sem'[p] = sem[p]
    BY <1>0, <2>1, <2>2
  <2>4. \A q \in Procs : sem'[q] > 0 => pc'[q] \in Gone
    <3> SUFFICES ASSUME NEW q \in Procs, sem'[q] > 0
                 PROVE  pc'[q] \in Gone
      OBVIOUS
    <3>1. q # c
      BY <2>1, <2>3
    <3>2. sem[q] > 0 /\ pc[q] \in Gone
      BY <2>3, <3>1 DEF Exits
    <3> QED
      BY <2>1, <2>3, <3>1, <3>2 DEF Gone
  <2>5. \A q \in Procs : pc'[q] \in {"exit_up"} \cup Gone => exit_c'[q] \in {exit_stat'[q], -1}
    <3> SUFFICES ASSUME NEW q \in Procs, pc'[q] \in {"exit_up"} \cup Gone
                 PROVE  exit_c'[q] \in {exit_stat'[q], -1}
      OBVIOUS
    <3>1. q \notin {p, c}
      BY <2>3 DEF Gone
    <3> QED
      BY <2>2, <2>3, <3>1 DEF Exits
  <2>6. \A q \in Procs : pc'[q] = "wait_return" => pc'[t'[q]] \in Gone
    <3> SUFFICES ASSUME NEW q \in Procs, pc'[q] = "wait_return"
                 PROVE  pc'[t'[q]] \in Gone
      OBVIOUS
    <3>1. pc[q] = "wait_return"
      BY <2>3
    <3>2. t[q] \in Procs /\ pc[t[q]] \in Gone
      BY <1>0, <3>1 DEF Exits, Places, HasT
    <3>3. t[q] \notin {p, c} /\ t'[q] = t[q]
      BY <2>1, <2>2, <3>2 DEF Gone
    <3>4. pc'[t[q]] = pc[t[q]]
      BY <2>3, <3>2, <3>3
    <3> QED
      BY <3>2, <3>3, <3>4
  <2> QED
    BY <2>4, <2>5, <2>6 DEF Exits
<1>2. ASSUME NEW to \in Labels \ ({"exit_up", "wait_return"} \cup Gone), Goto(p, to),
             pc[p] \notin Gone, \A q \in Procs : q # p => t'[q] = t[q],
             UNCHANGED <<sem, exit_stat, exit_c>>
      PROVE  Exits'
  <2>1. pc' = [pc EXCEPT ![p] = to] /\ pc'[p] = to /\ \A q \in Procs : q # p => pc'[q] = pc[q]
    BY <1>0, <1>2 DEF Goto
  <2>2. \A q \in Procs : /\ pc'[q] \in {"exit_up", "wait_return"} \cup Gone => pc'[q] = pc[q] /\ q # p
                         /\ pc[q] \in Gone => pc'[q] = pc[q]
    BY <1>2, <2>1 DEF Gone
  <2> QED
    BY <1>0, <1>2, <2>1, <2>2, ExitsFrame
<1>3. CASE wait_reset(p)
  <2>1. /\ \A q \in Procs : exit_c'[q] \in {exit_c[q], -1}
        /\ pc[p] = "wait_reset" /\ UNCHANGED <<sem, exit_stat>>
    BY <1>0, <1>3 DEF wait_reset, At, threadVars
  <2>2. /\ Goto(p, "run") \/ Goto(p, "wait_flag")
        /\ \A q \in Procs : q # p => t'[q] = t[q]
    BY <1>0, <1>3 DEF wait_reset, Returns, waitVars
  <2>3. /\ "run" \in Labels \ ({"exit_up", "wait_return"} \cup Gone)
        /\ "wait_flag" \in Labels \ ({"exit_up", "wait_return"} \cup Gone)
        /\ pc[p] \notin Gone
    BY <2>1 DEF Labels, Gone
  <2>4. PICK to \in Labels \ ({"exit_up", "wait_return"} \cup Gone) : pc' = [pc EXCEPT ![p] = to]
    BY <2>2, <2>3 DEF Goto
  <2>5. pc' # pc
    BY <1>0, <1>3, <2>1, <2>2 DEF Goto
  <2> QED
    BY <1>0, <2>1, <2>2, <2>3, <2>4, <2>5, ExitsFrame
<1>4. CASE wait_down(p)
  <2>1. /\ pc[p] = "wait_down" /\ t[p] \in Procs /\ sem[t[p]] > 0
        /\ sem' = [sem EXCEPT ![t[p]] = sem[t[p]] - 1]
        /\ pc' = [pc EXCEPT ![p] = "wait_return"]
        /\ UNCHANGED <<exit_stat, exit_c, t>>
    BY <1>0, <1>4 DEF wait_down, At, Goto, Places, HasT, waitVars
  <2>2. pc[t[p]] \in Gone
    BY <2>1 DEF Exits
  <2>3. \A q \in Procs : sem'[q] > 0 => sem[q] > 0
    BY <1>0, <2>1
  <2>4. \A q \in Procs : (q # p => pc'[q] = pc[q]) /\ pc'[p] = "wait_return"
    BY <1>0, <2>1
  <2>5. \A q \in Procs : pc[q] \in Gone => pc'[q] \in Gone /\ q # p
    BY <2>1, <2>4 DEF Gone
  <2>6. \A q \in Procs : sem'[q] > 0 => pc'[q] \in Gone
    BY <2>3, <2>5 DEF Exits
  <2>7. \A q \in Procs : pc'[q] \in {"exit_up"} \cup Gone => exit_c'[q] \in {exit_stat'[q], -1}
    BY <2>1, <2>4 DEF Exits, Gone
  <2>8. \A q \in Procs : pc'[q] = "wait_return" => pc'[t'[q]] \in Gone
    BY <1>0, <2>1, <2>2, <2>4, <2>5 DEF Exits, Places, HasT
  <2> QED
    BY <2>6, <2>7, <2>8 DEF Exits
<1>5. CASE exit_code(p)
  <2>1. CASE At(p, "exit_code")
    <3>1. /\ pc[p] = "exit_code" /\ pc' = [pc EXCEPT ![p] = "exit_up"]
          /\ exit_c' = [exit_c EXCEPT ![p] = exit_stat[p]] /\ UNCHANGED <<sem, exit_stat, t>>
      BY <1>5, <2>1 DEF exit_code, At, Goto, waitVars
    <3>2. \A q \in Procs : (q # p => pc'[q] = pc[q] /\ exit_c'[q] = exit_c[q]) /\ pc'[p] = "exit_up"
          /\ exit_c'[p] = exit_stat[p]
      BY <1>0, <3>1
    <3>3. \A q \in Procs : pc[q] \in Gone => pc'[q] \in Gone /\ q # p
      BY <3>1, <3>2 DEF Gone
    <3>4. \A q \in Procs : sem'[q] > 0 => pc'[q] \in Gone
      BY <3>1, <3>3 DEF Exits
    <3>5. \A q \in Procs : pc'[q] \in {"exit_up"} \cup Gone => exit_c'[q] \in {exit_stat'[q], -1}
      BY <3>1, <3>2 DEF Exits
    <3>6. \A q \in Procs : pc'[q] = "wait_return" => pc'[t'[q]] \in Gone
      BY <1>0, <3>1, <3>2, <3>3 DEF Exits, Places, HasT
    <3> QED
      BY <3>4, <3>5, <3>6 DEF Exits
  <2>2. CASE At(p, "exit_up")
    <3>1. /\ pc[p] = "exit_up" /\ pc' = [pc EXCEPT ![p] = "dying"]
          /\ sem' = [sem EXCEPT ![p] = sem[p] + 1] /\ UNCHANGED <<exit_c, exit_stat, t>>
      BY <1>5, <2>2 DEF exit_code, At, Goto, waitVars
    <3>2. \A q \in Procs : (q # p => pc'[q] = pc[q] /\ sem'[q] = sem[q]) /\ pc'[p] = "dying"
      BY <1>0, <3>1
    <3>3. \A q \in Procs : pc[q] \in Gone => pc'[q] \in Gone
      BY <3>2 DEF Gone
    <3>4. \A q \in Procs : sem'[q] > 0 => pc'[q] \in Gone
      BY <3>2, <3>3 DEF Exits, Gone
    <3>5. \A q \in Procs : pc'[q] \in {"exit_up"} \cup Gone => exit_c'[q] \in {exit_stat'[q], -1}
      BY <3>1, <3>2 DEF Exits
    <3>6. \A q \in Procs : pc'[q] = "wait_return" => pc'[t'[q]] \in Gone
      BY <1>0, <3>1, <3>2, <3>3 DEF Exits, Places, HasT
    <3> QED
      BY <3>4, <3>5, <3>6 DEF Exits
  <2> QED
    BY <1>5, <2>1, <2>2 DEF exit_code
<1>6. CASE thread_exit(p)
  <2>1. pc[p] = "dying" /\ pc' = [pc EXCEPT ![p] = "dead"] /\ UNCHANGED <<sem, exit_stat, exit_c, t>>
    BY <1>6 DEF thread_exit, At, Goto, waitVars
  <2>2. "dead" \in Labels /\ "dead" \in Gone /\ pc[p] \in Gone
    BY <2>1 DEF Labels, Gone
  <2> QED
    BY <1>0, <2>1, <2>2, ExitsFrame
<1>7. ASSUME NEW code \in Int, sys_exit(p, code)
      PROVE  Exits'
  <2>1. /\ pc[p] = "run" /\ pc' = [pc EXCEPT ![p] = "exit_pop"]
        /\ exit_stat' = [exit_stat EXCEPT ![p] = code] /\ UNCHANGED <<sem, exit_c, t>>
    BY <1>7 DEF sys_exit, At, Goto, waitVars
  <2>2. \A q \in Procs : (q # p => pc'[q] = pc[q] /\ exit_stat'[q] = exit_stat[q]) /\ pc'[p] = "exit_pop"
    BY <1>0, <2>1
  <2>3. \A q \in Procs : pc[q] \in Gone => pc'[q] \in Gone
    BY <2>1, <2>2 DEF Gone
  <2>4. \A q \in Procs : sem'[q] > 0 => pc'[q] \in Gone
    BY <2>1, <2>3 DEF Exits
  <2>5. \A q \in Procs : pc'[q] \in {"exit_up"} \cup Gone => exit_c'[q] \in {exit_stat'[q], -1}
    BY <2>1, <2>2 DEF Exits, Gone
  <2>6. \A q \in Procs : pc'[q] = "wait_return" => pc'[t'[q]] \in Gone
    BY <1>0, <2>1, <2>2, <2>3 DEF Exits, Places, HasT
  <2> QED
    BY <2>4, <2>5, <2>6 DEF Exits
<1>8. ASSUME UNCHANGED <<sem, exit_stat, exit_c, pc>>,
             \A q \in Procs : pc[q] = "wait_return" => t'[q] = t[q]
      PROVE  Exits'
  BY <1>8 DEF Exits
<1>9. ASSUME NEW i \in {-1} \cup (User \cap 3..next_tid), process_wait(p, i)
      PROVE  Exits'
  <2>1. UNCHANGED <<sem, exit_stat, exit_c>> /\ pc[p] = "run"
    BY <1>9 DEF process_wait, Calling, At, threadVars
  <2>2. \/ pc' = pc /\ t' = t
        \/ Goto(p, "wait_code") \/ Goto(p, "wait_find")
    BY <1>9 DEF process_wait
  <2>3. (pc' = pc /\ t' = t) \/ \A q \in Procs : q # p => t'[q] = t[q]
    BY <1>0, <1>9 DEF process_wait
  <2> QED
    BY <1>2, <1>8, <2>1, <2>2, <2>3 DEF Labels, Gone
<1>10. CASE UNCHANGED ExceptPanic
  BY <1>8, <1>10 DEF ExceptPanic, threadVars, waitVars
<1>11. CASE wait_find(p)
  <2>1. UNCHANGED <<sem, exit_stat, exit_c>> /\ pc[p] = "wait_find" /\ \A q \in Procs : q # p => t'[q] = t[q]
    BY <1>0, <1>11 DEF wait_find, At, threadVars
  <2>2. pc' = pc \/ Goto(p, "wait_code")
    BY <1>11 DEF wait_find
  <2> QED
    BY <1>2, <1>8, <2>1, <2>2 DEF Labels, Gone
<1>12. CASE wait_flag(p)
  <2>1. /\ pc[p] = "wait_flag" /\ UNCHANGED <<sem, exit_stat, exit_c>>
        /\ \/ Goto(p, "run") /\ t' = [t EXCEPT ![p] = NULL]
           \/ Goto(p, "wait_down") /\ t' = t
    <3>1. PICK waiting \in BOOLEAN \cup {is_waiting[t[p]]} :
            IF waiting THEN Returns(p) ELSE Goto(p, "wait_down") /\ UNCHANGED waitVars
      BY <1>12 DEF wait_flag
    <3> QED
      BY <1>12, <3>1 DEF wait_flag, Returns, At, waitVars
  <2>2. \A q \in Procs : q # p => t'[q] = t[q]
    BY <1>0, <2>1
  <2> QED
    BY <1>2, <2>1, <2>2 DEF Labels, Gone
<1>13. CASE wait_return(p)
  <2>1. \A q \in Procs : q # p => t'[q] = t[q]
    BY <1>0, <1>13 DEF wait_return, Returns
  <2> QED
    BY <1>2, <1>13, <2>1 DEF wait_return, Returns, At, Labels, Gone, threadVars
<1>14. CASE exit_pop(p)
  <2>1. /\ UNCHANGED <<sem, exit_stat, exit_c>> /\ pc[p] \in {"exit_pop", "exit_popped"}
        /\ \A q \in Procs : q # p => t'[q] = t[q]
    BY <1>0, <1>14 DEF exit_pop, At
  <2>2. pc' = pc \/ Goto(p, "exit_remove") \/ Goto(p, "exit_popped") \/ Goto(p, "exit_pop")
    BY <1>14 DEF exit_pop
  <2> QED
    BY <1>2, <1>8, <2>1, <2>2 DEF Labels, Gone
<1>15. CASE exit_remove(p)
  BY <1>2, <1>15 DEF exit_remove, At, Labels, Gone, threadVars, waitVars
<1>16. CASE push_child(p)
  BY <1>2, <1>16 DEF push_child, At, Labels, Gone, threadVars, waitVars
<1>17. CASE exec_down(p)
  BY <1>2, <1>17 DEF exec_down, At, Labels, Gone, threadVars, waitVars
<1>18. CASE wait_code(p)
  BY <1>2, <1>18 DEF wait_code, At, Labels, Gone, threadVars
<1>19. CASE load(p)
  BY <1>2, <1>19 DEF load, At, Labels, Gone, threadVars, waitVars
<1>20. CASE free_cmd_line(p)
  <2>1. UNCHANGED <<sem, exit_stat, exit_c, t>> /\ pc[p] = "free"
    BY <1>20 DEF free_cmd_line, At, threadVars, waitVars
  <2>2. pc' = pc \/ Goto(p, "run") \/ Goto(p, "exit_pop")
    BY <1>20 DEF free_cmd_line
  <2> QED
    BY <1>2, <1>8, <2>1, <2>2 DEF Labels, Gone
<1>21. CASE Leave(p)
  BY <1>2, <1>21 DEF Leave, At, Labels, Gone, threadVars, waitVars
<1> QED
  BY <1>1, <1>3, <1>4, <1>5, <1>6, <1>7, <1>9, <1>10, <1>11, <1>12, <1>13, <1>14, <1>15, <1>16,
     <1>17, <1>18, <1>19, <1>20, <1>21 DEF ProcStep, Call, Step, Proceed

\* Who blocks in process_wait() on the child it asked for goes on only after the
\* child has stored its exit code, and finds it, or the -1 of another reset.
THEOREM WaitSeesExit == SysSpec => []WaitNotEarly
<1>1. ProcInv /\ Exits /\ [SysNext]_sysVars => Exits'
  BY SysNextProc, ExitsStep
<1>2. ProcInv /\ Exits => WaitNotEarly
  <2> SUFFICES ASSUME ProcInv, Exits, NEW p \in Procs, pc[p] = "wait_return", t[p] = arg[p]
               PROVE  pc[t[p]] \in {"dying", "dead"} /\ exit_c[arg[p]] \in {exit_stat[t[p]], -1}
    BY DEF WaitNotEarly
  <2> QED
    BY DEF ProcInv, Places, HasT, Exits, Gone
<1> QED
  BY <1>1, <1>2, InitExits, ProcInvariant, PTL DEF SysSpec

----------------------------------------------------------------------------
(* Files *)

FileTypes ==
  /\ files \in [Procs -> [0..(NFiles - 1) -> Names \cup {NULL}]]
  /\ held \in [Procs -> SUBSET (Descriptors \X Names)]
  /\ many \in [Procs -> BOOLEAN]
  /\ full \in [Procs -> BOOLEAN]

\* What p holds is in its table, as long as it has not been full; and unless it
\* held two files at a time, it used entry 3 of the table only.
Kept(p) == \A h \in held[p] : h[1] \in 3..(NFiles - 1) /\ files[p][h[1]] = h[2]

OnlyThree(p) ==
  /\ \A h \in held[p] : h[1] = 3
  /\ \A i \in 4..(NFiles - 1) : files[p][i] = NULL
  /\ held[p] = {} => files[p][3] = NULL

Tables ==
  /\ \A p \in Procs : full[p] \/ Kept(p)
  /\ \A p \in Procs : many[p] \/ (~full[p] /\ OnlyThree(p))

FilesInv == FileTypes /\ Tables

LEMMA InitFilesInv == SysInit => FilesInv
<1> SUFFICES ASSUME FilesInit
             PROVE  FilesInv
  BY DEF SysInit
<1>1. FileTypes
  BY DEF FilesInit, FileTypes, NoFiles
<1>2. \A p \in Procs : held[p] = {} /\ full[p] = FALSE /\ \A i \in 0..(NFiles - 1) : files[p][i] = NULL
  BY DEF FilesInit, NoFiles
<1>3. \A p \in Procs : Kept(p) /\ OnlyThree(p)
  BY <1>2, FilesAssumption DEF Kept, OnlyThree
<1> QED
  BY <1>1, <1>2, <1>3 DEF FilesInv, Tables

\* The least of some natural numbers.
LEMMA Least ==
  ASSUME NEW S \in SUBSET Nat, S # {}
  PROVE  \E i \in S : \A k \in S : i <= k
<1>1. PICK i \in S : \A k \in S : <<k, i>> \notin OpToRel(<, Nat)
  BY NatLessThanWellFounded, WFMin
<1>2. \A k \in S : ~(k < i)
  BY <1>1 DEF OpToRel
<1> QED
  BY <1>2

\* sys_open() takes the first free entry.
LEMMA OpenInv ==
  ASSUME FilesInv, NEW p \in Procs, NEW name \in Names, NEW fd \in Descriptors, sys_open(p, name, fd)
  PROVE  FilesInv'
<1> DEFINE i == CHOOSE j \in Free(p) : \A k \in Free(p) : j <= k
<1>0. /\ files \in [Procs -> [0..(NFiles - 1) -> Names \cup {NULL}]]
      /\ held \in [Procs -> SUBSET (Descriptors \X Names)]
      /\ many \in [Procs -> BOOLEAN] /\ full \in [Procs -> BOOLEAN]
      /\ name # NULL /\ 3 \in 3..(NFiles - 1) /\ 3..(NFiles - 1) \subseteq Descriptors
  BY FilesAssumption DEF FilesInv, FileTypes, Descriptors
<1>1. /\ many' = [many EXCEPT ![p] = many[p] \/ held[p] # {}]
      /\ held' = held \/ \E d : held' = [held EXCEPT ![p] = held[p] \cup {<<d, name>>}]
      /\ \A q \in Procs : q # p => files'[q] = files[q] /\ held'[q] = held[q] /\ full'[q] = full[q]
  BY <1>0 DEF sys_open, Opens, Hold
<1>2. many' \in [Procs -> BOOLEAN] /\ \A q \in Procs : q # p => many'[q] = many[q]
  BY <1>0, <1>1
<1>3. many'[p] = (many[p] \/ held[p] # {})
  BY <1>0, <1>1
<1>4. CASE Free(p) # {}
  <2>1. /\ files' = [files EXCEPT ![p][i] = name]
        /\ held' = [held EXCEPT ![p] = held[p] \cup {<<i, name>>}]
        /\ full' = full
    BY <1>4 DEF sys_open, Hold
  <2>2. i \in Free(p) /\ \A k \in Free(p) : i <= k
    <3>1. Free(p) \in SUBSET Nat
      BY FilesAssumption DEF Free
    <3> QED
      BY <1>4, <3>1, Least
  <2> HIDE DEF i
  <2>3. i \in 3..(NFiles - 1) /\ files[p][i] = NULL
    BY <2>2 DEF Free
  <2>4. /\ files'[p] = [files[p] EXCEPT ![i] = name]
        /\ held'[p] = held[p] \cup {<<i, name>>}
    <3>1. p \in DOMAIN files /\ p \in DOMAIN held
      BY <1>0
    <3>2. files'[p] = [files[p] EXCEPT ![i] = name]
      BY <2>1, <3>1
    <3>3. held'[p] = held[p] \cup {<<i, name>>}
      BY <2>1, <3>1
    <3> QED
      BY <3>2, <3>3
  <2>5. FileTypes'
    <3>1. files'[p] \in [0..(NFiles - 1) -> Names \cup {NULL}]
      <4>1. files[p] \in [0..(NFiles - 1) -> Names \cup {NULL}]
        BY <1>0
      <4> QED
        BY <2>4, <4>1
    <3>2. files' \in [Procs -> [0..(NFiles - 1) -> Names \cup {NULL}]]
      BY <1>0, <2>1, <3>1
    <3>3. held' \in [Procs -> SUBSET (Descriptors \X Names)]
      BY <1>0, <2>1, <2>3
    <3> QED
      BY <1>0, <1>2, <2>1, <3>2, <3>3 DEF FileTypes
  <2>6. ASSUME ~full[p]
        PROVE  Kept(p)'
    <3> SUFFICES ASSUME NEW h \in held'[p]
                 PROVE  h[1] \in 3..(NFiles - 1) /\ files'[p][h[1]] = h[2]
      BY DEF Kept
    <3>1. CASE h = <<i, name>>
      <4>1. h[1] = i /\ h[2] = name /\ i \in 0..(NFiles - 1)
        BY <2>3, <3>1
      <4>2. files[p] \in [0..(NFiles - 1) -> Names \cup {NULL}]
        BY <1>0
      <4> QED
        BY <2>3, <2>4, <4>1, <4>2
    <3>2. CASE h \in held[p]
      <4>1. h[1] \in 3..(NFiles - 1) /\ files[p][h[1]] = h[2] /\ h[2] \in Names
        BY <1>0, <2>6, <3>2 DEF FilesInv, Tables, Kept
      <4>2. h[1] # i
        BY <2>3, <4>1, FilesAssumption
      <4> QED
        BY <1>0, <2>4, <4>1, <4>2
    <3> QED
      BY <2>4, <3>1, <3>2
  <2>7. ASSUME ~many'[p]
        PROVE  ~full[p] /\ OnlyThree(p)'
    <3>1. ~many[p] /\ held[p] = {}
      BY <1>3, <2>7
    <3>2. ~full[p] /\ OnlyThree(p)
      BY <3>1 DEF FilesInv, Tables
    <3>3. 3 \in Free(p)
      BY <1>0, <3>1, <3>2 DEF OnlyThree, Free
    <3>4. i = 3
      BY <2>2, <2>3, <3>3
    <3>5. held'[p] = {<<3, name>>}
      BY <2>4, <3>1, <3>4
    <3>6. \A k \in 4..(NFiles - 1) : k \in 0..(NFiles - 1) /\ k # 3
      OBVIOUS
    <3>7. \A k \in 4..(NFiles - 1) : files'[p][k] = files[p][k]
      BY <1>0, <2>4, <3>4, <3>6
    <3> QED
      <4>1. held'[p] # {} /\ \A h \in held'[p] : h[1] = 3
        BY <3>5
      <4>2. \A k \in 4..(NFiles - 1) : files'[p][k] = NULL
        BY <3>2, <3>7 DEF OnlyThree
      <4>3. OnlyThree(p)'
        BY <4>1, <4>2 DEF OnlyThree
      <4> QED
        BY <3>2, <4>3
  <2>8. \A q \in Procs : q # p => (Kept(q)' <=> Kept(q)) /\ (OnlyThree(q)' <=> OnlyThree(q))
    BY <1>1 DEF Kept, OnlyThree
  <2>9. Tables'
    BY <1>2, <2>1, <2>6, <2>7, <2>8 DEF FilesInv, Tables
  <2> QED
    BY <2>5, <2>9 DEF FilesInv
<1>5. CASE Free(p) = {}
  <2>1. /\ files' = files
        /\ full' = [full EXCEPT ![p] = TRUE]
        /\ held' = held \/ held' = [held EXCEPT ![p] = held[p] \cup {<<fd, name>>}]
    BY <1>5 DEF sys_open, Hold
  <2>2. FileTypes'
    <3>1. held' \in [Procs -> SUBSET (Descriptors \X Names)]
      BY <1>0, <2>1
    <3> QED
      BY <1>0, <1>2, <2>1, <3>1 DEF FileTypes
  <2>3. full'[p] = TRUE
    BY <1>0, <2>1
  <2>4. many'[p]
    <3> SUFFICES ASSUME ~many[p], held[p] = {}
                 PROVE  FALSE
      BY <1>3
    <3>1. files[p][3] = NULL
      BY DEF FilesInv, Tables, OnlyThree
    <3> QED
      BY <1>0, <1>5, <3>1 DEF Free
  <2>5. \A q \in Procs : q # p => (Kept(q)' <=> Kept(q)) /\ (OnlyThree(q)' <=> OnlyThree(q))
    BY <1>1 DEF Kept, OnlyThree
  <2>6. Tables'
    BY <1>1, <1>2, <2>3, <2>4, <2>5 DEF FilesInv, Tables
  <2> QED
    BY <2>2, <2>6 DEF FilesInv
<1> QED
  BY <1>4, <1>5

\* What close_handler() leaves in the table is of a descriptor above 3.
LEMMA CloseInv ==
  ASSUME FilesInv, NEW p \in Procs, NEW fd \in Descriptors, close_handler(p, fd)
  PROVE  FilesInv'
<1>0. /\ files \in [Procs -> [0..(NFiles - 1) -> Names \cup {NULL}]]
      /\ held \in [Procs -> SUBSET (Descriptors \X Names)]
      /\ 1..3 \subseteq 0..(NFiles - 1)
  BY FilesAssumption DEF FilesInv, FileTypes
<1>1. /\ files' = IF fd \in 1..3 THEN [files EXCEPT ![p][fd] = NULL] ELSE files
      /\ held' = [held EXCEPT ![p] = {h \in held[p] : h[1] # fd}]
      /\ UNCHANGED <<many, full>>
  BY DEF close_handler, Drop
<1>2. \A q \in Procs : q # p => files'[q] = files[q] /\ held'[q] = held[q]
  BY <1>0, <1>1
<1>3. held'[p] = {h \in held[p] : h[1] # fd}
  BY <1>0, <1>1
<1>4. /\ files'[p] \in [0..(NFiles - 1) -> Names \cup {NULL}]
      /\ \A i \in 0..(NFiles - 1) : i # fd => files'[p][i] = files[p][i]
      /\ \A i \in 0..(NFiles - 1) : files[p][i] = NULL => files'[p][i] = NULL
      /\ fd = 3 => files'[p][3] = NULL
  <2>1. CASE fd \in 1..3
    <3>1. files'[p] = [files[p] EXCEPT ![fd] = NULL]
      BY <1>0, <1>1, <2>1
    <3> QED
      BY <1>0, <2>1, <3>1
  <2>2. CASE fd \notin 1..3
    BY <1>0, <1>1, <2>2
  <2> QED
    BY <2>1, <2>2
<1>5. FileTypes'
  <2>1. files' \in [Procs -> [0..(NFiles - 1) -> Names \cup {NULL}]]
    BY <1>0, <1>1, <1>4
  <2>2. held' \in [Procs -> SUBSET (Descriptors \X Names)]
    BY <1>0, <1>1
  <2> QED
    BY <1>1, <2>1, <2>2 DEF FilesInv, FileTypes
<1>6. Kept(p) => Kept(p)'
  <2> SUFFICES ASSUME Kept(p), NEW h \in held'[p]
               PROVE  h[1] \in 3..(NFiles - 1) /\ files'[p][h[1]] = h[2]
    BY DEF Kept
  <2>1. h \in held[p] /\ h[1] # fd
    BY <1>3
  <2>2. h[1] \in 3..(NFiles - 1) /\ files[p][h[1]] = h[2]
    BY <2>1 DEF Kept
  <2>3. h[1] \in 0..(NFiles - 1)
    BY <2>2
  <2> QED
    BY <1>4, <2>1, <2>2, <2>3
<1>7. OnlyThree(p) => OnlyThree(p)'
  <2> SUFFICES ASSUME OnlyThree(p)
               PROVE  OnlyThree(p)'
    OBVIOUS
  <2>1. \A h \in held'[p] : h[1] = 3
    BY <1>3 DEF OnlyThree
  <2>2. \A i \in 4..(NFiles - 1) : files'[p][i] = NULL
    <3>1. \A i \in 4..(NFiles - 1) : i \in 0..(NFiles - 1)
      OBVIOUS
    <3> QED
      BY <1>4, <3>1 DEF OnlyThree
  <2>3. held'[p] = {} => files'[p][3] = NULL
    <3>1. CASE fd = 3
      BY <1>4, <3>1
    <3>2. CASE fd # 3
      <4>1. held'[p] = held[p]
        BY <1>3, <3>2 DEF OnlyThree
      <4> QED
        BY <1>0, <1>4, <4>1 DEF OnlyThree
    <3> QED
      BY <3>1, <3>2
  <2> QED
    BY <2>1, <2>2, <2>3 DEF OnlyThree
<1>8. \A q \in Procs : q # p => (Kept(q)' <=> Kept(q)) /\ (OnlyThree(q)' <=> OnlyThree(q))
  BY <1>2 DEF Kept, OnlyThree
<1>9. Tables'
  BY <1>1, <1>6, <1>7, <1>8 DEF FilesInv, Tables
<1> QED
  BY <1>5, <1>9 DEF FilesInv

\* A process that exits loses its table.
LEMMA ExitThreadInv ==
  ASSUME FilesInv, NEW p \in Procs, exit_thread(p)
  PROVE  FilesInv'
<1>0. /\ files \in [Procs -> [0..(NFiles - 1) -> Names \cup {NULL}]]
      /\ held \in [Procs -> SUBSET (Descriptors \X Names)]
  BY DEF FilesInv, FileTypes
<1>1. files' = [files EXCEPT ![p] = NoFiles] /\ held' = [held EXCEPT ![p] = {}] /\ UNCHANGED <<many, full>>
  BY DEF exit_thread
<1>2. FileTypes'
  <2>1. NoFiles \in [0..(NFiles - 1) -> Names \cup {NULL}]
    BY DEF NoFiles
  <2>2. files' \in [Procs -> [0..(NFiles - 1) -> Names \cup {NULL}]]
    BY <1>0, <1>1, <2>1
  <2>3. held' \in [Procs -> SUBSET (Descriptors \X Names)]
    BY <1>0, <1>1
  <2> QED
    BY <1>1, <2>2, <2>3 DEF FilesInv, FileTypes
<1>3. held'[p] = {} /\ \A i \in 0..(NFiles - 1) : files'[p][i] = NULL
  BY <1>0, <1>1 DEF NoFiles
<1>4. Kept(p)' /\ OnlyThree(p)'
  BY <1>3, FilesAssumption DEF Kept, OnlyThree
<1>5. \A q \in Procs : q # p => files'[q] = files[q] /\ held'[q] = held[q]
  BY <1>0, <1>1
<1>6. \A q \in Procs : q # p => (Kept(q)' <=> Kept(q)) /\ (OnlyThree(q)' <=> OnlyThree(q))
  BY <1>5 DEF Kept, OnlyThree
<1>7. Tables'
  BY <1>1, <1>4, <1>6 DEF FilesInv, Tables
<1> QED
  BY <1>2, <1>7 DEF FilesInv

\* Nothing else changes a table or what a program holds.
LEMMA FilesStep == FilesInv /\ [SysNext]_sysVars => FilesInv'
<1> SUFFICES ASSUME FilesInv, [SysNext]_sysVars
             PROVE  FilesInv'
  OBVIOUS
<1>1. CASE UNCHANGED <<files, held, many, full>>
  BY <1>1 DEF FilesInv, FileTypes, Tables, Kept, OnlyThree
<1>2. CASE UNCHANGED sysVars
  BY <1>1, <1>2 DEF sysVars, fileVars
<1>3. ASSUME NEW p \in Procs, FileStep(p)
      PROVE  FilesInv'
  <2>1. ASSUME NEW name \in Names, NEW fd \in Descriptors, sys_open(p, name, fd)
        PROVE  FilesInv'
    BY <2>1, OpenInv
  <2>2. ASSUME NEW fd \in Descriptors, close_handler(p, fd)
        PROVE  FilesInv'
    BY <2>2, CloseInv
  <2>3. CASE bad_pointer(p) \/ unimplemented(p)
    BY <1>1, <2>3 DEF bad_pointer, unimplemented, fileVars
  <2>4. ASSUME NEW name \in Names, sys_create(p, name)
        PROVE  FilesInv'
    BY <1>1, <2>4 DEF sys_create, histVars
  <2>5. ASSUME NEW fd \in Descriptors, filesize_handler(p, fd)
        PROVE  FilesInv'
    BY <1>1, <2>5 DEF filesize_handler, fileVars
  <2>6. ASSUME NEW fd \in Descriptors, NEW size \in Sizes, sys_read(p, fd, size) \/ sys_write(p, fd, size)
        PROVE  FilesInv'
    BY <1>1, <2>6 DEF sys_read, sys_write, fileVars
  <2> QED
    BY <1>3, <2>1, <2>2, <2>3, <2>4, <2>5, <2>6 DEF FileStep
<1>4. ASSUME NEW p \in Procs, exit_thread(p)
      PROVE  FilesInv'
  BY <1>4, ExitThreadInv DEF FilesInv, Tables
<1>5. ASSUME NEW p \in Procs, sys_exec(p) \/ wait_handler(p) \/ exit_handler(p)
      PROVE  FilesInv'
  BY <1>1, <1>5 DEF sys_exec, wait_handler, exit_handler, fileVars
<1>6. ASSUME NEW p \in Procs, start_process(p) \/ (Proceed(p) /\ UNCHANGED fileVars)
      PROVE  FilesInv'
  BY <1>1, <1>6 DEF start_process, fileVars
<1> QED
  BY <1>2, <1>3, <1>4, <1>5, <1>6 DEF SysNext, SysStep, file_handler

LEMMA FilesInvariant == SysSpec => []FilesInv
BY InitFilesInv, FilesStep, PTL DEF SysSpec

\* A descriptor stands for the file it was opened for, whatever else is opened
\* and closed, until sys_open() finds no free entry.
THEOREM DescriptorsStand == SysSpec => []DescriptorsKept
<1>1. FilesInv => DescriptorsKept
  BY DEF FilesInv, Tables, Kept, DescriptorsKept
<1> QED
  BY <1>1, FilesInvariant, PTL

\* A program that holds one file at a time uses descriptor 3 only, which is given
\* back, so that it never fills its table.
THEOREM OneFileFits == SysSpec => []OneFileNeverFull
<1>1. FilesInv => OneFileNeverFull
  BY DEF FilesInv, Tables, OneFileNeverFull
<1> QED
  BY <1>1, FilesInvariant, PTL

----------------------------------------------------------------------------
(* Arguments.  What is on a stack stays there, since it grows downwards, as *)
(* long as there is room.                                                   *)

\* A set of numbers that has 0, and the next of each it has, has them all.
LEMMA AllNumbers ==
  ASSUME NEW S \in SUBSET Nat, 0 \in S, \A m \in S : m + 1 \in S
  PROVE  \A m \in Nat : m \in S
<1> DEFINE Bad == Nat \ S
<1> SUFFICES ASSUME Bad # {}
             PROVE  FALSE
  OBVIOUS
<1>1. PICK i \in Bad : \A k \in Bad : i <= k
  <2>1. Bad \in SUBSET Nat
    OBVIOUS
  <2> HIDE DEF Bad
  <2> QED
    BY <2>1, Least
<1>2. i \in Nat /\ i \notin S /\ i # 0
  BY <1>1
<1>3. i - 1 \in Nat /\ ~(i <= i - 1) /\ i - 1 + 1 = i
  BY <1>2
<1>4. i - 1 \in S
  BY <1>1, <1>3
<1> QED
  BY <1>2, <1>3, <1>4

LEMMA StringsPushed ==
  ASSUME NEW tokens, Len(tokens) \in Nat
  PROVE  \E st : /\ st[0] = EmptyStack
                 /\ \A k \in 1..Len(tokens) : st[k] = PushString(st[k - 1], tokens[k])
                 /\ PushStrings(tokens) = st[Len(tokens)]
<1> DEFINE n == Len(tokens)
           R(g, m) == g = [k \in 0..m |-> IF k = 0 THEN EmptyStack ELSE PushString(g[k - 1], tokens[k])]
           Good == {m \in Nat : \E g : R(g, m)}
<1>1. 0 \in Good
  <2> DEFINE g == [k \in 0..0 |-> EmptyStack]
  <2>1. R(g, 0)
    OBVIOUS
  <2> QED
    BY <2>1
<1>2. ASSUME NEW m \in Good
      PROVE  m + 1 \in Good
  <2>1. PICK g : R(g, m)
    OBVIOUS
  <2> DEFINE h == [k \in 0..(m + 1) |-> IF k <= m THEN g[k] ELSE PushString(g[m], tokens[m + 1])]
  <2>2. ASSUME NEW k \in 0..(m + 1)
        PROVE  h[k] = IF k = 0 THEN EmptyStack ELSE PushString(h[k - 1], tokens[k])
    <3>1. CASE k = 0
      <4>1. h[0] = g[0] /\ g[0] = EmptyStack
        BY <2>1
      <4> QED
        BY <3>1, <4>1
    <3>2. CASE k \in 1..m
      <4>1. k \in 0..m /\ k - 1 \in 0..(m + 1) /\ k - 1 <= m /\ k <= m /\ k # 0
        BY <3>2
      <4>2. h[k] = g[k] /\ h[k - 1] = g[k - 1]
        BY <4>1
      <4>3. g[k] = PushString(g[k - 1], tokens[k])
        BY <2>1, <4>1
      <4> QED
        BY <4>1, <4>2, <4>3
    <3>3. CASE k = m + 1
      <4>1. m \in 0..(m + 1) /\ ~(m + 1 <= m) /\ k - 1 = m /\ m <= m /\ k # 0
        BY <3>3
      <4>2. h[k] = PushString(g[m], tokens[m + 1]) /\ h[m] = g[m]
        BY <3>3, <4>1
      <4> QED
        BY <3>3, <4>1, <4>2
    <3> QED
      BY <3>1, <3>2, <3>3
  <2>3. R(h, m + 1)
    BY <2>2
  <2> HIDE DEF h
  <2>4. \E f : R(f, m + 1)
    BY <2>3
  <2>5. m + 1 \in Nat
    OBVIOUS
  <2> QED
    BY <2>4, <2>5
<1>3. \E g : R(g, n)
  <2>1. n \in Good
    <3>1. Good \in SUBSET Nat
      OBVIOUS
    <3> HIDE DEF Good
    <3> QED
      BY <1>1, <1>2, <3>1, AllNumbers
  <2> QED
    BY <2>1
<1> DEFINE st == CHOOSE g : R(g, n)
<1>4. PushStrings(tokens) = st[n]
  BY DEF PushStrings
<1>5. R(st, n)
  BY <1>3
<1> HIDE DEF st
<1>6. st[0] = EmptyStack /\ \A k \in 1..n : st[k] = PushString(st[k - 1], tokens[k])
  BY <1>5
<1> QED
  BY <1>4, <1>6

LEMMA PointersPushed ==
  ASSUME NEW st, Len(st.add_arr) \in Nat
  PROVE  \E p : /\ p[0] = st
                /\ \A k \in 1..Len(st.add_arr) :
                     p[k] = PushWord(p[k - 1], st.add_arr[Len(st.add_arr) + 1 - k])
                /\ PushPointers(st) = p[Len(st.add_arr)]
<1> DEFINE n == Len(st.add_arr)
           R(g, m) == g = [k \in 0..m |-> IF k = 0 THEN st ELSE PushWord(g[k - 1], st.add_arr[n + 1 - k])]
           Good == {m \in Nat : \E g : R(g, m)}
<1>1. 0 \in Good
  <2> DEFINE g == [k \in 0..0 |-> st]
  <2>1. R(g, 0)
    OBVIOUS
  <2> QED
    BY <2>1
<1>2. ASSUME NEW m \in Good
      PROVE  m + 1 \in Good
  <2>1. PICK g : R(g, m)
    OBVIOUS
  <2> DEFINE v == st.add_arr[n + 1 - (m + 1)]
             h == [k \in 0..(m + 1) |-> IF k <= m THEN g[k] ELSE PushWord(g[m], v)]
  <2>2. ASSUME NEW k \in 0..(m + 1)
        PROVE  h[k] = IF k = 0 THEN st ELSE PushWord(h[k - 1], st.add_arr[n + 1 - k])
    <3>1. CASE k = 0
      <4>1. h[0] = g[0] /\ g[0] = st
        BY <2>1
      <4> QED
        BY <3>1, <4>1
    <3>2. CASE k \in 1..m
      <4>1. k \in 0..m /\ k - 1 \in 0..(m + 1) /\ k - 1 <= m /\ k <= m /\ k # 0
        BY <3>2
      <4>2. h[k] = g[k] /\ h[k - 1] = g[k - 1]
        BY <4>1
      <4>3. g[k] = PushWord(g[k - 1], st.add_arr[n + 1 - k])
        BY <2>1, <4>1
      <4> QED
        BY <4>1, <4>2, <4>3
    <3>3. CASE k = m + 1
      <4>1. m \in 0..(m + 1) /\ ~(m + 1 <= m) /\ k - 1 = m /\ m <= m /\ k # 0
        BY <3>3
      <4>2. h[k] = PushWord(g[m], v) /\ h[m] = g[m]
        BY <3>3, <4>1
      <4> QED
        BY <3>3, <4>1, <4>2
    <3> QED
      BY <3>1, <3>2, <3>3
  <2>3. R(h, m + 1)
    BY <2>2
  <2> HIDE DEF h
  <2>4. \E f : R(f, m + 1)
    BY <2>3
  <2>5. m + 1 \in Nat
    OBVIOUS
  <2> QED
    BY <2>4, <2>5
<1>3. \E g : R(g, n)
  <2>1. n \in Good
    <3>1. Good \in SUBSET Nat
      OBVIOUS
    <3> HIDE DEF Good
    <3> QED
      BY <1>1, <1>2, <3>1, AllNumbers
  <2> QED
    BY <2>1
<1> DEFINE p == CHOOSE g : R(g, n)
<1>4. PushPointers(st) = p[n]
  BY DEF PushPointers
<1>5. R(p, n)
  BY <1>3
<1> HIDE DEF p
<1>6. p[0] = st /\ \A k \in 1..n : p[k] = PushWord(p[k - 1], st.add_arr[n + 1 - k])
  BY <1>5
<1> QED
  BY <1>4, <1>6

Memory == 0..(PHYS_BASE - 1)

LEMMA WordStored ==
  ASSUME NEW mem, DOMAIN mem = Memory, NEW a \in Nat, a + 3 < PHYS_BASE, NEW v
  PROVE  /\ DOMAIN StoreWord(mem, a, v) = Memory
         /\ a % 4 = 0 => IsWord(StoreWord(mem, a, v), a, v)
         /\ \A x \in (a + 4)..(PHYS_BASE - 1) : StoreWord(mem, a, v)[x] = mem[x]
<1> DEFINE new == StoreWord(mem, a, v)
<1>1. PHYS_BASE \in Nat
  BY UserStackAssumption
<1>2. DOMAIN new = Memory /\ \A x \in Memory : new[x] = IF x \in a..(a + 3) THEN <<v, x - a>> ELSE mem[x]
  BY DEF StoreWord
<1> HIDE DEF new
<1>3. ASSUME NEW k \in 0..3
      PROVE  new[a + k] = <<v, k>>
  <2>1. a + k \in Memory /\ a + k \in a..(a + 3) /\ (a + k) - a = k
    BY <1>1 DEF Memory
  <2> QED
    BY <1>2, <2>1
<1>4. ASSUME NEW x \in (a + 4)..(PHYS_BASE - 1)
      PROVE  new[x] = mem[x]
  <2>1. x \in Memory /\ x \notin a..(a + 3)
    BY <1>1 DEF Memory
  <2> QED
    BY <1>2, <2>1
<1> QED
  BY <1>2, <1>3, <1>4 DEF IsWord, new

LEMMA StringStored ==
  ASSUME NEW mem, DOMAIN mem = Memory, NEW a \in Nat, NEW s, Len(s) \in Nat, a + Len(s) < PHYS_BASE
  PROVE  /\ DOMAIN StoreString(mem, a, s) = Memory
         /\ IsString(StoreString(mem, a, s), a, s)
         /\ \A x \in (a + Len(s) + 1)..(PHYS_BASE - 1) : StoreString(mem, a, s)[x] = mem[x]
<1> DEFINE new == StoreString(mem, a, s)
           n == Len(s)
<1>1. PHYS_BASE \in Nat
  BY UserStackAssumption
<1>2. /\ DOMAIN new = Memory
      /\ \A x \in Memory : new[x] = IF x \in a..(a + n - 1) THEN <<s[x - a + 1], 4>>
                                    ELSE IF x = a + n THEN <<0, 4>> ELSE mem[x]
  BY DEF StoreString
<1> HIDE DEF new
<1>3. ASSUME NEW k \in 1..n
      PROVE  new[a + k - 1] = <<s[k], 4>>
  <2>1. a + k - 1 \in Memory /\ a + k - 1 \in a..(a + n - 1) /\ (a + k - 1) - a + 1 = k
    BY <1>1 DEF Memory
  <2> QED
    BY <1>2, <2>1
<1>4. new[a + n] = <<0, 4>>
  <2>1. a + n \in Memory /\ a + n \notin a..(a + n - 1)
    BY <1>1 DEF Memory
  <2> QED
    BY <1>2, <2>1
<1>5. ASSUME NEW x \in (a + n + 1)..(PHYS_BASE - 1)
      PROVE  new[x] = mem[x]
  <2>1. x \in Memory /\ x \notin a..(a + n - 1) /\ x # a + n
    BY <1>1 DEF Memory
  <2> QED
    BY <1>2, <2>1
<1> QED
  BY <1>2, <1>3, <1>4, <1>5 DEF IsString, new

\* The strings of the first k tokens are on the stack.
StringsOK(st, tokens, k) ==
  /\ st.esp \in 0..PHYS_BASE
  /\ DOMAIN st.mem = Memory
  /\ st.add_arr \in Seq(Int) /\ Len(st.add_arr) = k
  /\ \A j \in 1..k : /\ st.add_arr[j] \in st.esp..(PHYS_BASE - 1)
                     /\ st.add_arr[j] + Len(tokens[j]) < PHYS_BASE
                     /\ IsString(st.mem, st.add_arr[j], tokens[j])

LEMMA StringMore ==
  ASSUME NEW tokens, NEW k \in Nat, NEW st, StringsOK(st, tokens, k),
         \A j \in 1..(k + 1) : Len(tokens[j]) \in Nat, PushString(st, tokens[k + 1]).esp >= 0
  PROVE  StringsOK(PushString(st, tokens[k + 1]), tokens, k + 1)
<1> DEFINE s == tokens[k + 1]
           at == st.esp - (Len(s) + 1)
           new == PushString(st, s)
           arr == st.add_arr
<1>1. new.esp = at /\ new.mem = StoreString(st.mem, at, s) /\ new.add_arr = Append(arr, at)
  BY DEF PushString
<1>2. /\ PHYS_BASE \in Nat /\ st.esp \in 0..PHYS_BASE /\ DOMAIN st.mem = Memory
      /\ arr \in Seq(Int) /\ Len(arr) = k /\ Len(s) \in Nat
  BY UserStackAssumption DEF StringsOK
<1>3. at \in Nat /\ at + Len(s) < PHYS_BASE /\ at + Len(s) + 1 = st.esp /\ at < st.esp /\ at \in 0..PHYS_BASE
  <2>1. at >= 0
    BY <1>1
  <2>2. PHYS_BASE \in Nat /\ st.esp \in 0..PHYS_BASE /\ Len(s) \in Nat
    BY <1>2
  <2> DEFINE e == st.esp
             l == Len(s)
  <2>3. PHYS_BASE \in Nat /\ e \in 0..PHYS_BASE /\ l \in Nat /\ at = e - (l + 1)
    BY <2>2
  <2> HIDE DEF s, at, e, l
  <2>4. at \in Nat /\ at + l < PHYS_BASE /\ at + l + 1 = e /\ at < e /\ at \in 0..PHYS_BASE
    BY <2>1, <2>3
  <2> QED
    BY <2>4 DEF e, l
<1> HIDE DEF new, at, s, arr
<1>4. /\ DOMAIN new.mem = Memory /\ IsString(new.mem, at, s)
      /\ \A x \in (at + Len(s) + 1)..(PHYS_BASE - 1) : new.mem[x] = st.mem[x]
  BY <1>1, <1>2, <1>3, StringStored
<1>5. /\ new.add_arr \in Seq(Int) /\ Len(new.add_arr) = k + 1 /\ new.add_arr[k + 1] = at
      /\ \A j \in 1..k : new.add_arr[j] = arr[j]
  BY <1>1, <1>2, <1>3
<1>6. ASSUME NEW j \in 1..k
      PROVE  /\ new.add_arr[j] \in at..(PHYS_BASE - 1)
             /\ new.add_arr[j] + Len(tokens[j]) < PHYS_BASE
             /\ IsString(new.mem, new.add_arr[j], tokens[j])
  <2> DEFINE a == arr[j]
             l == Len(tokens[j])
  <2>1. a \in st.esp..(PHYS_BASE - 1) /\ a + l < PHYS_BASE /\ IsString(st.mem, a, tokens[j]) /\ l \in Nat
    BY DEF StringsOK, arr
  <2> HIDE DEF a
  <2>2. ASSUME NEW x \in a..(a + l)
        PROVE  new.mem[x] = st.mem[x]
    <3>1. x \in (at + Len(s) + 1)..(PHYS_BASE - 1)
      <4>1. at + Len(s) + 1 = st.esp /\ st.esp \in Int /\ PHYS_BASE \in Int
        BY <1>2, <1>3
      <4>2. a \in st.esp..(PHYS_BASE - 1) /\ a + l < PHYS_BASE /\ l \in Nat
        BY <2>1
      <4> HIDE DEF l
      <4> QED
        BY <4>1, <4>2
    <3> QED
      BY <1>4, <3>1
  <2>3. IsString(new.mem, a, tokens[j])
    <3>1. \A i \in 1..l : a + i - 1 \in a..(a + l)
      BY <1>2, <2>1
    <3>2. a + l \in a..(a + l)
      BY <1>2, <2>1
    <3> QED
      BY <2>1, <2>2, <3>1, <3>2 DEF IsString
  <2>4. a \in at..(PHYS_BASE - 1)
    BY <1>2, <1>3, <2>1
  <2>5. new.add_arr[j] = a
    BY <1>5 DEF a
  <2> QED
    BY <2>1, <2>3, <2>4, <2>5
<1>7. ASSUME NEW j \in 1..(k + 1)
      PROVE  /\ new.add_arr[j] \in at..(PHYS_BASE - 1)
             /\ new.add_arr[j] + Len(tokens[j]) < PHYS_BASE
             /\ IsString(new.mem, new.add_arr[j], tokens[j])
  <2>1. CASE j \in 1..k
    BY <1>6, <2>1
  <2>2. CASE j = k + 1
    <3>1. new.add_arr[j] = at /\ tokens[j] = s
      BY <1>5, <2>2 DEF s
    <3>2. at \in at..(PHYS_BASE - 1)
      BY <1>2, <1>3
    <3> QED
      BY <1>3, <1>4, <3>1, <3>2
  <2> QED
    BY <2>1, <2>2
<1>8. StringsOK(new, tokens, k + 1)
  BY <1>1, <1>3, <1>4, <1>5, <1>7 DEF StringsOK
<1> QED
  BY <1>8 DEF new, s

LEMMA StringsThere ==
  ASSUME NEW tokens, Len(tokens) \in Nat, \A j \in 1..Len(tokens) : Len(tokens[j]) \in Nat,
         PushStrings(tokens).esp >= 0
  PROVE  StringsOK(PushStrings(tokens), tokens, Len(tokens))
<1> DEFINE n == Len(tokens)
<1>1. PICK st : /\ st[0] = EmptyStack
                /\ \A k \in 1..n : st[k] = PushString(st[k - 1], tokens[k])
                /\ PushStrings(tokens) = st[n]
  BY StringsPushed
<1>2. PHYS_BASE \in Nat /\ PHYS_BASE % 4 = 0
  BY UserStackAssumption
<1> DEFINE Good == {m \in Nat : m <= n => /\ st[m].esp \in Int
                                          /\ st[m].esp >= 0 => StringsOK(st[m], tokens, m)}
<1>3. 0 \in Good
  <2>1. Align(PHYS_BASE) = PHYS_BASE
    BY <1>2 DEF Align
  <2>2. EmptyStack.esp = PHYS_BASE /\ DOMAIN EmptyStack.mem = Memory /\ EmptyStack.add_arr = <<>>
    BY <2>1 DEF EmptyStack, Memory
  <2>3. StringsOK(st[0], tokens, 0)
    BY <1>1, <1>2, <2>2 DEF StringsOK
  <2>4. st[0].esp \in Int
    BY <1>1, <1>2, <2>2
  <2> QED
    BY <2>3, <2>4
<1>4. ASSUME NEW m \in Good
      PROVE  m + 1 \in Good
  <2> SUFFICES ASSUME m + 1 <= n
               PROVE  /\ st[m + 1].esp \in Int
                      /\ st[m + 1].esp >= 0 => StringsOK(st[m + 1], tokens, m + 1)
    OBVIOUS
  <2>1. m \in Nat /\ m <= n /\ m + 1 \in 1..n /\ m + 1 - 1 = m
    OBVIOUS
  <2>2. st[m + 1] = PushString(st[m], tokens[m + 1])
    BY <1>1, <2>1
  <2>3. st[m].esp \in Int /\ (st[m].esp >= 0 => StringsOK(st[m], tokens, m))
    BY <2>1
  <2>4. st[m + 1].esp = st[m].esp - (Len(tokens[m + 1]) + 1) /\ Len(tokens[m + 1]) \in Nat
    BY <2>1, <2>2 DEF PushString
  <2>5. st[m + 1].esp \in Int /\ (st[m + 1].esp >= 0 => st[m].esp >= 0)
    BY <2>3, <2>4
  <2>6. \A j \in 1..(m + 1) : Len(tokens[j]) \in Nat
    BY <2>1
  <2> QED
    BY <2>1, <2>2, <2>3, <2>5, <2>6, StringMore
<1>5. n \in Good
  <2>1. Good \in SUBSET Nat
    OBVIOUS
  <2> HIDE DEF Good
  <2> QED
    BY <1>3, <1>4, <2>1, AllNumbers
<1> QED
  BY <1>1, <1>5

\* The last k pointers are on the stack, below what was there.
PointersOK(st, p, k) ==
  /\ p.esp = st.esp - 4 * k /\ p.add_arr = st.add_arr
  /\ DOMAIN p.mem = Memory
  /\ \A x \in st.esp..(PHYS_BASE - 1) : p.mem[x] = st.mem[x]
  /\ \A j \in (Len(st.add_arr) - k + 1)..Len(st.add_arr) :
       IsWord(p.mem, st.esp - 4 * (Len(st.add_arr) + 1 - j), st.add_arr[j])

LEMMA WordKept ==
  ASSUME NEW mem, NEW new, NEW b \in Int, \A x \in b..(PHYS_BASE - 1) : new[x] = mem[x],
         NEW a \in Int, b <= a, a + 3 < PHYS_BASE, NEW v, IsWord(mem, a, v)
  PROVE  IsWord(new, a, v)
<1>1. PHYS_BASE \in Nat
  BY UserStackAssumption
<1>2. \A k \in 0..3 : a + k \in b..(PHYS_BASE - 1)
  BY <1>1
<1> QED
  BY <1>2 DEF IsWord

LEMMA PointerMore ==
  ASSUME NEW st, NEW n \in Nat, Len(st.add_arr) = n, st.esp \in 0..PHYS_BASE, st.esp % 4 = 0,
         NEW k \in 0..(n - 1), NEW p, PointersOK(st, p, k), p.esp >= 4
  PROVE  PointersOK(st, PushWord(p, st.add_arr[n - k]), k + 1)
<1> DEFINE e == st.esp
           v == st.add_arr[n - k]
           new == PushWord(p, v)
           a == p.esp - 4
<1>1. PHYS_BASE \in Nat /\ e \in 0..PHYS_BASE /\ e % 4 = 0 /\ Len(st.add_arr) = n
  BY UserStackAssumption
<1>2. /\ p.esp = e - 4 * k /\ p.add_arr = st.add_arr /\ DOMAIN p.mem = Memory
      /\ \A x \in e..(PHYS_BASE - 1) : p.mem[x] = st.mem[x]
      /\ \A j \in (n - k + 1)..n : IsWord(p.mem, e - 4 * (n + 1 - j), st.add_arr[j])
  BY DEF PointersOK
<1>3. new.esp = a /\ new.mem = StoreWord(p.mem, a, v) /\ new.add_arr = st.add_arr
  BY <1>2 DEF PushWord
<1> HIDE DEF new
<1>4. a = e - 4 * (k + 1) /\ a \in Nat /\ a + 4 <= e /\ a + 3 < PHYS_BASE /\ a + 4 = e - 4 * k
  <2> HIDE DEF e
  <2> QED
    BY <1>1, <1>2
<1>5. a % 4 = 0
  <2>1. (e - 4 * (k + 1)) % 4 = 0
    <3> HIDE DEF e
    <3>1. \A x \in Int, y \in Int : x % 4 = 0 => (x - 4 * y) % 4 = 0
      OBVIOUS
    <3> QED
      BY <1>1, <3>1
  <2> QED
    BY <1>4, <2>1
<1> HIDE DEF a, v, e
<1>6. /\ DOMAIN new.mem = Memory /\ IsWord(new.mem, a, v)
      /\ \A x \in (a + 4)..(PHYS_BASE - 1) : new.mem[x] = p.mem[x]
  BY <1>2, <1>3, <1>4, <1>5, WordStored
<1>7. ASSUME NEW x \in e..(PHYS_BASE - 1)
      PROVE  new.mem[x] = st.mem[x]
  <2>1. x \in (a + 4)..(PHYS_BASE - 1)
    BY <1>1, <1>4
  <2> QED
    BY <1>2, <1>6, <2>1
<1>8. ASSUME NEW j \in (n - (k + 1) + 1)..n
      PROVE  IsWord(new.mem, e - 4 * (n + 1 - j), st.add_arr[j])
  <2>1. CASE j = n - k
    <3>1. n + 1 - j = k + 1
      BY <2>1
    <3>2. e - 4 * (n + 1 - j) = a
      BY <1>4, <3>1
    <3> QED
      BY <1>6, <2>1, <3>2 DEF v
  <2>2. CASE j \in (n - k + 1)..n
    <3> DEFINE b == e - 4 * (n + 1 - j)
    <3>1. IsWord(p.mem, b, st.add_arr[j])
      BY <1>2, <2>2
    <3>2. n + 1 - j \in 1..k
      BY <2>2
    <3>3. b \in Int /\ a + 4 <= b /\ b + 3 < PHYS_BASE
      BY <1>1, <1>4, <3>2
    <3> HIDE DEF b
    <3>4. IsWord(new.mem, b, st.add_arr[j])
      <4>1. a + 4 \in Int
        BY <1>4
      <4> QED
        BY <1>6, <3>1, <3>3, <4>1, WordKept
    <3> QED
      BY <3>4 DEF b
  <2>3. j = n - k \/ j \in (n - k + 1)..n
    OBVIOUS
  <2> QED
    BY <2>1, <2>2, <2>3
<1>9. PointersOK(st, new, k + 1)
  BY <1>1, <1>3, <1>4, <1>6, <1>7, <1>8 DEF PointersOK, e
<1> QED
  BY <1>9 DEF new, v

LEMMA PointersThere ==
  ASSUME NEW st, NEW n \in Nat, Len(st.add_arr) = n, st.esp \in 0..PHYS_BASE, st.esp % 4 = 0,
         DOMAIN st.mem = Memory, st.esp >= 4 * n
  PROVE  PointersOK(st, PushPointers(st), n)
<1>1. PICK p : /\ p[0] = st
               /\ \A k \in 1..n : p[k] = PushWord(p[k - 1], st.add_arr[n + 1 - k])
               /\ PushPointers(st) = p[n]
  BY PointersPushed
<1> DEFINE Good == {m \in Nat : m <= n => PointersOK(st, p[m], m)}
<1>2. 0 \in Good
  <2>1. PointersOK(st, st, 0)
    BY UserStackAssumption DEF PointersOK
  <2> QED
    BY <1>1, <2>1
<1>3. ASSUME NEW m \in Good
      PROVE  m + 1 \in Good
  <2> SUFFICES ASSUME m + 1 <= n
               PROVE  PointersOK(st, p[m + 1], m + 1)
    OBVIOUS
  <2>1. m \in 0..(n - 1) /\ m + 1 \in 1..n /\ m + 1 - 1 = m /\ n + 1 - (m + 1) = n - m /\ m <= n
    OBVIOUS
  <2>2. p[m + 1] = PushWord(p[m], st.add_arr[n - m])
    BY <1>1, <2>1
  <2>3. PointersOK(st, p[m], m)
    BY <2>1
  <2>4. p[m].esp >= 4
    <3>1. p[m].esp = st.esp - 4 * m
      BY <2>3 DEF PointersOK
    <3>2. st.esp \in Int /\ PHYS_BASE \in Nat
      BY UserStackAssumption
    <3> QED
      BY <2>1, <3>1, <3>2
  <2> QED
    BY <2>1, <2>2, <2>3, <2>4, PointerMore
<1>4. n \in Good
  <2>1. Good \in SUBSET Nat
    OBVIOUS
  <2> HIDE DEF Good
  <2> QED
    BY <1>2, <1>3, <2>1, AllNumbers
<1> QED
  BY <1>1, <1>4

\* Room or not, esp goes down by what is pushed, and each string has its pointer.
LEMMA StringsEsp ==
  ASSUME NEW tokens, Len(tokens) \in Nat, \A j \in 1..Len(tokens) : Len(tokens[j]) \in Nat
  PROVE  PushStrings(tokens).esp \in Int /\ Len(PushStrings(tokens).add_arr) = Len(tokens)
<1> DEFINE n == Len(tokens)
<1>1. PICK st : /\ st[0] = EmptyStack
                /\ \A k \in 1..n : st[k] = PushString(st[k - 1], tokens[k])
                /\ PushStrings(tokens) = st[n]
  BY StringsPushed
<1> DEFINE OK(s, m) == s.esp \in Int /\ s.add_arr \in Seq(Int) /\ Len(s.add_arr) = m
           Good == {m \in Nat : m <= n => OK(st[m], m)}
<1>2. 0 \in Good
  <2>1. EmptyStack.esp = Align(PHYS_BASE) /\ EmptyStack.add_arr = <<>>
    BY DEF EmptyStack
  <2>2. Align(PHYS_BASE) \in Int
    BY UserStackAssumption DEF Align
  <2>3. OK(st[0], 0)
    BY <1>1, <2>1, <2>2
  <2> QED
    BY <2>3
<1>3. ASSUME NEW m \in Good
      PROVE  m + 1 \in Good
  <2> SUFFICES ASSUME m + 1 <= n
               PROVE  OK(st[m + 1], m + 1)
    OBVIOUS
  <2>1. m \in Nat /\ m <= n /\ m + 1 \in 1..n /\ m + 1 - 1 = m
    OBVIOUS
  <2>2. st[m + 1] = PushString(st[m], tokens[m + 1])
    BY <1>1, <2>1
  <2>3. OK(st[m], m) /\ Len(tokens[m + 1]) \in Nat
    BY <2>1
  <2> DEFINE at == st[m].esp - (Len(tokens[m + 1]) + 1)
  <2>4. st[m + 1].esp = at /\ st[m + 1].add_arr = Append(st[m].add_arr, at)
    BY <2>2 DEF PushString
  <2>5. at \in Int
    BY <2>3
  <2> HIDE DEF at
  <2> QED
    BY <2>1, <2>3, <2>4, <2>5
<1>4. n \in Good
  <2>1. Good \in SUBSET Nat
    OBVIOUS
  <2> HIDE DEF Good
  <2> QED
    BY <1>2, <1>3, <2>1, AllNumbers
<1> QED
  BY <1>1, <1>4

LEMMA PointersEsp ==
  ASSUME NEW st, NEW n \in Nat, Len(st.add_arr) = n, st.esp \in Int
  PROVE  PushPointers(st).esp = st.esp - 4 * n
<1>1. PICK p : /\ p[0] = st
               /\ \A k \in 1..n : p[k] = PushWord(p[k - 1], st.add_arr[n + 1 - k])
               /\ PushPointers(st) = p[n]
  BY PointersPushed
<1> DEFINE Good == {m \in Nat : m <= n => p[m].esp = st.esp - 4 * m}
<1>2. 0 \in Good
  BY <1>1
<1>3. ASSUME NEW m \in Good
      PROVE  m + 1 \in Good
  <2> SUFFICES ASSUME m + 1 <= n
               PROVE  p[m + 1].esp = st.esp - 4 * (m + 1)
    OBVIOUS
  <2>1. m \in Nat /\ m <= n /\ m + 1 \in 1..n /\ m + 1 - 1 = m
    OBVIOUS
  <2>2. p[m + 1] = PushWord(p[m], st.add_arr[n + 1 - (m + 1)])
    BY <1>1, <2>1
  <2>3. p[m + 1].esp = p[m].esp - 4
    BY <2>2 DEF PushWord
  <2>4. p[m].esp = st.esp - 4 * m
    BY <2>1
  <2> QED
    BY <2>1, <2>3, <2>4
<1>4. n \in Good
  <2>1. Good \in SUBSET Nat
    OBVIOUS
  <2> HIDE DEF Good
  <2> QED
    BY <1>2, <1>3, <2>1, AllNumbers
<1> QED
  BY <1>1, <1>4

\* A push of a word leaves all that is on the stack.
LEMMA WordPushed ==
  ASSUME NEW st, st.esp \in 4..PHYS_BASE, DOMAIN st.mem = Memory, NEW v
  PROVE  /\ PushWord(st, v).esp = st.esp - 4
         /\ DOMAIN PushWord(st, v).mem = Memory
         /\ st.esp % 4 = 0 => IsWord(PushWord(st, v).mem, st.esp - 4, v)
         /\ \A x \in st.esp..(PHYS_BASE - 1) : PushWord(st, v).mem[x] = st.mem[x]
         /\ PushWord(st, v).add_arr = st.add_arr
<1> DEFINE a == st.esp - 4
           new == PushWord(st, v)
<1>1. new.esp = a /\ new.mem = StoreWord(st.mem, a, v) /\ new.add_arr = st.add_arr
  BY DEF PushWord
<1> HIDE DEF new
<1>2. a \in Nat /\ a + 3 < PHYS_BASE /\ a + 4 = st.esp
  BY UserStackAssumption
<1>3. st.esp % 4 = 0 => a % 4 = 0
  <2>1. \A x \in Int : x % 4 = 0 => (x - 4) % 4 = 0
    OBVIOUS
  <2>2. st.esp \in Int
    BY <1>2
  <2> QED
    BY <2>1, <2>2
<1> HIDE DEF a
<1>4. /\ DOMAIN new.mem = Memory
      /\ a % 4 = 0 => IsWord(new.mem, a, v)
      /\ \A x \in (a + 4)..(PHYS_BASE - 1) : new.mem[x] = st.mem[x]
  BY <1>1, <1>2, WordStored
<1> QED
  BY <1>1, <1>2, <1>3, <1>4 DEF new, a

LEMMA AlignDown ==
  ASSUME NEW e \in Int
  PROVE  Align(e) \in Int /\ Align(e) % 4 = 0 /\ Align(e) <= e
BY DEF Align

LEMMA ArgumentsPushed ==
  ASSUME NEW tokens, Len(tokens) \in Nat, \A j \in 1..Len(tokens) : Len(tokens[j]) \in Nat,
         HasRoom(tokens)
  PROVE  Passed(push_command(tokens), tokens)
<1> DEFINE n == Len(tokens)
           strings == PushStrings(tokens)
           a == Align(strings.esp)
           aligned == [esp |-> a, mem |-> strings.mem, add_arr |-> strings.add_arr]
           null == PushWord(aligned, 0)
           argv == PushPointers(null)
           s1 == PushWord(argv, argv.esp)
           s2 == PushWord(s1, n)
           s3 == PushWord(s2, 0)
           e == a - 4
           top == e - 4 * n
<1>1. n \in Nat /\ PHYS_BASE \in Nat /\ PHYS_BASE % 4 = 0
  BY UserStackAssumption
\* Where esp stands after each step: there was room at each.
<1>2. strings.esp \in Int /\ Len(strings.add_arr) = n
  BY StringsEsp
<1>3. a \in Int /\ a % 4 = 0 /\ a <= strings.esp
  <2> HIDE DEF strings
  <2> QED
    BY <1>2, AlignDown
<1>4. push_command(tokens) = s3
  BY DEF push_command
<1>5. \A st, v : PushWord(st, v).esp = st.esp - 4 /\ PushWord(st, v).add_arr = st.add_arr
  BY DEF PushWord
<1>6. null.esp = e /\ null.add_arr = strings.add_arr
  BY <1>5
<1>7. argv.esp = top
  <2>1. null.esp \in Int /\ Len(null.add_arr) = n
    BY <1>2, <1>3, <1>6
  <2> HIDE DEF null, n
  <2> QED
    BY <1>1, <1>6, <2>1, PointersEsp
<1>8. s1.esp = top - 4 /\ s2.esp = top - 8 /\ s3.esp = top - 12 /\ top \in Int
  <2>1. s1.esp = argv.esp - 4 /\ s2.esp = s1.esp - 4 /\ s3.esp = s2.esp - 4
    BY <1>5
  <2> HIDE DEF argv, s1, s2, s3
  <2> QED
    BY <1>1, <1>3, <1>7, <2>1
<1>9. top - 12 >= 0
  BY <1>4, <1>8 DEF HasRoom
<1>10. StringsOK(strings, tokens, n)
  <2>1. strings.esp >= 0
    <3> HIDE DEF strings, n
    <3> QED
      BY <1>1, <1>2, <1>3, <1>9
  <2> QED
    BY <2>1, StringsThere
<1>11. /\ strings.esp \in 0..PHYS_BASE /\ DOMAIN strings.mem = Memory
       /\ strings.add_arr \in Seq(Int)
       /\ \A j \in 1..n : /\ strings.add_arr[j] \in strings.esp..(PHYS_BASE - 1)
                          /\ strings.add_arr[j] + Len(tokens[j]) < PHYS_BASE
                          /\ IsString(strings.mem, strings.add_arr[j], tokens[j])
  BY <1>10 DEF StringsOK
<1>12. aligned.esp = a /\ aligned.mem = strings.mem
  OBVIOUS
<1>13. /\ a \in 4..PHYS_BASE /\ e \in 0..PHYS_BASE /\ e % 4 = 0 /\ e >= 4 * n
       /\ top \in 4..PHYS_BASE /\ top - 4 \in 4..PHYS_BASE /\ top - 8 \in 4..PHYS_BASE
       /\ top % 4 = 0 /\ (top - 4) % 4 = 0 /\ (top - 8) % 4 = 0
  <2> HIDE DEF strings, n, a
  <2>1. \A x \in Int, y \in Int : x % 4 = 0 => (x - 4 * y) % 4 = 0
    OBVIOUS
  <2>2. e \in Int /\ e = a - 4 * 1 /\ top - 4 = top - 4 * 1 /\ top - 8 = top - 4 * 2
    BY <1>3, <1>8
  <2>3. e % 4 = 0
    BY <1>3, <2>1, <2>2
  <2>4. top % 4 = 0
    BY <1>1, <2>1, <2>2, <2>3
  <2>5. (top - 4) % 4 = 0 /\ (top - 8) % 4 = 0
    BY <1>8, <2>1, <2>2, <2>4
  <2>6. a <= PHYS_BASE /\ a \in Int
    <3>1. strings.esp \in 0..PHYS_BASE
      BY <1>11
    <3> QED
      BY <1>1, <1>3, <3>1
  <2>7. top = a - 4 - 4 * n
    OBVIOUS
  <2> QED
    BY <1>1, <1>9, <2>3, <2>4, <2>5, <2>6, <2>7
\* What each push leaves in memory.
<1>14. /\ DOMAIN null.mem = Memory /\ IsWord(null.mem, e, 0)
       /\ \A x \in a..(PHYS_BASE - 1) : null.mem[x] = strings.mem[x]
  <2>1. aligned.esp \in 4..PHYS_BASE /\ DOMAIN aligned.mem = Memory /\ aligned.esp % 4 = 0
    BY <1>3, <1>11, <1>12, <1>13
  <2> HIDE DEF aligned
  <2> QED
    BY <1>12, <2>1, WordPushed
<1>15. PointersOK(null, argv, n)
  <2>1. null.esp \in 0..PHYS_BASE /\ null.esp % 4 = 0 /\ null.esp >= 4 * n /\ Len(null.add_arr) = n
    BY <1>2, <1>6, <1>13
  <2> HIDE DEF null, n
  <2> QED
    BY <1>1, <1>14, <2>1, PointersThere
<1>16. /\ DOMAIN argv.mem = Memory
       /\ \A x \in e..(PHYS_BASE - 1) : argv.mem[x] = null.mem[x]
       /\ \A j \in 1..n : IsWord(argv.mem, e - 4 * (n + 1 - j), strings.add_arr[j])
  <2>1. /\ DOMAIN argv.mem = Memory
        /\ \A x \in null.esp..(PHYS_BASE - 1) : argv.mem[x] = null.mem[x]
        /\ \A j \in (Len(null.add_arr) - n + 1)..Len(null.add_arr) :
             IsWord(argv.mem, null.esp - 4 * (Len(null.add_arr) + 1 - j), null.add_arr[j])
    <3> HIDE DEF argv, null, n
    <3> QED
      BY <1>15 DEF PointersOK
  <2>2. Len(null.add_arr) = n /\ n - n + 1 = 1
    BY <1>1, <1>2, <1>6
  <2> HIDE DEF argv, null, n, e, strings
  <2> QED
    BY <1>6, <2>1, <2>2
<1> HIDE DEF strings, a, aligned, null, argv
<1>17. /\ DOMAIN s1.mem = Memory /\ IsWord(s1.mem, top - 4, top)
       /\ \A x \in top..(PHYS_BASE - 1) : s1.mem[x] = argv.mem[x]
  <2>1. argv.esp \in 4..PHYS_BASE /\ argv.esp % 4 = 0 /\ DOMAIN argv.mem = Memory
    BY <1>7, <1>13, <1>16
  <2>2. /\ DOMAIN s1.mem = Memory /\ IsWord(s1.mem, argv.esp - 4, argv.esp)
        /\ \A x \in argv.esp..(PHYS_BASE - 1) : s1.mem[x] = argv.mem[x]
    BY <2>1, WordPushed
  <2> HIDE DEF s1, top
  <2> QED
    BY <1>7, <2>2
<1> HIDE DEF s1
<1>18. /\ DOMAIN s2.mem = Memory /\ IsWord(s2.mem, top - 8, n)
       /\ \A x \in (top - 4)..(PHYS_BASE - 1) : s2.mem[x] = s1.mem[x]
  <2> HIDE DEF n, top
  <2>1. s1.esp = top - 4 /\ s1.esp - 4 = top - 8
    BY <1>8
  <2>2. s1.esp \in 4..PHYS_BASE /\ s1.esp % 4 = 0 /\ DOMAIN s1.mem = Memory
    BY <1>13, <1>17, <2>1
  <2>3. /\ DOMAIN s2.mem = Memory /\ IsWord(s2.mem, s1.esp - 4, n)
        /\ \A x \in s1.esp..(PHYS_BASE - 1) : s2.mem[x] = s1.mem[x]
    BY <2>2, WordPushed
  <2> HIDE DEF s2
  <2> QED
    BY <2>1, <2>3
<1> HIDE DEF s2
<1>19. /\ DOMAIN s3.mem = Memory /\ IsWord(s3.mem, top - 12, 0)
       /\ \A x \in (top - 8)..(PHYS_BASE - 1) : s3.mem[x] = s2.mem[x]
  <2> HIDE DEF n, top
  <2>1. s2.esp = top - 8 /\ s2.esp - 4 = top - 12
    BY <1>8
  <2>2. s2.esp \in 4..PHYS_BASE /\ s2.esp % 4 = 0 /\ DOMAIN s2.mem = Memory
    BY <1>13, <1>18, <2>1
  <2>3. /\ DOMAIN s3.mem = Memory /\ IsWord(s3.mem, s2.esp - 4, 0)
        /\ \A x \in s2.esp..(PHYS_BASE - 1) : s3.mem[x] = s2.mem[x]
    BY <2>2, WordPushed
  <2> HIDE DEF s3
  <2> QED
    BY <2>1, <2>3
<1> HIDE DEF s3, top, n
\* And so at the end.
<1>20. \A x \in (top - 4)..(PHYS_BASE - 1) : s3.mem[x] = s1.mem[x]
  <2>1. \A x \in (top - 4)..(PHYS_BASE - 1) : x \in (top - 8)..(PHYS_BASE - 1)
    BY <1>1, <1>8
  <2> QED
    BY <1>18, <1>19, <2>1
<1>21. \A x \in top..(PHYS_BASE - 1) : s3.mem[x] = argv.mem[x]
  <2>1. \A x \in top..(PHYS_BASE - 1) : x \in (top - 4)..(PHYS_BASE - 1)
    BY <1>1, <1>8
  <2> QED
    BY <1>17, <1>20, <2>1
<1>22. top = e - 4 * n /\ e = a - 4 /\ top <= e
  BY <1>1, <1>3 DEF top
<1>23. \A x \in e..(PHYS_BASE - 1) : s3.mem[x] = null.mem[x]
  <2>1. \A x \in e..(PHYS_BASE - 1) : x \in top..(PHYS_BASE - 1)
    BY <1>1, <1>3, <1>8, <1>22
  <2> QED
    BY <1>16, <1>21, <2>1
<1>24. \A x \in strings.esp..(PHYS_BASE - 1) : s3.mem[x] = strings.mem[x]
  <2>1. \A x \in strings.esp..(PHYS_BASE - 1) : x \in a..(PHYS_BASE - 1) /\ x \in e..(PHYS_BASE - 1)
    BY <1>1, <1>2, <1>3
  <2> QED
    BY <1>14, <1>23, <2>1
<1>25. IsWord(s3.mem, top - 4, top)
  <2> DEFINE b == top - 4
  <2>1. b \in Int /\ b <= b /\ b + 3 < PHYS_BASE
    BY <1>1, <1>13
  <2>2. IsWord(s1.mem, b, top) /\ \A x \in b..(PHYS_BASE - 1) : s3.mem[x] = s1.mem[x]
    BY <1>17, <1>20
  <2> HIDE DEF b
  <2>3. IsWord(s3.mem, b, top)
    BY <2>1, <2>2, WordKept
  <2> QED
    BY <2>3 DEF b
<1>26. IsWord(s3.mem, top - 8, n)
  <2> DEFINE b == top - 8
  <2>1. b \in Int /\ b <= b /\ b + 3 < PHYS_BASE
    BY <1>1, <1>13
  <2>2. IsWord(s2.mem, b, n) /\ \A x \in b..(PHYS_BASE - 1) : s3.mem[x] = s2.mem[x]
    BY <1>18, <1>19
  <2> HIDE DEF b
  <2>3. IsWord(s3.mem, b, n)
    BY <2>1, <2>2, WordKept
  <2> QED
    BY <2>3 DEF b
<1>27. IsWord(s3.mem, e, 0)
  <2>1. e \in Int /\ e <= e /\ e + 3 < PHYS_BASE
    BY <1>1, <1>3, <1>13
  <2>2. IsWord(null.mem, e, 0) /\ \A x \in e..(PHYS_BASE - 1) : s3.mem[x] = null.mem[x]
    BY <1>14, <1>23
  <2> HIDE DEF e
  <2> QED
    BY <2>1, <2>2, WordKept
<1>28. ASSUME NEW k \in 1..n
       PROVE  \E s \in (top + 4 * n + 4)..(PHYS_BASE - 1) :
                IsWord(s3.mem, top + 4 * (k - 1), s) /\ IsString(s3.mem, s, tokens[k])
  <2> DEFINE s == strings.add_arr[k]
             l == Len(tokens[k])
             b == e - 4 * (n + 1 - k)
  <2>1. l \in Nat
    BY DEF n
  <2>2. s \in strings.esp..(PHYS_BASE - 1) /\ s + l < PHYS_BASE /\ IsString(strings.mem, s, tokens[k])
    BY <1>11
  <2>3. IsWord(argv.mem, b, s)
    BY <1>16
  <2> HIDE DEF s, l
  <2>4. b \in Int /\ b = top + 4 * (k - 1) /\ top <= b /\ b + 3 < PHYS_BASE
    BY <1>1, <1>3, <1>8, <1>13, <1>22
  <2> HIDE DEF b
  <2>5. IsWord(s3.mem, b, s)
    <3>1. top \in Int /\ \A x \in top..(PHYS_BASE - 1) : s3.mem[x] = argv.mem[x]
      BY <1>8, <1>21
    <3>2. b \in Int /\ top <= b /\ b + 3 < PHYS_BASE
      BY <2>4
    <3> HIDE DEF e
    <3> QED
      BY <2>3, <3>1, <3>2, WordKept
  <2>6. \A x \in s..(s + l) : s3.mem[x] = strings.mem[x]
    <3>1. \A x \in s..(s + l) : x \in strings.esp..(PHYS_BASE - 1)
      BY <1>1, <1>2, <2>1, <2>2
    <3> QED
      BY <1>24, <3>1
  <2>7. IsString(s3.mem, s, tokens[k])
    <3>1. \A i \in 1..l : s + i - 1 \in s..(s + l)
      BY <1>1, <1>2, <2>1, <2>2
    <3>2. s + l \in s..(s + l)
      BY <1>1, <1>2, <2>1, <2>2
    <3> QED
      BY <2>2, <2>6, <3>1, <3>2 DEF IsString, l
  <2>8. s \in (top + 4 * n + 4)..(PHYS_BASE - 1)
    BY <1>1, <1>2, <1>3, <1>8, <1>22, <2>2
  <2> QED
    BY <2>4, <2>5, <2>7, <2>8
<1>29. Passed(s3, tokens)
  <2>1. /\ s3.esp = top - 12 /\ s3.esp + 4 = top - 8 /\ s3.esp + 8 = top - 4
        /\ s3.esp + 12 = top /\ top + 4 * n = e
    BY <1>1, <1>3, <1>8, <1>22
  <2> HIDE DEF e
  <2> QED
    BY <1>19, <1>25, <1>26, <1>27, <1>28, <2>1 DEF Passed, n
<1> QED
  BY <1>4, <1>29

----------------------------------------------------------------------------
(* The arguments of the programs that processes are started with *)

\* A process that is started has the command line that its parent was called
\* with, until it frees that, and a program that is loaded has it on its stack.
Lines ==
  /\ program \in Programs
  /\ DOMAIN cmd_line = Procs /\ DOMAIN stack = Procs
  /\ \A c \in User :
       /\ pc[c] \in Starting \/ (pc[c] = "free" /\ loaded[c]) => cmd_line[c] \in program.commands
       /\ pc[c] = "free" /\ loaded[c] => stack[c] = push_command(cmd_line[c])

LEMMA LinesInit == SysInit => Lines
<1> SUFFICES ASSUME SysInit
             PROVE  Lines
  OBVIOUS
<1>1. program \in Programs /\ DOMAIN cmd_line = Procs /\ DOMAIN stack = Procs
  BY DEF SysInit
<1>2. ASSUME NEW c \in User
      PROVE  pc[c] = "unused"
  BY ProcFacts DEF SysInit, Init
<1> QED
  BY <1>1, <1>2 DEF Lines, Starting

\* A step in which no process is created or loaded.
Steady ==
  /\ loaded' = loaded
  /\ \A c \in User : /\ pc'[c] \in Starting => pc[c] \in Starting
                     /\ pc'[c] = "free" => pc[c] = "free"

LEMMA SteadySteps ==
  ASSUME pc \in [Procs -> Labels], NEW p \in Procs,
         \/ Proceed(p)
         \/ \E i \in {-1} \cup (User \cap 3..next_tid) : process_wait(p, i)
         \/ \E code \in Int : sys_exit(p, code)
         \/ Leave(p)
         \/ UNCHANGED ExceptPanic
         \/ thread_exit(p)
  PROVE  Steady
<1> DEFINE Late == Labels \ (Starting \cup {"free"})
<1>1. ASSUME NEW to \in Late, pc' = [pc EXCEPT ![p] = to] \/ pc' = pc, loaded' = loaded
      PROVE  Steady
  BY <1>1, ProcFacts DEF Steady
<1>2. ASSUME NEW to, to \in Late, Goto(p, to) \/ pc' = pc, loaded' = loaded
      PROVE  Steady
  BY <1>1, <1>2 DEF Goto
<1>3. {"run", "wait_code", "wait_find", "wait_reset", "wait_flag", "wait_down", "wait_return",
       "exit_pop", "exit_popped", "exit_remove", "exit_removed", "exit_code", "exit_up", "dying",
       "dead"} \subseteq Late
  BY DEF Labels, Starting
<1> HIDE DEF Late
<1>4. CASE push_child(p)
  <2>1. PICK to \in {"push_next", "push_prev", "load"} : pc' = [pc EXCEPT ![p] = to]
    BY <1>4 DEF push_child, Goto
  <2>2. pc[p] \in Starting /\ to # "free" /\ loaded' = loaded
    BY <1>4 DEF push_child, At, Starting, execVars
  <2>3. \A c \in User : pc'[c] = IF c = p THEN to ELSE pc[c]
    BY <2>1, ProcFacts
  <2> QED
    BY <2>2, <2>3 DEF Steady
<1>5. CASE exec_down(p)
  BY <1>2, <1>3, <1>5 DEF exec_down
<1>6. CASE wait_find(p)
  BY <1>2, <1>3, <1>6 DEF wait_find, execVars
<1>7. CASE wait_code(p)
  BY <1>2, <1>3, <1>7 DEF wait_code, execVars
<1>8. CASE wait_reset(p)
  BY <1>2, <1>3, <1>8 DEF wait_reset, Returns, execVars
<1>9. CASE wait_flag(p)
  <2>1. (Goto(p, "run") \/ Goto(p, "wait_down")) /\ loaded' = loaded
    <3>1. PICK waiting \in BOOLEAN \cup {is_waiting[t[p]]} :
            IF waiting THEN Returns(p) ELSE Goto(p, "wait_down") /\ UNCHANGED waitVars
      BY <1>9 DEF wait_flag
    <3> QED
      BY <1>9, <3>1 DEF wait_flag, Returns, execVars
  <2> QED
    BY <1>2, <1>3, <2>1
<1>10. CASE wait_down(p)
  BY <1>2, <1>3, <1>10 DEF wait_down, execVars
<1>11. CASE wait_return(p)
  BY <1>2, <1>3, <1>11 DEF wait_return, Returns, execVars
<1>12. CASE exit_pop(p)
  BY <1>2, <1>3, <1>12 DEF exit_pop, execVars
<1>13. CASE exit_remove(p)
  BY <1>2, <1>3, <1>13 DEF exit_remove, execVars
<1>14. CASE exit_code(p)
  BY <1>2, <1>3, <1>14 DEF exit_code, execVars
<1>15. ASSUME NEW i \in {-1} \cup (User \cap 3..next_tid), process_wait(p, i)
       PROVE  Steady
  <2>1. (pc' = pc \/ Goto(p, "wait_code") \/ Goto(p, "wait_find")) /\ loaded' = loaded
    BY <1>15 DEF process_wait, execVars
  <2> QED
    BY <1>2, <1>3, <2>1
<1>16. ASSUME NEW code \in Int, sys_exit(p, code)
       PROVE  Steady
  BY <1>2, <1>3, <1>16 DEF sys_exit, execVars
<1>17. CASE Leave(p)
  BY <1>2, <1>3, <1>17 DEF Leave, execVars
<1>18. CASE UNCHANGED ExceptPanic
  BY <1>18 DEF ExceptPanic, execVars, Steady
<1>19. CASE thread_exit(p)
  BY <1>2, <1>3, <1>19 DEF thread_exit, execVars
<1> QED
  BY <1>4, <1>5, <1>6, <1>7, <1>8, <1>9, <1>10, <1>11, <1>12, <1>13, <1>14, <1>15, <1>16, <1>17,
     <1>18, <1>19 DEF Proceed

LEMMA LinesStep ==
  ASSUME ProcInv, Lines, [SysNext]_sysVars
  PROVE  Lines'
<1> USE ProcFacts
<1>0. /\ pc \in [Procs -> Labels] /\ loaded \in [Procs -> BOOLEAN]
      /\ program \in Programs /\ DOMAIN cmd_line = Procs /\ DOMAIN stack = Procs
      /\ \A c \in User : /\ pc[c] \in Starting => cmd_line[c] \in program.commands
                         /\ pc[c] = "free" /\ loaded[c] =>
                              cmd_line[c] \in program.commands /\ stack[c] = push_command(cmd_line[c])
  BY DEF ProcInv, Types, Lines
<1>1. ASSUME Steady, UNCHANGED <<lineVars, program>>
      PROVE  Lines'
  BY <1>0, <1>1 DEF Lines, Steady, lineVars
<1>2. CASE UNCHANGED sysVars
  BY <1>1, <1>2 DEF sysVars, vars, execVars, Steady
<1>3. ASSUME NEW p \in Procs, sys_exec(p)
      PROVE  Lines'
  <2>1. PICK command \in program.commands :
          process_execute(p) /\ cmd_line' = [cmd_line EXCEPT ![next_tid] = command]
    BY <1>3 DEF sys_exec
  <2>2. stack' = stack /\ program' = program
    BY <1>3 DEF sys_exec
  <2>3. /\ next_tid \in User /\ loaded' = loaded
        /\ pc' = [pc EXCEPT ![p] = "exec_down", ![next_tid] = "start"]
    BY <2>1 DEF process_execute, thread_create
  <2>4. \A c \in User : /\ cmd_line'[c] = IF c = next_tid THEN command ELSE cmd_line[c]
                        /\ pc'[c] = IF c = next_tid THEN "start" ELSE IF c = p THEN "exec_down" ELSE pc[c]
    BY <1>0, <2>1, <2>3
  <2>5. DOMAIN cmd_line' = Procs
    BY <1>0, <2>1
  <2> QED
    BY <1>0, <2>2, <2>3, <2>4, <2>5 DEF Lines, Starting
<1>4. ASSUME NEW p \in Procs, load(p),
             stack' = IF loaded'[p] THEN [stack EXCEPT ![p] = push_command(cmd_line[p])] ELSE stack,
             UNCHANGED <<cmd_line, program>>
      PROVE  Lines'
  <2>1. /\ pc[p] \in Starting /\ pc' = [pc EXCEPT ![p] = "free"]
        /\ \E l \in BOOLEAN : loaded' = [loaded EXCEPT ![p] = l]
    BY <1>4 DEF load, At, Goto, Starting
  <2>2. /\ \A c \in Procs : c # p => pc'[c] = pc[c] /\ loaded'[c] = loaded[c] /\ stack'[c] = stack[c]
        /\ pc'[p] = "free" /\ (loaded'[p] => stack'[p] = push_command(cmd_line[p]))
        /\ DOMAIN stack' = Procs
    BY <1>0, <1>4, <2>1
  <2>3. "free" \notin Starting
    BY DEF Starting
  <2> QED
    BY <1>0, <1>4, <2>1, <2>2, <2>3 DEF Lines
<1>5. ASSUME NEW p \in Procs, free_cmd_line(p),
             cmd_line' = [cmd_line EXCEPT ![p] = <<>>], stack' = [stack EXCEPT ![p] = NoStack],
             program' = program
      PROVE  Lines'
  <2>1. /\ pc[p] = "free" /\ loaded' = [loaded EXCEPT ![p] = FALSE]
        /\ pc' = pc \/ pc' = [pc EXCEPT ![p] = "run"] \/ pc' = [pc EXCEPT ![p] = "exit_pop"]
    BY <1>5 DEF free_cmd_line, At, Goto
  <2>2. /\ \A c \in Procs : c # p => /\ pc'[c] = pc[c] /\ loaded'[c] = loaded[c]
                                     /\ stack'[c] = stack[c] /\ cmd_line'[c] = cmd_line[c]
        /\ pc'[p] \notin Starting /\ ~loaded'[p]
        /\ DOMAIN stack' = Procs /\ DOMAIN cmd_line' = Procs
    BY <1>0, <1>5, <2>1 DEF Starting
  <2> QED
    BY <1>0, <1>5, <2>2 DEF Lines
<1>6. ASSUME NEW p \in Procs, wait_handler(p)
      PROVE  Lines'
  BY <1>0, <1>1, <1>6, SteadySteps DEF wait_handler
<1>7. ASSUME NEW p \in Procs, file_handler(p)
      PROVE  Lines'
  BY <1>0, <1>1, <1>7, FileStepProc, SteadySteps DEF file_handler
<1>8. ASSUME NEW p \in Procs, exit_handler(p)
      PROVE  Lines'
  BY <1>0, <1>1, <1>8, SteadySteps, ProcessAssumption DEF exit_handler, Exit
<1>9. ASSUME NEW p \in Procs, SysStep(p)
      PROVE  Lines'
  <2>1. CASE Proceed(p) /\ UNCHANGED <<fileVars, lineVars, program>>
    BY <1>0, <1>1, <2>1, SteadySteps
  <2>2. CASE exit_thread(p)
    BY <1>0, <1>1, <2>2, SteadySteps DEF exit_thread
  <2>3. CASE start_process(p)
    BY <1>4, <1>5, <2>3 DEF start_process
  <2> QED
    BY <1>9, <2>1, <2>2, <2>3 DEF SysStep
<1> QED
  BY <1>2, <1>3, <1>6, <1>7, <1>8, <1>9 DEF SysNext

LEMMA LinesInvariant == SysSpec => []Lines
<1>1. ProcInv /\ Lines /\ [SysNext]_sysVars => Lines'
  BY LinesStep
<1> QED
  BY <1>1, LinesInit, ProcInvariant, PTL DEF SysSpec

\* A program that is loaded finds its arguments on its stack, by the C calling
\* convention, whatever its parent and other processes did in between, for any
\* command line that there is room for: push_command() has put all of them there,
\* and nothing it pushed has been overwritten by what it pushed later.
THEOREM ArgumentsThere == SysSpec => []ArgumentsPassed
<1>1. Lines => ArgumentsPassed
  <2> SUFFICES ASSUME Lines, NEW c \in User, pc[c] = "free", loaded[c]
               PROVE  Passed(stack[c], cmd_line[c])
    BY DEF ArgumentsPassed
  <2> DEFINE command == cmd_line[c]
  <2>1. program \in Programs /\ command \in program.commands /\ stack[c] = push_command(command)
    BY DEF Lines
  <2> HIDE DEF command
  <2>2. command \in Seq(Seq(Nat \ {0})) /\ HasRoom(command)
    BY <2>1, SyscallAssumption
  <2>3. Len(command) \in Nat /\ \A j \in 1..Len(command) : Len(command[j]) \in Nat
    <3>1. \A j \in 1..Len(command) : command[j] \in Seq(Nat \ {0})
      BY <2>2
    <3> QED
      BY <2>2, <3>1
  <2>4. Passed(push_command(command), command)
    BY <2>2, <2>3, ArgumentsPushed
  <2> QED
    BY <2>1, <2>4 DEF command
<1> QED
  BY <1>1, LinesInvariant, PTL

=============================================================================
