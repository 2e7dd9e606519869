------------------------------- MODULE Files -------------------------------
(***************************************************************************)
(* The system calls of Lab3/syscall.c on files.  Each process has a table  *)
(* files[] whose index is the file descriptor; an entry is known by the    *)
(* name of the file.  Contents and positions are the file system's: a call *)
(* that changes only these changes nothing here.  How many entries files[] *)
(* has is declared in a header that is not in the repository.              *)
(***************************************************************************)
EXTENDS Process

CONSTANTS
  Names,        \* names of files, other than NULL
  NFiles,       \* the number of entries of files[]
  MaxFileCalls  \* bound: how often files are created, opened or closed

ASSUME FilesAssumption ==
  /\ Names \subseteq Nat \ {NULL}
  /\ NFiles \in Nat /\ NFiles > 3
  /\ MaxFileCalls \in Nat

VARIABLES
  fs,         \* the names of the files that there are
  files,      \* member of struct thread
  held,       \* history: the descriptors a program has open, with their files
  many,       \* history: it opened a file while it had another one open
  full,       \* history: sys_open() found no free entry
  fileCalls   \* how many calls there have been

fileVars == <<fs, files, held, many, full, fileCalls>>
histVars == <<held, many, full>>

\* What a program may pass: also a descriptor past the table.
Descriptors == -1..NFiles
Sizes == {0, 1, NFiles}

NoFiles == [fd \in 0..(NFiles - 1) |-> NULL]

FilesInit ==
  /\ fs \in SUBSET Names
  /\ files = [p \in Procs |-> NoFiles]
  /\ held = [p \in Procs |-> {}]
  /\ many = [p \in Procs |-> FALSE]
  /\ full = [p \in Procs |-> FALSE]
  /\ fileCalls = 0

\* What files[fd] may read as: there is no test that fd is in the table.
Entry(p, fd) == IF fd \in DOMAIN files[p] THEN {files[p][fd]} ELSE Names \cup {NULL}

\* The program opens a file; it now holds name as fd, or no longer holds fd.
Opens(p) == many' = [many EXCEPT ![p] = @ \/ held[p] # {}]

Hold(p, fd, name) == held' = [held EXCEPT ![p] = @ \cup {<<fd, name>>}]

Drop(p, fd) == held' = [held EXCEPT ![p] = {h \in @ : h[1] # fd}] /\ UNCHANGED many

Running(p) == At(p, "run") /\ p # Main

FileCall(p) ==
  /\ Running(p)
  /\ fileCalls < MaxFileCalls
  /\ fileCalls' = fileCalls + 1

----------------------------------------------------------------------------
\* A NULL or bad pointer to a name or a buffer.
bad_pointer(p) == Running(p) /\ sys_exit(p, -1) /\ UNCHANGED fileVars

\* A system call that is not in the switch: the thread exits as it is.
unimplemented(p) ==
  /\ Running(p)
  /\ Goto(p, "exit_pop")
  /\ UNCHANGED <<threadVars, listVars, execVars, waitVars, exit_c, calls, panic, fileVars>>

sys_create(p, name) ==
  /\ FileCall(p)
  /\ name \notin fs
  /\ fs' = fs \cup {name}
  /\ UNCHANGED <<files, histVars, vars>>

\* Entries that the loop of sys_open() would take.
Free(p) == {i \in 3..(NFiles - 1) : files[p][i] = NULL}

\* Mutant: the loop takes the first entry without looking at it.
sys_open_NoTest(p, name, fd) ==
  LET i == 3 IN
  /\ FileCall(p)
  /\ name \in fs
  /\ files' = [files EXCEPT ![p][i] = name]
  /\ Opens(p)
  /\ Hold(p, i, name)
  /\ UNCHANGED <<fs, full, vars>>

\* fd is a word of the program's stack.  The loop goes on past the table, for
\* four times its length, where it overwrites what happens to be NULL; it may
\* also find nothing, and fd is returned.
sys_open(p, name, fd) ==
  LET i == CHOOSE j \in Free(p) : \A k \in Free(p) : j <= k IN
  /\ FileCall(p)
  /\ name \in fs
  /\ Opens(p)
  /\ \/ /\ Free(p) # {}
        /\ files' = [files EXCEPT ![p][i] = name]
        /\ Hold(p, i, name)
        /\ UNCHANGED <<full, vars>>
     \/ /\ Free(p) = {}
        /\ full' = [full EXCEPT ![p] = TRUE]
        /\ UNCHANGED files
        /\ \/ Hold(p, fd, name) /\ UNCHANGED vars
           \/ panic' = TRUE
              /\ UNCHANGED <<threadVars, listVars, execVars, waitVars, exit_c, pc, calls, held>>
  /\ UNCHANGED fs

\* A descriptor greater than the size is refused; a file that is not open ends
\* the process.  Otherwise nothing changes here.
sys_read(p, fd, size) ==
  /\ Running(p)
  /\ size > 0 /\ fd <= size /\ fd >= 0
  /\ NULL \in Entry(p, fd)
  /\ sys_exit(p, -1)
  /\ UNCHANGED fileVars

\* The same test of fd, but none for a file that is not open.
sys_write(p, fd, size) ==
  /\ Running(p)
  /\ size > 0 /\ fd <= size /\ fd > 2
  /\ NULL \in Entry(p, fd)
  /\ panic' = TRUE
  /\ UNCHANGED <<threadVars, listVars, execVars, waitVars, exit_c, pc, calls, fileVars>>

filesize_handler(p, fd) ==
  /\ Running(p)
  /\ NULL \in Entry(p, fd)
  /\ panic' = TRUE
  /\ UNCHANGED <<threadVars, listVars, execVars, waitVars, exit_c, pc, calls, fileVars>>

\* Mutant: < for the last descriptor that is closed.
close_handler_OffByOne(p, fd) ==
  /\ FileCall(p)
  /\ files' = IF fd \in 1..2 THEN [files EXCEPT ![p][fd] = NULL] ELSE files
  /\ Drop(p, fd)
  /\ UNCHANGED <<fs, full, vars>>

\* The bound it compares fd with is the size of a pointer, which is 4.
close_handler(p, fd) ==
  /\ FileCall(p)
  /\ files' = IF fd \in 1..3 THEN [files EXCEPT ![p][fd] = NULL] ELSE files
  /\ Drop(p, fd)
  /\ UNCHANGED <<fs, full, vars>>

FileStep(p) ==
  \/ bad_pointer(p)
  \/ unimplemented(p)
  \/ \E name \in Names :
       \/ sys_create(p, name)
       \/ \E fd \in Descriptors : sys_open(p, name, fd)
  \/ \E fd \in Descriptors :
       \/ filesize_handler(p, fd)
       \/ close_handler(p, fd)
       \/ \E size \in Sizes : sys_read(p, fd, size) \/ sys_write(p, fd, size)

----------------------------------------------------------------------------
(* Properties *)

\* As long as sys_open() has found a free entry every time, each descriptor that
\* the program opened and did not close stands for the file it was opened for,
\* whatever else it opened and closed, also with the tests of close_handler(),
\* which leave a descriptor above 3 in the table (syscall.c:162-169, 231-235).
DescriptorsKept ==
  \A p \in Procs : ~full[p] => \A h \in held[p] : files[p][h[1]] = h[2]

\* A program that holds one file at a time never fills its table: it gets
\* descriptor 3 each time, the only one that close_handler() gives back.
OneFileNeverFull == \A p \in Procs : full[p] => many[p]
=============================================================================
