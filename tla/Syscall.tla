------------------------------ MODULE Syscall ------------------------------
(***************************************************************************)
(* Lab 3 as a whole: processes (Process) with their files (Files), and     *)
(* programs that start with their command line on their stack (UserStack). *)
(***************************************************************************)
EXTENDS Files, UserStack

CONSTANT
  Programs  \* what programs may do: [execs: Nat, files: BOOLEAN, commands: command lines]

\* A command line is a sequence of tokens, which are sequences of characters.
ASSUME SyscallAssumption ==
  \A prog \in Programs : \A command \in prog.commands :
    command \in Seq(Seq(Nat \ {0})) /\ HasRoom(command)

VARIABLES
  program,   \* which of Programs is run
  cmd_line,  \* of struct arg_t, and the copy it points to, by tid of the child
  stack      \* the stack of a program that has not run yet

lineVars == <<cmd_line, stack>>
NoStack == [esp |-> PHYS_BASE, mem |-> <<>>, add_arr |-> <<>>]

sysVars == <<vars, fileVars, lineVars, program>>

SysInit ==
  /\ Init
  /\ FilesInit
  /\ program \in Programs
  /\ fs # {} => program.files
  /\ cmd_line = [p \in Procs |-> <<>>]
  /\ stack = [p \in Procs |-> NoStack]

\* Calls of exec and wait, as far as the program makes them.
sys_exec(p) ==
  /\ calls < program.execs
  /\ \E command \in program.commands :
       /\ process_execute(p)
       /\ cmd_line' = [cmd_line EXCEPT ![next_tid] = command]
  /\ UNCHANGED <<fileVars, stack, program>>

wait_handler(p) ==
  /\ calls < program.execs
  /\ \E i \in {-1} \cup (User \cap 3..next_tid) : process_wait(p, i)
  /\ UNCHANGED <<fileVars, lineVars, program>>

file_handler(p) == program.files /\ FileStep(p) /\ UNCHANGED <<lineVars, program>>

exit_handler(p) == Exit(p) /\ UNCHANGED <<fileVars, lineVars, program>>

\* start_process(): the arguments go onto the stack, then the copy is freed, and
\* the program runs, on a stack that is its own from there on.
start_process(c) ==
  \/ /\ load(c)
     /\ stack' = IF loaded'[c] THEN [stack EXCEPT ![c] = push_command(cmd_line[c])] ELSE stack
     /\ UNCHANGED <<fileVars, cmd_line, program>>
  \/ /\ free_cmd_line(c)
     /\ cmd_line' = [cmd_line EXCEPT ![c] = <<>>]
     /\ stack' = [stack EXCEPT ![c] = NoStack]
     /\ UNCHANGED <<fileVars, program>>

\* Open files are not closed: they are lost with the table, in the thread's page.
exit_thread(p) ==
  /\ thread_exit(p)
  /\ files' = [files EXCEPT ![p] = NoFiles]
  /\ held' = [held EXCEPT ![p] = {}]
  /\ UNCHANGED <<fs, many, full, fileCalls, lineVars, program>>

SysStep(p) ==
  \/ Proceed(p) /\ UNCHANGED <<fileVars, lineVars, program>>
  \/ start_process(p)
  \/ exit_thread(p)

SysNext ==
  \E p \in Procs :
    \/ sys_exec(p) \/ wait_handler(p) \/ file_handler(p)
    \/ SysStep(p) \/ exit_handler(p)

SysSpec == SysInit /\ [][SysNext]_sysVars

\* The scheduler is round-robin, and programs end.
FairSpec == SysSpec /\ \A p \in Procs : WF_sysVars(SysStep(p) \/ exit_handler(p))

----------------------------------------------------------------------------
\* A program that has been loaded finds the tokens of the command line that was
\* given for it to process_execute(), by the C calling convention, though its
\* parent and others may have gone on (process.c:94-125, 153, 190).
ArgumentsPassed ==
  \A c \in User :
    pc[c] = "free" /\ loaded[c] => Passed(stack[c], cmd_line[c])
=============================================================================
