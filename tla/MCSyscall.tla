----------------------------- MODULE MCSyscall -----------------------------
EXTENDS Syscall

\* Tokens of one to five characters, up to three of them.
MCToken == {[k \in 1..n |-> k] : n \in 1..5}
MCCommands == UNION {[1..n -> MCToken] : n \in 1..3}
MCCommand == << <<1>> >>

\* Processes that start and wait for each other; programs that use files; and
\* one program with each command line.
MCPrograms == {
  [execs |-> 4, files |-> FALSE, commands |-> {MCCommand}],
  [execs |-> 1, files |-> TRUE, commands |-> {MCCommand}],
  [execs |-> 1, files |-> FALSE, commands |-> MCCommands]}
=============================================================================
