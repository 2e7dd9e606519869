----------------------------- MODULE MCFileman -----------------------------
(* Instance of Fileman: up to three calls on two files, one of which exists,
   at the same time, and the two views of all directories of up to six
   entries on four levels. *)
EXTENDS Fileman

F == "F"
G == "G"
BothFiles == {F, G}

StartFiles == [f \in {F, G} |-> IF f = F THEN <<1, 2>> ELSE Absent]

AppendF(d) == [op |-> "append", file |-> F, data |-> d]
Copy == [op |-> "copy", src |-> F, dest |-> G]
Write(d) == [op |-> "write", file |-> G, offset |-> 1, data |-> d]
Read(f) == [op |-> "read", file |-> f, size |-> 2]

Trees ==
  {rows \in UNION {[1..n -> 0..3] : n \in 1..6} :
     rows[1] = 0 /\ \A i \in 2..Len(rows) : rows[i] <= rows[i - 1] + 1}

AllPrograms ==
  { <<AppendF(<<3, 4>>), AppendF(<<5, 6>>), Copy>>,
    <<AppendF(<<3, 4>>), Copy, Copy>>,
    <<Write(<<3>>), Write(<<4, 5>>), Copy>>,
    <<Write(<<3>>), Read(F), Read(G)>> }
  \cup {<< [op |-> view, rows |-> rows] >> : view \in Views, rows \in Trees}
=============================================================================
