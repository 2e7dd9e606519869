------------------------------ MODULE Fileman ------------------------------
(***************************************************************************)
(* Assignment5/fileman.c: functions on files, here called by processes     *)
(* that run at the same time, one call each, and the two views of a        *)
(* directory.  A step is a call of the C library or a system call, none of *)
(* which is part of the repository: a file is a sequence of bytes, and an  *)
(* open or a write may fail, a write also be short.                        *)
(***************************************************************************)
EXTENDS Integers, Sequences, FiniteSets, SequencesExt

CONSTANTS
  Files, Bytes,
  Absent,    \* stands for a file that does not exist
  Start,     \* what each file is at first
  BufSize,   \* the size of fileman_copy()'s buffer
  Programs   \* the calls of the processes, functions from processes to
             \* records [op, ...], where op names the function

MaxLevel == 24
Views == {"dir", "tree"}

\* A directory's tree is the sequence of its entries' levels in the order they are
\* visited, from the root's at level 0.  An entry is known by its position.
IsTree(rows) ==
  /\ rows \in Seq(0..MaxLevel)
  /\ rows # <<>> => rows[1] = 0
  /\ \A e \in 2..Len(rows) : rows[e] <= rows[e - 1] + 1

Parent(rows, e) == Max({0} \cup {k \in 1..(e - 1) : rows[k] < rows[e]})

\* What scandir() finds; 0 is the root.
Entries(rows, d) == {e \in 1..Len(rows) : Parent(rows, e) = d}

\* What each function is called with.
Fits(c) ==
  CASE c.op = "read" -> c.file \in Files /\ c.size \in Nat
    [] c.op = "write" -> c.file \in Files /\ c.offset \in Nat /\ c.data \in Seq(Bytes)
    [] c.op = "append" -> c.file \in Files /\ c.data \in Seq(Bytes)
    [] c.op = "copy" -> c.src \in Files /\ c.dest \in Files
    [] OTHER -> c.op \in Views /\ IsTree(c.rows)

ASSUME FilemanAssumption ==
  /\ 0 \in Bytes
  /\ Absent \notin Seq(Bytes)
  /\ Start \in [Files -> Seq(Bytes) \cup {Absent}]
  /\ BufSize \in Nat \ {0}
  /\ \A calls \in Programs : \A p \in DOMAIN calls : Fits(calls[p])

VARIABLES
  calls,    \* the calls that are made
  fs,       \* the contents of the files
  pc,       \* where each process is
  buf,      \* what a copy has read and not written yet
  count,    \* the bytes a copy has read
  offset,   \* where a copy writes next
  ret,      \* what a call returned
  bitmask,  \* whether a line is drawn at each level, by process
  stack,    \* a view's calls of itself: the entries of a directory still to come
  drawn     \* the entries a view has drawn, and what it drew before their names

copyVars == <<buf, count, offset>>
treeVars == <<bitmask, stack, drawn>>
vars == <<calls, fs, pc, copyVars, ret, treeVars>>

Procs == DOMAIN calls

Init ==
  /\ calls \in Programs
  /\ fs = Start
  /\ pc = [p \in Procs |-> IF calls[p].op \in Views THEN "draw" ELSE "access"]
  /\ buf = [p \in Procs |-> <<>>]
  /\ count = [p \in Procs |-> 0]
  /\ offset = [p \in Procs |-> 0]
  /\ ret = [p \in Procs |-> 0]
  /\ bitmask = [p \in Procs |-> [k \in 0..MaxLevel |-> FALSE]]
  /\ stack = [p \in Procs |->
       IF calls[p].op \in Views THEN <<Entries(calls[p].rows, 0)>> ELSE <<>>]
  /\ drawn = [p \in Procs |-> <<>>]

At(p, op, from) == pc[p] = from /\ calls[p].op = op
Goto(p, to) == pc' = [pc EXCEPT ![p] = to]

Returns(p, n) ==
  /\ Goto(p, "done")
  /\ ret' = [ret EXCEPT ![p] = n]

Exists(f) == fs[f] # Absent
Store(f, s) == fs' = [fs EXCEPT ![f] = s]

Least(m, n) == IF m < n THEN m ELSE n

\* File s after the bytes d are written at an offset; a gap is filled with 0.
Written(s, at, d) ==
  IF d = <<>> THEN s
  ELSE [k \in 1..(IF Len(s) > at + Len(d) THEN Len(s) ELSE at + Len(d)) |->
          IF k \in (at + 1)..(at + Len(d)) THEN d[k - at]
          ELSE IF k <= Len(s) THEN s[k] ELSE 0]

----------------------------------------------------------------------------
\* access() in each function: whether the file exists.
access(p) ==
  /\ pc[p] = "access"
  /\ LET c == calls[p]
         fails == CASE c.op = "write" -> Exists(c.file)
                    [] c.op = "copy" -> ~Exists(c.src) \/ Exists(c.dest)
                    [] OTHER -> ~Exists(c.file)
     IN IF fails THEN Returns(p, -1) ELSE Goto(p, "open") /\ UNCHANGED ret
  /\ UNCHANGED <<calls, fs, copyVars, treeVars>>

\* The number of bytes found is not looked at.
fileman_read(p) ==
  /\ At(p, "read", "open")
  /\ Returns(p, calls[p].size)
  /\ UNCHANGED <<calls, fs, copyVars, treeVars>>

\* fopen() truncates the file; fclose() writes the buffer.
fileman_write(p) ==
  LET c == calls[p] IN
  /\ \/ /\ At(p, "write", "open")
        /\ Store(c.file, <<>>)
        /\ Goto(p, "write")
        /\ UNCHANGED ret
     \/ /\ At(p, "write", "write")
        /\ Store(c.file, Written(fs[c.file], c.offset, c.data))
        /\ Returns(p, Len(c.data))
  /\ UNCHANGED <<calls, copyVars, treeVars>>

\* Mutant: the file is opened without O_APPEND.
fileman_append_AtStart(p) ==
  LET c == calls[p] IN
  /\ At(p, "append", "open")
  /\ \/ Returns(p, -1) /\ UNCHANGED fs
     \/ \E n \in 0..Len(c.data) :
          /\ Store(c.file, Written(fs[c.file], 0, SubSeq(c.data, 1, n)))
          /\ Returns(p, n)
  /\ UNCHANGED <<calls, copyVars, treeVars>>

fileman_append(p) ==
  LET c == calls[p] IN
  /\ At(p, "append", "open")
  /\ \/ Returns(p, -1) /\ UNCHANGED fs
     \/ \E n \in 0..Len(c.data) :
          /\ Store(c.file, fs[c.file] \o SubSeq(c.data, 1, n))
          /\ Returns(p, n)
  /\ UNCHANGED <<calls, copyVars, treeVars>>

----------------------------------------------------------------------------
(* fileman_copy() *)

\* fopen() truncates the new file, or one made since access(); it may fail.
copy_open(p) ==
  /\ At(p, "copy", "open")
  /\ \/ Returns(p, -1) /\ UNCHANGED fs
     \/ Store(calls[p].dest, <<>>) /\ Goto(p, "read") /\ UNCHANGED ret
  /\ UNCHANGED <<calls, copyVars, treeVars>>

copy_read(p) ==
  LET s == fs[calls[p].src] IN
  /\ At(p, "copy", "read")
  /\ buf' = [buf EXCEPT ![p] = SubSeq(s, count[p] + 1, Least(Len(s), count[p] + BufSize))]
  /\ count' = [count EXCEPT ![p] = @ + Len(buf'[p])]
  /\ Goto(p, "write")
  /\ UNCHANGED <<calls, fs, offset, ret, treeVars>>

\* Mutant: the file is read once.
copy_write_Once(p) ==
  LET dest == calls[p].dest IN
  /\ At(p, "copy", "write")
  /\ Store(dest, Written(fs[dest], offset[p], buf[p]))
  /\ offset' = [offset EXCEPT ![p] = @ + Len(buf[p])]
  /\ Returns(p, count[p])
  /\ UNCHANGED <<calls, buf, count, treeVars>>

\* What is written is not compared with what was read.  A full buffer means that
\* there may be more.
copy_write(p) ==
  LET dest == calls[p].dest IN
  /\ At(p, "copy", "write")
  /\ \E n \in 0..Len(buf[p]) :
       /\ Store(dest, Written(fs[dest], offset[p], SubSeq(buf[p], 1, n)))
       /\ offset' = [offset EXCEPT ![p] = @ + n]
  /\ IF Len(buf[p]) = BufSize THEN Goto(p, "read") /\ UNCHANGED ret ELSE Returns(p, count[p])
  /\ UNCHANGED <<calls, buf, count, treeVars>>

fileman_copy(p) == copy_open(p) \/ copy_read(p) \/ copy_write(p)

----------------------------------------------------------------------------
(* fileman_dir() and fileman_tree() *)

\* A file or an empty directory has no entries.
IsDir(rows, e) == IF Entries(rows, e) # {} THEN {TRUE} ELSE BOOLEAN

Level(p) == Len(stack[p]) - 1
Entry(p) == Min(Last(stack[p]))
IsLast(p) == Last(stack[p]) = {Entry(p)}

\* One turn of the loop in get_dir() or drawTree(), down to the call of itself for
\* a directory, whose scandir() may fail.
Turn(p, op, line, isDir) ==
  LET rest == Append(Front(stack[p]), Last(stack[p]) \ {Entry(p)}) IN
  /\ At(p, op, "draw")
  /\ drawn' = [drawn EXCEPT ![p] = Append(@, line)]
  /\ \/ stack' = [stack EXCEPT ![p] = rest]
     \/ isDir /\ stack' = [stack EXCEPT ![p] = Append(rest, Entries(calls[p].rows, Entry(p)))]
  /\ UNCHANGED <<calls, fs, pc, copyVars, ret>>

\* Mutant: the entries of a directory are not indented.
get_dir_Flat(p) ==
  /\ stack[p] # <<>> /\ Last(stack[p]) # {}
  /\ \E isDir \in IsDir(calls[p].rows, Entry(p)) : Turn(p, "dir", [entry |-> Entry(p), indent |-> 4], isDir)
  /\ UNCHANGED bitmask

get_dir(p) ==
  /\ stack[p] # <<>> /\ Last(stack[p]) # {}
  /\ \E isDir \in IsDir(calls[p].rows, Entry(p)) :
       Turn(p, "dir", [entry |-> Entry(p), indent |-> 4 * Level(p) + 4], isDir)
  /\ UNCHANGED bitmask

\* The lines of the levels above, then ELB or TEE.
Line(p) ==
  [entry |-> Entry(p), lines |-> {k \in 0..(Level(p) - 1) : bitmask[p][k]}, elb |-> IsLast(p)]

\* Mutant: the last directory does not end the line.
drawTree_NoReset(p) ==
  /\ stack[p] # <<>> /\ Last(stack[p]) # {}
  /\ \E isDir \in IsDir(calls[p].rows, Entry(p)) :
       /\ Turn(p, "tree", Line(p), isDir)
       /\ bitmask' = [bitmask EXCEPT ![p][Level(p)] = IF isDir THEN @ \/ ~IsLast(p) ELSE @]

\* Before a directory's own entries are drawn the global bitmask is set at its
\* level.
drawTree(p) ==
  /\ stack[p] # <<>> /\ Last(stack[p]) # {}
  /\ \E isDir \in IsDir(calls[p].rows, Entry(p)) :
       /\ Turn(p, "tree", Line(p), isDir)
       /\ bitmask' = [bitmask EXCEPT ![p][Level(p)] = IF isDir THEN ~IsLast(p) ELSE @]

\* The loop is over: return to the caller's.
listed(p) ==
  /\ stack[p] # <<>> /\ Last(stack[p]) = {}
  /\ stack' = [stack EXCEPT ![p] = Front(@)]
  /\ IF Level(p) = 0 THEN Returns(p, 0) ELSE UNCHANGED <<pc, ret>>
  /\ UNCHANGED <<calls, fs, copyVars, bitmask, drawn>>

----------------------------------------------------------------------------
Next ==
  \E p \in Procs :
    \/ access(p) \/ fileman_read(p) \/ fileman_write(p) \/ fileman_append(p)
    \/ fileman_copy(p) \/ get_dir(p) \/ drawTree(p) \/ listed(p)

Spec == Init /\ [][Next]_vars

----------------------------------------------------------------------------
(* Properties *)

Done == \A p \in Procs : pc[p] = "done"

Only(op, f) ==
  \A p \in Procs :
    LET c == calls[p]
    IN IF c.op = op THEN TRUE
       ELSE CASE c.op = "copy" -> c.dest # f
              [] c.op \in {"write", "append"} -> c.file # f
              [] OTHER -> TRUE

Part(s, d) == \E k \in 0..(Len(s) - Len(d)) : SubSeq(s, k + 1, k + Len(d)) = d

\* Processes that append to a file at the same time, and others that copy it, do
\* not lose or mix each other's bytes: each finds what it says it has appended
\* (fileman.c:184-187).
AppendsKept ==
  \A p \in Procs :
    LET c == calls[p]
    IN c.op = "append" /\ pc[p] = "done" /\ ret[p] >= 0 /\ Only("append", c.file) =>
         /\ Part(fs[c.file], SubSeq(c.data, 1, ret[p]))
         /\ SubSeq(fs[c.file], 1, Len(Start[c.file])) = Start[c.file]

\* A file that copies of one file have made, even at the same time and while others
\* append to it, is in the end a beginning of it, which has all that it had at
\* first and is as long as what they returned, unless a write was short
\* (fileman.c:216-224).
CopyIsPrefix ==
  Done => \A f \in Files : \A p \in Procs :
    LET c == calls[p]
        copies == {q \in Procs : calls[q].op = "copy" /\ calls[q].dest = f /\ ret[q] >= 0}
        whole == \A q \in copies : calls[q].src = c.src /\ offset[q] = count[q]
    IN p \in copies /\ Only("copy", f) /\ Only("append", c.src) /\ whole =>
         /\ fs[f] = SubSeq(fs[c.src], 1, Len(fs[f]))
         /\ \E q \in copies : ret[q] = Len(fs[f])
         /\ \A q \in copies : ret[q] \in Len(Start[c.src])..Len(fs[f])

\* Whose directory e is in, its directory, and so on.
Ancestors(rows, e) == {k \in 1..e : \A m \in (k + 1)..e : rows[m] > rows[k]}

LastOfDir(rows, e) == e = Max(Entries(rows, Parent(rows, e)))

\* A line leads down from each directory that has entries after the one that is
\* being drawn, and from no other, though the lines' bitmask is global and what
\* former directories left in it is still there (fileman.c:321-352).
TreeDrawn ==
  \A p \in Procs : calls[p].op = "tree" =>
    \A i \in 1..Len(drawn[p]) :
      LET rows == calls[p].rows
          e == drawn[p][i].entry
      IN /\ drawn[p][i].lines =
              {rows[k] : k \in {k \in Ancestors(rows, e) \ {e} : ~LastOfDir(rows, k)}}
         /\ drawn[p][i].elb = LastOfDir(rows, e)

\* Whatever directories cannot be read, which directory an entry is in can be told
\* from the indentation alone: it is that of the last line before it that is
\* indented less (fileman.c:254-270).
DirIndented ==
  \A p \in Procs : calls[p].op = "dir" =>
    \A i \in 1..Len(drawn[p]) :
      LET less == {k \in 1..(i - 1) : drawn[p][k].indent < drawn[p][i].indent}
      IN Parent(calls[p].rows, drawn[p][i].entry) =
           IF less = {} THEN 0 ELSE drawn[p][Max(less)].entry
=============================================================================
