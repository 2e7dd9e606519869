----------------------------- MODULE UserStack -----------------------------
(***************************************************************************)
(* push_command() of Lab3/process.c: the stack of a new program.  Memory   *)
(* is a function from addresses to bytes: <<c, 4>> is the character c, or  *)
(* NUL if it is 0; <<v, k>> is byte k of the word v.                       *)
(***************************************************************************)
EXTENDS Integers, Sequences

CONSTANT PHYS_BASE  \* where elf_load() lets the stack begin

ASSUME UserStackAssumption == PHYS_BASE \in Nat /\ PHYS_BASE % 4 = 0

Align(esp) == (esp \div 4) * 4

\* s at address a.
StoreString(mem, a, s) ==
  [x \in DOMAIN mem |-> IF x \in a..(a + Len(s) - 1) THEN <<s[x - a + 1], 4>>
                        ELSE IF x = a + Len(s) THEN <<0, 4>> ELSE mem[x]]

StoreWord(mem, a, v) == [x \in DOMAIN mem |-> IF x \in a..(a + 3) THEN <<v, x - a>> ELSE mem[x]]

\* A stack: esp, the memory, and the addresses of the strings in it.
PushString(st, s) ==
  LET at == st.esp - (Len(s) + 1)
  IN [esp |-> at, mem |-> StoreString(st.mem, at, s), add_arr |-> Append(st.add_arr, at)]

PushWord(st, v) ==
  [esp |-> st.esp - 4, mem |-> StoreWord(st.mem, st.esp - 4, v), add_arr |-> st.add_arr]

EmptyStack ==
  [esp |-> Align(PHYS_BASE), mem |-> [x \in 0..(PHYS_BASE - 1) |-> <<0, 5>>], add_arr |-> <<>>]

\* The strings, from the first token's on.
PushStrings(tokens) ==
  LET st[k \in 0..Len(tokens)] ==
        IF k = 0 THEN EmptyStack ELSE PushString(st[k - 1], tokens[k])
  IN st[Len(tokens)]

\* Mutant: the pointers are pushed in the order of the arguments.
PushPointers_Forwards(st) ==
  LET p[k \in 0..Len(st.add_arr)] ==
        IF k = 0 THEN st ELSE PushWord(p[k - 1], st.add_arr[k])
  IN p[Len(st.add_arr)]

\* The last pointer first, so that they are in order.
PushPointers(st) ==
  LET p[k \in 0..Len(st.add_arr)] ==
        IF k = 0 THEN st ELSE PushWord(p[k - 1], st.add_arr[Len(st.add_arr) + 1 - k])
  IN p[Len(st.add_arr)]

\* strtok_r() has split the command line into tokens.
push_command(tokens) ==
  LET strings == PushStrings(tokens)
      aligned == [esp |-> Align(strings.esp), mem |-> strings.mem, add_arr |-> strings.add_arr]
      null == PushWord(aligned, 0)
      argv == PushPointers(null)
  IN PushWord(PushWord(PushWord(argv, argv.esp), Len(tokens)), 0)

\* Whether there is room for a command line, which is one page at the most.
HasRoom(tokens) == push_command(tokens).esp >= 0

----------------------------------------------------------------------------
IsWord(mem, a, v) == a % 4 = 0 /\ \A k \in 0..3 : mem[a + k] = <<v, k>>

IsString(mem, a, s) ==
  /\ \A k \in 1..Len(s) : mem[a + k - 1] = <<s[k], 4>>
  /\ mem[a + Len(s)] = <<0, 4>>

\* What main(argc, argv) finds above a return address of 0, by the C calling
\* convention: argv points to argc pointers to the tokens, and a null pointer.
Passed(st, tokens) ==
  LET argc == Len(tokens)
      argv == st.esp + 12
  IN /\ IsWord(st.mem, st.esp, 0)
     /\ IsWord(st.mem, st.esp + 4, argc)
     /\ IsWord(st.mem, st.esp + 8, argv)
     /\ \A k \in 1..argc : \E s \in (argv + 4 * argc + 4)..(PHYS_BASE - 1) :
          /\ IsWord(st.mem, argv + 4 * (k - 1), s)
          /\ IsString(st.mem, s, tokens[k])
     /\ IsWord(st.mem, argv + 4 * argc, 0)
=============================================================================
