------------------------------ MODULE Cartman ------------------------------
(***************************************************************************)
(* Assignment3/cartman.c: carts on a circle of tracks.  Track k runs from  *)
(* junction k to the next one, and a cart that arrives at one end of its   *)
(* track reserves both ends before it crosses.  The simulator, which is    *)
(* not part of the repository, calls arrive() for each arrival and gets a  *)
(* thread for it; reserve(), cross() and release() are its functions.      *)
(***************************************************************************)
EXTENDS Integers, FiniteSets

CONSTANTS
  tracknum,    \* the number of tracks, and of junctions
  Carts,       \* the carts, by number
  Arrivals,    \* the arrivals the simulator may report: [C, T, J] records
  MaxArrivals  \* bound: how many arrivals there are

ASSUME CartmanAssumption ==
  /\ tracknum \in 2..17
  /\ Carts \subseteq Nat
  /\ Arrivals \subseteq [C : Carts, T : 0..(tracknum - 1), J : 0..(tracknum - 1)]
  /\ MaxArrivals \in Nat

Junctions == 0..(tracknum - 1)
ThreadIds == 1..MaxArrivals

VARIABLES
  sems,      \* the values of sems[]
  arg,       \* the argument of each thread made so far, in a sequence
  pc,        \* where each thread is in make_cart()
  reserved   \* <<cart, junction>> pairs between reserve() and release()

cartmanVars == <<sems, arg, pc, reserved>>

Started == DOMAIN arg

CartmanInit ==
  /\ sems = [j \in Junctions |-> 1]
  /\ arg = <<>>
  /\ pc = <<>>
  /\ reserved = {}

----------------------------------------------------------------------------
(* The two junctions of a thread.  The number after the last one is 0; a cart
   goes backwards if its junction is the far end of its track. *)

\* Mutant: all carts go forwards.
Offset_Forward(a) == 1

Offset(a) == IF a.J = a.T + 1 THEN -1 ELSE 1

Other(a) == IF a.J + Offset(a) < 0 THEN tracknum - 1 ELSE (a.J + Offset(a)) % tracknum

\* Mutant: every cart takes the junction where it is first.
Odd_Always(a) == TRUE

Odd(a) == a.C % 2 # 0

\* Carts with odd and even numbers take their junctions in opposite orders.
J1(a) == IF Odd(a) THEN a.J ELSE Other(a)
J2(a) == IF Odd(a) THEN Other(a) ELSE a.J

----------------------------------------------------------------------------
\* A cart arrives again once it has crossed.
arrive(a) ==
  /\ Cardinality(Started) < MaxArrivals
  /\ \A i \in Started : arg[i].C = a.C => pc[i] \in {"release1", "release2", "post1", "post2", "done"}
  /\ arg' = [i \in Started \cup {Cardinality(Started) + 1} |-> IF i \in Started THEN arg[i] ELSE a]
  /\ pc' = [i \in DOMAIN arg' |-> IF i \in Started THEN pc[i] ELSE "wait1"]
  /\ UNCHANGED <<sems, reserved>>

At(i, from, to) == pc[i] = from /\ pc' = [pc EXCEPT ![i] = to] /\ UNCHANGED arg

Wait(j) == sems[j] > 0 /\ sems' = [sems EXCEPT ![j] = @ - 1]
Post(j) == sems' = [sems EXCEPT ![j] = @ + 1]

reserve(c, j) == reserved' = reserved \cup {<<c, j>>}
release(c, j) == reserved' = reserved \ {<<c, j>>}

Entry(i) ==
  \/ At(i, "wait1", "wait2") /\ Wait(J1(arg[i])) /\ UNCHANGED reserved
  \/ At(i, "wait2", "reserve1") /\ Wait(J2(arg[i])) /\ UNCHANGED reserved
  \/ At(i, "reserve1", "reserve2") /\ reserve(arg[i].C, J1(arg[i])) /\ UNCHANGED sems
  \/ At(i, "reserve2", "cross") /\ reserve(arg[i].C, J2(arg[i])) /\ UNCHANGED sems

cross(i) == At(i, "cross", "release1") /\ UNCHANGED <<sems, reserved>>

\* Mutant: the junctions are given up before they are released.
Exit_PostFirst(i) ==
  \/ At(i, "release1", "release2") /\ Post(J1(arg[i])) /\ UNCHANGED reserved
  \/ At(i, "release2", "post1") /\ Post(J2(arg[i])) /\ UNCHANGED reserved
  \/ At(i, "post1", "post2") /\ release(arg[i].C, J1(arg[i])) /\ UNCHANGED sems
  \/ At(i, "post2", "done") /\ release(arg[i].C, J2(arg[i])) /\ UNCHANGED sems

Exit(i) ==
  \/ At(i, "release1", "release2") /\ release(arg[i].C, J1(arg[i])) /\ UNCHANGED sems
  \/ At(i, "release2", "post1") /\ release(arg[i].C, J2(arg[i])) /\ UNCHANGED sems
  \/ At(i, "post1", "post2") /\ Post(J1(arg[i])) /\ UNCHANGED reserved
  \/ At(i, "post2", "done") /\ Post(J2(arg[i])) /\ UNCHANGED reserved

make_cart(i) == Entry(i) \/ cross(i) \/ Exit(i)

\* No cart is on its way and no more arrive.
Idle ==
  /\ Cardinality(Started) = MaxArrivals
  /\ \A i \in Started : pc[i] = "done"
  /\ UNCHANGED cartmanVars

CartmanNext ==
  \/ \E a \in Arrivals : arrive(a)
  \/ \E i \in ThreadIds : i \in Started /\ make_cart(i)
  \/ Idle

CartmanSpec == CartmanInit /\ [][CartmanNext]_cartmanVars

\* The threads are scheduled by the operating system, and cross() returns.
CartmanFairSpec == CartmanSpec /\ \A i \in ThreadIds : WF_cartmanVars(i \in Started /\ make_cart(i))

----------------------------------------------------------------------------
(* Properties *)

\* No junction is reserved by two carts, from the first reserve() to the
\* last release() (cartman.c:49-57), whatever the order of arrivals.
JunctionExclusive ==
  \A p, q \in reserved : p[2] = q[2] => p[1] = q[1]

\* Each cart goes forwards on a track of its own.
OwnTracks ==
  /\ \A i \in Started : arg[i].J = arg[i].T
  /\ \A i, k \in Started : arg[i].C = arg[k].C <=> arg[i].T = arg[k].T
  /\ \A i \in Started : arg[i].C % 2 = arg[i].T % 2

\* When carts go round on tracks of their own, with odd carts on odd tracks, a
\* cart that arrives crosses and gives its junctions up again, though each may
\* hold what the next one waits for (cartman.c:47-48).
EveryCartCrosses ==
  []OwnTracks =>
    \A i \in ThreadIds : i \in Started ~> (i \in Started /\ pc[i] = "done")

\* A cart that crosses has reserved both ends of its own track ("in preparation
\* for crossing a critical section of track", cartman.c:64-65) and holds their
\* semaphores: the code finds the other end from where the cart arrives, except
\* at the far end of the last track, junction 0, where it takes junction 1.
OwnTrackReserved ==
  \A i \in Started : pc[i] = "cross" /\ (arg[i].J = arg[i].T \/ arg[i].T # tracknum - 1) =>
    \A j \in {arg[i].T, (arg[i].T + 1) % tracknum} : <<arg[i].C, j>> \in reserved /\ sems[j] = 0
=============================================================================
