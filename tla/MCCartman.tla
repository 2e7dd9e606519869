----------------------------- MODULE MCCartman -----------------------------
(* Instance of Cartman: any cart may be on any track and go either way. *)
EXTENDS Cartman

AnyWay ==
  {a \in [C : Carts, T : 0..(tracknum - 1), J : 0..(tracknum - 1)] :
     a.J \in {a.T, (a.T + 1) % tracknum}}
=============================================================================
