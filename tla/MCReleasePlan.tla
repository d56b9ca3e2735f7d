----------------------------- MODULE MCReleasePlan -----------------------------
(***************************************************************************)
(* An instance of ReleasePlan and DeliveryGraph for TLC: three tickets,    *)
(* and a loop of two scenarios of which the second starts where the first  *)
(* ends.  The reviewed graph is a chain of an enabler and two tickets.     *)
(***************************************************************************)
EXTENDS ReleasePlan

Two     == 1..2
Follows == <<0, 1>>
Line    == [enabler |-> {1}, consumers |-> <<{2}, {}, {}>>, blockedBy |-> <<{}, {1}, {2}>>,
            covers |-> <<<<1>>, <<1>>, <<2>>>>, skeleton |-> <<1, 2, 3>>]
=============================================================================
