---------------------------- MODULE MCDeliveryGate ----------------------------
(***************************************************************************)
(* An instance of DeliveryGate for TLC: one process that is repeated, with *)
(* writes of crashed runs still travelling.                                *)
(***************************************************************************)
EXTENDS DeliveryGate

CONSTANTS p1

OneProc == {p1}
=============================================================================
