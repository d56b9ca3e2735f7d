----------------------------- MODULE MCE2ECleanup -----------------------------
(***************************************************************************)
(* Instances of E2ECleanup for TLC.                                        *)
(***************************************************************************)
EXTENDS E2ECleanup

CONSTANTS r1, r2

Two == {r1, r2}
=============================================================================
