---------------------------- MODULE MCInstallation ----------------------------
(***************************************************************************)
(* Instances of Installation for TLC: one process, two versions of which   *)
(* the second manages one file more.                                       *)
(***************************************************************************)
EXTENDS Installation

CONSTANTS p1, v1, v2, settings, agents

OneProc  == {p1}
Versions == {v1, v2}
Paths    == {settings, agents}

ShipsMore == [v \in Versions |-> IF v = v1 THEN {settings} ELSE {settings, agents}]
=============================================================================
