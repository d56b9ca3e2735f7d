--------------------------- MODULE MCReleaseHandoff ---------------------------
(***************************************************************************)
(* An instance of ReleaseHandoff for TLC: both channels, two directories,  *)
(* and one apply command at a time, beside an executor that goes ahead.    *)
(***************************************************************************)
EXTENDS ReleaseHandoff

CONSTANTS p1, a1, a2, d1, d2, release, goal

OneProc      == {p1}
TwoApprovals == {a1, a2}
Channels     == {release, goal}
Dirs         == {d1, d2}
Forward      == {<<"READY", "IN_PROGRESS">>}
=============================================================================
