-------------------------- MODULE MCAdmissionApply --------------------------
(***************************************************************************)
(* Instances of AdmissionApply for TLC: one or two apply commands, a       *)
(* parent with one or two children.                                        *)
(***************************************************************************)
EXTENDS AdmissionApply, TLC

CONSTANTS p1, p2, a1, a2, child1, child2, parent

OneProc   == {p1}
TwoProcs  == {p1, p2}

OneApproval  == {a1}
TwoApprovals == {a1, a2}

OneChild    == <<child1, parent>>
TwoChildren == <<child1, child2, parent>>

\* Which tickets open the gate of the Harness.
ParentReady == {parent}
ChildReady  == {child1}

Symmetry == Permutations(Proc)
=============================================================================
