------------------------- MODULE MCPlanningCaseStore -------------------------
(***************************************************************************)
(* Instances of PlanningCaseStore for TLC.  The processes are model values *)
(* and interchangeable; the sets of labels at which faults strike are      *)
(* constants of the store, given here by name.                             *)
(***************************************************************************)
EXTENDS PlanningCaseStore, TLC

CONSTANTS p1, p2, p3

ThreeProcs == {p1, p2, p3}
Symmetry   == Permutations(Proc)

Nowhere    == {}
Everywhere == Label \ {"idle", "dead"}

\* Every label but the ones that leave a case without a recovery: the
\* directory not yet populated, an unwritten lock file, no lock yet.
Recoverable == Everywhere \ {"populate", "acquire", "write_lock"}

\* Failing writes that leave a torn line, an empty lock, an INTENT or a
\* snapshot behind; errors at every label at once exceed what TLC can visit.
FailingWrites == {"append", "write_lock", "intent_mv", "snap_mv"}
=============================================================================
