-------------------------- MODULE MCCaseLifecycle --------------------------
(* CaseLifecycle on two releases, two mutations, two receipts, two points    *)
(* of time (an aging fact is stale one tick after it was observed) and one   *)
(* upgrade.                                                                  *)
EXTENDS CaseLifecycle, TLC

ASSUME HumanFacts \subseteq Facts /\ AgingFacts \subseteq Facts /\ LiveFacts \subseteq Facts

Symmetry == Permutations(Releases) \cup Permutations(Mutations) \cup Permutations(Receipts)
=============================================================================
