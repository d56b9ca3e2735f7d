---------------------------- MODULE PlanningProofs ----------------------------
(***************************************************************************)
(* What planning keeps true, for any number of tickets, scenarios, runners,*)
(* plans, results, mutations and receipts, for any edits and pushes, and   *)
(* for any ages, times and builds.                                         *)
(*                                                                         *)
(* The case (CaseLifecycle): every accepted event is accepted again when   *)
(* the case is rebuilt, a case stands on what was attested of its own      *)
(* release, the states the kernel's self-check counts as reachable are     *)
(* exactly the legal ones, and nobody's word on what was learned is lost   *)
(* by the kernel itself.                                                   *)
(*                                                                         *)
(* The Release (DeliveryGraph, ReleasePlan): the search finds a cycle when *)
(* there is one, an accepted walking skeleton is a smallest one and closes *)
(* the loop, what is read of the tracker piece by piece was there at once, *)
(* and a plan stands on its predecessor.                                   *)
(***************************************************************************)
EXTENDS CaseLifecycle, ReleasePlan, FiniteSetTheorems, SequenceTheorems,
        WellFoundedInduction, TLAPS

(* A set of numbers that is not empty has a least one: this stands in   *)
(* for induction.                                                          *)
LEMMA LeastNumber ==
  ASSUME NEW T \in SUBSET Nat, T # {}
  PROVE  \E x \in T : \A y \in T : x <= y
<1> DEFINE R == OpToRel(<, Nat)
<1>1. IsWellFoundedOn(R, Nat)
  BY NatLessThanWellFounded
<1>2. \A x, y \in Nat : <<x, y>> \in R <=> x < y
  BY DEF OpToRel
<1> HIDE DEF R
<1>3. PICK x \in T : \A y \in T : ~ (<<y, x>> \in R)
  BY <1>1, WFMin
<1>4. \A y \in T : ~ (y < x)
  BY <1>2, <1>3
<1> QED
  BY <1>4

-----------------------------------------------------------------------------
(* The case: the inductive invariant.                                      *)

(* Type correctness is not inductive without what an unmade attestation    *)
(* leaves empty and what a running `outcome decide` has already made.      *)
Made ==
  /\ serving => life # "unmade"
  /\ decider.runs => life \in {"made", "pending", "consumed"}
  /\ decider.runs => watched.fact = Learned
  /\ life \in {"pending", "consumed", "recorded"} => watched.fact = Learned

(* Whoever decides about a receipt that is not the bound one is hindered. *)
Hindered ==
  /\ life # "unmade" /\ watched.fact = Learned /\ outcome # decider.about
       => decider.hindered
  /\ NoWordLost

CaseInv == TypeOK /\ Made /\ Hindered /\ Replays /\ ServesItsRelease
        /\ checkpoint.subject.kind # "ticket"

-----------------------------------------------------------------------------
(* Only one rule lets the kind of a subject change, and it leads to FRAME. *)
LEMMA KindChange ==
  ASSUME NEW from \in Checkpoints, NEW to \in Checkpoints,
         TransitionShape(from, to), from.subject.kind # to.subject.kind
  PROVE  to.stage = "FRAME"
<1>1. "kind" \in Changed(from, to)
  BY DEF Changed
<1>2. PICK r \in RebindRule(from, to) : TRUE
  BY <1>1 DEF TransitionShape
<1>3. r \in Rebinds /\ r.target = to.stage /\ "kind" \in r.changes
  BY <1>1, <1>2 DEF RebindRule
<1> QED
  BY <1>3 DEF Rebinds

(* A step of the case never leaves it about a single ticket. *)
LEMMA NoTicket ==
  ASSUME NEW from \in Checkpoints, NEW to \in Checkpoints,
         TransitionShape(from, to), from.subject.kind # "ticket"
  PROVE  to.subject.kind # "ticket"
<1> SUFFICES ASSUME to.subject.kind = "ticket" PROVE FALSE
  OBVIOUS
<1>1. to.stage = "FRAME"
  BY KindChange
<1>2. to.subject.kind \in Kinds[to.stage]
  BY DEF TransitionShape, ValidCheckpoint
<1> QED
  BY <1>1, <1>2 DEF Kinds

LEMMA StartCase == Init => CaseInv
<1> SUFFICES ASSUME Init PROVE CaseInv
  OBVIOUS
<1> USE DEF Init
<1>1. checkpoint \in Checkpoints /\ checkpoint.subject.kind \in Kinds[checkpoint.stage]
  <2>1. "ORIENT" \in Stages /\ "none" \in Kinds["ORIENT"] /\ Verdicts["ORIENT"] = {"ROUTED"}
    BY DEF Stages, Kinds, Verdicts
  <2>2. Unnamed \in Subjects /\ Unnamed.kind = "none"
    BY DEF Subjects, Unnamed
  <2>3. "ROUTED" \in UNION {Verdicts[s] : s \in Stages}
    BY <2>1
  <2>4. checkpoint \in [stage: Stages, verdict: UNION {Verdicts[s] : s \in Stages},
                        subject: Subjects]
    BY <2>1, <2>2, <2>3
  <2> QED
    BY <2>1, <2>2, <2>4 DEF Checkpoints
<1>2. /\ 0 \in 0 .. MaxTime /\ 1 \in 1 .. MaxBuild
      /\ decider \in [about: Receipts \cup {NoReceipt}, runs: BOOLEAN, hindered: BOOLEAN]
  BY LifecycleAssumption DEF LifecycleAssumption
<1>5. TypeOK
  BY <1>1, <1>2 DEF TypeOK
<1>3. Made /\ Hindered /\ Replays /\ ServesItsRelease
  BY DEF Made, Hindered, NoWordLost, Replays, Rebuilds, ServesItsRelease
<1>4. checkpoint.subject.kind # "ticket"
  BY DEF Unnamed
<1> QED
  BY <1>3, <1>4, <1>5 DEF CaseInv

(* What a typed attestation consists of. *)
LEMMA AttestationParts ==
  ASSUME NEW a \in Attestations
  PROVE  /\ a.fact \in Facts \cup {Learned} /\ a.at \in 0 .. MaxTime
         /\ a.mutation \in Mutations \cup {NoMutation}
  BY DEF Attestations

(* A step that leaves the checkpoint, what stands on it and what is logged *)
(* alone, and makes no new attestation, disturbs nothing of these three.   *)
LEMMA CaseUntouched ==
  ASSUME CaseInv, UNCHANGED <<checkpoint, watched, serving, used>>
  PROVE  /\ Replays' /\ ServesItsRelease' /\ checkpoint'.subject.kind # "ticket"
         /\ checkpoint' \in Checkpoints
         /\ checkpoint'.subject.kind \in Kinds[checkpoint'.stage]
<1>1. Replays'
  <2>1. Replays
    BY DEF CaseInv
  <2> QED
    BY <2>1 DEF Replays, Rebuilds, ValidateFact, Fresh, ProducedBy, ForMutation
<1>2. ServesItsRelease'
  BY DEF CaseInv, ServesItsRelease
<1> QED
  BY <1>1, <1>2 DEF CaseInv, TypeOK

(* No transition asks for what a person says was learned. *)
LEMMA LearnedApart == Learned \notin Facts
<1>1. \A v \in DOMAIN Required : Learned \notin Required[v]
  BY SMTT(60) DEF Learned, Required
<1>2. \A r \in Rebinds : Learned \notin r.facts
  BY DEF Learned, Rebinds
<1>3. Learned \notin {"release.reopenConditionMet", "human.releaseReopened",
                     "release.reworkActionRecorded"}
  BY DEF Learned
<1>4. Learned \notin UNION {Required[v] : v \in DOMAIN Required}
  BY <1>1
<1>5. Learned \notin UNION {r.facts : r \in Rebinds}
  BY <1>2
<1> QED
  BY <1>3, <1>4, <1>5, Zenon DEF Facts

(* A person's or a tool's attestation; nothing stands on it yet. *)
LEMMA StepAttest ==
  ASSUME CaseInv,
         NEW fact \in Facts, NEW about \in {s \in Subjects : s.kind = "release"},
         NEW expires \in BOOLEAN, NEW mutation \in Mutations,
         Attest(fact, about, expires, mutation)
  PROVE  CaseInv'
<1> USE DEF Attest
<1>0. Learned \notin Facts
  BY LearnedApart
<1>1. TypeOK /\ life = "unmade" /\ used = NoUse /\ serving = FALSE /\ decider.runs = FALSE
  BY DEF CaseInv, TypeOK, Made
<1>2. watched' \in Attestations
  BY <1>1 DEF Attestations, TypeOK
<1>3. TypeOK'
  BY <1>1, <1>2 DEF TypeOK, learning
<1>4. Made'
  BY <1>1 DEF Made, learning
<1>5. Hindered'
  BY <1>0, <1>1 DEF Hindered, NoWordLost, learning
<1>6. Replays' /\ ServesItsRelease' /\ checkpoint'.subject.kind # "ticket"
  BY <1>1 DEF Replays, Rebuilds, ServesItsRelease, CaseInv
<1> QED
  BY <1>3, <1>4, <1>5, <1>6 DEF CaseInv

LEMMA StepAttach == ASSUME CaseInv, Attach PROVE CaseInv'
<1> USE DEF Attach
<1>1. /\ TypeOK /\ life = "made" /\ watched.fact # Learned /\ decider.runs = FALSE
      /\ watched \in Attestations
  BY DEF CaseInv, TypeOK, Made
<1>2. used' # NoUse => used' \in [when: 0 .. MaxTime, mutation: Mutations \cup {NoMutation}]
  BY <1>1 DEF Log, TypeOK
<1>3. TypeOK'
  BY <1>1, <1>2 DEF TypeOK, learning
<1>4. Made'
  BY <1>1 DEF Made, learning
<1>5. Hindered'
  BY <1>1 DEF Hindered, NoWordLost, learning
<1>6. Replays'
  BY <1>1 DEF CaseInv, Replays, Rebuilds, Log, ValidateFact, Fresh, ProducedBy, ForMutation
<1>7. ServesItsRelease' /\ checkpoint'.subject.kind # "ticket"
  BY DEF CaseInv, ServesItsRelease
<1> QED
  BY <1>3, <1>4, <1>5, <1>6, <1>7 DEF CaseInv

LEMMA StepConsume == ASSUME CaseInv, Consume PROVE CaseInv'
<1> USE DEF Consume
<1>1. TypeOK'
  BY DEF CaseInv, TypeOK, learning
<1>2. Made' /\ Hindered'
  BY DEF CaseInv, Made, Hindered, NoWordLost, learning
<1> QED
  BY <1>1, <1>2, CaseUntouched DEF CaseInv

(* A transition: judged against the checkpoint found, the facts expected   *)
(* of the subject the case will be about.                                  *)
LEMMA StepTransition ==
  ASSUME CaseInv, NEW to \in Checkpoints, Transition(to)
  PROVE  CaseInv'
<1> USE DEF Transition
<1>1. TypeOK /\ Made /\ Hindered /\ checkpoint \in Checkpoints
  BY DEF CaseInv, TypeOK
<1>2. checkpoint' \in Checkpoints /\ checkpoint'.subject.kind \in Kinds[checkpoint'.stage]
  BY DEF TransitionShape, ValidCheckpoint
<1>3. checkpoint'.subject.kind # "ticket"
  BY <1>1, NoTicket DEF CaseInv
<1>4. CASE WithOthers(to)
  <2>1. TypeOK'
    BY <1>1, <1>2, <1>4 DEF TypeOK, WithOthers, Keep, learning
  <2>2. Made' /\ Hindered'
    BY <1>1, <1>4 DEF Made, Hindered, NoWordLost, WithOthers, Keep, learning
  <2>3. Replays'
    BY <1>4 DEF CaseInv, Replays, Rebuilds, ValidateFact, Fresh, ProducedBy, ForMutation,
                WithOthers
  <2>4. ServesItsRelease'
    BY <1>4 DEF ServesItsRelease, WithOthers
  <2> QED
    BY <1>3, <2>1, <2>2, <2>3, <2>4 DEF CaseInv
<1>5. ASSUME NEW mutation \in Mutations \cup {NoMutation}, WithWatched(to, mutation)
      PROVE  CaseInv'
  <2>1. TypeOK'
    BY <1>1, <1>2, <1>5 DEF TypeOK, WithWatched, Log, Keep, learning
  <2>2. Made' /\ Hindered'
    BY <1>1, <1>5 DEF Made, Hindered, NoWordLost, WithWatched, Keep, learning
  <2>3. Replays'
    <3>1. Replays /\ ValidateFact(watched, clock, mutation, life = "spent", "CURRENT")
      BY <1>5 DEF CaseInv, WithWatched, Relied
    <3> QED
      BY <1>5, <3>1 DEF WithWatched, Replays, Rebuilds, Log, ValidateFact, Fresh,
                        ProducedBy, ForMutation
  <2>4. ServesItsRelease'
    BY <1>5 DEF ServesItsRelease, WithWatched, Relied, ExpectedSubject
  <2> QED
    BY <1>3, <2>1, <2>2, <2>3, <2>4 DEF CaseInv
<1> QED
  BY <1>4, <1>5

LEMMA StepDecide ==
  ASSUME CaseInv,
         NEW about \in {s \in Subjects : s.kind = "release"}, NEW receipt \in Receipts,
         NEW bound \in Receipts \cup {NoReceipt}, Decide(about, receipt, bound)
  PROVE  CaseInv'
<1> USE DEF Decide
<1>1. TypeOK /\ life = "unmade" /\ used = NoUse /\ serving = FALSE
  BY DEF CaseInv, TypeOK, Made
<1>2. watched' \in Attestations
  BY <1>1 DEF Attestations, TypeOK
<1>3. TypeOK'
  BY <1>1, <1>2 DEF TypeOK
<1>4. Made' /\ Hindered'
  BY <1>1 DEF Made, Hindered, NoWordLost
<1>5. Replays' /\ ServesItsRelease' /\ checkpoint'.subject.kind # "ticket"
  BY <1>1 DEF Replays, Rebuilds, ServesItsRelease, CaseInv
<1> QED
  BY <1>3, <1>4, <1>5 DEF CaseInv

(* The three events of `outcome decide`, its death and its repetition, and *)
(* the receipts that come in meanwhile.                                    *)
LEMMA StepLearning ==
  ASSUME CaseInv,
         \/ AddApproval \/ ConsumeApproval \/ RecordLearning \/ Dies \/ ConfirmAgain
         \/ \E receipt \in Receipts : Ingest(receipt)
  PROVE  CaseInv'
<1> USE DEF CaseInv, TypeOK, Made, Hindered, NoWordLost, learning
<1>1. CASE AddApproval
  BY <1>1, CaseUntouched DEF AddApproval
<1>2. CASE ConsumeApproval
  BY <1>2, CaseUntouched DEF ConsumeApproval
<1>3. CASE RecordLearning
  BY <1>3, CaseUntouched DEF RecordLearning
<1>4. CASE Dies
  BY <1>4, CaseUntouched DEF Dies
<1>5. CASE ConfirmAgain
  BY <1>5, CaseUntouched DEF ConfirmAgain
<1>6. CASE \E receipt \in Receipts : Ingest(receipt)
  BY <1>6, CaseUntouched DEF Ingest, Hinders
<1> QED
  BY <1>1, <1>2, <1>3, <1>4, <1>5, <1>6

(* Time and upgrades: whatever is judged again is judged at its own time   *)
(* and with its own digests.                                               *)
LEMMA StepWorld == ASSUME CaseInv, Tick \/ Upgrade PROVE CaseInv'
<1>1. UNCHANGED <<checkpoint, watched, life, serving, used, outcome, decider>>
  BY DEF Tick, Upgrade, learning
<1>2. clock' \in 0 .. MaxTime /\ build' \in 1 .. MaxBuild
  BY LifecycleAssumption DEF Tick, Upgrade, CaseInv, TypeOK, LifecycleAssumption
<1>3. TypeOK'
  BY <1>1, <1>2 DEF CaseInv, TypeOK
<1>4. Made' /\ Hindered'
  BY <1>1 DEF CaseInv, Made, Hindered, NoWordLost
<1> QED
  BY <1>1, <1>3, <1>4, CaseUntouched DEF CaseInv

LEMMA StepCase == CaseInv /\ [Next]_vars => CaseInv'
<1> SUFFICES ASSUME CaseInv, [Next]_vars PROVE CaseInv'
  OBVIOUS
<1>1. CASE UNCHANGED vars
  BY <1>1, CaseUntouched DEF vars, learning, CaseInv, TypeOK, Made, Hindered, NoWordLost
<1>2. CASE Next
  BY <1>2, StepAttest, StepAttach, StepConsume, StepTransition, StepDecide,
     StepLearning, StepWorld DEF Next
<1> QED
  BY <1>1, <1>2

LEMMA CaseInvariant == Spec => []CaseInv
  BY StartCase, StepCase, PTL DEF Spec
-----------------------------------------------------------------------------
(* The states of the self-check, in closed form: the search reaches all of *)
(* them in its first round, because ORIENT leads everywhere and knows      *)
(* every kind of subject.                                                  *)
Rounds == Cardinality(Stages)
FromOrient == {s \in LegalStates : s.stage = "ORIENT"}
Everywhere == [n \in 0 .. Rounds |-> IF n = 0 THEN FromOrient ELSE LegalStates]

LEMMA StagesCounted == Rounds \in Nat \ {0}
<1>1. IsFiniteSet(Stages)
  <2>1. Stages = {"ORIENT", "FRAME", "EVIDENCE", "COMMIT", "SPEC", "TICKETS",
                  "ADMISSION", "EXECUTION", "OUTCOME"}
    BY DEF Stages, Kinds
  <2>2. IsFiniteSet({"ORIENT"} \cup {"FRAME"} \cup {"EVIDENCE"} \cup {"COMMIT"}
                    \cup {"SPEC"} \cup {"TICKETS"} \cup {"ADMISSION"}
                    \cup {"EXECUTION"} \cup {"OUTCOME"})
    BY FS_Singleton, FS_Union
  <2> QED
    BY <2>1, <2>2
<1>2. Stages # {}
  BY DEF Stages, Kinds
<1> QED
  BY <1>1, <1>2, FS_CardinalityType, FS_EmptySet DEF Rounds

(* One round of the search, from any set of states that holds the first one. *)
LEMMA OneRound ==
  ASSUME NEW found, FromOrient \subseteq found, found \subseteq LegalStates
  PROVE  found \cup UNION {Successors(s) : s \in found} = LegalStates
<1>1. \A s \in found : Successors(s) \subseteq LegalStates
  BY DEF Successors
<1>2. ASSUME NEW next \in LegalStates
      PROVE  \E s \in found : next \in Successors(s)
  <2>1. PICK c \in Checkpoints : ValidCheckpoint(c) /\ next = Structure(c)
    BY DEF LegalStates
  <2> DEFINE start == [stage |-> "ORIENT", verdict |-> "ROUTED", subject |-> c.subject]
  <2>2. c.stage \in Stages /\ c.subject \in Subjects /\ c.subject.kind \in Kinds[c.stage]
    BY <2>1 DEF Checkpoints, ValidCheckpoint
  <2>3. /\ "ORIENT" \in Stages /\ Verdicts["ORIENT"] = {"ROUTED"} /\ Allowed["ORIENT"] = Stages
        /\ Kinds["ORIENT"] = {"none", "release", "ticket"}
    BY DEF Stages, Kinds, Verdicts, Allowed
  <2>4. c.subject.kind \in Kinds["ORIENT"]
    BY <2>2, <2>3 DEF Kinds, Stages
  <2>5. start \in Checkpoints /\ ValidCheckpoint(start)
    <3>1. "ROUTED" \in UNION {Verdicts[s] : s \in Stages}
      BY <2>3
    <3>2. start \in [stage: Stages, verdict: UNION {Verdicts[s] : s \in Stages},
                     subject: Subjects]
      BY <2>2, <2>3, <3>1
    <3> QED
      BY <2>3, <2>4, <3>2 DEF Checkpoints, ValidCheckpoint
  <2>6. Structure(start) \in found
    BY <2>5 DEF FromOrient, LegalStates, Structure
  <2>7. next \in Successors(Structure(start))
    BY <2>1, <2>2, <2>3 DEF Successors, Structure
  <2> QED
    BY <2>6, <2>7
<1> QED
  BY <1>1, <1>2

(* verifyProtocol reports as reachable exactly the states that are legal at *)
(* all: the search excludes nothing, tickets included, and that a case is   *)
(* never about a ticket is not something it could have found.               *)
THEOREM ReachableIsLegal == Reachable = LegalStates
<1> DEFINE Round(f, n) == IF n = 0 THEN {s \in LegalStates : s.stage = "ORIENT"}
                          ELSE f[n - 1] \cup UNION {Successors(s) : s \in f[n - 1]}
           Search(f) == f = [n \in 0 .. Rounds |-> Round(f, n)]
<1>1. Reached = CHOOSE f : Search(f)
  BY DEF Reached, Rounds
<1>2. ASSUME NEW n \in 0 .. Rounds, n # 0, NEW f,
             f[n - 1] \in {FromOrient, LegalStates}
      PROVE  Round(f, n) = LegalStates
  <2>1. FromOrient \subseteq f[n - 1] /\ f[n - 1] \subseteq LegalStates
    BY <1>2 DEF FromOrient
  <2> QED
    BY <1>2, <2>1, OneRound
<1>3. Search(Everywhere)
  <2>1. ASSUME NEW n \in 0 .. Rounds PROVE Everywhere[n] = Round(Everywhere, n)
    <3>1. CASE n = 0
      BY <3>1 DEF Everywhere, FromOrient
    <3>2. CASE n # 0
      <4>1. n - 1 \in 0 .. Rounds
        BY <3>2, StagesCounted
      <4>2. Everywhere[n - 1] \in {FromOrient, LegalStates}
        BY <4>1 DEF Everywhere
      <4>3. Round(Everywhere, n) = LegalStates
        BY <1>2, <3>2, <4>2
      <4> QED
        BY <3>2, <4>3 DEF Everywhere
    <3> QED
      BY <3>1, <3>2
  <2>2. Everywhere = [n \in 0 .. Rounds |-> Everywhere[n]]
    BY DEF Everywhere
  <2> QED
    BY <2>1, <2>2
<1>4. Search(Reached)
  BY <1>1, <1>3
<1>5. 0 \in 0 .. Rounds /\ Rounds \in 0 .. Rounds /\ Rounds # 0
  BY StagesCounted
<1>6. ASSUME NEW n \in 0 .. Rounds PROVE Reached[n] = Round(Reached, n)
  BY <1>4
<1> HIDE DEF Round, Search
<1>7. ASSUME NEW n \in 1 .. Rounds PROVE Reached[n] = LegalStates
  <2> DEFINE Bad == {m \in 1 .. Rounds : Reached[m] # LegalStates}
  <2> SUFFICES ASSUME Bad # {} PROVE FALSE
    OBVIOUS
  <2>1. PICK m \in Bad : \A k \in Bad : m <= k
    <3>1. Bad \in SUBSET Nat
      BY StagesCounted
    <3> QED
      BY <3>1, LeastNumber
  <2>2. m \in 0 .. Rounds /\ m # 0 /\ m - 1 \in 0 .. Rounds /\ m - 1 \notin Bad
    BY <2>1, StagesCounted
  <2>3. Reached[m - 1] \in {FromOrient, LegalStates}
    <3>1. CASE m = 1
      <4>1. Reached[0] = FromOrient
        BY <1>5, <1>6 DEF Round, FromOrient
      <4> QED
        BY <3>1, <4>1
    <3>2. CASE m # 1
      BY <2>2, <3>2, StagesCounted
    <3> QED
      BY <3>1, <3>2
  <2>4. Reached[m] = LegalStates
    BY <1>2, <1>6, <2>2, <2>3
  <2> QED
    BY <2>1, <2>4
<1>8. Rounds \in 1 .. Rounds
  BY StagesCounted
<1> QED
  BY <1>7, <1>8 DEF Reachable, Rounds

(* Type correctness, for every value of the constants. *)
THEOREM CaseTyping == Spec => []TypeOK
<1>1. CaseInv => TypeOK
  BY DEF CaseInv
<1> QED
  BY <1>1, CaseInvariant, PTL

(* Whatever expired, aged or was upgraded since, the event log is accepted  *)
(* again when the case is rebuilt from it (store.mjs rebuildFromEvents).    *)
THEOREM CaseReplays == Spec => []Replays
<1>1. CaseInv => Replays
  BY DEF CaseInv
<1> QED
  BY <1>1, CaseInvariant, PTL

(* What a case stands on was attested of the release it is about, and it is *)
(* about a named release once it is past framing (kernel.mjs).              *)
THEOREM StandsOnItsRelease == Spec => []AboutOneRelease
<1>1. CaseInv => AboutOneRelease
  <2> SUFFICES ASSUME CaseInv PROVE AboutOneRelease
    OBVIOUS
  <2>1. /\ checkpoint \in Checkpoints /\ checkpoint.subject.kind \in Kinds[checkpoint.stage]
        /\ checkpoint.stage \in Stages /\ checkpoint.verdict \in Verdicts[checkpoint.stage]
    BY DEF CaseInv, TypeOK, Checkpoints
  <2>2. Settled
    BY <2>1 DEF Settled, Unnamed, Kinds, Stages
  <2>3. Structure(checkpoint) \in Reachable
    BY <2>1, ReachableIsLegal DEF LegalStates, ValidCheckpoint
  <2> QED
    BY <2>2, <2>3 DEF CaseInv, AboutOneRelease, OnlyReleases
<1> QED
  BY <1>1, CaseInvariant, PTL

(* A person's word on what was learned is recorded once its approval is in  *)
(* the case, unless the command died or another receipt is the bound one.   *)
THEOREM WordIsKept == Spec => []NoWordLost
<1>1. CaseInv => NoWordLost
  BY DEF CaseInv, Hindered
<1> QED
  BY <1>1, CaseInvariant, PTL

-----------------------------------------------------------------------------
(* The walking skeleton.                                                   *)

\* Of the places of a chain that are left out, one is the last.
LEMMA LastPlace ==
    ASSUME NEW n \in Nat, NEW T \in SUBSET (1..n), T # {}
    PROVE  \E x \in T : \A y \in T : y <= x
<1> DEFINE D == {n - y : y \in T}
<1>1. D \in SUBSET Nat
  <2>1. \A y \in T : n - y \in Nat
    OBVIOUS
  <2> QED
    BY <2>1
<1>2. D # {}
  OBVIOUS
<1> HIDE DEF D
<1>3. PICK d \in D : \A e \in D : d <= e
  BY <1>1, <1>2, LeastNumber
<1>4. PICK x \in T : d = n - x
  BY <1>3 DEF D
<1>5. \A y \in T : n - x <= n - y
  BY <1>3, <1>4 DEF D
<1> QED
  BY <1>5

\* Every scenario that a chain meets, it meets first somewhere, and of any places
\* at which it meets some there is an earliest.
LEMMA Earliest ==
    ASSUME NEW M \in SUBSET (Nat \X Nat), M # {}
    PROVE  \E m \in M : \A n \in M : ~Earlier(n, m)
<1> DEFINE firsts == {m[1] : m \in M}
<1>1. firsts \in SUBSET Nat /\ firsts # {}
  OBVIOUS
<1> HIDE DEF firsts
<1>2. PICK i \in firsts : \A j \in firsts : i <= j
  BY <1>1, LeastNumber
<1> DEFINE seconds == {m[2] : m \in {n \in M : n[1] = i}}
<1>3. seconds \in SUBSET Nat /\ seconds # {}
  BY <1>2 DEF firsts
<1> HIDE DEF seconds
<1>4. PICK k \in seconds : \A j \in seconds : k <= j
  BY <1>3, LeastNumber
<1>5. PICK m \in M : m[1] = i /\ m[2] = k
  BY <1>4 DEF seconds
<1>6. ASSUME NEW n \in M, Earlier(n, m) PROVE FALSE
  <2>1. n[1] \in firsts /\ n[1] \in Nat /\ m[1] \in Nat /\ n[2] \in Nat /\ m[2] \in Nat
    BY DEF firsts
  <2>2. n[1] = i
    BY <1>2, <1>5, <1>6, <2>1 DEF Earlier
  <2>3. n[2] \in seconds
    BY <2>2 DEF seconds
  <2> QED
    BY <1>4, <1>5, <1>6, <2>1, <2>2, <2>3 DEF Earlier
<1> QED
  BY <1>5, <1>6

LEMMA SeqOfLength == ASSUME NEW S, NEW k \in Nat, NEW s \in [1..k -> S]
    PROVE s \in Seq(S) /\ Len(s) = k /\ DOMAIN s = 1..k
OBVIOUS

LEMMA GraphShape == ASSUME NEW g \in Graph
    PROVE  /\ g.skeleton \in Seq(Child) /\ Len(g.skeleton) \in Nat
           /\ DOMAIN g.skeleton = 1..Len(g.skeleton)
           /\ \A i \in DOMAIN g.skeleton : g.skeleton[i] \in Child
           /\ \A c \in Child :
                 /\ g.covers[c] \in Seq(Scenario) /\ DOMAIN g.covers[c] = 1..Len(g.covers[c])
                 /\ \A k \in DOMAIN g.covers[c] : g.covers[c][k] \in Scenario
           /\ g.blockedBy \in [Child -> SUBSET Child]
<1>1. N \in Nat
  BY GraphAssumption
<1>2. PICK n \in 0..N : g.skeleton \in [1..n -> Child]
  BY DEF Graph
<1>3. \A c \in Child : \E k \in 0..2 : g.covers[c] \in [1..k -> Scenario]
  BY DEF Graph
<1>4. \A c \in Child :
         /\ g.covers[c] \in Seq(Scenario) /\ DOMAIN g.covers[c] = 1..Len(g.covers[c])
         /\ \A k \in DOMAIN g.covers[c] : g.covers[c][k] \in Scenario
  <2> SUFFICES ASSUME NEW c \in Child
               PROVE  /\ g.covers[c] \in Seq(Scenario) /\ DOMAIN g.covers[c] = 1..Len(g.covers[c])
                      /\ \A k \in DOMAIN g.covers[c] : g.covers[c][k] \in Scenario
    OBVIOUS
  <2>1. PICK k \in 0..2 : g.covers[c] \in [1..k -> Scenario]
    BY <1>3
  <2> QED
    BY <2>1, SeqOfLength
<1>5. /\ g.skeleton \in Seq(Child) /\ Len(g.skeleton) \in Nat
      /\ DOMAIN g.skeleton = 1..Len(g.skeleton)
      /\ \A i \in DOMAIN g.skeleton : g.skeleton[i] \in Child
  BY <1>1, <1>2, SeqOfLength
<1>6. g.blockedBy \in [Child -> SUBSET Child]
  BY DEF Graph
<1> QED
  BY <1>4, <1>5, <1>6

\* What is met: a place, and one among the scenarios of the ticket there.
LEMMA MetShape == ASSUME NEW g \in Graph, NEW places \in SUBSET DOMAIN g.skeleton
    PROVE  /\ Met(g, places) \in SUBSET (Nat \X Nat)
           /\ \A m \in Met(g, places) : m[1] \in places /\ Named(g, m) \in Scenario
           /\ \A i \in places, s \in Scenario :
                 Contains(g.covers[g.skeleton[i]], s)
                   => \E m \in Met(g, places) : m[1] = i /\ Named(g, m) = s
<1>1. \A m \in Met(g, places) :
         /\ m[1] \in places /\ m[1] \in Nat
         /\ m[2] \in DOMAIN g.covers[g.skeleton[m[1]]] /\ m[2] \in Nat
         /\ m = <<m[1], m[2]>>
  BY GraphShape DEF Met
<1>2. \A m \in Met(g, places) : Named(g, m) \in Scenario
  BY <1>1, GraphShape DEF Named
<1>3. ASSUME NEW i \in places, NEW s \in Scenario, Contains(g.covers[g.skeleton[i]], s)
      PROVE  \E m \in Met(g, places) : m[1] = i /\ Named(g, m) = s
  <2>1. PICK k \in DOMAIN g.covers[g.skeleton[i]] : g.covers[g.skeleton[i]][k] = s
    BY <1>3, GraphShape DEF Contains
  <2>2. <<i, k>> \in Met(g, places)
    BY <2>1 DEF Met
  <2> QED
    BY <2>1, <2>2 DEF Named
<1> QED
  BY <1>1, <1>2, <1>3

\* The walking skeleton closes the loop: of the scenarios that were not built, the
\* one that it meets first stands on built ones, and so is built.
LEMMA ClosesLoop ==
    ASSUME NEW g \in Graph, validateWalkingSkeleton(g, DOMAIN g.skeleton),
           NEW over, ToSet(g.skeleton) \subseteq over,
           NEW set \in SUBSET Scenario,
           \A s \in Scenario :
              /\ Entry[s] \in set \cup {External}
              /\ \E c \in over \ g.enabler : Contains(g.covers[c], s)
              => s \in set
    PROVE  Smallest \subseteq set
<1> DEFINE places == DOMAIN g.skeleton
           open == {m \in Met(g, places) : Named(g, m) \in Smallest \ set}
<1> SUFFICES ASSUME NEW s \in Smallest, s \notin set PROVE FALSE
  OBVIOUS
<1>1. Smallest \subseteq Scenario
  BY GraphAssumption
<1>2. \A t \in Smallest : \E i \in places :
         g.skeleton[i] \notin g.enabler /\ Contains(g.covers[g.skeleton[i]], t)
  BY DEF validateWalkingSkeleton
<1>3. \A i \in places : g.skeleton[i] \in over
  BY GraphShape DEF ToSet
<1>4. \A t \in Smallest : Entry[t] \in set \cup {External} => t \in set
  BY <1>1, <1>2, <1>3
<1>5. \E m \in Met(g, places) : Named(g, m) = s
  BY <1>1, <1>2, MetShape
<1>6. open \in SUBSET (Nat \X Nat) /\ open # {}
  BY <1>5, MetShape
<1> HIDE DEF open
<1>7. PICK m \in open : \A n \in open : ~Earlier(n, m)
  BY <1>6, Earliest
<1>8. m \in Met(g, places) /\ Named(g, m) \in Smallest /\ Named(g, m) \notin set
  BY <1>7 DEF open
<1>9. Handoffs(g, places)
  BY DEF validateWalkingSkeleton
<1>10. \/ Entry[Named(g, m)] = External
       \/ \E n \in Met(g, places) :
             /\ Earlier(n, m)
             /\ \/ Named(g, n) = Named(g, m)
                \/ Named(g, n) = Entry[Named(g, m)] /\ Named(g, n) \in Smallest
  BY <1>8, <1>9 DEF Handoffs
<1>11. Entry[Named(g, m)] # External
  BY <1>4, <1>8
<1>12. PICK n \in Met(g, places) :
          /\ Earlier(n, m)
          /\ \/ Named(g, n) = Named(g, m)
             \/ Named(g, n) = Entry[Named(g, m)] /\ Named(g, n) \in Smallest
  BY <1>10, <1>11
<1>13. n \notin open
  BY <1>7, <1>12
<1>14. Named(g, n) = Entry[Named(g, m)] /\ Named(g, n) \in set
  BY <1>8, <1>12, <1>13 DEF open
<1> QED
  BY <1>4, <1>8, <1>14

\* One ticket at a time is enough: of a chain that holds without some tickets, the
\* last of them can be taken away alone.
LEMMA OneIsEnough ==
    ASSUME NEW g \in Graph, validateWalkingSkeleton(g, DOMAIN g.skeleton),
           NEW part \in SUBSET DOMAIN g.skeleton, part # DOMAIN g.skeleton,
           validateWalkingSkeleton(g, part)
    PROVE  /\ Len(g.skeleton) > 1
           /\ \E i \in DOMAIN g.skeleton : validateWalkingSkeleton(g, DOMAIN g.skeleton \ {i})
<1> DEFINE places == DOMAIN g.skeleton
<1>1. places = 1..Len(g.skeleton) /\ Len(g.skeleton) \in Nat /\ part \subseteq places
  BY GraphShape
<1> HIDE DEF places
<1>2. part # {} /\ places \ part # {} /\ places \ part \in SUBSET (1..Len(g.skeleton))
  BY <1>1 DEF validateWalkingSkeleton, places
<1>3. PICK i \in places \ part : \A j \in places \ part : j <= i
  BY <1>1, <1>2, LastPlace
<1> DEFINE rest == places \ {i}
<1>4. part \subseteq rest /\ rest # {} /\ rest \subseteq places /\ Len(g.skeleton) > 1
  BY <1>1, <1>2, <1>3
<1>5. \A j \in rest : i < j => j \in part
  BY <1>1, <1>3
<1>6. Ordered(g, places) /\ Handoffs(g, places) /\ Ordered(g, part) /\ Handoffs(g, part)
  BY DEF validateWalkingSkeleton, places
<1>7. Ordered(g, rest)
  <2>1. ASSUME NEW j \in rest, NEW b \in g.blockedBy[g.skeleton[j]]
        PROVE  \E k \in rest : k < j /\ g.skeleton[k] = b
    <3>1. CASE j \in part
      BY <1>4, <1>6, <3>1 DEF Ordered
    <3>2. CASE j \notin part
      <4>1. j < i
        BY <1>1, <1>3, <1>4, <3>2
      <4>2. PICK k \in places : k < j /\ g.skeleton[k] = b
        BY <1>4, <1>6 DEF Ordered
      <4> QED
        BY <1>1, <4>1, <4>2
    <3> QED
      BY <3>1, <3>2
  <2> QED
    BY <1>4, <1>6, <2>1 DEF Ordered
<1> HIDE DEF rest
<1>8. \A m \in Met(g, rest) : m \in Met(g, places) /\ m[1] \in rest
  BY <1>4, MetShape DEF Met, places
<1>9. \A m \in Met(g, places) : m[1] \in rest => m \in Met(g, rest)
  BY DEF Met
<1>10. Met(g, part) \subseteq Met(g, rest)
  BY <1>4 DEF Met
<1>11. \A m \in Met(g, places) : m[1] \in part => m \in Met(g, part)
  BY DEF Met
<1>12. Handoffs(g, rest)
  <2> SUFFICES ASSUME NEW m \in Met(g, rest)
               PROVE  \/ Named(g, m) \notin Smallest \/ Entry[Named(g, m)] = External
                      \/ \E n \in Met(g, rest) :
                            /\ Earlier(n, m)
                            /\ \/ Named(g, n) = Named(g, m)
                               \/ Named(g, n) = Entry[Named(g, m)] /\ Named(g, n) \in Smallest
    BY DEF Handoffs
  <2>1. CASE m[1] \in part
    <3>1. m \in Met(g, part)
      BY <1>8, <1>11, <2>1
    <3> QED
      BY <1>6, <1>10, <3>1 DEF Handoffs
  <2>2. CASE m[1] \notin part
    <3>1. m \in Met(g, places) /\ m[1] \in rest /\ m[1] < i /\ m[1] \in Nat
      <4>1. m \in Met(g, places) /\ m[1] \in rest /\ m[1] \in places \ part /\ m[1] # i
        BY <1>8, <2>2 DEF rest
      <4>2. m[1] <= i /\ m[1] \in Nat /\ i \in Nat
        BY <1>1, <1>3, <4>1
      <4> QED
        BY <4>1, <4>2
    <3>2. ASSUME NEW n \in Met(g, places), Earlier(n, m) PROVE n \in Met(g, rest)
      <4>1. n[1] \in places /\ n[1] \in Nat
        BY <1>1, MetShape DEF places
      <4>2. n[1] # i
        BY <1>1, <3>1, <3>2, <4>1 DEF Earlier
      <4> QED
        BY <1>9, <4>1, <4>2 DEF rest
    <3> QED
      BY <1>6, <3>1, <3>2 DEF Handoffs
  <2> QED
    BY <2>1, <2>2
<1>13. validateWalkingSkeleton(g, rest)
  BY <1>4, <1>7, <1>12 DEF validateWalkingSkeleton
<1> QED
  BY <1>3, <1>4, <1>13 DEF rest, places

\* So an accepted skeleton is a smallest one.
LEMMA Smaller ==
    ASSUME NEW g \in Graph, Skeleton(g),
           NEW part \in SUBSET DOMAIN g.skeleton, part # DOMAIN g.skeleton
    PROVE  ~validateWalkingSkeleton(g, part)
BY OneIsEnough DEF Skeleton

-----------------------------------------------------------------------------
(* The search for a cycle.  It is a recursive function on a finite set, and *)
(* what it computes follows the number of tickets not met yet, and then the *)
(* number of those still to visit: both steps of a visit make it smaller.   *)

\* One call of visit, with f for the calls it makes: what the call for the next
\* ticket comes back with, and the rest of the tickets.
Back(g, f, st) ==
    LET c  == CHOOSE x \in st.todo : TRUE
        in == f[[st EXCEPT !.todo = g.blockedBy[c] \ {c}, !.visiting = @ \cup {c}]]
    IN  IF c \in st.visiting THEN [st EXCEPT !.cycle = TRUE]
        ELSE IF c \in st.visited THEN st
        ELSE IF in.cycle THEN in
        ELSE [in EXCEPT !.visiting = @ \ {c}, !.visited = @ \cup {c}]

Visit(g, f, st) ==
    LET c == CHOOSE x \in st.todo : TRUE
    IN  IF st.todo = {} \/ st.cycle THEN st
        ELSE f[[Back(g, f, st) EXCEPT !.todo = st.todo \ {c}]]

Visits(g, f) == f = [st \in Walk |-> Visit(g, f, st)]

\* The search is such a function.
LEMMA SearchIs == ASSUME NEW g
    PROVE  findDependencyCycle(g) = (CHOOSE f : Visits(g, f))[Outset].cycle
BY DEF findDependencyCycle, Visits, Visit, Back

Trod(st) == st.visiting \cup st.visited

Rank(st) == (N - Cardinality(Trod(st))) * (N + 1) + Cardinality(st.todo)

\* Tickets each of which is blocked by another of them.
Loop(g, set) == set # {} /\ \A c \in set : set \cap (g.blockedBy[c] \ {c}) # {}

LoopIn(g, set) == \E loop \in SUBSET set : Loop(g, loop)

\* What blocks a ticket that was left was left too, and there is no loop among these.
Clear(g, set) == (\A c \in set : g.blockedBy[c] \ {c} \subseteq set) /\ ~LoopIn(g, set)

\* The tickets on the path are blocked one by the next, the last by those to visit.
OnPath(g, st) ==
    \/ st.visiting = {}
    \/ \E last \in st.visiting :
          /\ st.todo \subseteq g.blockedBy[last] \ {last}
          /\ \A c \in st.visiting \ {last} : st.visiting \cap (g.blockedBy[c] \ {c}) # {}

Begun(g, st) == ~st.cycle /\ st.visiting \cap st.visited = {} /\ Clear(g, st.visited) /\ OnPath(g, st)

Ended(g, st, r) ==
    IF r.cycle THEN LoopIn(g, Child)
    ELSE /\ r.visiting = st.visiting /\ st.visited \cup st.todo \subseteq r.visited
         /\ r.visiting \cap r.visited = {} /\ Clear(g, r.visited)

\* What a visit may come back with.
Fair(g, st, r) ==
    /\ r \in Walk /\ Trod(st) \subseteq Trod(r)
    /\ st.cycle => r = st
    /\ Begun(g, st) => Ended(g, st, r)

\* The tickets are finitely many.
LEMMA ChildFinite == ASSUME GraphAssumption PROVE IsFiniteSet(Child) /\ Cardinality(Child) = N
<1>1. N \in Nat
  BY DEF GraphAssumption
<1> QED
  BY <1>1, FS_Interval DEF Child

\* The rank of a search is a number, and there is a greatest.
LEMMA RankType == ASSUME GraphAssumption, NEW st \in Walk
    PROVE  /\ Rank(st) \in Nat /\ Rank(st) <= N * (N + 1) + N
           /\ Cardinality(Trod(st)) \in 0..N /\ Cardinality(st.todo) \in 0..N
           /\ IsFiniteSet(Trod(st)) /\ IsFiniteSet(st.todo)
<1>1. N \in Nat
  BY DEF GraphAssumption
<1>2. Trod(st) \subseteq Child /\ st.todo \subseteq Child
  BY DEF Walk, Trod
<1>3. /\ IsFiniteSet(Trod(st)) /\ Cardinality(Trod(st)) <= N /\ Cardinality(Trod(st)) \in Nat
      /\ IsFiniteSet(st.todo) /\ Cardinality(st.todo) <= N /\ Cardinality(st.todo) \in Nat
  BY <1>2, ChildFinite, FS_Subset, FS_CardinalityType
<1> DEFINE u == Cardinality(Trod(st))
<1> DEFINE t == Cardinality(st.todo)
<1>4. u \in Nat /\ t \in Nat /\ u <= N /\ t <= N
  BY <1>3
<1>5. Rank(st) = (N - u) * (N + 1) + t
  BY DEF Rank
<1> HIDE DEF u, t
<1>6. (N - u) * (N + 1) \in Nat /\ (N - u) * (N + 1) <= N * (N + 1)
  <2>1. N - u \in Nat /\ N + 1 \in Nat /\ N - u <= N
    BY <1>1, <1>4
  <2>2. \A a, b, m \in Nat : a <= b => a * m \in Nat /\ a * m <= b * m
    OBVIOUS
  <2> QED
    BY <1>1, <2>1, <2>2
<1>7. N * (N + 1) \in Nat
  BY <1>1
<1>8. Rank(st) \in Nat /\ Rank(st) <= N * (N + 1) + N
  BY <1>1, <1>4, <1>5, <1>6, <1>7
<1> QED
  BY <1>3, <1>8

\* A ticket more was met, or one less is to be visited.
LEMMA RankFalls ==
    ASSUME GraphAssumption, NEW st \in Walk, NEW a \in Walk, Trod(st) \subseteq Trod(a),
           Trod(a) # Trod(st) \/ (a.todo \subseteq st.todo /\ a.todo # st.todo)
    PROVE  Rank(a) < Rank(st)
<1>1. N \in Nat
  BY DEF GraphAssumption
<1> DEFINE u == Cardinality(Trod(st))
<1> DEFINE t == Cardinality(st.todo)
<1> DEFINE v == Cardinality(Trod(a))
<1> DEFINE w == Cardinality(a.todo)
<1>2. u \in 0..N /\ t \in 0..N /\ v \in 0..N /\ w \in 0..N
  BY RankType
<1>3. u <= v /\ (Trod(a) # Trod(st) => u < v)
  BY RankType, FS_Subset
<1>4. Trod(a) = Trod(st) => u = v /\ w < t
  BY RankType, FS_Subset
<1>5. Rank(st) = (N - u) * (N + 1) + t /\ Rank(a) = (N - v) * (N + 1) + w
  BY DEF Rank
<1> HIDE DEF u, t, v, w
<1>6. CASE u < v
  <2>1. N - u \in Nat /\ N - v \in Nat /\ N + 1 \in Nat /\ (N - v) + 1 <= N - u
    BY <1>1, <1>2, <1>6
  <2>2. \A x, y, m \in Nat : x + 1 <= y => x * m + m <= y * m /\ x * m \in Nat /\ y * m \in Nat
    OBVIOUS
  <2>3. (N - v) * (N + 1) + (N + 1) <= (N - u) * (N + 1) /\ (N - v) * (N + 1) \in Nat /\ (N - u) * (N + 1) \in Nat
    BY <2>1, <2>2
  <2> QED
    BY <1>1, <1>2, <1>5, <2>3
<1>7. CASE u = v /\ w < t
  <2>1. (N - u) * (N + 1) \in Int
    BY <1>1, <1>2
  <2> QED
    BY <1>2, <1>5, <1>7, <2>1
<1> QED
  BY <1>3, <1>4, <1>6, <1>7

\* A ticket whose blockers were all left, and that was not, is on no loop of those left.
LEMMA ClearMore ==
    ASSUME NEW g, NEW set, Clear(g, set), NEW c, c \notin set, g.blockedBy[c] \ {c} \subseteq set
    PROVE  Clear(g, set \cup {c})
<1>1. ASSUME NEW loop \in SUBSET (set \cup {c}), Loop(g, loop)
      PROVE  FALSE
  <2> DEFINE rest == loop \ {c}
  <2>1. rest \subseteq set
    OBVIOUS
  <2>2. rest # {}
    <3>1. PICK d \in loop : TRUE
      BY <1>1 DEF Loop
    <3>2. PICK e \in loop : e \in g.blockedBy[d] \ {d}
      BY <1>1 DEF Loop
    <3>3. CASE d # c
      BY <3>3
    <3>4. CASE d = c
      BY <3>2, <3>4
    <3> QED
      BY <3>3, <3>4
  <2>3. ASSUME NEW d \in rest PROVE rest \cap (g.blockedBy[d] \ {d}) # {}
    <3>1. PICK e \in loop : e \in g.blockedBy[d] \ {d}
      BY <1>1 DEF Loop
    <3>2. e \in set
      BY <2>1, <3>1 DEF Clear
    <3> QED
      BY <3>1, <3>2
  <2>4. Loop(g, rest)
    BY <2>2, <2>3 DEF Loop
  <2> QED
    BY <2>1, <2>4 DEF Clear, LoopIn
<1>2. \A d \in set \cup {c} : g.blockedBy[d] \ {d} \subseteq set \cup {c}
  BY DEF Clear
<1> QED
  BY <1>1, <1>2 DEF Clear, LoopIn

\* A visit whose own calls come back with what they should does so too; and of f it
\* uses what f makes of lower ranks only.
LEMMA VisitIs ==
    ASSUME GraphAssumption, NEW g \in Graph, NEW st \in Walk, NEW f,
           \A a \in Walk : Rank(a) < Rank(st) => Fair(g, a, f[a])
    PROVE  /\ Fair(g, st, Visit(g, f, st))
           /\ \A h : (\A a \in Walk : Rank(a) < Rank(st) => h[a] = f[a])
                        => Visit(g, h, st) = Visit(g, f, st)
<1>1. CASE st.todo = {} \/ st.cycle
  <2>1. \A h : Visit(g, h, st) = st
    BY <1>1 DEF Visit
  <2>2. Begun(g, st) => Ended(g, st, st)
    BY <1>1 DEF Begun, Ended
  <2> QED
    BY <2>1, <2>2 DEF Fair
<1>2. CASE st.todo # {} /\ ~st.cycle
  <2> DEFINE c == CHOOSE x \in st.todo : TRUE
  <2> DEFINE a1 == [st EXCEPT !.todo = g.blockedBy[c] \ {c}, !.visiting = @ \cup {c}]
  <2> DEFINE b == Back(g, f, st)
  <2> DEFINE a2 == [b EXCEPT !.todo = st.todo \ {c}]
  <2>1. c \in st.todo
    BY <1>2
  <2>2. /\ st.todo \subseteq Child /\ st.visiting \subseteq Child /\ st.visited \subseteq Child
        /\ c \in Child /\ g.blockedBy[c] \subseteq Child /\ st.cycle = FALSE
    BY <1>2, <2>1 DEF Walk, Graph
  <2>3. /\ a1 \in Walk /\ a1.todo = g.blockedBy[c] \ {c} /\ a1.visiting = st.visiting \cup {c}
        /\ a1.visited = st.visited /\ a1.cycle = FALSE
    BY <2>2 DEF Walk
  <2>4. b = IF c \in st.visiting THEN [st EXCEPT !.cycle = TRUE]
            ELSE IF c \in st.visited THEN st
            ELSE IF f[a1].cycle THEN f[a1]
            ELSE [f[a1] EXCEPT !.visiting = @ \ {c}, !.visited = @ \cup {c}]
    BY DEF Back
  <2>5. Visit(g, f, st) = f[a2]
    BY <1>2 DEF Visit
  <2> DEFINE New == c \notin st.visiting /\ c \notin st.visited
  <2>6. ASSUME New PROVE Rank(a1) < Rank(st) /\ Fair(g, a1, f[a1])
    <3>1. Trod(st) \subseteq Trod(a1) /\ Trod(a1) # Trod(st)
      BY <2>3, <2>6 DEF Trod
    <3>2. Rank(a1) < Rank(st)
      BY <2>3, <3>1, RankFalls
    <3> QED
      BY <2>3, <3>2
  <2>7. \A h : (\A a \in Walk : Rank(a) < Rank(st) => h[a] = f[a]) => Back(g, h, st) = b
    <3> SUFFICES ASSUME NEW h, \A a \in Walk : Rank(a) < Rank(st) => h[a] = f[a]
                 PROVE  Back(g, h, st) = b
      OBVIOUS
    <3>1. Back(g, h, st) = IF c \in st.visiting THEN [st EXCEPT !.cycle = TRUE]
            ELSE IF c \in st.visited THEN st
            ELSE IF h[a1].cycle THEN h[a1]
            ELSE [h[a1] EXCEPT !.visiting = @ \ {c}, !.visited = @ \cup {c}]
      BY DEF Back
    <3>2. New => h[a1] = f[a1]
      BY <2>3, <2>6
    <3> HIDE DEF c, a1, b
    <3> QED
      BY <2>4, <3>1, <3>2
  <2> HIDE DEF c, a1, b
  \* the path goes on with the next ticket
  <2>n. New /\ Begun(g, st) => Begun(g, a1)
    <3> SUFFICES ASSUME New, Begun(g, st) PROVE Begun(g, a1)
      OBVIOUS
    <3>1. OnPath(g, a1)
      <4>1. a1.todo \subseteq g.blockedBy[c] \ {c}
        BY <2>3
      <4>2. ASSUME NEW v \in a1.visiting \ {c}
            PROVE  a1.visiting \cap (g.blockedBy[v] \ {v}) # {}
        <5>1. v \in st.visiting
          BY <2>3, <4>2
        <5>2. PICK last \in st.visiting :
                 /\ st.todo \subseteq g.blockedBy[last] \ {last}
                 /\ \A d \in st.visiting \ {last} : st.visiting \cap (g.blockedBy[d] \ {d}) # {}
          BY <5>1 DEF Begun, OnPath
        <5>3. c \in g.blockedBy[last] \ {last}
          BY <2>1, <5>2
        <5> QED
          BY <2>3, <5>1, <5>2, <5>3
      <4> QED
        BY <2>3, <4>1, <4>2 DEF OnPath
    <3> QED
      BY <2>3, <3>1 DEF Begun
  \* what the call for the next ticket comes back with
  <2>8. ASSUME c \in st.visiting
        PROVE  a2 \in Walk /\ Rank(a2) < Rank(st) /\ Fair(g, st, f[a2])
    <3>1. b = [st EXCEPT !.cycle = TRUE]
      BY <2>4, <2>8
    <3>2. b \in Walk /\ b.visiting = st.visiting /\ b.visited = st.visited /\ b.cycle = TRUE
      BY <3>1 DEF Walk
    <3>3. Begun(g, st) => Loop(g, st.visiting)
      <4> SUFFICES ASSUME Begun(g, st), NEW v \in st.visiting
                   PROVE  st.visiting \cap (g.blockedBy[v] \ {v}) # {}
        BY <2>8 DEF Loop
      <4>1. PICK last \in st.visiting :
               /\ st.todo \subseteq g.blockedBy[last] \ {last}
               /\ \A d \in st.visiting \ {last} : st.visiting \cap (g.blockedBy[d] \ {d}) # {}
        BY DEF Begun, OnPath
      <4>2. c \in st.visiting \cap (g.blockedBy[last] \ {last})
        BY <2>1, <2>8, <4>1
      <4> QED
        BY <4>1, <4>2
    <3>4. Begun(g, st) => LoopIn(g, Child)
      BY <2>2, <3>3 DEF LoopIn
    <3>5. a2 \in Walk /\ a2.todo = st.todo \ {c} /\ a2.visiting = st.visiting /\ a2.visited = st.visited /\ a2.cycle = TRUE
      BY <2>2, <3>2 DEF Walk
    <3>6. Rank(a2) < Rank(st)
      BY <2>1, <3>5, RankFalls DEF Trod
    <3> HIDE DEF a2
    <3>7. Fair(g, a2, f[a2])
      BY <3>5, <3>6
    <3>8. f[a2] = a2
      BY <3>5, <3>7 DEF Fair
    <3>9. Fair(g, st, f[a2])
      BY <1>2, <3>4, <3>5, <3>8 DEF Fair, Ended, Trod
    <3> QED
      BY <3>5, <3>6, <3>9
  <2>9. ASSUME c \in st.visited /\ c \notin st.visiting
        PROVE  a2 \in Walk /\ Rank(a2) < Rank(st) /\ Fair(g, st, f[a2])
    <3>1. b = st
      BY <2>4, <2>9
    <3>2. /\ a2 \in Walk /\ a2.todo = st.todo \ {c} /\ a2.visiting = st.visiting
          /\ a2.visited = st.visited /\ a2.cycle = FALSE
      BY <2>2, <3>1 DEF Walk, a2
    <3>3. Rank(a2) < Rank(st)
      BY <2>1, <3>2, RankFalls DEF Trod
    <3>4. Begun(g, st) => Begun(g, a2)
      BY <3>2 DEF Begun, OnPath
    <3> HIDE DEF a2
    <3>5. Fair(g, a2, f[a2])
      BY <3>2, <3>3
    <3>6. Begun(g, st) => Ended(g, st, f[a2])
      BY <2>9, <3>2, <3>4, <3>5 DEF Fair, Ended
    <3>7. Fair(g, st, f[a2])
      BY <1>2, <3>2, <3>5, <3>6 DEF Fair, Trod
    <3> QED
      BY <3>2, <3>3, <3>7
  <2>10. ASSUME New /\ f[a1].cycle
        PROVE  a2 \in Walk /\ Rank(a2) < Rank(st) /\ Fair(g, st, f[a2])
    <3>1. b = f[a1]
      BY <2>4, <2>10
    <3>2. f[a1] \in Walk /\ Trod(a1) \subseteq Trod(f[a1]) /\ (Begun(g, a1) => LoopIn(g, Child))
      BY <2>6, <2>10 DEF Fair, Ended
    <3>3. /\ a2 \in Walk /\ a2.todo = st.todo \ {c} /\ a2.visiting = f[a1].visiting
          /\ a2.visited = f[a1].visited /\ a2.cycle
      BY <2>2, <2>10, <3>1, <3>2 DEF Walk, a2
    <3>4. Trod(st) \subseteq Trod(a2) /\ Trod(a2) # Trod(st)
      BY <2>3, <2>10, <3>2, <3>3 DEF Trod
    <3>5. Rank(a2) < Rank(st)
      BY <3>3, <3>4, RankFalls
    <3> HIDE DEF a2
    <3>6. Fair(g, a2, f[a2])
      BY <3>3, <3>5
    <3>7. f[a2] = a2
      BY <3>3, <3>6 DEF Fair
    <3>8. Begun(g, st) => Ended(g, st, a2)
      BY <2>n, <2>10, <3>2, <3>3 DEF Ended
    <3>9. Fair(g, st, f[a2])
      BY <1>2, <3>3, <3>4, <3>7, <3>8 DEF Fair
    <3> QED
      BY <3>3, <3>5, <3>9
  <2>11. ASSUME New /\ ~f[a1].cycle
        PROVE  a2 \in Walk /\ Rank(a2) < Rank(st) /\ Fair(g, st, f[a2])
    <3> DEFINE in == f[a1]
    <3>1. b = [in EXCEPT !.visiting = @ \ {c}, !.visited = @ \cup {c}]
      BY <2>4, <2>11
    <3>2. in \in Walk /\ Trod(a1) \subseteq Trod(in) /\ in.cycle = FALSE /\ (Begun(g, a1) => Ended(g, a1, in))
      BY <2>6, <2>11 DEF Fair, Walk
    <3> HIDE DEF in
    <3>3. /\ a2 \in Walk /\ a2.todo = st.todo \ {c} /\ a2.visiting = in.visiting \ {c}
          /\ a2.visited = in.visited \cup {c} /\ a2.cycle = FALSE
      <4>1. /\ b \in Walk /\ b.visiting = in.visiting \ {c} /\ b.visited = in.visited \cup {c}
            /\ b.cycle = FALSE
        BY <2>2, <3>1, <3>2 DEF Walk
      <4> QED
        BY <2>2, <4>1 DEF Walk, a2
    <3>4. Trod(st) \subseteq Trod(a2) /\ Trod(a2) # Trod(st)
      BY <2>3, <2>11, <3>2, <3>3 DEF Trod
    <3> HIDE DEF a2
    <3>5. Rank(a2) < Rank(st)
      BY <3>3, <3>4, RankFalls
    <3>6. ASSUME Begun(g, st)
          PROVE  Begun(g, a2) /\ st.visited \cup {c} \subseteq a2.visited /\ a2.visiting = st.visiting
      <4>1. Ended(g, a1, in)
        BY <2>n, <2>11, <3>2, <3>6
      <4>2. /\ in.visiting = st.visiting \cup {c} /\ st.visited \cup (g.blockedBy[c] \ {c}) \subseteq in.visited
            /\ in.visiting \cap in.visited = {} /\ Clear(g, in.visited)
        BY <2>3, <3>2, <4>1 DEF Ended
      <4>3. Clear(g, a2.visited)
        BY <3>3, <4>2, ClearMore
      <4>4. a2.visiting = st.visiting /\ a2.visiting \cap a2.visited = {}
        <5>1. in.visiting \ {c} = st.visiting
          BY <2>11, <4>2
        <5>2. st.visiting \cap (in.visited \cup {c}) = {}
          BY <2>11, <4>2
        <5> QED
          BY <3>3, <5>1, <5>2
      <4>5. OnPath(g, a2)
        BY <3>3, <3>6, <4>4 DEF Begun, OnPath
      <4> QED
        BY <3>3, <4>2, <4>3, <4>4, <4>5 DEF Begun
    <3>7. Fair(g, a2, f[a2])
      BY <3>3, <3>5
    <3>8. Begun(g, st) => Ended(g, st, f[a2])
      BY <2>1, <3>3, <3>6, <3>7 DEF Fair, Ended
    <3>9. Fair(g, st, f[a2])
      BY <1>2, <3>4, <3>7, <3>8 DEF Fair
    <3> QED
      BY <3>3, <3>5, <3>9
  <2> HIDE DEF a2
  <2>12. a2 \in Walk /\ Rank(a2) < Rank(st) /\ Fair(g, st, f[a2])
    BY <2>8, <2>9, <2>10, <2>11
  <2>13. ASSUME NEW h, \A a \in Walk : Rank(a) < Rank(st) => h[a] = f[a]
         PROVE  Visit(g, h, st) = f[a2]
    <3>1. Visit(g, h, st) = h[[Back(g, h, st) EXCEPT !.todo = st.todo \ {c}]]
      BY <1>2 DEF Visit, c
    <3>2. Back(g, h, st) = b
      BY <2>7, <2>13
    <3> QED
      BY <2>12, <2>13, <3>1, <3>2 DEF a2
  <2> QED
    BY <2>5, <2>12, <2>13
<1> QED
  BY <1>1, <1>2

\* There is such a function: of what a visit of one rank comes back with is made what one of
\* the next does.  The function that was chosen for the search is therefore one.
LEMMA SearchExists == ASSUME GraphAssumption, NEW g \in Graph PROVE \E f : Visits(g, f)
<1> DEFINE Known(f, k) == \A st \in Walk : Rank(st) <= k => f[st] = Visit(g, f, st) /\ Fair(g, st, f[st])
<1> DEFINE Bad == {k \in Nat : ~\E f : Known(f, k)}
<1>1. Bad = {}
  <2> SUFFICES ASSUME Bad # {} PROVE FALSE
    OBVIOUS
  <2>1. PICK k \in Bad : \A m \in Bad : k <= m
    BY LeastNumber
  <2>2. k \in Nat
    OBVIOUS
  <2>3. \E f : \A st \in Walk : Rank(st) < k => f[st] = Visit(g, f, st) /\ Fair(g, st, f[st])
    <3>1. CASE k = 0
      <4>1. \A st \in Walk : ~(Rank(st) < k)
        BY <3>1, RankType
      <4> QED
        BY <4>1
    <3>2. CASE k # 0
      <4>1. k - 1 \in Nat /\ ~(k <= k - 1)
        BY <2>2, <3>2
      <4>2. k - 1 \notin Bad
        BY <2>1, <4>1
      <4>3. PICK f : Known(f, k - 1)
        BY <4>1, <4>2
      <4>4. \A st \in Walk : Rank(st) < k => Rank(st) <= k - 1
        BY <2>2, RankType
      <4> QED
        BY <4>3, <4>4
    <3> QED
      BY <3>1, <3>2
  <2>4. PICK f : \A st \in Walk : Rank(st) < k => f[st] = Visit(g, f, st) /\ Fair(g, st, f[st])
    BY <2>3
  <2> DEFINE h == [st \in Walk |-> Visit(g, f, st)]
  <2>5. \A a \in Walk : h[a] = Visit(g, f, a)
    OBVIOUS
  <2> HIDE DEF h
  <2>6. ASSUME NEW st \in Walk, Rank(st) <= k
        PROVE  h[st] = Visit(g, h, st) /\ Fair(g, st, h[st])
    <3>1. \A a \in Walk : Rank(a) < Rank(st) => Rank(a) < k
      BY <2>2, <2>6, RankType
    <3>2. \A a \in Walk : Rank(a) < Rank(st) => Fair(g, a, f[a]) /\ h[a] = f[a]
      BY <2>4, <2>5, <3>1
    <3>3. Fair(g, st, Visit(g, f, st)) /\ Visit(g, h, st) = Visit(g, f, st)
      BY <3>2, VisitIs
    <3> QED
      BY <2>5, <3>3
  <2>7. Known(h, k)
    BY <2>6
  <2> QED
    BY <2>1, <2>7
<1>2. N * (N + 1) + N \in Nat
  BY DEF GraphAssumption
<1>3. PICK f : Known(f, N * (N + 1) + N)
  BY <1>1, <1>2
<1>4. \A st \in Walk : f[st] = Visit(g, f, st) /\ Fair(g, st, f[st])
  BY <1>3, RankType
<1> DEFINE e == [st \in Walk |-> f[st]]
<1>5. \A st \in Walk : e[st] = f[st]
  OBVIOUS
<1> HIDE DEF Known, Bad
<1>6. ASSUME NEW st \in Walk PROVE f[st] = Visit(g, e, st)
  <2> HIDE DEF e
  <2>1. Visit(g, e, st) = Visit(g, f, st)
    BY <1>4, <1>5, VisitIs
  <2> QED
    BY <1>4, <2>1
<1>7. e = [st \in Walk |-> Visit(g, e, st)]
  BY <1>6
<1> QED
  BY <1>7 DEF Visits

\* Every visit comes back with what it should.
LEMMA SearchFair == ASSUME GraphAssumption, NEW g \in Graph, NEW f, Visits(g, f), NEW st \in Walk
    PROVE  Fair(g, st, f[st])
<1> DEFINE Bad == {a \in Walk : ~Fair(g, a, f[a])}
<1> DEFINE Ranks == {Rank(a) : a \in Bad}
<1> SUFFICES ASSUME Bad # {} PROVE FALSE
  OBVIOUS
<1>1. Ranks \in SUBSET Nat /\ Ranks # {}
  BY RankType
<1>2. PICK n \in Ranks : \A m \in Ranks : n <= m
  BY <1>1, LeastNumber
<1>3. PICK a \in Bad : n = Rank(a)
  BY <1>2
<1>4. \A b \in Walk : Rank(b) < Rank(a) => Fair(g, b, f[b])
  <2> SUFFICES ASSUME NEW b \in Walk, Rank(b) < Rank(a), ~Fair(g, b, f[b]) PROVE FALSE
    OBVIOUS
  <2>1. Rank(b) \in Ranks
    OBVIOUS
  <2>2. Rank(a) \in Nat /\ Rank(b) \in Nat /\ Rank(a) <= Rank(b)
    BY <1>2, <1>3, <2>1, RankType
  <2> QED
    BY <2>2
<1>5. f[a] = Visit(g, f, a)
  BY DEF Visits
<1> QED
  BY <1>3, <1>4, <1>5, VisitIs

\* The search says that there is a cycle exactly when there is a loop.
LEMMA CycleIs == ASSUME GraphAssumption, NEW g \in Graph
    PROVE  findDependencyCycle(g) <=> LoopIn(g, Child)
<1> DEFINE f == CHOOSE f : Visits(g, f)
<1>1. Visits(g, f)
  BY SearchExists
<1>2. findDependencyCycle(g) = f[Outset].cycle
  BY SearchIs
<1>3. /\ Outset \in Walk /\ Outset.visiting = {} /\ Outset.visited = {} /\ Outset.todo = Child
      /\ Outset.cycle = FALSE
  BY DEF Outset, Walk
<1> HIDE DEF f
<1>4. Fair(g, Outset, f[Outset])
  BY <1>1, <1>3, SearchFair
<1>5. Clear(g, {})
  BY DEF Clear, LoopIn, Loop
<1>6. Begun(g, Outset)
  BY <1>3, <1>5 DEF Begun, OnPath
<1>7. f[Outset] \in Walk /\ Ended(g, Outset, f[Outset])
  BY <1>4, <1>6 DEF Fair
<1>8. CASE f[Outset].cycle
  BY <1>2, <1>7, <1>8 DEF Ended
<1>9. CASE ~f[Outset].cycle
  <2>1. f[Outset].visited \subseteq Child
    BY <1>7 DEF Walk
  <2>2. Child \subseteq f[Outset].visited /\ Clear(g, f[Outset].visited)
    BY <1>3, <1>7, <1>9 DEF Ended
  <2>3. ~LoopIn(g, Child)
    <3>1. f[Outset].visited = Child
      BY <2>1, <2>2
    <3> QED
      BY <2>2, <3>1 DEF Clear
  <2> QED
    BY <1>2, <1>9, <2>3
<1> QED
  BY <1>8, <1>9

-----------------------------------------------------------------------------
(* Type correctness.                                                       *)

\* What the planner and the checkers touch of a Release, and the tracker.
LEMMA TrackerShape == ASSUME NEW t \in Tracker
    PROVE  /\ t.order \in Seq(Child) /\ Len(t.order) \in 0..N
           /\ DOMAIN t.order = 1..Len(t.order)
           /\ t.blockedBy \in [Child -> SUBSET (Child \cup {0})]
           /\ t.same \in SUBSET Child /\ t.parent \in BOOLEAN
<1>1. PICK k \in 0..N : t.order \in [1..k -> Child]
  BY DEF Tracker
<1>2. N \in Nat
  BY GraphAssumption
<1> QED
  BY <1>1, <1>2, SeqOfLength DEF Tracker

LEMMA OrderType == ASSUME NEW s \in Seq(Child), Len(s) \in 0..N
    PROVE s \in UNION {[1..k -> Child] : k \in 0..N}
<1>1. s \in [1..Len(s) -> Child]
  OBVIOUS
<1> QED
  BY <1>1

\* Every change of a tracker that is made to one of its fields.
LEMMA TrackerField == ASSUME NEW t \in Tracker
    PROVE  /\ \A o \in Seq(Child) : Len(o) \in 0..N =>
                 /\ [t EXCEPT !.order = o] \in Tracker
                 /\ \A parent \in BOOLEAN : [t EXCEPT !.order = o, !.parent = parent] \in Tracker
           /\ \A c \in Child, set \in SUBSET (Child \cup {0}) :
                 [t EXCEPT !.blockedBy[c] = set] \in Tracker
           /\ \A set \in SUBSET Child : [t EXCEPT !.same = set] \in Tracker
           /\ [t EXCEPT !.parent = ~@] \in Tracker
           /\ \A c \in Child, set \in SUBSET (Child \cup {0}), same \in SUBSET Child :
                 [t EXCEPT !.blockedBy[c] = set, !.same = same] \in Tracker
<1>1. \A o \in Seq(Child) : Len(o) \in 0..N =>
         /\ [t EXCEPT !.order = o] \in Tracker
         /\ \A parent \in BOOLEAN : [t EXCEPT !.order = o, !.parent = parent] \in Tracker
  <2> SUFFICES ASSUME NEW o \in Seq(Child), Len(o) \in 0..N
               PROVE  /\ [t EXCEPT !.order = o] \in Tracker
                      /\ \A parent \in BOOLEAN :
                            [t EXCEPT !.order = o, !.parent = parent] \in Tracker
    OBVIOUS
  <2>1. o \in UNION {[1..k -> Child] : k \in 0..N}
    BY OrderType
  <2> QED
    BY <2>1 DEF Tracker
<1>2. \A c \in Child, set \in SUBSET (Child \cup {0}) :
         [t EXCEPT !.blockedBy[c] = set] \in Tracker
  BY DEF Tracker
<1>3. /\ \A set \in SUBSET Child : [t EXCEPT !.same = set] \in Tracker
      /\ [t EXCEPT !.parent = ~@] \in Tracker
  BY DEF Tracker
<1>4. \A c \in Child, set \in SUBSET (Child \cup {0}), same \in SUBSET Child :
         [t EXCEPT !.blockedBy[c] = set, !.same = same] \in Tracker
  BY DEF Tracker
<1> QED
  BY <1>1, <1>2, <1>3, <1>4

LEMMA UnreadType == Unread \in Tracker
<1>1. <<>> \in Seq(Child) /\ Len(<<>>) \in 0..N
  BY GraphAssumption
<1>2. <<>> \in UNION {[1..k -> Child] : k \in 0..N}
  BY <1>1, OrderType
<1> QED
  BY <1>2 DEF Unread, Tracker

LEMMA PublishedType == ASSUME NEW g \in Graph
    PROVE [order |-> [i \in 1..N |-> i], blockedBy |-> g.blockedBy, same |-> Child, parent |-> TRUE]
             \in Tracker
<1>1. [i \in 1..N |-> i] \in [1..N -> Child] /\ N \in 0..N
  BY GraphAssumption DEF Child
<1>2. [i \in 1..N |-> i] \in UNION {[1..k -> Child] : k \in 0..N}
  BY <1>1
<1>3. g.blockedBy \in [Child -> SUBSET (Child \cup {0})]
  BY GraphShape
<1> QED
  BY <1>2, <1>3 DEF Tracker

\* What the steps of a read leave of the state.
LEMMA ReadType == ASSUME GraphTypeOK PROVE
    /\ TakeOrder => seen' \in Tracker /\ todo' \subseteq Child /\ calm' \in BOOLEAN
    /\ \A c \in Child : TakeChild(c) => seen' \in Tracker /\ todo' \subseteq Child
<1>1. /\ tracker \in Tracker /\ seen \in Tracker /\ todo \subseteq Child
      /\ tracker.order \in Seq(Child) /\ Len(tracker.order) \in 0..N
      /\ DOMAIN tracker.order = 1..Len(tracker.order) /\ tracker.parent \in BOOLEAN
      /\ tracker.blockedBy \in [Child -> SUBSET (Child \cup {0})]
      /\ seen.same \in SUBSET Child
  BY TrackerShape DEF GraphTypeOK
<1>2. ToSet(tracker.order) \subseteq Child
  BY <1>1 DEF ToSet
<1>3. TakeOrder => seen' \in Tracker /\ todo' \subseteq Child /\ calm' \in BOOLEAN
  <2>1. \A t \in Tracker : [t EXCEPT !.order = tracker.order, !.parent = tracker.parent] \in Tracker
    BY <1>1, TrackerField
  <2>2. [Unread EXCEPT !.order = tracker.order, !.parent = tracker.parent] \in Tracker
    BY <2>1, UnreadType
  <2> QED
    BY <1>2, <2>2 DEF TakeOrder
<1>4. ASSUME NEW c \in Child, TakeChild(c) PROVE seen' \in Tracker /\ todo' \subseteq Child
  <2> DEFINE same == IF c \in tracker.same THEN seen.same \cup {c} ELSE seen.same
  <2>1. same \in SUBSET Child
    BY <1>1
  <2>2. seen' = [seen EXCEPT !.blockedBy[c] = tracker.blockedBy[c], !.same = same]
    BY <1>4 DEF TakeChild
  <2> HIDE DEF same
  <2>3. tracker.blockedBy[c] \in SUBSET (Child \cup {0})
    BY <1>1
  <2>4. seen' \in Tracker
    BY <1>1, <2>1, <2>2, <2>3, TrackerField
  <2> QED
    BY <1>1, <1>4, <2>4 DEF TakeChild
<1> QED
  BY <1>3, <1>4

-----------------------------------------------------------------------------
(* The inductive invariant.                                                *)

\* What a graph went through to come as far as it is.
Vetted ==
    /\ stage \in {"frontier", "reviewed", "reading", "refused", "admitted"} => graph \in Graph
    /\ main = <<>> /\ stage \in {"frontier", "reviewed", "reading", "refused", "admitted"} =>
          Inversions([i \in 1..N |-> i], graph.blockedBy) = {}
    /\ main = <<>> /\ stage \in {"reviewed", "reading", "refused", "admitted"} => Skeleton(graph)

\* A ticket is read once, and as long as nobody edits the tracker what was read of
\* it is what it says.
AsRead ==
    /\ todo \cap seen.same = {}
    /\ main = <<>> /\ stage \in {"reading", "admitted"} /\ calm =>
          /\ seen.order = tracker.order /\ seen.parent = tracker.parent
          /\ \A c \in ToSet(seen.order) \ todo :
                /\ seen.blockedBy[c] = tracker.blockedBy[c]
                /\ c \in seen.same <=> c \in tracker.same
    /\ main = <<>> /\ stage = "admitted" => todo = {} /\ validateAdmissionState(seen, graph)

\* Before there is a base branch nothing is planned, and from then on the graph is
\* the reviewed one.
Apart ==
    /\ main = <<>> => /\ basis = None /\ run = None
                      /\ plans = {} /\ handoffs = {} /\ results = <<>> /\ accepted = {}
    /\ main # <<>> => Len(main) >= 2 /\ graph = Reviewed /\ stage = "reading"

\* Every receipt that somebody can get hold of is one of a result, and an
\* acceptance was written.
Owned(r) == r.of \in DOMAIN results /\ (r.kind = "acceptance" => r \in accepted)
Receipted ==
    /\ \A i \in DOMAIN main : main[i] \in Receipt => Owned(main[i])
    /\ \A r \in accepted : r.of \in DOMAIN results
    /\ basis # None /\ basis.receipt # None => Owned(basis.receipt)
    /\ \A i \in DOMAIN results :
          results[i].handoff # None => results[i].handoff.plan = results[i].plan

\* From the second look on a run has the plan that the graph came out as, and when
\* it writes, that plan stands on its predecessor.
ThePlan == [release |-> basis.release, base |-> basis.base]
Planned == run # None =>
    /\ basis # None
    /\ run.look = 2 \/ run.step = "write" => run.plan = ThePlan
    /\ run.step = "write" /\ basis.release = 2 =>
          Succeeds(basis) /\ results[basis.receipt.of].plan.release = 1

\* As long as nothing that was spoiled is put right: it still shows, and what is
\* wrong and was not seen so was spoiled in this run; so if the first look was not
\* at a whole one, the second look finds something that was spoiled.
Told == run # None /\ ~truth.undone =>
    /\ truth.spoiled \subseteq Wrong(tracker)
    /\ run.step = "tickets" => Wrong(tracker) \ Wrong(seen) \subseteq truth.spoiled
    /\ run.look = 2 /\ ~truth.whole =>
          \E p \in truth.spoiled : run.step = "tickets" => p \in Wrong(seen)
    /\ run.step = "write" => truth.whole

PlanInv == PlanTypeOK /\ Vetted /\ AsRead /\ Apart /\ Receipted /\ Planned /\ Told

-----------------------------------------------------------------------------
(* What is wrong with a tracker, part by part.                             *)

LEMMA PartsAre == \A p \in Parts :
    p = <<"parent">> \/ p = <<"order">> \/ \E c \in Child : p = <<"child", c>>
BY DEF Parts

LEMMA WrongAre == ASSUME NEW t
    PROVE  /\ Wrong(t) \subseteq Parts
           /\ <<"parent">> \in Wrong(t) <=> ~t.parent
           /\ <<"order">> \in Wrong(t) <=> t.order # [i \in 1..N |-> i]
           /\ \A c \in Child : <<"child", c>> \in Wrong(t)
                 <=> c \notin t.same \/ t.blockedBy[c] # Reviewed.blockedBy[c]
<1>1. <<"parent">> \in Wrong(t) <=> ~t.parent
  BY DEF Wrong, Parts
<1>2. <<"order">> \in Wrong(t) <=> t.order # [i \in 1..N |-> i]
  BY DEF Wrong, Parts
<1>3. ASSUME NEW c \in Child
      PROVE  <<"child", c>> \in Wrong(t)
                <=> c \notin t.same \/ t.blockedBy[c] # Reviewed.blockedBy[c]
  <2>1. <<"child", c>> \in Parts
    BY DEF Parts
  <2> QED
    BY <2>1 DEF Wrong
<1> QED
  BY <1>1, <1>2, <1>3 DEF Wrong

\* A look begins with everything wrong that is wrong with the tracker.
LEMMA LookBegins == ASSUME GraphTypeOK, TakeOrder PROVE Wrong(tracker) \subseteq Wrong(seen')
<1>1. seen'.order = tracker.order /\ seen'.parent = tracker.parent /\ seen'.same = {}
  BY DEF TakeOrder, Unread
<1> SUFFICES ASSUME NEW p \in Wrong(tracker) PROVE p \in Wrong(seen')
  OBVIOUS
<1>2. p \in Parts
  BY WrongAre
<1>3. CASE p = <<"parent">>
  BY <1>1, <1>3, WrongAre
<1>4. CASE p = <<"order">>
  BY <1>1, <1>4, WrongAre
<1>5. ASSUME NEW c \in Child, p = <<"child", c>> PROVE p \in Wrong(seen')
  BY <1>1, <1>5, WrongAre
<1> QED
  BY <1>2, <1>3, <1>4, <1>5, PartsAre

\* To read a ticket leaves what is wrong with the tracker and was seen to be.
LEMMA LookGoesOn ==
    ASSUME GraphTypeOK, todo \cap seen.same = {}, NEW c \in Child, TakeChild(c)
    PROVE  Wrong(tracker) \cap Wrong(seen) \subseteq Wrong(seen')
<1>1. /\ seen'.order = seen.order /\ seen'.parent = seen.parent
      /\ seen'.same = IF c \in tracker.same THEN seen.same \cup {c} ELSE seen.same
      /\ seen'.blockedBy[c] = tracker.blockedBy[c]
      /\ \A d \in Child \ {c} : seen'.blockedBy[d] = seen.blockedBy[d]
  <2>1. seen \in Tracker
    BY DEF GraphTypeOK
  <2> QED
    BY <2>1 DEF TakeChild, Tracker
<1>2. c \notin seen.same
  BY DEF TakeChild
<1> SUFFICES ASSUME NEW p \in Wrong(tracker), p \in Wrong(seen) PROVE p \in Wrong(seen')
  OBVIOUS
<1>3. p \in Parts
  BY WrongAre
<1>4. CASE p = <<"parent">>
  BY <1>1, <1>4, WrongAre
<1>5. CASE p = <<"order">>
  BY <1>1, <1>5, WrongAre
<1>6. ASSUME NEW d \in Child, p = <<"child", d>> PROVE p \in Wrong(seen')
  <2>1. CASE d = c
    <3>1. c \notin tracker.same \/ tracker.blockedBy[c] # Reviewed.blockedBy[c]
      BY <1>6, <2>1, WrongAre
    <3>2. c \notin seen'.same \/ seen'.blockedBy[c] # Reviewed.blockedBy[c]
      BY <1>1, <1>2, <3>1
    <3> QED
      BY <1>6, <2>1, <3>2, WrongAre
  <2>2. CASE d # c
    BY <1>1, <1>6, <2>2, WrongAre
  <2> QED
    BY <2>1, <2>2
<1> QED
  BY <1>3, <1>4, <1>5, <1>6, PartsAre

\* What the checker lets pass has nothing wrong.
LEMMA PassedIsRight == ASSUME NEW t, validateAdmissionState(t, Reviewed) PROVE Wrong(t) = {}
<1> SUFFICES ASSUME NEW p \in Wrong(t) PROVE FALSE
  OBVIOUS
<1>1. p \in Parts
  BY WrongAre
<1>2. p # <<"parent">> /\ p # <<"order">> /\ \A c \in Child : p # <<"child", c>>
  BY WrongAre DEF validateAdmissionState
<1> QED
  BY <1>1, <1>2, PartsAre

-----------------------------------------------------------------------------
(* Sequences.                                                              *)

LEMMA Removed == ASSUME NEW S, NEW s \in Seq(S), NEW i \in 1..Len(s)
    PROVE  /\ RemoveAt(s, i) \in Seq(S) /\ Len(RemoveAt(s, i)) = Len(s) - 1
           /\ \A j \in DOMAIN RemoveAt(s, i) : \E k \in DOMAIN s : RemoveAt(s, i)[j] = s[k]
<1> DEFINE a == SubSeq(s, 1, i - 1)
           b == SubSeq(s, i + 1, Len(s))
<1>1. a \in Seq(S) /\ Len(a) = i - 1 /\ \A j \in 1..(i - 1) : a[j] = s[j]
  OBVIOUS
<1>2. b \in Seq(S) /\ Len(b) = Len(s) - i /\ \A j \in 1..(Len(s) - i) : b[j] = s[i + j]
  OBVIOUS
<1>3. RemoveAt(s, i) = a \o b
  BY DEF RemoveAt
<1> HIDE DEF a, b
<1>4. Len(s) \in Nat /\ i \in Nat /\ i <= Len(s) /\ 1 <= i
  OBVIOUS
<1>5. /\ a \o b \in Seq(S) /\ Len(a \o b) = Len(a) + Len(b)
      /\ \A j \in 1..(Len(a) + Len(b)) :
            (a \o b)[j] = IF j <= Len(a) THEN a[j] ELSE b[j - Len(a)]
  BY <1>1, <1>2, ConcatProperties
<1>6. Len(a \o b) = Len(s) - 1 /\ DOMAIN (a \o b) = 1..(Len(s) - 1)
  BY <1>1, <1>2, <1>4, <1>5
<1>7. ASSUME NEW j \in 1..(Len(s) - 1) PROVE \E k \in DOMAIN s : (a \o b)[j] = s[k]
  <2>1. CASE j <= i - 1
    <3>1. (a \o b)[j] = s[j]
      BY <1>1, <1>2, <1>4, <1>5, <2>1
    <3> QED
      BY <1>4, <3>1
  <2>2. CASE j > i - 1
    <3>1. j - (i - 1) \in 1..(Len(s) - i)
      BY <1>4, <2>2
    <3>2. (a \o b)[j] = b[j - (i - 1)]
      BY <1>1, <1>2, <1>4, <1>5, <2>2
    <3>3. b[j - (i - 1)] = s[i + (j - (i - 1))]
      BY <1>2, <3>1
    <3>4. i + (j - (i - 1)) \in DOMAIN s
      BY <1>4, <2>2
    <3> QED
      BY <3>2, <3>3, <3>4
  <2>3. j <= i - 1 \/ j > i - 1
    BY <1>4
  <2> QED
    BY <2>1, <2>2, <2>3
<1> QED
  BY <1>3, <1>5, <1>6, <1>7

LEMMA Reversed == ASSUME NEW S, NEW s \in Seq(S)
    PROVE  Reverse(s) \in Seq(S) /\ Len(Reverse(s)) = Len(s)
<1>1. \A i \in 1..Len(s) : s[(Len(s) - i) + 1] \in S
  OBVIOUS
<1>2. Reverse(s) \in [1..Len(s) -> S]
  BY <1>1 DEF Reverse
<1> QED
  BY <1>2, SeqOfLength

\* Two neighbours that change places.
LEMMA Swapped == ASSUME NEW S, NEW s \in Seq(S), NEW i \in 1..(Len(s) - 1)
    PROVE  /\ [s EXCEPT ![i] = s[i + 1], ![i + 1] = s[i]] \in Seq(S)
           /\ Len([s EXCEPT ![i] = s[i + 1], ![i + 1] = s[i]]) = Len(s)
<1>1. s[i] \in S /\ s[i + 1] \in S
  OBVIOUS
<1> QED
  BY <1>1

-----------------------------------------------------------------------------
(* Type correctness of a Release's steps.                                  *)

LEMMA DrawType == ASSUME GraphTypeOK, DraftFrontier
    PROVE  GraphTypeOK' /\ graph' \in Graph
<1>1. PICK enabler \in SUBSET Child, consumers \in [Child -> SUBSET Child],
           blocked \in [Child -> SUBSET Child] :
         LET g == [enabler |-> enabler, consumers |-> consumers, blockedBy |-> blocked,
                   covers |-> [c \in Child |-> <<>>], skeleton |-> <<>>] IN
         graph' = g /\ stage' = IF StrictFrontier(g) THEN "frontier" ELSE "rejected"
  BY DEF DraftFrontier
<1>2. <<>> \in UNION {[1..k -> Child] : k \in 0..N}
  BY GraphAssumption, OrderType
<1>3. <<>> \in UNION {[1..k -> Scenario] : k \in 0..2}
  <2>1. <<>> \in [1..0 -> Scenario]
    OBVIOUS
  <2> QED
    BY <2>1
<1>4. graph' \in Graph
  BY <1>1, <1>2, <1>3 DEF Graph
<1>5. stage' \in {"frontier", "rejected"}
  BY <1>1
<1> QED
  BY <1>4, <1>5 DEF GraphTypeOK, DraftFrontier

LEMMA ReviewType == ASSUME GraphTypeOK, graph \in Graph, Review
    PROVE  /\ GraphTypeOK' /\ stage' \in {"reviewed", "rejected"}
           /\ stage' = "reviewed" =>
                 /\ graph' \in Graph /\ graph'.blockedBy = graph.blockedBy /\ Skeleton(graph')
<1>1. PICK covers \in [Child -> UNION {[1..k -> Scenario] : k \in 0..2}], chain \in Chains :
         LET g  == [graph EXCEPT !.covers = covers, !.skeleton = chain]
             ok == Coverage(g) /\ Skeleton(g)
         IN
         /\ graph' = IF ok THEN g ELSE NoGraph
         /\ stage' = IF ok THEN "reviewed" ELSE "rejected"
         /\ tracker' = IF ok THEN [order |-> [i \in 1..N |-> i], blockedBy |-> g.blockedBy,
                                   same |-> Child, parent |-> TRUE]
                       ELSE tracker
  BY DEF Review
<1> DEFINE g == [graph EXCEPT !.covers = covers, !.skeleton = chain]
<1>2. chain \in UNION {[1..k -> Child] : k \in 0..N}
  BY DEF Chains
<1>3. g \in Graph /\ g.blockedBy = graph.blockedBy
  BY <1>2 DEF Graph
<1>4. /\ graph' = IF Coverage(g) /\ Skeleton(g) THEN g ELSE NoGraph
      /\ stage' = IF Coverage(g) /\ Skeleton(g) THEN "reviewed" ELSE "rejected"
      /\ tracker' = IF Coverage(g) /\ Skeleton(g)
                    THEN [order |-> [i \in 1..N |-> i], blockedBy |-> g.blockedBy,
                          same |-> Child, parent |-> TRUE]
                    ELSE tracker
  BY <1>1
<1> HIDE DEF g
<1>5. tracker' \in Tracker
  BY <1>3, <1>4, PublishedType DEF GraphTypeOK
<1>6. graph' \in Graph \cup {NoGraph} /\ stage' \in {"reviewed", "rejected"}
  BY <1>3, <1>4
<1>7. GraphTypeOK'
  BY <1>5, <1>6 DEF GraphTypeOK, Review
<1> QED
  BY <1>3, <1>4, <1>6, <1>7

LEMMA EditType == ASSUME GraphTypeOK, Edit PROVE GraphTypeOK'
<1>1. /\ tracker \in Tracker /\ tracker.order \in Seq(Child) /\ Len(tracker.order) \in 0..N
      /\ DOMAIN tracker.order = 1..Len(tracker.order) /\ N \in Nat
      /\ tracker.blockedBy \in [Child -> SUBSET (Child \cup {0})] /\ tracker.same \in SUBSET Child
  BY TrackerShape, GraphAssumption DEF GraphTypeOK
<1>2. ASSUME NEW c \in Child, NEW b \in Child \cup {0},
             tracker' = [tracker EXCEPT !.blockedBy[c] = IF b \in @ THEN @ \ {b} ELSE @ \cup {b}]
      PROVE  tracker' \in Tracker
  <2> DEFINE set == IF b \in tracker.blockedBy[c] THEN tracker.blockedBy[c] \ {b}
                    ELSE tracker.blockedBy[c] \cup {b}
  <2>1. set \in SUBSET (Child \cup {0})
    BY <1>1
  <2>2. tracker' = [tracker EXCEPT !.blockedBy[c] = set]
    BY <1>2
  <2> QED
    BY <1>1, <2>1, <2>2, TrackerField
<1>3. ASSUME NEW c \in Child, tracker' = [tracker EXCEPT !.same = @ \ {c}]
      PROVE  tracker' \in Tracker
  <2>1. tracker.same \ {c} \in SUBSET Child
    BY <1>1
  <2> QED
    BY <1>1, <1>3, <2>1, TrackerField
<1>4. ASSUME NEW i \in 1..(Len(tracker.order) - 1),
             tracker' = [tracker EXCEPT !.order[i] = tracker.order[i + 1],
                                        !.order[i + 1] = tracker.order[i]]
      PROVE  tracker' \in Tracker
  <2> DEFINE o == [tracker.order EXCEPT ![i] = tracker.order[i + 1], ![i + 1] = tracker.order[i]]
  <2>1. o \in Seq(Child) /\ Len(o) \in 0..N
    BY <1>1, Swapped
  <2>2. tracker' = [tracker EXCEPT !.order = o]
    BY <1>1, <1>4 DEF Tracker
  <2> HIDE DEF o
  <2> QED
    BY <1>1, <2>1, <2>2, TrackerField
<1>5. ASSUME NEW i \in DOMAIN tracker.order, tracker' = [tracker EXCEPT !.order = RemoveAt(@, i)]
      PROVE  tracker' \in Tracker
  <2>1. RemoveAt(tracker.order, i) \in Seq(Child) /\ Len(RemoveAt(tracker.order, i)) \in 0..N
    BY <1>1, Removed
  <2> QED
    BY <1>1, <1>5, <2>1, TrackerField
<1>6. ASSUME tracker' = [tracker EXCEPT !.parent = ~@] PROVE tracker' \in Tracker
  BY <1>1, <1>6, TrackerField
<1>7. tracker' \in Tracker
  BY <1>2, <1>3, <1>4, <1>5, <1>6 DEF Edit
<1>8. edits' \in 0..MaxEdits
  <2>1. edits \in 0..MaxEdits /\ edits < MaxEdits /\ edits' = edits + 1 /\ MaxEdits \in Nat
    BY GraphAssumption DEF Edit, GraphTypeOK
  <2> QED
    BY <2>1
<1> QED
  BY <1>7, <1>8 DEF Edit, GraphTypeOK

LEMMA AdmissionType ==
    ASSUME GraphTypeOK,
           ReadOrder \/ (\E c \in Child : ReadChild(c)) \/ Admit \/ Execute
    PROVE  GraphTypeOK'
<1>1. CASE ReadOrder
  BY <1>1, ReadType DEF GraphTypeOK, ReadOrder, TakeOrder
<1>2. ASSUME NEW c \in Child, ReadChild(c) PROVE GraphTypeOK'
  BY <1>2, ReadType DEF GraphTypeOK, ReadChild, TakeChild
<1>3. CASE Admit
  <2>1. stage' \in {"admitted", "refused"}
    BY <1>3 DEF Admit
  <2> QED
    BY <1>3, <2>1 DEF GraphTypeOK, Admit
<1>4. CASE Execute
  <2>1. done' \subseteq Child
    BY <1>4, TrackerShape DEF GraphTypeOK, Execute
  <2> QED
    BY <1>4, <2>1 DEF GraphTypeOK, Execute
<1> QED
  BY <1>1, <1>2, <1>3, <1>4

-----------------------------------------------------------------------------
(* Type correctness of the plans' steps.                                   *)

Truth == [whole : BOOLEAN, spoiled : SUBSET Parts, undone : BOOLEAN]

LEMMA ChangeAre ==
    /\ Receipt \subseteq Change
    /\ \A kind \in {"roadmap", "accept", "decide", "other", "merge"} :
          C(kind) \in Change /\ C(kind) \notin Receipt
    /\ \A r \in Receipt : r.of \in 1..MaxResults /\ r.runner \in Runners \cup {None}
                          /\ r.kind \in {"result", "acceptance"}
BY DEF Receipt, Change, C

LEMMA ReceiptIs == \A i \in 1..MaxResults :
    /\ [kind |-> "result", of |-> i, runner |-> None] \in Receipt
    /\ \A r \in Runners : [kind |-> "acceptance", of |-> i, runner |-> r] \in Receipt
BY DEF Receipt

\* What the witness makes of the truth.
LEMMA Witnessed == ASSUME PlanTypeOK, Witness
    PROVE  /\ truth' \in Truth
           /\ run = None => truth'.spoiled = {}
           /\ run # None /\ run' # None =>
                 /\ truth'.spoiled = truth.spoiled \cup (Wrong(tracker') \ Wrong(tracker))
                 /\ truth'.whole <=> truth.whole \/ (Wrong(tracker') = {} /\ main' = basis.base)
                 /\ truth'.undone <=>
                       truth.undone \/ truth.spoiled \cap (Wrong(tracker) \ Wrong(tracker')) # {}
<1> DEFINE worse  == Wrong(tracker') \ Wrong(tracker)
           better == Wrong(tracker) \ Wrong(tracker')
<1>1. worse \subseteq Parts /\ truth \in Truth /\ Untold \in Truth /\ Untold.spoiled = {}
  BY WrongAre DEF PlanTypeOK, Truth, Untold
<1>2. \A t \in Truth, w \in BOOLEAN :
         [t EXCEPT !.whole = w] \in Truth /\ [t EXCEPT !.whole = w].spoiled = t.spoiled
  BY DEF Truth
<1>3. Whole(tracker, main) \in BOOLEAN
  BY DEF Whole
<1>4. CASE run' = None
  BY <1>1, <1>4 DEF Witness
<1>5. CASE run' # None /\ run = None
  <2>1. truth' = [Untold EXCEPT !.whole = Whole(tracker, main)]
    BY <1>5 DEF Witness
  <2> QED
    BY <1>1, <1>2, <1>3, <1>5, <2>1
<1>6. CASE run' # None /\ run # None
  <2>1. truth' = [whole |-> truth.whole \/ Whole(tracker', main'),
                  spoiled |-> truth.spoiled \cup worse,
                  undone |-> truth.undone \/ truth.spoiled \cap better # {}]
    BY <1>6 DEF Witness
  <2>2. /\ (truth.whole \/ Whole(tracker', main')) \in BOOLEAN
        /\ (truth.undone \/ truth.spoiled \cap better # {}) \in BOOLEAN
        /\ truth.spoiled \cup worse \in SUBSET Parts
    BY <1>1 DEF Truth
  <2>3. truth' \in Truth
    BY <2>1, <2>2 DEF Truth
  <2> QED
    BY <1>6, <2>1, <2>3 DEF Whole
<1> QED
  BY <1>4, <1>5, <1>6

LEMMA RunAre == ASSUME NEW r \in Run
    PROVE  /\ r.runner \in Runners \cup {None} /\ r.plan \in Plan \cup {None}
           /\ r.step \in {"order", "tickets", "write"} /\ r.look \in 1..2
           /\ \A step \in {"order", "tickets", "write"} :
                 /\ [r EXCEPT !.step = step] \in Run
                 /\ [r EXCEPT !.step = step].step = step
                 /\ [r EXCEPT !.step = step].look = r.look
                 /\ [r EXCEPT !.step = step].plan = r.plan
<1>1. /\ r.runner \in Runners \cup {None} /\ r.plan \in Plan \cup {None}
      /\ r.step \in {"order", "tickets", "write"} /\ r.look \in 1..2
  BY DEF Run
<1>2. ASSUME NEW step \in {"order", "tickets", "write"}
      PROVE  /\ [r EXCEPT !.step = step] \in Run
             /\ [r EXCEPT !.step = step].step = step
             /\ [r EXCEPT !.step = step].look = r.look
             /\ [r EXCEPT !.step = step].plan = r.plan
  BY DEF Run
<1> QED
  BY <1>1, <1>2

\* What becomes of a run that was judged well.
LEMMA JudgedIs == ASSUME run \in Run, NEW plan \in Plan
    PROVE  /\ Judged(plan) \in Run
           /\ run.look = 1 => /\ Judged(plan).plan = plan /\ Judged(plan).look = 2
                              /\ Judged(plan).step = "order"
           /\ run.look # 1 => /\ Judged(plan).plan = run.plan /\ Judged(plan).look = 2
                              /\ Judged(plan).step = "write"
<1>1. CASE run.look = 1
  <2> DEFINE e == [[run EXCEPT !.plan = plan] EXCEPT !.look = 2]
  <2>1. [run EXCEPT !.plan = plan] \in Run /\ [run EXCEPT !.plan = plan].plan = plan
    BY DEF Run
  <2>2. \A q \in Run : /\ [q EXCEPT !.look = 2] \in Run /\ [q EXCEPT !.look = 2].look = 2
                       /\ [q EXCEPT !.look = 2].plan = q.plan
    BY DEF Run
  <2>3. e \in Run /\ e.plan = plan /\ e.look = 2
    BY <2>1, <2>2
  <2>4. \A q \in Run : /\ [q EXCEPT !.step = "order"] \in Run
                       /\ [q EXCEPT !.step = "order"].step = "order"
                       /\ [q EXCEPT !.step = "order"].look = q.look
                       /\ [q EXCEPT !.step = "order"].plan = q.plan
    BY DEF Run
  <2>5. Judged(plan) = [e EXCEPT !.step = "order"]
    BY <1>1 DEF Judged
  <2> HIDE DEF e
  <2> QED
    BY <1>1, <2>3, <2>4, <2>5
<1>2. CASE run.look # 1
  <2>1. Judged(plan) = [run EXCEPT !.step = "write"] /\ run.look \in 1..2
    BY <1>2, RunAre DEF Judged
  <2>2. run.look = 2
    BY <1>2, <2>1
  <2>3. \A q \in Run : /\ [q EXCEPT !.step = "write"] \in Run
                       /\ [q EXCEPT !.step = "write"].step = "write"
                       /\ [q EXCEPT !.step = "write"].look = q.look
                       /\ [q EXCEPT !.step = "write"].plan = q.plan
    BY DEF Run
  <2> QED
    BY <1>2, <2>1, <2>2, <2>3
<1> QED
  BY <1>1, <1>2

\* A step that the plans take leaves a Release that was planned.
LEMMA PlanSide ==
    ASSUME PlanInv, main # <<>>, UNCHANGED <<graph, stage>>, Len(main') >= 2,
           todo' \cap seen'.same = {}
    PROVE  Vetted' /\ AsRead' /\ Apart'
<1>1. main' # <<>>
  BY SMT
<1>2. Vetted'
  BY <1>1 DEF PlanInv, Vetted
<1>3. AsRead'
  BY <1>1 DEF PlanInv, AsRead
<1>4. Apart'
  BY <1>1 DEF PlanInv, Apart
<1> QED
  BY <1>2, <1>3, <1>4

\* What is written or bound keeps its receipts when nothing but runs, plans and
\* handoffs change.
LEMMA SameReceipts == ASSUME PlanInv, UNCHANGED <<main, basis, results, accepted>>
    PROVE  Receipted'
BY DEF PlanInv, Receipted, Owned

\* A step that leaves the runs, what they are about, and what is read, leaves what
\* they know.
LEMMA SameRuns ==
    ASSUME PlanInv, Witness, UNCHANGED <<run, tracker, seen>>
    PROVE  Told'
<1> SUFFICES ASSUME run' # None, ~truth'.undone PROVE Told'
  BY DEF Told
<1>1. run # None /\ PlanTypeOK
  BY DEF PlanInv
<1>2. /\ truth'.spoiled = truth.spoiled /\ ~truth.undone
      /\ truth.whole => truth'.whole
  BY <1>1, Witnessed
<1> QED
  BY <1>1, <1>2 DEF PlanInv, Told

-----------------------------------------------------------------------------
(* The plans' steps keep the invariant.                                    *)

\* The facts of a state that every step uses.
LEMMA Holds == ASSUME PlanInv
    PROVE  /\ PlanTypeOK /\ GraphTypeOK /\ todo \cap seen.same = {}
           /\ run # None \/ basis # None => main # <<>>
           /\ plans # {} \/ handoffs # {} \/ accepted # {} \/ results # <<>> => main # <<>>
           /\ main # <<>> => main \in Seq(Change) /\ Len(main) \in Nat /\ Len(main) >= 2
           /\ run # None => run \in Run /\ basis \in Basis
BY DEF PlanInv, PlanTypeOK, AsRead, Apart, Planned

LEMMA StepPrepare == ASSUME PlanInv, Prepare, Witness PROVE PlanInv'
<1>1. /\ PlanTypeOK /\ GraphTypeOK /\ main # <<>> /\ run = None /\ run' = None /\ Len(main) >= 2
      /\ todo \cap seen.same = {}
  BY Holds DEF Prepare
<1>2. PICK release \in 1..2, plan \in plans \cup {None},
           receipt \in (ToSet(main) \cap Receipt) \cup {None} :
         basis' = [release |-> release, base |-> main, plan |-> plan, receipt |-> receipt]
  BY DEF Prepare
<1>3. basis' \in Basis /\ basis'.receipt = receipt
  <2>1. plan \in Plan \cup {None} /\ receipt \in Receipt \cup {None} /\ main \in Seq(Change)
    BY <1>1 DEF PlanTypeOK
  <2> QED
    BY <1>2, <2>1 DEF Basis
<1>4. tracker' \in Tracker
  BY PublishedType, PlanAssumption DEF Prepare, Published
<1>5. GraphTypeOK'
  BY <1>1, <1>4 DEF GraphTypeOK, Prepare
<1>6. PlanTypeOK'
  BY <1>1, <1>3, <1>5, Witnessed DEF PlanTypeOK, Prepare, Truth
<1>7. Vetted' /\ AsRead' /\ Apart'
  <2>1. UNCHANGED <<graph, stage>> /\ main' = main /\ todo' = todo /\ seen' = seen
    BY DEF Prepare
  <2> QED
    BY <1>1, <2>1, PlanSide
<1>8. Receipted'
  <2>1. UNCHANGED <<main, results, accepted>> /\ Receipted
    BY DEF Prepare, PlanInv
  <2>2. receipt # None => Owned(receipt)
    <3>1. receipt # None => \E i \in DOMAIN main : main[i] = receipt /\ receipt \in Receipt
      BY DEF ToSet
    <3> QED
      BY <2>1, <3>1 DEF Receipted
  <2>3. receipt # None => Owned(receipt)'
    BY <2>1, <2>2 DEF Owned
  <2> QED
    BY <1>3, <2>1, <2>2, <2>3 DEF Receipted, Owned
<1>9. Planned' /\ Told'
  BY <1>1 DEF Planned, Told
<1> QED
  BY <1>6, <1>7, <1>8, <1>9 DEF PlanInv

LEMMA StepLaunch == ASSUME PlanInv, Launch, Witness PROVE PlanInv'
<1>1. /\ PlanTypeOK /\ GraphTypeOK /\ main # <<>> /\ run = None /\ basis # None /\ Len(main) >= 2
      /\ todo \cap seen.same = {}
  BY Holds DEF Launch
<1>2. /\ UNCHANGED <<graph, stage, tracker, seen, todo, calm, done, edits>>
      /\ UNCHANGED <<main, basis, plans, handoffs, results, accepted, moves>>
  BY DEF Launch, graphVars
<1>3. run' \in Run /\ run'.step = "order" /\ run'.look = 1
  <2>1. ASSUME run' = [runner |-> None, plan |-> None, step |-> "order", look |-> 1]
        PROVE  run' \in Run /\ run'.step = "order" /\ run'.look = 1
    BY <2>1 DEF Run
  <2>2. ASSUME NEW p \in plans, NEW runner \in Runners,
               run' = [runner |-> runner, plan |-> p, step |-> "order", look |-> 1]
        PROVE  run' \in Run /\ run'.step = "order" /\ run'.look = 1
    <3>1. p \in Plan
      BY <1>1 DEF PlanTypeOK
    <3> QED
      BY <2>2, <3>1 DEF Run
  <2> QED
    BY <2>1, <2>2 DEF Launch
<1>4. GraphTypeOK'
  BY <1>1, <1>2 DEF GraphTypeOK
<1>5. PlanTypeOK'
  BY <1>1, <1>2, <1>3, <1>4, Witnessed DEF PlanTypeOK, Truth
<1>6. Vetted' /\ AsRead' /\ Apart'
  BY <1>1, <1>2, PlanSide
<1>7. Receipted'
  BY <1>2, SameReceipts
<1>8. Planned'
  BY <1>1, <1>2, <1>3 DEF Planned
<1>9. Told'
  <2>1. truth'.spoiled = {}
    BY <1>1, Witnessed
  <2> QED
    BY <1>3, <2>1 DEF Told
<1> QED
  BY <1>5, <1>6, <1>7, <1>8, <1>9 DEF PlanInv

LEMMA StepLookAtOrder == ASSUME PlanInv, LookAtOrder, Witness PROVE PlanInv'
<1>1. /\ PlanTypeOK /\ GraphTypeOK /\ main # <<>> /\ Len(main) >= 2
      /\ run # None /\ run \in Run /\ run.step = "order"
  BY Holds DEF LookAtOrder, Going
<1>2. /\ UNCHANGED <<graph, stage, tracker, done, edits>>
      /\ UNCHANGED <<main, basis, plans, handoffs, results, accepted, moves>>
      /\ TakeOrder /\ run' = [run EXCEPT !.step = "tickets"]
  BY DEF LookAtOrder, TakeOrder
<1>3. run' \in Run /\ run'.step = "tickets" /\ run'.look = run.look /\ run'.plan = run.plan
  BY <1>1, <1>2, RunAre
<1>4. GraphTypeOK'
  BY <1>1, <1>2, ReadType DEF GraphTypeOK
<1>5. PlanTypeOK'
  BY <1>1, <1>2, <1>3, <1>4, Witnessed DEF PlanTypeOK, Truth
<1>6. seen'.same = {}
  BY <1>2 DEF TakeOrder, Unread
<1>7. Vetted' /\ AsRead' /\ Apart'
  BY <1>1, <1>2, <1>6, PlanSide
<1>8. Receipted'
  BY <1>2, SameReceipts
<1>9. Planned'
  BY <1>1, <1>2, <1>3 DEF PlanInv, Planned, ThePlan
<1>10. Told'
  <2> SUFFICES ASSUME run' # None, ~truth'.undone PROVE Told'
    BY DEF Told
  <2>1. truth'.spoiled = truth.spoiled /\ ~truth.undone /\ (truth.whole => truth'.whole)
    BY <1>1, <1>2, Witnessed
  <2>2. Wrong(tracker) \subseteq Wrong(seen')
    BY <1>1, <1>2, LookBegins
  <2>3. /\ truth.spoiled \subseteq Wrong(tracker)
        /\ run.look = 2 /\ ~truth.whole => \E p \in truth.spoiled : TRUE
    BY <1>1, <2>1 DEF PlanInv, Told
  <2>4. Wrong(tracker') = Wrong(tracker)
    BY <1>2
  <2> QED
    BY <1>3, <2>1, <2>2, <2>3, <2>4 DEF Told
<1> QED
  BY <1>5, <1>7, <1>8, <1>9, <1>10 DEF PlanInv

LEMMA StepLookAtChild ==
    ASSUME PlanInv, NEW c \in Child, LookAtChild(c), Witness PROVE PlanInv'
<1>1. /\ PlanTypeOK /\ GraphTypeOK /\ main # <<>> /\ Len(main) >= 2
      /\ run # None /\ run \in Run /\ run.step = "tickets" /\ todo \cap seen.same = {}
  BY Holds DEF LookAtChild, Going
<1>2. /\ UNCHANGED <<graph, stage, tracker, calm, done, edits>>
      /\ UNCHANGED <<main, basis, run, plans, handoffs, results, accepted, moves>>
      /\ TakeChild(c)
  BY DEF LookAtChild, TakeChild, planVars
<1>3. GraphTypeOK'
  BY <1>1, <1>2, ReadType DEF GraphTypeOK
<1>4. PlanTypeOK'
  BY <1>1, <1>2, <1>3, Witnessed DEF PlanTypeOK, Truth
<1>5. todo' \cap seen'.same = {}
  <2>1. todo' = todo \ {c} /\ seen'.same \subseteq seen.same \cup {c}
    BY <1>1, <1>2 DEF TakeChild, GraphTypeOK, Tracker
  <2> QED
    BY <1>1, <2>1
<1>6. Vetted' /\ AsRead' /\ Apart'
  BY <1>1, <1>2, <1>5, PlanSide
<1>7. Receipted'
  BY <1>2, SameReceipts
<1>8. Planned'
  BY <1>2 DEF PlanInv, Planned, Succeeds, validatePredecessorReceipt,
              validateGoalResultAcceptance, isGitAncestor, ThePlan
<1>9. Told'
  <2> SUFFICES ASSUME ~truth'.undone PROVE Told'
    BY DEF Told
  <2>1. truth'.spoiled = truth.spoiled /\ ~truth.undone /\ (truth.whole => truth'.whole)
    BY <1>1, <1>2, Witnessed
  <2>2. Wrong(tracker) \cap Wrong(seen) \subseteq Wrong(seen')
    BY <1>1, <1>2, LookGoesOn
  <2>3. /\ truth.spoiled \subseteq Wrong(tracker)
        /\ Wrong(tracker) \ Wrong(seen) \subseteq truth.spoiled
        /\ run.look = 2 /\ ~truth.whole => \E p \in truth.spoiled : p \in Wrong(seen)
    BY <1>1, <2>1 DEF PlanInv, Told
  <2>4. Wrong(tracker') = Wrong(tracker)
    BY <1>2
  <2> QED
    BY <1>1, <1>2, <2>1, <2>2, <2>3, <2>4 DEF Told
<1> QED
  BY <1>4, <1>6, <1>7, <1>8, <1>9 DEF PlanInv

LEMMA StepJudge == ASSUME PlanInv, Judge, Witness PROVE PlanInv'
<1> DEFINE plan == compileExecutionPlan(basis, seen)
           ok   == assertFreshExecutionInput(basis) /\ plan # None /\ run.plan \in {None, plan}
<1>1. /\ PlanTypeOK /\ GraphTypeOK /\ main # <<>> /\ Len(main) >= 2 /\ todo = {}
      /\ run # None /\ run \in Run /\ basis \in Basis /\ run.step = "tickets"
      /\ basis # None /\ graph = Reviewed
  BY Holds DEF Judge, Going, PlanInv, Apart, Planned
<1>2. /\ UNCHANGED <<graph, stage, tracker, todo, calm, done, edits>>
      /\ UNCHANGED <<main, basis, plans, handoffs, results, accepted, moves>>
      /\ run' = IF ok THEN Judged(plan) ELSE None
      /\ seen' = Unread
  BY DEF Judge
<1>3. plan # None => /\ plan = ThePlan /\ validateExecutableRelease(basis)
                     /\ validateAdmissionState(seen, graph)
  BY DEF compileExecutionPlan, ThePlan
<1>4. ThePlan \in Plan
  BY <1>1 DEF ThePlan, Plan, Basis
<1>5. ok => main = basis.base
  BY DEF assertFreshExecutionInput, githubRemoteBase
<1> HIDE DEF plan, ok
<1>6. ok => plan = ThePlan /\ plan # None /\ run.plan \in {None, plan}
            /\ validateExecutableRelease(basis) /\ Wrong(seen) = {}
  BY <1>1, <1>3, PassedIsRight DEF ok
<1>7. \/ ~ok /\ run' = None
      \/ /\ ok /\ run.look = 1
         /\ run' \in Run /\ run'.plan = ThePlan /\ run'.look = 2 /\ run'.step = "order"
      \/ /\ ok /\ run.look = 2
         /\ run' \in Run /\ run'.plan = ThePlan /\ run'.look = 2 /\ run'.step = "write"
  <2>1. CASE ~ok
    BY <1>2, <2>1
  <2>2. CASE ok
    <3>1. run' = Judged(ThePlan)
      BY <1>2, <1>6, <2>2
    <3>2. run.look \in 1..2
      BY <1>1, RunAre
    <3>3. run.look = 2 => run.plan = ThePlan
      BY <1>1 DEF PlanInv, Planned
    <3>4. run \in Run
      BY <1>1
    <3> HIDE DEF ThePlan
    <3> QED
      BY <1>4, <2>2, <3>1, <3>2, <3>3, <3>4, JudgedIs
  <2> QED
    BY <2>1, <2>2
<1>8. GraphTypeOK'
  BY <1>1, <1>2, UnreadType DEF GraphTypeOK
<1>9. PlanTypeOK'
  BY <1>1, <1>2, <1>7, <1>8, Witnessed DEF PlanTypeOK, Truth
<1>10. Vetted' /\ AsRead' /\ Apart'
  BY <1>1, <1>2, PlanSide
<1>11. Receipted'
  BY <1>2, SameReceipts
<1>12. Planned'
  <2>1. ThePlan' = ThePlan
    BY <1>2 DEF ThePlan
  <2>2. ok /\ basis.release = 2 => Succeeds(basis) /\ results[basis.receipt.of].plan.release = 1
    BY <1>6 DEF validateExecutableRelease
  <2>3. Succeeds(basis)' = Succeeds(basis)
    BY <1>2 DEF Succeeds, validatePredecessorReceipt, validateGoalResultAcceptance, isGitAncestor
  <2> QED
    BY <1>1, <1>2, <1>7, <2>1, <2>2, <2>3 DEF Planned
<1>13. Told'
  <2> SUFFICES ASSUME run' # None, ~truth'.undone PROVE Told'
    BY DEF Told
  <2>1. Wrong(tracker') = Wrong(tracker)
    BY <1>2
  <2>2. /\ truth'.spoiled = truth.spoiled /\ ~truth.undone
        /\ truth'.whole <=> truth.whole \/ (Wrong(tracker) = {} /\ main = basis.base)
    BY <1>1, <1>2, <2>1, Witnessed
  <2>3. ok
    BY <1>7
  <2>4. /\ truth.spoiled \subseteq Wrong(tracker)
        /\ Wrong(tracker) \subseteq truth.spoiled
        /\ run.look = 2 => truth.whole
    BY <1>1, <1>6, <2>2, <2>3 DEF PlanInv, Told
  <2>5. ~truth'.whole => \E p \in truth'.spoiled : TRUE
    BY <1>5, <2>2, <2>3, <2>4 DEF ok
  <2>6. run'.step = "write" => truth'.whole
    BY <1>7, <2>2, <2>4
  <2> QED
    BY <1>7, <2>1, <2>2, <2>4, <2>5, <2>6 DEF Told
<1> QED
  BY <1>9, <1>10, <1>11, <1>12, <1>13 DEF PlanInv

LEMMA StepWrite == ASSUME PlanInv, Write, Witness PROVE PlanInv'
<1>1. /\ PlanTypeOK /\ GraphTypeOK /\ main # <<>> /\ Len(main) >= 2 /\ todo \cap seen.same = {}
      /\ run # None /\ run \in Run /\ basis \in Basis /\ run.plan = ThePlan /\ run' = None
  BY Holds DEF Write, Going, PlanInv, Planned
<1>2. /\ UNCHANGED <<graph, stage, tracker, seen, todo, calm, done, edits>>
      /\ UNCHANGED <<main, basis, results, accepted, moves>>
  BY DEF Write, graphVars
<1>3. ThePlan \in Plan
  BY <1>1 DEF ThePlan, Plan, Basis
<1>4. plans' \subseteq Plan /\ handoffs' \subseteq Handoff
  <2>1. CASE run.runner = None
    BY <1>1, <1>3, <2>1 DEF Write, PlanTypeOK
  <2>2. CASE run.runner # None
    <3>1. [plan |-> run.plan, runner |-> run.runner] \in Handoff
      BY <1>1, <1>3, <2>2, RunAre DEF Handoff
    <3> QED
      BY <1>1, <2>2, <3>1 DEF Write, PlanTypeOK
  <2> QED
    BY <2>1, <2>2
<1>5. GraphTypeOK'
  BY <1>1, <1>2 DEF GraphTypeOK
<1>6. PlanTypeOK'
  BY <1>1, <1>2, <1>4, <1>5, Witnessed DEF PlanTypeOK, Truth
<1>7. Vetted' /\ AsRead' /\ Apart'
  BY <1>1, <1>2, PlanSide
<1>8. Receipted'
  BY <1>2, SameReceipts
<1>9. Planned' /\ Told'
  BY <1>1 DEF Planned, Told
<1> QED
  BY <1>6, <1>7, <1>8, <1>9 DEF PlanInv

\* As long as results and acceptances only become more, what they support stands.
StillOwned(r) == r.of \in DOMAIN results' /\ (r.kind = "acceptance" => r \in accepted')

LEMMA Growing ==
    ASSUME PlanInv, UNCHANGED <<basis, run>>,
           \A i \in DOMAIN results : i \in DOMAIN results' /\ results'[i] = results[i],
           accepted \subseteq accepted'
    PROVE  /\ \A j \in DOMAIN main : main[j] \in Receipt => StillOwned(main[j])
           /\ \A r \in accepted : r.of \in DOMAIN results'
           /\ basis # None /\ basis.receipt # None => StillOwned(basis.receipt)
           /\ Planned'
<1>1. \A r : Owned(r) => StillOwned(r)
  BY DEF Owned, StillOwned
<1>2. /\ \A j \in DOMAIN main : main[j] \in Receipt => StillOwned(main[j])
      /\ \A r \in accepted : r.of \in DOMAIN results'
      /\ basis # None /\ basis.receipt # None => Owned(basis.receipt) /\ StillOwned(basis.receipt)
  BY <1>1 DEF PlanInv, Receipted
<1>3. basis # None /\ Succeeds(basis) => /\ Succeeds(basis)'
                                         /\ results'[basis.receipt.of] = results[basis.receipt.of]
  <2> SUFFICES ASSUME basis # None, Succeeds(basis)
               PROVE  Succeeds(basis)' /\ results'[basis.receipt.of] = results[basis.receipt.of]
    OBVIOUS
  <2>1. basis.receipt # None /\ basis.receipt.of \in DOMAIN results
    BY <1>2 DEF Succeeds, Owned
  <2>2. results'[basis.receipt.of] = results[basis.receipt.of] /\ basis' = basis
    BY <2>1
  <2> QED
    BY <2>2 DEF Succeeds, validatePredecessorReceipt, validateGoalResultAcceptance, isGitAncestor
<1>4. Planned'
  BY <1>3 DEF PlanInv, Planned, ThePlan
<1> QED
  BY <1>1, <1>2, <1>4

LEMMA StepIngest == ASSUME PlanInv, IngestResult, Witness PROVE PlanInv'
<1>1. /\ PlanTypeOK /\ GraphTypeOK /\ todo \cap seen.same = {} /\ Receipted
      /\ results \in Seq(Result) /\ Len(results) <= MaxResults /\ DOMAIN results = 1..Len(results)
  BY Holds DEF PlanTypeOK, PlanInv
<1>2. /\ UNCHANGED <<graph, stage, tracker, seen, todo, calm, done, edits>>
      /\ UNCHANGED <<main, basis, run, plans, handoffs, results, moves>>
  BY DEF IngestResult, graphVars
<1>3. PICK i \in DOMAIN results, p \in plans, h \in handoffs :
         accepted' = accepted \cup {buildGoalResultAcceptance(i, h)}
  BY DEF IngestResult
<1>4. main # <<>> /\ Len(main) >= 2
  BY <1>3, Holds
<1>5. buildGoalResultAcceptance(i, h) \in Receipt /\ buildGoalResultAcceptance(i, h).of = i
  <2>1. h.runner \in Runners
    BY <1>1 DEF PlanTypeOK, Handoff
  <2>2. i \in 1..MaxResults
    BY <1>1, PlanAssumption
  <2> QED
    BY <2>1, <2>2 DEF buildGoalResultAcceptance, Receipt
<1>6. GraphTypeOK'
  BY <1>1, <1>2 DEF GraphTypeOK
<1>7. PlanTypeOK'
  BY <1>1, <1>2, <1>3, <1>5, <1>6, Witnessed DEF PlanTypeOK, Truth
<1>8. Vetted' /\ AsRead' /\ Apart'
  BY <1>1, <1>2, <1>4, PlanSide
<1>9. /\ \A j \in DOMAIN main : main[j] \in Receipt => StillOwned(main[j])
      /\ basis # None /\ basis.receipt # None => StillOwned(basis.receipt)
      /\ Planned'
  BY <1>2, <1>3, Growing
<1>10. Receipted'
  <2>1. \A r \in accepted' : r.of \in DOMAIN results
    BY <1>1, <1>3, <1>5 DEF Receipted
  <2> QED
    BY <1>1, <1>2, <1>9, <2>1 DEF Receipted, Owned, StillOwned
<1>11. Told'
  BY <1>2, SameRuns
<1> QED
  BY <1>7, <1>8, <1>9, <1>10, <1>11 DEF PlanInv

LEMMA StepDeliver == ASSUME PlanInv, Deliver, Witness PROVE PlanInv'
<1>1. /\ PlanTypeOK /\ GraphTypeOK /\ todo \cap seen.same = {} /\ Receipted
      /\ results \in Seq(Result) /\ DOMAIN results = 1..Len(results) /\ Len(results) \in Nat
      /\ MaxResults \in Nat
  BY Holds, PlanAssumption DEF PlanTypeOK, PlanInv
<1>2. /\ UNCHANGED <<graph, stage, tracker, seen, todo, calm, done, edits>>
      /\ UNCHANGED <<basis, run, plans, handoffs, accepted, moves>>
      /\ main' = Append(main, C("merge")) /\ Len(results) < MaxResults
  BY DEF Deliver, graphVars
<1>3. PICK result : /\ results' = Append(results, result)
                    /\ \/ \E p \in plans : result = [plan |-> p, handoff |-> None, merge |-> main']
                       \/ \E h \in handoffs :
                             result = [plan |-> h.plan, handoff |-> h, merge |-> main']
  BY DEF Deliver
<1>4. main # <<>> /\ main \in Seq(Change) /\ Len(main) \in Nat /\ Len(main) >= 2
  BY <1>3, Holds
<1>5. /\ main' \in Seq(Change) /\ Len(main') = Len(main) + 1
      /\ \A i \in DOMAIN main' : main'[i] \in Receipt => i \in DOMAIN main /\ main'[i] = main[i]
  BY <1>2, <1>4, ChangeAre
<1>6. result \in Result /\ (result.handoff # None => result.handoff.plan = result.plan)
  <2>1. ASSUME NEW p \in plans, result = [plan |-> p, handoff |-> None, merge |-> main']
        PROVE  result \in Result /\ result.handoff = None
    <3>1. p \in Plan
      BY <1>1 DEF PlanTypeOK
    <3> QED
      BY <1>5, <2>1, <3>1 DEF Result
  <2>2. ASSUME NEW h \in handoffs, result = [plan |-> h.plan, handoff |-> h, merge |-> main']
        PROVE  result \in Result /\ result.handoff.plan = result.plan
    <3>1. h \in Handoff /\ h.plan \in Plan
      BY <1>1 DEF PlanTypeOK, Handoff
    <3> QED
      BY <1>5, <2>2, <3>1 DEF Result
  <2> QED
    BY <1>3, <2>1, <2>2
<1>7. /\ results' \in Seq(Result) /\ Len(results') <= MaxResults
      /\ DOMAIN results' = 1..(Len(results) + 1)
      /\ \A i \in DOMAIN results : i \in DOMAIN results' /\ results'[i] = results[i]
      /\ results'[Len(results) + 1] = result
  BY <1>1, <1>2, <1>3, <1>6
<1>8. GraphTypeOK'
  BY <1>1, <1>2 DEF GraphTypeOK
<1>9. PlanTypeOK'
  BY <1>1, <1>2, <1>5, <1>7, <1>8, Witnessed DEF PlanTypeOK, Truth
<1>10. Vetted' /\ AsRead' /\ Apart'
  BY <1>1, <1>2, <1>4, <1>5, PlanSide
<1>11. /\ \A j \in DOMAIN main : main[j] \in Receipt => StillOwned(main[j])
       /\ \A r \in accepted : r.of \in DOMAIN results'
       /\ basis # None /\ basis.receipt # None => StillOwned(basis.receipt)
       /\ Planned'
  BY <1>2, <1>7, Growing
<1>12. Receipted'
  <2>1. \A i \in DOMAIN results' :
           results'[i].handoff # None => results'[i].handoff.plan = results'[i].plan
    BY <1>1, <1>6, <1>7 DEF Receipted
  <2> QED
    BY <1>2, <1>5, <1>11, <2>1 DEF Receipted, Owned, StillOwned
<1>13. Told'
  BY <1>2, SameRuns
<1> QED
  BY <1>9, <1>10, <1>11, <1>12, <1>13 DEF PlanInv

\* What is tracked is a receipt that was written.
LEMMA StepTrack == ASSUME PlanInv, Track, Witness PROVE PlanInv'
<1>1. /\ PlanTypeOK /\ GraphTypeOK /\ todo \cap seen.same = {} /\ Receipted
      /\ results \in Seq(Result) /\ Len(results) <= MaxResults /\ DOMAIN results = 1..Len(results)
      /\ MaxResults \in Nat
  BY Holds, PlanAssumption DEF PlanTypeOK, PlanInv
<1>2. /\ UNCHANGED <<graph, stage, tracker, seen, todo, calm, done, edits>>
      /\ UNCHANGED <<basis, run, plans, handoffs, results, accepted, moves>>
  BY DEF Track, graphVars
<1>3. PICK r : /\ main' = Append(main, r)
               /\ \/ r \in accepted
                  \/ \E i \in DOMAIN results : r = [kind |-> "result", of |-> i, runner |-> None]
  BY DEF Track
<1>4. main # <<>> /\ main \in Seq(Change) /\ Len(main) \in Nat /\ Len(main) >= 2
  BY <1>3, Holds
<1>5. r \in Receipt /\ Owned(r)
  <2>1. CASE r \in accepted
    BY <1>1, <2>1 DEF PlanTypeOK, Receipted, Owned
  <2>2. ASSUME NEW i \in DOMAIN results, r = [kind |-> "result", of |-> i, runner |-> None]
        PROVE  r \in Receipt /\ Owned(r)
    <3>1. i \in 1..MaxResults
      BY <1>1
    <3> QED
      BY <2>2, <3>1 DEF Receipt, Owned
  <2> QED
    BY <1>3, <2>1, <2>2
<1>6. /\ main' \in Seq(Change) /\ Len(main') = Len(main) + 1
      /\ \A i \in DOMAIN main' : main'[i] = r \/ (i \in DOMAIN main /\ main'[i] = main[i])
  BY <1>3, <1>4, <1>5, ChangeAre
<1>7. GraphTypeOK'
  BY <1>1, <1>2 DEF GraphTypeOK
<1>8. PlanTypeOK'
  BY <1>1, <1>2, <1>6, <1>7, Witnessed DEF PlanTypeOK, Truth
<1>9. Vetted' /\ AsRead' /\ Apart'
  BY <1>1, <1>2, <1>4, <1>6, PlanSide
<1>10. Receipted'
  BY <1>1, <1>2, <1>5, <1>6 DEF Receipted, Owned
<1>11. Planned'
  BY <1>2, Growing
<1>12. Told'
  BY <1>2, SameRuns
<1> QED
  BY <1>8, <1>9, <1>10, <1>11, <1>12 DEF PlanInv

LEMMA StepMove == ASSUME PlanInv, Move, Witness PROVE PlanInv'
<1>1. /\ PlanTypeOK /\ GraphTypeOK /\ todo \cap seen.same = {} /\ Receipted
      /\ main # <<>> /\ main \in Seq(Change) /\ Len(main) \in Nat /\ Len(main) >= 2
  BY Holds DEF Move, PlanInv
<1>2. /\ UNCHANGED <<graph, stage, tracker, seen, todo, calm, done, edits>>
      /\ UNCHANGED <<basis, run, plans, handoffs, results, accepted>>
  BY DEF Move, graphVars
<1>3. /\ main' \in Seq(Change) /\ Len(main') >= 2
      /\ \A j \in DOMAIN main' : main'[j] \in Receipt => \E k \in DOMAIN main : main'[j] = main[k]
  <2>1. ASSUME NEW kind \in {"other", "decide", "accept"}, main' = Append(main, C(kind))
        PROVE  /\ main' \in Seq(Change) /\ Len(main') >= 2
               /\ \A j \in DOMAIN main' :
                     main'[j] \in Receipt => \E k \in DOMAIN main : main'[j] = main[k]
    <3>1. C(kind) \in Change /\ C(kind) \notin Receipt
      BY ChangeAre
    <3> QED
      BY <1>1, <2>1, <3>1
  <2>2. ASSUME NEW i \in 3..Len(main), main' = RemoveAt(main, i)
        PROVE  /\ main' \in Seq(Change) /\ Len(main') >= 2
               /\ \A j \in DOMAIN main' : \E k \in DOMAIN main : main'[j] = main[k]
    <3>1. i \in 1..Len(main) /\ Len(main) >= 3
      BY <1>1
    <3>2. /\ main' \in Seq(Change) /\ Len(main') = Len(main) - 1
          /\ \A j \in DOMAIN main' : \E k \in DOMAIN main : main'[j] = main[k]
      BY <1>1, <2>2, <3>1, Removed
    <3> QED
      BY <1>1, <3>1, <3>2
  <2> QED
    BY <2>1, <2>2 DEF Move
<1>4. moves' \in 0..MaxMoves
  <2>1. moves \in 0..MaxMoves /\ moves < MaxMoves /\ moves' = moves + 1 /\ MaxMoves \in Nat
    BY <1>1, PlanAssumption DEF Move, PlanTypeOK
  <2> QED
    BY <2>1
<1>5. GraphTypeOK'
  BY <1>1, <1>2 DEF GraphTypeOK
<1>6. PlanTypeOK'
  BY <1>1, <1>2, <1>3, <1>4, <1>5, Witnessed DEF PlanTypeOK, Truth
<1>7. Vetted' /\ AsRead' /\ Apart'
  BY <1>1, <1>2, <1>3, PlanSide
<1>8. Receipted'
  BY <1>1, <1>2, <1>3 DEF Receipted, Owned
<1>9. Planned'
  BY <1>2, Growing
<1>10. Told'
  BY <1>2, SameRuns
<1> QED
  BY <1>6, <1>7, <1>8, <1>9, <1>10 DEF PlanInv

LEMMA StepMeddle == ASSUME PlanInv, Meddle, Witness PROVE PlanInv'
<1>1. /\ PlanTypeOK /\ GraphTypeOK /\ todo \cap seen.same = {} /\ run # None
      /\ main # <<>> /\ Len(main) >= 2
  BY Holds DEF Meddle
<1>2. /\ UNCHANGED <<graph, stage, seen, todo, calm, done>>
      /\ UNCHANGED <<main, basis, run, plans, handoffs, results, accepted, moves>>
  BY DEF Meddle, planVars
<1>3. tracker' \in Tracker
  <2>1. /\ tracker \in Tracker /\ tracker.order \in Seq(Child) /\ Len(tracker.order) \in 0..N
        /\ tracker.same \in SUBSET Child
    BY <1>1, TrackerShape DEF GraphTypeOK
  <2>2. ASSUME NEW c \in Child,
               tracker' = [tracker EXCEPT !.same = IF c \in @ THEN @ \ {c} ELSE @ \cup {c}]
        PROVE  tracker' \in Tracker
    <3> DEFINE set == IF c \in tracker.same THEN tracker.same \ {c} ELSE tracker.same \cup {c}
    <3>1. set \in SUBSET Child /\ tracker' = [tracker EXCEPT !.same = set]
      BY <2>1, <2>2
    <3> HIDE DEF set
    <3> QED
      BY <2>1, <3>1, TrackerField
  <2>3. ASSUME tracker' = [tracker EXCEPT !.order = Reverse(@)] PROVE tracker' \in Tracker
    <3>1. Reverse(tracker.order) \in Seq(Child) /\ Len(Reverse(tracker.order)) \in 0..N
      BY <2>1, Reversed
    <3> QED
      BY <2>1, <2>3, <3>1, TrackerField
  <2>4. ASSUME tracker' = [tracker EXCEPT !.parent = ~@] PROVE tracker' \in Tracker
    BY <2>1, <2>4, TrackerField
  <2> QED
    BY <2>2, <2>3, <2>4 DEF Meddle
<1>4. edits' \in 0..MaxEdits
  <2>1. edits \in 0..MaxEdits /\ edits < MaxEdits /\ edits' = edits + 1 /\ MaxEdits \in Nat
    BY <1>1, GraphAssumption DEF Meddle, GraphTypeOK
  <2> QED
    BY <2>1
<1>5. GraphTypeOK'
  BY <1>1, <1>2, <1>3, <1>4 DEF GraphTypeOK
<1>6. PlanTypeOK'
  BY <1>1, <1>2, <1>5, Witnessed DEF PlanTypeOK, Truth
<1>7. Vetted' /\ AsRead' /\ Apart'
  BY <1>1, <1>2, PlanSide
<1>8. Receipted'
  BY <1>2, SameReceipts
<1>9. Planned'
  BY <1>2, Growing
<1>10. Told'
  <2> SUFFICES ASSUME ~truth'.undone PROVE Told'
    BY DEF Told
  <2>1. /\ truth'.spoiled = truth.spoiled \cup (Wrong(tracker') \ Wrong(tracker))
        /\ truth.whole => truth'.whole
        /\ ~truth.undone /\ truth.spoiled \cap (Wrong(tracker) \ Wrong(tracker')) = {}
    BY <1>1, <1>2, Witnessed
  <2>2. /\ truth.spoiled \subseteq Wrong(tracker)
        /\ run.step = "tickets" => Wrong(tracker) \ Wrong(seen) \subseteq truth.spoiled
        /\ run.look = 2 /\ ~truth.whole =>
              \E p \in truth.spoiled : run.step = "tickets" => p \in Wrong(seen)
        /\ run.step = "write" => truth.whole
    BY <1>1, <2>1 DEF PlanInv, Told
  <2>3. truth'.spoiled \subseteq Wrong(tracker')
    BY <2>1, <2>2
  <2>4. run.step = "tickets" => Wrong(tracker') \ Wrong(seen) \subseteq truth'.spoiled
    BY <2>1, <2>2
  <2> QED
    BY <1>2, <2>1, <2>2, <2>3, <2>4 DEF Told
<1> QED
  BY <1>6, <1>7, <1>8, <1>9, <1>10 DEF PlanInv

LEMMA StepPlan == ASSUME PlanInv, PlanNext PROVE PlanInv'
BY StepPrepare, StepLaunch, StepLookAtOrder, StepLookAtChild, StepJudge, StepWrite,
   StepIngest, StepDeliver, StepTrack, StepMove, StepMeddle DEF PlanNext

-----------------------------------------------------------------------------
(* The steps of a Release keep the invariant, too.                         *)

\* They leave what is planned, which is nothing yet.
LEMMA GraphSide == ASSUME PlanInv, Alone
    PROVE  Apart' /\ Receipted' /\ Planned' /\ Told' /\ main = <<>> /\ main' = <<>>
           /\ run' = None /\ (GraphTypeOK' => PlanTypeOK')
<1>1. /\ UNCHANGED <<main, basis, run, plans, handoffs, results, accepted, moves, truth>>
      /\ main = <<>> /\ run = None
  BY DEF PlanInv, Apart, Alone, planVars
<1>2. Apart'
  BY <1>1 DEF PlanInv, Apart
<1>3. Receipted'
  BY <1>1 DEF PlanInv, Receipted, Owned
<1>4. Planned' /\ Told'
  BY <1>1 DEF Planned, Told
<1>5. GraphTypeOK' => PlanTypeOK'
  BY <1>1 DEF PlanInv, PlanTypeOK
<1> QED
  BY <1>1, <1>2, <1>3, <1>4, <1>5

LEMMA StepDraft == ASSUME PlanInv, DraftFrontier, Alone PROVE PlanInv'
<1>1. GraphTypeOK /\ todo \cap seen.same = {}
  BY DEF PlanInv, PlanTypeOK, AsRead
<1>2. GraphTypeOK' /\ graph' \in Graph
  BY <1>1, DrawType
<1>3. /\ stage' \in {"frontier", "rejected"}
      /\ stage' = "frontier" => Inversions([i \in 1..N |-> i], graph'.blockedBy) = {}
  BY DEF DraftFrontier, StrictFrontier
<1>4. Vetted'
  BY <1>2, <1>3 DEF Vetted
<1>5. AsRead'
  BY <1>1, <1>3 DEF AsRead, DraftFrontier
<1> QED
  BY <1>2, <1>4, <1>5, GraphSide DEF PlanInv

LEMMA StepReview == ASSUME PlanInv, Review, Alone PROVE PlanInv'
<1>1. /\ GraphTypeOK /\ todo \cap seen.same = {} /\ stage = "frontier" /\ main = <<>>
      /\ graph \in Graph /\ Inversions([i \in 1..N |-> i], graph.blockedBy) = {}
  BY DEF PlanInv, PlanTypeOK, AsRead, Vetted, Review, Alone
<1>2. /\ GraphTypeOK' /\ stage' \in {"reviewed", "rejected"}
      /\ stage' = "reviewed" =>
            /\ graph' \in Graph /\ graph'.blockedBy = graph.blockedBy /\ Skeleton(graph')
  BY <1>1, ReviewType
<1>3. Vetted'
  BY <1>1, <1>2 DEF Vetted
<1>4. AsRead'
  BY <1>1, <1>2 DEF AsRead, Review
<1> QED
  BY <1>2, <1>3, <1>4, GraphSide DEF PlanInv

LEMMA StepReadOrder == ASSUME PlanInv, ReadOrder, Alone PROVE PlanInv'
<1>1. GraphTypeOK /\ stage \in {"reviewed", "refused"} /\ stage' = "reading" /\ TakeOrder
  BY DEF PlanInv, PlanTypeOK, ReadOrder
<1>2. GraphTypeOK'
  BY <1>1, AdmissionType
<1>3. Vetted'
  <2>1. graph' = graph /\ main' = main
    BY <1>1, GraphSide DEF TakeOrder
  <2> QED
    BY <1>1, <2>1 DEF PlanInv, Vetted
<1>4. /\ seen'.order = tracker.order /\ seen'.parent = tracker.parent /\ seen'.same = {}
      /\ todo' = ToSet(tracker.order) /\ tracker' = tracker
  BY <1>1 DEF TakeOrder, Unread
<1>5. AsRead'
  BY <1>1, <1>4 DEF AsRead
<1> QED
  BY <1>2, <1>3, <1>5, GraphSide DEF PlanInv

LEMMA StepReadChild == ASSUME PlanInv, NEW c \in Child, ReadChild(c), Alone PROVE PlanInv'
<1>1. /\ GraphTypeOK /\ stage = "reading" /\ TakeChild(c) /\ todo \cap seen.same = {}
      /\ UNCHANGED <<graph, stage, tracker, calm, done, edits>> /\ main = <<>> /\ main' = <<>>
  BY GraphSide DEF PlanInv, PlanTypeOK, ReadChild, AsRead, TakeChild
<1>2. GraphTypeOK'
  BY <1>1, AdmissionType
<1>3. Vetted'
  BY <1>1 DEF PlanInv, Vetted
<1>4. /\ seen'.order = seen.order /\ seen'.parent = seen.parent /\ todo' = todo \ {c} /\ c \in todo
      /\ seen'.same = IF c \in tracker.same THEN seen.same \cup {c} ELSE seen.same
      /\ seen'.blockedBy[c] = tracker.blockedBy[c]
      /\ \A d \in Child \ {c} : seen'.blockedBy[d] = seen.blockedBy[d]
  BY <1>1 DEF TakeChild, GraphTypeOK, Tracker
<1>5. todo' \cap seen'.same = {}
  BY <1>1, <1>4
<1>6. ASSUME calm
      PROVE  /\ seen'.order = tracker.order /\ seen'.parent = tracker.parent
             /\ \A d \in ToSet(seen'.order) \ todo' :
                   /\ seen'.blockedBy[d] = tracker.blockedBy[d]
                   /\ d \in seen'.same <=> d \in tracker.same
  <2>1. /\ seen.order = tracker.order /\ seen.parent = tracker.parent
        /\ \A d \in ToSet(seen.order) \ todo :
              /\ seen.blockedBy[d] = tracker.blockedBy[d]
              /\ d \in seen.same <=> d \in tracker.same
    BY <1>1, <1>6 DEF PlanInv, AsRead
  <2>2. ToSet(seen.order) \subseteq Child
    BY <1>1, TrackerShape DEF GraphTypeOK, ToSet
  <2>3. ASSUME NEW d \in ToSet(seen.order), d \notin todo'
        PROVE  /\ seen'.blockedBy[d] = tracker.blockedBy[d]
               /\ d \in seen'.same <=> d \in tracker.same
    <3>1. CASE d = c
      BY <1>1, <1>4, <3>1
    <3>2. CASE d # c
      BY <1>4, <2>1, <2>2, <2>3, <3>2
    <3> QED
      BY <3>1, <3>2
  <2> QED
    BY <1>4, <2>1, <2>3
<1>7. AsRead'
  BY <1>1, <1>5, <1>6 DEF AsRead
<1> QED
  BY <1>2, <1>3, <1>7, GraphSide DEF PlanInv

LEMMA StepAdmit == ASSUME PlanInv, Admit, Alone PROVE PlanInv'
<1>1. /\ GraphTypeOK /\ stage = "reading" /\ todo = {} /\ stage' \in {"admitted", "refused"}
      /\ UNCHANGED <<graph, tracker, seen, todo, calm>> /\ main = <<>> /\ main' = <<>>
      /\ stage' = "admitted" => validateAdmissionState(seen, graph)
  BY GraphSide DEF PlanInv, PlanTypeOK, Admit
<1>2. GraphTypeOK'
  BY <1>1, AdmissionType
<1>3. Vetted'
  BY <1>1 DEF PlanInv, Vetted
<1>4. AsRead'
  BY <1>1 DEF PlanInv, AsRead, validateAdmissionState
<1> QED
  BY <1>2, <1>3, <1>4, GraphSide DEF PlanInv

LEMMA StepExecute == ASSUME PlanInv, Execute, Alone PROVE PlanInv'
<1>1. /\ GraphTypeOK /\ UNCHANGED <<graph, stage, tracker, seen, todo, calm>>
      /\ main = <<>> /\ main' = <<>>
  BY GraphSide DEF PlanInv, PlanTypeOK, Execute
<1>2. GraphTypeOK'
  BY <1>1, AdmissionType
<1>3. Vetted'
  BY <1>1 DEF PlanInv, Vetted
<1>4. AsRead'
  BY <1>1 DEF PlanInv, AsRead, validateAdmissionState
<1> QED
  BY <1>2, <1>3, <1>4, GraphSide DEF PlanInv

LEMMA StepEdit == ASSUME PlanInv, Edit, Alone PROVE PlanInv'
<1>1. /\ GraphTypeOK /\ UNCHANGED <<graph, stage, seen, todo>> /\ calm' = FALSE
      /\ main = <<>> /\ main' = <<>>
  BY GraphSide DEF PlanInv, PlanTypeOK, Edit
<1>2. GraphTypeOK'
  BY <1>1, EditType DEF PlanInv
<1>3. Vetted'
  BY <1>1 DEF PlanInv, Vetted
<1>4. AsRead'
  BY <1>1 DEF PlanInv, AsRead, validateAdmissionState
<1> QED
  BY <1>2, <1>3, <1>4, GraphSide DEF PlanInv

LEMMA StepGraph == ASSUME PlanInv, GraphNext PROVE PlanInv'
BY StepDraft, StepReview, StepReadOrder, StepReadChild, StepAdmit, StepExecute, StepEdit
   DEF GraphNext

LEMMA PlanStutters == ASSUME PlanInv, UNCHANGED allVars PROVE PlanInv'
<1>1. /\ UNCHANGED <<graph, stage, tracker, seen, todo, calm, done, edits>>
      /\ UNCHANGED <<main, basis, run, plans, handoffs, results, accepted, moves, truth>>
  BY DEF allVars, graphVars, planVars
<1>2. PlanTypeOK'
  BY <1>1 DEF PlanInv, PlanTypeOK, GraphTypeOK
<1>3. Vetted' /\ AsRead'
  BY <1>1 DEF PlanInv, Vetted, AsRead, validateAdmissionState
<1>4. Apart' /\ Receipted'
  BY <1>1 DEF PlanInv, Apart, Receipted, Owned
<1>5. Planned'
  BY <1>1, Growing
<1>6. Told'
  BY <1>1 DEF PlanInv, Told
<1> QED
  BY <1>2, <1>3, <1>4, <1>5, <1>6 DEF PlanInv

LEMMA InitTypes ==
    /\ 0 \in 0..MaxEdits /\ 0 \in 0..MaxMoves
    /\ <<>> \in Seq(Change) /\ <<>> \in Seq(Result) /\ Len(<<>>) <= MaxResults
    /\ Untold \in Truth
<1>1. MaxEdits \in Nat /\ MaxMoves \in Nat /\ MaxResults \in Nat
  BY GraphAssumption, PlanAssumption
<1>2. Untold \in Truth
  BY DEF Untold, Truth
<1> QED
  BY <1>1, <1>2

LEMMA StartGraph == ASSUME GraphInit PROVE PlanInv
<1>1. GraphTypeOK
  BY InitTypes, UnreadType DEF GraphInit, Undrafted, GraphTypeOK
<1>2. PlanTypeOK
  BY <1>1, InitTypes DEF GraphInit, PlanTypeOK, Truth
<1>3. Vetted
  BY DEF GraphInit, Undrafted, Vetted
<1>4. AsRead
  BY DEF GraphInit, Undrafted, AsRead
<1>5. Apart /\ Receipted /\ Planned /\ Told
  BY DEF GraphInit, Apart, Receipted, Planned, Told
<1> QED
  BY <1>2, <1>3, <1>4, <1>5 DEF PlanInv

LEMMA StartPlan == ASSUME PlanInit PROVE PlanInv
<1>1. tracker \in Tracker /\ Reviewed \in Graph
  BY PublishedType, PlanAssumption DEF PlanInit, Published
<1>2. /\ main \in Seq(Change) /\ Len(main) = 2 /\ main # <<>>
      /\ \A i \in DOMAIN main : main[i] \notin Receipt
  <2>1. /\ C("roadmap") \in Change /\ C("accept") \in Change
        /\ C("roadmap") \notin Receipt /\ C("accept") \notin Receipt
    BY ChangeAre
  <2>2. main = <<C("roadmap"), C("accept")>>
    BY DEF PlanInit
  <2> QED
    BY <2>1, <2>2
<1>3. GraphTypeOK
  BY <1>1, InitTypes, UnreadType DEF PlanInit, GraphTypeOK
<1>4. PlanTypeOK
  BY <1>2, <1>3, InitTypes DEF PlanInit, PlanTypeOK, Truth
<1>5. Vetted
  BY <1>1, <1>2 DEF PlanInit, Vetted
<1>6. AsRead
  BY <1>2 DEF PlanInit, AsRead
<1>7. Apart /\ Planned /\ Told
  BY <1>2 DEF PlanInit, Apart, Planned, Told
<1>8. Receipted
  BY <1>2 DEF PlanInit, Receipted
<1> QED
  BY <1>4, <1>5, <1>6, <1>7, <1>8 DEF PlanInv

LEMMA PlanInvariant == RoadmapSpec => []PlanInv
<1>1. GraphInit \/ PlanInit => PlanInv
  BY StartGraph, StartPlan
<1>2. PlanInv /\ [RoadmapNext]_allVars => PlanInv'
  BY StepGraph, StepPlan, PlanStutters DEF RoadmapNext
<1> QED
  BY <1>1, <1>2, PTL DEF RoadmapSpec

-----------------------------------------------------------------------------
(* What holds.                                                             *)

\* Every state has the shape that the graph, the tracker, the plans and the
\* receipts are declared with, for any number of tickets, scenarios and runners.
THEOREM PlanTyping == RoadmapSpec => []PlanTypeOK
<1>1. PlanInv => PlanTypeOK
  BY DEF PlanInv
<1> QED
  BY <1>1, PlanInvariant, PTL

\* The depth-first search, which remembers the tickets it left and never looks at them
\* again, says that there is a cycle exactly when some tickets are each blocked by another
\* of them (scripts/check-delivery-graph.mjs, findDependencyCycle): for graphs of any size.
THEOREM SearchFindsCycles == RoadmapSpec => []CycleFound
<1>1. GraphTypeOK => CycleFound
  <2> SUFFICES ASSUME GraphTypeOK, graph # NoGraph
               PROVE  findDependencyCycle(graph) <=>
                        \E loop \in (SUBSET Child) \ {{}} : \A c \in loop :
                           loop \cap (graph.blockedBy[c] \ {c}) # {}
    BY DEF CycleFound
  <2>1. graph \in Graph
    BY DEF GraphTypeOK
  <2> QED
    BY <2>1, GraphAssumption, CycleIs DEF LoopIn, Loop
<1>2. PlanTypeOK => GraphTypeOK
  BY DEF PlanTypeOK
<1> QED
  BY <1>1, <1>2, PlanTyping, PTL

\* check-delivery-graph.mjs takes away one ticket at a time, and yet no smaller part
\* of an accepted walking skeleton would do; and when the executor has done the
\* tickets of it, the smallest loop is built, each scenario on built ones, whatever
\* else is open: for every graph, every loop and every order of the executor's.
THEOREM AcceptedSkeleton == RoadmapSpec => []SkeletonTrue
<1>1. PlanInv => SkeletonTrue
  <2> SUFFICES ASSUME PlanInv PROVE SkeletonTrue
    OBVIOUS
  <2>1. stage \in {"reviewed", "admitted"} => graph \in Graph /\ Skeleton(graph)
    BY DEF PlanInv, Vetted, Apart
  <2>2. SkeletonMinimal
    BY <2>1, Smaller DEF SkeletonMinimal
  <2>3. LoopCloses
    <3> SUFFICES ASSUME stage = "admitted", ToSet(graph.skeleton) \subseteq done,
                        NEW set \in SUBSET Scenario, Builds(set)
                 PROVE  Smallest \subseteq set
      BY DEF LoopCloses
    <3>1. graph \in Graph /\ validateWalkingSkeleton(graph, DOMAIN graph.skeleton)
      BY <2>1 DEF Skeleton
    <3> QED
      BY <3>1, ClosesLoop DEF Builds
  <2> QED
    BY <2>2, <2>3 DEF SkeletonTrue
<1> QED
  BY <1>1, PlanInvariant, PTL

\* An admission that nobody disturbed admits exactly the reviewed Release, though it
\* reads the tracker ticket by ticket; and a build writes only what was true at one
\* moment of it, unless somebody spoiled a part of the tracker and put it right
\* meanwhile: two looks are enough, however many the tickets and the edits.
THEOREM TrackerReadWhole == RoadmapSpec => []ReadWhole
<1>1. PlanInv => ReadWhole
  <2> SUFFICES ASSUME PlanInv PROVE ReadWhole
    OBVIOUS
  <2>1. TrueAtOnce
    BY DEF PlanInv, Told, TrueAtOnce, Going
  <2>2. AdmittedAsReviewed
    <3> SUFFICES ASSUME stage = "admitted"
                 PROVE  /\ calm => tracker = [order |-> [i \in 1..N |-> i],
                                              blockedBy |-> graph.blockedBy,
                                              same |-> Child, parent |-> TRUE]
                        /\ validateFrontierOrder(seen)
      BY DEF AdmittedAsReviewed
    <3>1. /\ GraphTypeOK /\ main = <<>> /\ todo = {} /\ graph \in Graph
          /\ validateAdmissionState(seen, graph)
          /\ Inversions([i \in 1..N |-> i], graph.blockedBy) = {}
      BY DEF PlanInv, PlanTypeOK, Apart, Vetted, AsRead
    <3>2. /\ seen.order = [i \in 1..N |-> i] /\ seen.parent
          /\ \A c \in Child : c \in seen.same /\ seen.blockedBy[c] = graph.blockedBy[c]
      BY <3>1 DEF validateAdmissionState
    <3>3. /\ seen.blockedBy \in [Child -> SUBSET (Child \cup {0})]
          /\ graph.blockedBy \in [Child -> SUBSET Child]
      BY <3>1, TrackerShape, GraphShape DEF GraphTypeOK
    <3>4. seen.blockedBy = graph.blockedBy
      BY <3>2, <3>3
    <3>5. seen.order # <<>>
      <4>1. N \in Nat \ {0}
        BY GraphAssumption
      <4>2. DOMAIN seen.order = 1..N /\ 1 \in 1..N
        BY <3>2, <4>1
      <4>3. DOMAIN <<>> = {}
        OBVIOUS
      <4> QED
        BY <4>2, <4>3
    <3>6. validateFrontierOrder(seen)
      BY <3>1, <3>2, <3>4, <3>5 DEF validateFrontierOrder
    <3>7. ASSUME calm
          PROVE  tracker = [order |-> [i \in 1..N |-> i], blockedBy |-> graph.blockedBy,
                            same |-> Child, parent |-> TRUE]
      <4>1. /\ seen.order = tracker.order /\ seen.parent = tracker.parent
            /\ \A c \in ToSet(seen.order) :
                  /\ seen.blockedBy[c] = tracker.blockedBy[c]
                  /\ c \in seen.same <=> c \in tracker.same
        BY <3>1, <3>7 DEF PlanInv, AsRead
      <4>2. ToSet(seen.order) = Child
        BY <3>2 DEF ToSet, Child
      <4>3. /\ tracker.blockedBy \in [Child -> SUBSET (Child \cup {0})]
            /\ tracker.same \in SUBSET Child /\ tracker.parent \in BOOLEAN /\ tracker \in Tracker
        BY <3>1, TrackerShape DEF GraphTypeOK
      <4>4. tracker.same = Child
        BY <3>2, <4>1, <4>2, <4>3
      <4>5. tracker.blockedBy = graph.blockedBy
        BY <3>2, <3>3, <4>1, <4>2, <4>3
      <4>6. tracker.order = [i \in 1..N |-> i] /\ tracker.parent = TRUE
        BY <3>2, <4>1, <4>3
      <4>7. tracker = [order |-> tracker.order, blockedBy |-> tracker.blockedBy,
                       same |-> tracker.same, parent |-> tracker.parent]
        BY <4>3 DEF Tracker
      <4> QED
        BY <4>4, <4>5, <4>6, <4>7
    <3> QED
      BY <3>6, <3>7
  <2> QED
    BY <2>1, <2>2 DEF ReadWhole
<1> QED
  BY <1>1, PlanInvariant, PTL

\* A plan of a later Release stands on its predecessor: the base it is written for
\* still has the merge of an execution of exactly the plan the graph names, one of
\* the Release before, and what a runner did was ingested for the handoff it was
\* given, whatever is pushed, by force too, and in any number.
THEOREM StandsOnPredecessor == RoadmapSpec => []Chained
<1>1. PlanInv => Chained
  <2> SUFFICES ASSUME PlanInv, Going("write"), basis.release = 2
               PROVE  \E i \in DOMAIN results :
                         /\ results[i].plan = basis.plan /\ basis.plan.release = 1
                         /\ IsPrefix(results[i].merge, run.plan.base)
                         /\ results[i].handoff # None =>
                               /\ results[i].handoff.plan = basis.plan
                               /\ [kind |-> "acceptance", of |-> i,
                                   runner |-> results[i].handoff.runner] \in accepted
    BY DEF Chained
  <2>1. /\ run # None /\ basis # None /\ run.plan = ThePlan /\ basis \in Basis
        /\ Succeeds(basis) /\ results[basis.receipt.of].plan.release = 1 /\ Receipted
    BY Holds DEF PlanInv, Planned, Going
  <2> DEFINE r == basis.receipt
  <2>2. /\ r # None /\ results[r.of].plan = basis.plan /\ validatePredecessorReceipt(r)
        /\ IsPrefix(results[r.of].merge, basis.base)
    BY <2>1 DEF Succeeds, isGitAncestor
  <2>3. r \in Receipt /\ Owned(r)
    BY <2>1, <2>2 DEF Basis, Receipted
  <2>4. r.of \in DOMAIN results /\ (r.kind = "acceptance" => r \in accepted)
    BY <2>3 DEF Owned
  <2>5. run.plan.base = basis.base
    BY <2>1 DEF ThePlan
  <2>6. ASSUME results[r.of].handoff # None
        PROVE  /\ results[r.of].handoff.plan = basis.plan
               /\ [kind |-> "acceptance", of |-> r.of, runner |-> results[r.of].handoff.runner]
                     \in accepted
    <3>1. r.kind # "result" /\ r.runner = results[r.of].handoff.runner
      BY <2>2, <2>6 DEF validatePredecessorReceipt, validateGoalResultAcceptance
    <3>2. r = [kind |-> "acceptance", of |-> r.of, runner |-> r.runner]
      BY <2>3, <3>1 DEF Receipt
    <3>3. r \in accepted
      BY <2>4, <3>2
    <3> QED
      BY <2>1, <2>2, <2>4, <2>6, <3>1, <3>2, <3>3 DEF Receipted
  <2> QED
    BY <2>1, <2>2, <2>4, <2>5, <2>6
<1> QED
  BY <1>1, PlanInvariant, PTL
=============================================================================
