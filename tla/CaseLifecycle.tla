--------------------------- MODULE CaseLifecycle ---------------------------
(***************************************************************************)
(* The decision kernel of a Planning Case: which checkpoint may follow     *)
(* which, what has to be attested for it, and what a rebuild of the case   *)
(* from its event log accepts again.  Every action is one event that the   *)
(* store commits under its lock (PlanningCaseStore models the committing). *)
(*                                                                         *)
(* Attestations are many and the kernel judges each one by itself, so the  *)
(* model follows ONE of them, `watched`, chosen freely when it is made,    *)
(* among any number of others that are there whenever they are needed.     *)
(* Of the events that relied on it, it follows one as well, `used`: what   *)
(* holds of the watched attestation and the watched event holds of all.    *)
(*                                                                         *)
(* Left out: the lane (every lane may change to every lane, and the lane   *)
(* RISK admits every stage), the target (a case has one), and the digest   *)
(* of a subject, which goes with its identity.  Verdicts of a stage that   *)
(* require the same facts and lead to the same stages are one verdict.     *)
(***************************************************************************)
EXTENDS Naturals, FiniteSets

CONSTANTS Releases,   \* identities (id and revision) a case may be about
          Mutations,  \* ids of the mutations attestations are made for
          Receipts,   \* outcome receipts
          NoMutation, NoAttestation, NoUse, NoReceipt, \* model values
          MaxTime,    \* bound on the clock
          MaxAge,     \* the age at which an aging fact is stale
          MaxBuild    \* bound on upgrades of the package

(* The bounds are numbers, and "none of them" is told from the real ones. *)
ASSUME LifecycleAssumption ==
  /\ MaxTime \in Nat /\ MaxAge \in Nat /\ MaxBuild \in Nat \ {0}
  /\ NoMutation \notin Mutations /\ NoReceipt \notin Receipts

VARIABLES
  checkpoint, \* snapshot.checkpoint: [stage, verdict, subject]
  watched,    \* the attestation that is followed
  life,       \* "unmade", "made", "stored" in snapshot.facts, "spent"; of a learning
              \* decision: "pending" and "consumed" approval, "recorded" decision
  serving,    \* the latest transition relied on the watched attestation
  used,       \* one logged event that relied on it: [when, mutation, subject]
  outcome,    \* snapshot.bindings.outcome, followed with a learning decision
  decider,    \* what runs `outcome decide`: [about: receipt, runs, hindered]
  clock,      \* the time
  build       \* the installed build, which fixes the producers' digests

learning == <<outcome, decider>>
vars == <<checkpoint, watched, life, serving, used, learning, clock, build>>

(***************************** contracts/workflow.json *********************)
Unnamed == [kind |-> "none", id |-> "NONE"]
Subjects == {Unnamed} \cup [kind: {"release", "ticket"}, id: Releases]

Kinds == [ORIENT |-> {"none", "release", "ticket"}, FRAME |-> {"none", "release"},
          EVIDENCE |-> {"release"}, COMMIT |-> {"release"}, SPEC |-> {"release"},
          TICKETS |-> {"release", "ticket"}, ADMISSION |-> {"release", "ticket"},
          EXECUTION |-> {"release", "ticket"}, OUTCOME |-> {"release"}]
Stages == DOMAIN Kinds

Verdicts ==
  [ORIENT |-> {"ROUTED"}, FRAME |-> {"FRAME_CANDIDATE"},
   EVIDENCE |-> {"NEEDS_RESEARCH", "EVIDENCE_RECORDED"},
   COMMIT |-> {"NOT_READY", "READY_TO_COMMIT", "COMMITTED", "HOLD", "REWORK"},
   SPEC |-> {"PLANNED", "SPEC_IN_PROGRESS", "SPEC_ACCEPTED", "BLOCKED"},
   TICKETS |-> {"TICKET_GRAPH_CANDIDATE", "TICKETS_ACCEPTED", "ORACLES_BOUND",
                "GRAPH_REVIEWED"},
   ADMISSION |-> {"REVIEW_IN_PROGRESS", "ACTIVATION_AWAITING_CONFIRMATION",
                  "ADMITTED", "HANDOFF_APPROVED", "BLOCKED"},
   EXECUTION |-> {"HANDOFF_READY", "IN_PROGRESS", "BLOCKED", "DELIVERED"},
   OUTCOME |-> {"AWAITING_EVIDENCE", "ACHIEVED"}]

Allowed ==
  [ORIENT |-> Stages, FRAME |-> {"FRAME", "EVIDENCE", "COMMIT"},
   EVIDENCE |-> {"FRAME", "EVIDENCE", "COMMIT"},
   COMMIT |-> {"FRAME", "EVIDENCE", "COMMIT", "SPEC"},
   SPEC |-> {"COMMIT", "SPEC", "TICKETS"}, TICKETS |-> {"SPEC", "TICKETS", "ADMISSION"},
   ADMISSION |-> {"TICKETS", "ADMISSION", "EXECUTION"},
   EXECUTION |-> {"ADMISSION", "EXECUTION", "OUTCOME"},
   OUTCOME |-> {"OUTCOME", "ORIENT", "FRAME"}]

Required ==
  [EVIDENCE_RECORDED |-> {"evidence.persisted"},
   READY_TO_COMMIT |-> {"release.readinessPassed"},
   COMMITTED |-> {"release.readinessPassed", "human.commitment", "release.persisted"},
   PLANNED |-> {"release.persisted"},
   HOLD |-> {"human.releaseDecision", "release.persisted"},
   REWORK |-> {"human.releaseDecision", "release.persisted"},
   SPEC_IN_PROGRESS |-> {"human.commitment", "release.persisted", "release.accepted",
                         "git.deliveryBase"},
   SPEC_ACCEPTED |-> {"human.commitment", "release.persisted", "release.accepted",
                      "git.deliveryBase", "spec.persisted"},
   TICKETS_ACCEPTED |-> {"spec.persisted", "tickets.persisted", "graph.passed",
                         "human.graphApproval"},
   ORACLES_BOUND |-> {"spec.persisted", "oracles.bound"},
   GRAPH_REVIEWED |-> {"spec.persisted", "oracles.bound", "graph.passed", "review.ready"},
   REVIEW_IN_PROGRESS |-> {"tickets.persisted", "graph.passed"},
   ACTIVATION_AWAITING_CONFIRMATION |-> {"source.unchanged", "policy.accepted",
                                         "review.ready"},
   ADMITTED |-> {"source.unchanged", "policy.accepted", "review.ready",
                 "human.activation", "tracker.ready"},
   HANDOFF_APPROVED |-> {"source.unchanged", "policy.accepted", "graph.passed",
                         "review.ready", "executionPlan.validated", "handoff.approved"},
   HANDOFF_READY |-> {"execution.handoffReady"}, IN_PROGRESS |-> {"harness.active"},
   DELIVERED |-> {"harness.terminalSuccess", "git.acceptedSource"},
   AWAITING_EVIDENCE |-> {"release.recorded", "release.enabled", "release.smokePassed"},
   ACHIEVED |-> {"outcome.windowElapsed", "outcome.evidence"}]

VerdictFacts(verdict) == IF verdict \in DOMAIN Required THEN Required[verdict] ELSE {}

(* transitionRequirements: what leaving a decision about a release takes *)
ScopedFacts(from, to) ==
  IF from.stage # "COMMIT" \/ to.stage \notin {"FRAME", "EVIDENCE"} THEN {}
  ELSE CASE from.verdict = "HOLD" -> {"release.reopenConditionMet", "human.releaseReopened"}
         [] from.verdict = "REWORK" -> {"release.reworkActionRecorded"}
         [] OTHER -> {}

(* rebindTransitions: where the identity may change, what of it, on whose word *)
Rebinds == {[source |-> "ORIENT", target |-> "FRAME", changes |-> {"kind", "id"},
             facts |-> {"human.targetSelected"}],
            [source |-> "OUTCOME", target |-> "ORIENT", changes |-> {"id"},
             facts |-> {"human.identityRebind"}]}

(***************************** contracts/authority.json ********************)
Learned == "human.outcomeLearningDecision"
Facts == (UNION {Required[v] : v \in DOMAIN Required})
         \cup {"release.reopenConditionMet", "human.releaseReopened",
               "release.reworkActionRecorded"}
         \cup (UNION {r.facts : r \in Rebinds})
HumanFacts == {"human.commitment", "human.releaseDecision", "human.graphApproval",
               "human.activation", "human.releaseReopened", "human.targetSelected",
               "human.identityRebind"}
AgingFacts == {"release.readinessPassed", "release.reopenConditionMet", "harness.active",
               "harness.terminalSuccess", "release.enabled", "release.smokePassed",
               "outcome.windowElapsed"}
LiveFacts == {"graph.passed", "oracles.bound", "source.unchanged", "review.ready",
              "executionPlan.validated"}

Checkpoints == {c \in [stage: Stages, verdict: UNION {Verdicts[s] : s \in Stages},
                       subject: Subjects] : c.verdict \in Verdicts[c.stage]}
(* What a person or a tool states about a release. *)
Attestations == [fact: Facts \cup {Learned}, about: {s \in Subjects : s.kind = "release"}, at: 0 .. MaxTime,
                 by: 1 .. MaxBuild, expires: BOOLEAN, mutation: Mutations \cup {NoMutation}]

-----------------------------------------------------------------------------
(* validateCheckpoint *)
ValidCheckpoint(c) == c.verdict \in Verdicts[c.stage] /\ c.subject.kind \in Kinds[c.stage]

(* changedIdentityFields *)
Changed(from, to) == {f \in {"kind", "id"} : from.subject[f] # to.subject[f]}

RebindRule(from, to) ==
  {r \in Rebinds : r.source = from.stage /\ r.target = to.stage
                   /\ Changed(from, to) \subseteq r.changes}

(* transitionShape *)
TransitionShape(from, to) ==
  /\ ValidCheckpoint(to)
  /\ to.stage \in Allowed[from.stage]
  /\ Changed(from, to) # {} => RebindRule(from, to) # {}

RebindFacts(from, to) ==
  IF Changed(from, to) = {} THEN {} ELSE UNION {r.facts : r \in RebindRule(from, to)}

NeededFacts(from, to) ==
  VerdictFacts(to.verdict) \cup ScopedFacts(from, to) \cup RebindFacts(from, to)

-----------------------------------------------------------------------------
(* The judgement of one attestation (validateFactAttestation).  An         *)
(* attestation of a live fact is for one mutation, which is compared only  *)
(* when the caller names one; expiry and age are judged at `now`; the      *)
(* producer's digest is compared with the installed one unless the policy  *)
(* is RECORDED.  That the producer is there to be asked is assumed.        *)
Fresh(a, now) ==
  /\ now >= a.at
  /\ a.expires \/ a.fact \in AgingFacts => now - a.at <= MaxAge

ProducedBy(a, policy) == policy = "CURRENT" => a.by = build

ForMutation(a, mutation) ==
  a.fact \in LiveFacts /\ mutation # NoMutation => a.mutation = mutation

ValidateFact(a, now, mutation, spent, policy) ==
  Fresh(a, now) /\ ProducedBy(a, policy) /\ ForMutation(a, mutation) /\ ~spent

(* A variant that expects the facts of the subject the case leaves. *)
SubjectLeft(from, to) == from.subject

(* The subject a required fact has to be about is the PROPOSED one. *)
ExpectedSubject(from, to) == to.subject

(* requiredFactProblems, for the watched attestation *)
Relied(from, to, mutation) ==
  /\ watched.about = ExpectedSubject(from, to)
  /\ ValidateFact(watched, clock, mutation, life = "spent", "CURRENT")

-----------------------------------------------------------------------------
Init ==
  /\ checkpoint = [stage |-> "ORIENT", verdict |-> "ROUTED", subject |-> Unnamed]
  /\ watched = NoAttestation
  /\ life = "unmade"
  /\ serving = FALSE
  /\ used = NoUse
  /\ outcome = NoReceipt
  /\ decider = [about |-> NoReceipt, runs |-> FALSE, hindered |-> FALSE]
  /\ clock = 0
  /\ build = 1

(* A person or a tool makes the attestation that is followed from now on.  *)
(* Only what people say through the command line carries an expiry.        *)
Attest(fact, about, expires, mutation) ==
  /\ life = "unmade"
  /\ expires => fact \in HumanFacts
  /\ watched' = [fact |-> fact, about |-> about, at |-> clock, by |-> build,
                 expires |-> expires, mutation |-> mutation]
  /\ life' = "made"
  /\ UNCHANGED <<checkpoint, serving, used, learning, clock, build>>

(* Either the new event becomes the followed one or the old one stays. *)
Log(event) == used' \in {used, event}

(* case attach-fact: FACT_ATTACHED; no subject or mutation is expected. *)
Attach ==
  /\ life = "made" /\ watched.fact # Learned
  /\ ValidateFact(watched, clock, NoMutation, FALSE, "CURRENT")
  /\ life' = "stored"
  /\ Log([when |-> clock, mutation |-> NoMutation])
  /\ UNCHANGED <<checkpoint, watched, serving, learning, clock, build>>

(* case consume-fact: FACT_CONSUMED *)
Consume ==
  /\ life = "stored"
  /\ life' = "spent"
  /\ UNCHANGED <<checkpoint, watched, serving, used, learning, clock, build>>

(* A fact that comes with a transition is stored, needed or not. *)
Keep == life' = IF life = "made" /\ watched.fact # Learned THEN "stored" ELSE life

(* The watched attestation is needed and is the one that is brought.  *)
WithWatched(to, mutation) ==
  /\ life # "unmade"
  /\ watched.fact \in NeededFacts(checkpoint, to)
  /\ Relied(checkpoint, to, mutation)
  /\ serving' = TRUE
  /\ Log([when |-> clock, mutation |-> mutation])
  /\ Keep

(* Other attestations supply what is needed; the watched one may come      *)
(* along unneeded, and then nothing of it is judged.                       *)
WithOthers(to) ==
  /\ serving' = FALSE
  /\ UNCHANGED used
  /\ \/ UNCHANGED life
     \/ life # "unmade" /\ watched.fact \notin NeededFacts(checkpoint, to) /\ Keep

(* case transition: CHECKPOINT_TRANSITIONED.  The proposal was made at any *)
(* earlier time; it is judged against the checkpoint found now.  The flag  *)
(* --rebind is given when the identity changes: otherwise it has no effect.*)
Transition(to) ==
  /\ TransitionShape(checkpoint, to)
  /\ checkpoint' = to
  /\ UNCHANGED <<watched, learning, clock, build>>
  /\ \/ WithOthers(to)
     \/ \E mutation \in Mutations \cup {NoMutation} : WithWatched(to, mutation)

(* A variant of recording that comes before the approval is consumed. *)
ConsumeAfterwards ==
  /\ decider.runs /\ life = "pending"
  /\ decider' = [decider EXCEPT !.runs = FALSE]
  /\ UNCHANGED <<checkpoint, watched, life, serving, used, outcome, clock, build>>

(* outcome ingest: nothing of the receipt is checked, and a receipt takes  *)
(* the place of the one before.  It is followed once a learning decision   *)
(* is; until then the Case ends up with some receipt or none.              *)
Hinders(receipt) == receipt # decider.about

Ingest(receipt) ==
  /\ watched # NoAttestation /\ watched.fact = Learned
  /\ outcome' = receipt
  /\ decider' = [decider EXCEPT !.hindered = @ \/ Hinders(receipt)]
  /\ UNCHANGED <<checkpoint, watched, life, serving, used, clock, build>>

(* outcome decide: a person decides what was learned from a receipt.  Three*)
(* events follow, and nothing was looked at before the first: the approval *)
(* is added, it is consumed, the decision is recorded if the receipt is    *)
(* the one that is bound.                                                  *)
Decide(about, receipt, bound) ==
  /\ life = "unmade"
  /\ watched' = [fact |-> Learned, about |-> about, at |-> clock, by |-> build,
                 expires |-> FALSE, mutation |-> NoMutation]
  /\ life' = "made"
  /\ outcome' = bound
  /\ decider' = [about |-> receipt, runs |-> TRUE, hindered |-> bound # receipt]
  /\ UNCHANGED <<checkpoint, serving, used, clock, build>>

AddApproval ==
  /\ decider.runs /\ life = "made"
  /\ IF ValidateFact(watched, clock, NoMutation, FALSE, "CURRENT")
     THEN life' = "pending" /\ UNCHANGED decider
     ELSE decider' = [decider EXCEPT !.runs = FALSE] /\ UNCHANGED life
  /\ UNCHANGED <<checkpoint, watched, serving, used, outcome, clock, build>>

ConsumeApproval ==
  /\ decider.runs /\ life = "pending"
  /\ life' = "consumed"
  /\ UNCHANGED <<checkpoint, watched, serving, used, learning, clock, build>>

RecordLearning ==
  /\ decider.runs /\ life = "consumed"
  /\ IF outcome = decider.about THEN life' = "recorded" ELSE UNCHANGED life
  /\ decider' = [decider EXCEPT !.runs = FALSE]
  /\ UNCHANGED <<checkpoint, watched, serving, used, outcome, clock, build>>

(* The command is killed; confirmOutcomeLearning called again with the same*)
(* attestation gets as far as adding it, which is refused the second time. *)
Dies ==
  /\ decider.runs
  /\ decider' = [decider EXCEPT !.runs = FALSE, !.hindered = TRUE]
  /\ UNCHANGED <<checkpoint, watched, life, serving, used, outcome, clock, build>>
ConfirmAgain ==
  /\ watched # NoAttestation /\ watched.fact = Learned
  /\ ~decider.runs /\ life = "made"
  /\ decider' = [decider EXCEPT !.runs = TRUE]
  /\ UNCHANGED <<checkpoint, watched, life, serving, used, outcome, clock, build>>

(* Time passes; the package is upgraded, and its producers' digests change. *)
Tick == clock < MaxTime /\ clock' = clock + 1
        /\ UNCHANGED <<checkpoint, watched, life, serving, used, learning, build>>
Upgrade == build < MaxBuild /\ build' = build + 1
           /\ UNCHANGED <<checkpoint, watched, life, serving, used, learning, clock>>

Next ==
  \/ \E fact \in Facts, about \in {s \in Subjects : s.kind = "release"},
        expires \in BOOLEAN, mutation \in Mutations :
       Attest(fact, about, expires, mutation)
  \/ Attach
  \/ Consume
  \/ \E to \in Checkpoints : Transition(to)
  \/ \E about \in {s \in Subjects : s.kind = "release"}, receipt \in Receipts,
        bound \in Receipts \cup {NoReceipt} : Decide(about, receipt, bound)
  \/ AddApproval
  \/ ConsumeApproval
  \/ RecordLearning
  \/ \E receipt \in Receipts : Ingest(receipt)
  \/ Dies
  \/ ConfirmAgain
  \/ Tick
  \/ Upgrade

Spec == Init /\ [][Next]_vars

-----------------------------------------------------------------------------
(* verifyProtocol: the structural states, and those it reports reachable   *)
(* from ORIENT with any kind of subject.                                   *)
Structure(c) == [stage |-> c.stage, verdict |-> c.verdict, kind |-> c.subject.kind]
LegalStates == {Structure(c) : c \in {d \in Checkpoints : ValidCheckpoint(d)}}
Successors(state) ==
  {next \in LegalStates : /\ next.stage \in Allowed[state.stage]
                          /\ \/ next.kind = state.kind
                             \/ state.stage = "OUTCOME" /\ next.stage = "ORIENT"}
Reached[n \in 0 .. Cardinality(Stages)] ==
  IF n = 0 THEN {s \in LegalStates : s.stage = "ORIENT"}
  ELSE Reached[n - 1] \cup UNION {Successors(s) : s \in Reached[n - 1]}
Reachable == Reached[Cardinality(Stages)]

(* A variant that rebuilds with today's clock. *)
RebuildsNow ==
  used # NoUse => ValidateFact(watched, clock, used.mutation, FALSE, "RECORDED")

(* rebuildFromEvents: the followed event judged again, at its own time and *)
(* with the digests recorded in it.                                        *)
Rebuilds ==
  used # NoUse => ValidateFact(watched, used.when, used.mutation, FALSE, "RECORDED")

-----------------------------------------------------------------------------
(* Type correctness of the case and of what is followed. *)
TypeOK ==
  /\ checkpoint \in Checkpoints
  /\ checkpoint.subject.kind \in Kinds[checkpoint.stage]
  /\ life = "unmade" => watched = NoAttestation /\ used = NoUse
  /\ life # "unmade" => watched \in Attestations
  /\ life \in {"unmade", "made", "stored", "spent", "pending", "consumed", "recorded"}
  /\ serving \in BOOLEAN
  /\ outcome \in Receipts \cup {NoReceipt}
  /\ decider \in [about: Receipts \cup {NoReceipt}, runs: BOOLEAN, hindered: BOOLEAN]
  /\ used # NoUse => used \in [when: 0 .. MaxTime, mutation: Mutations \cup {NoMutation}]
  /\ clock \in 0 .. MaxTime /\ build \in 1 .. MaxBuild

(* Every event the case ever accepted is accepted again when the case is   *)
(* rebuilt, whatever has expired or was upgraded since: without it verify, *)
(* resume and recover refuse a healthy case for good                       *)
(* (docs/architecture/planning-case.md:11, store.mjs rebuildFromEvents).   *)
Replays == Rebuilds

(* What is attested of one release is never what a case about another      *)
(* release stands on: not after a rebind, and not when a proposal prepared *)
(* before the rebind is judged after it.                                   *)
ServesItsRelease == serving => watched.about = checkpoint.subject

(* A case that is past framing has its release, and no case is ever about  *)
(* a single ticket, although verifyProtocol counts the ticket states among *)
(* the reachable ones.                                                     *)
Settled == checkpoint.subject = Unnamed => checkpoint.stage \in {"ORIENT", "FRAME"}
OnlyReleases ==
  /\ checkpoint.subject.kind # "ticket"
  /\ Settled
  /\ Structure(checkpoint) \in Reachable

(* A case is about one release and a named one, and so is all that it      *)
(* stands on, through every rebind, retry and stale proposal.              *)
AboutOneRelease == ServesItsRelease /\ OnlyReleases

(* A person's word on what was learned is not lost: once its approval is   *)
(* in the Case the decision is recorded, unless the command was killed or  *)
(* the receipt it is about was not, or is no longer, the one that is bound.*)
NoWordLost ==
  life \in {"pending", "consumed"} /\ ~decider.runs => decider.hindered

=============================================================================
