------------------------------ MODULE ReleasePlan ------------------------------
(***************************************************************************)
(* Two Releases of a roadmap, one after the other.  The planner binds each *)
(* reviewed graph to a base; execution-plan build reads the tracker and    *)
(* the base twice and writes a plan, goal-build verifies a plan in the     *)
(* same way and writes a handoff for a runner.  Somebody executes a plan   *)
(* or a handoff and merges; the result is ingested, tracked in the         *)
(* repository, and the next Release stands on it.  People edit the tracker *)
(* and push to the base branch in the meantime, by force too.              *)
(*                                                                         *)
(* A commit is what its history is made of, oldest first: execution-plan   *)
(* is run in an up-to-date clone, and a commit never changes.              *)
(***************************************************************************)
EXTENDS DeliveryGraph

CONSTANTS
    Reviewed,    \* the graph of a Release: each has its own tickets
    Runners,     \* goal runners the configuration names
    None,
    MaxPlans, MaxHandoffs, \* bounds on what is written
    MaxResults,  \* bound on executions
    MaxMoves     \* bound on what others do to the base branch

VARIABLES
    main,        \* the base branch
    basis,       \* what the graph is bound to, or None: no Release is planned
    run,         \* the build or the goal-build that runs, or None
    plans, handoffs,      \* what they have written
    results,     \* results of executions, in their order
    accepted,    \* acceptances of runners' results that were written
    moves,
    truth        \* out of sight: what was so while it ran

planVars == <<main, basis, run, plans, handoffs, results, accepted, moves>>
allVars  == <<graphVars, planVars, truth>>

ASSUME PlanAssumption ==
    /\ Reviewed \in Graph
    /\ {MaxPlans, MaxHandoffs, MaxResults, MaxMoves} \subseteq Nat

\* What a commit adds; a receipt is a result, or the acceptance of a runner's.
Receipt == [kind : {"result", "acceptance"}, of : 1..MaxResults, runner : Runners \cup {None}]
Change  == [kind : {"roadmap", "accept", "decide", "other", "merge"}, of : {0}, runner : {None}]
           \cup Receipt
C(kind) == [kind |-> kind, of |-> 0, runner |-> None]

Planning == <<C("roadmap")>>

\* The Plan's digest covers its Release, its base and its tickets.
Plan    == [release : 1..2, base : Seq(Change)]
Handoff == [plan : Plan, runner : Runners]
Result  == [plan : Plan, handoff : Handoff \cup {None}, merge : Seq(Change)]

\* What a graph is bound to: its base, and for a later Release the predecessor's
\* plan and a receipt.
Basis == [release : 1..2, base : Seq(Change), plan : Plan \cup {None},
          receipt : Receipt \cup {None}]
Run   == [runner : Runners \cup {None}, plan : Plan \cup {None},
          step : {"order", "tickets", "write"}, look : 1..2]

Parts == {<<"parent">>, <<"order">>} \cup ({"child"} \X Child)

\* Which parts of a tracker are not as the graph has them.
Wrong(t) ==
    {p \in Parts :
        CASE p[1] = "parent" -> ~t.parent
          [] p[1] = "order"  -> t.order # [i \in 1..N |-> i]
          [] p[1] = "child"  -> p[2] \notin t.same \/ t.blockedBy[p[2]] # Reviewed.blockedBy[p[2]]}

Untold == [whole |-> FALSE, spoiled |-> {}, undone |-> FALSE]

PlanTypeOK ==
    /\ GraphTypeOK
    /\ main \in Seq(Change) /\ moves \in 0..MaxMoves
    /\ basis \in Basis \cup {None} /\ run \in Run \cup {None}
    /\ plans \subseteq Plan /\ handoffs \subseteq Handoff
    /\ results \in Seq(Result) /\ Len(results) <= MaxResults
    /\ accepted \subseteq Receipt
    /\ truth \in [whole : BOOLEAN, spoiled : SUBSET Parts, undone : BOOLEAN]

Published == [order |-> [i \in 1..N |-> i], blockedBy |-> Reviewed.blockedBy,
              same |-> Child, parent |-> TRUE]

PlanInit ==
    /\ graph = Reviewed /\ stage = "reading"
    /\ tracker = Published /\ seen = Unread /\ todo = {}
    /\ calm = TRUE /\ done = {} /\ edits = 0
    /\ main = <<C("roadmap"), C("accept")>>
    /\ basis = None /\ run = None
    /\ plans = {} /\ handoffs = {} /\ results = <<>> /\ accepted = {}
    /\ moves = 0 /\ truth = Untold

-----------------------------------------------------------------------------
(* What the graph says, against the commits it names. *)

\* A variant of isGitAncestor: the two have some history in common.
isGitRelated(from, to) == from # <<>> /\ to # <<>> /\ Head(from) = Head(to)

isGitAncestor(from, to) == IsPrefix(from, to)

\* The decisions at a commit are those its manifest, tracked with the acceptance
\* of the Spec, was drawn up from.
assertDecisionSources(base) ==
    \E i \in DOMAIN base :
       /\ base[i].kind = "accept"
       /\ \A j \in (i + 1)..Len(base) : base[j].kind \notin {"accept", "decide"}

\* An acceptance is for the handoff that the runner was given.
validateGoalResultAcceptance(r) ==
    LET handoff == results[r.of].handoff IN handoff # None /\ handoff.runner = r.runner

\* A controller's result counts as it is, a runner's only with its acceptance.
validatePredecessorReceipt(r) ==
    IF r.kind = "result" THEN results[r.of].handoff = None ELSE validateGoalResultAcceptance(r)

\* The result a receipt tells of is that of the plan the graph names.
Succeeds(b) ==
    /\ b.plan # None /\ b.receipt # None
    /\ validatePredecessorReceipt(b.receipt)
    /\ results[b.receipt.of].plan = b.plan
    /\ isGitAncestor(results[b.receipt.of].merge, b.base)

validateExecutableRelease(b) ==
    IF b.release = 1
    THEN b.plan = None /\ b.receipt = None /\ isGitAncestor(Planning, b.base)
    ELSE Succeeds(b) /\ results[b.receipt.of].plan.release = b.release - 1

\* The file is in the base, as the graph has it.
boundJson(base, receipt) == Contains(base, receipt)

\* Everything it is bound to is tracked in the base.
assertTrackedReleaseBindings(b) ==
    /\ assertDecisionSources(b.base)
    /\ IF b.release = 1 THEN b.plan = None /\ b.receipt = None
       ELSE boundJson(b.base, b.receipt) /\ Succeeds(b)

githubRemoteBase == main

assertFreshExecutionInput(b) ==
    /\ githubRemoteBase = b.base
    /\ b.release = 1 => isGitAncestor(Planning, b.base)
    /\ assertTrackedReleaseBindings(b)

\* The plan of the graph, if the tracker agrees with it.
compileExecutionPlan(b, t) ==
    IF /\ validateExecutableRelease(b)
       /\ validateAdmissionState(t, graph) /\ assertTrackedReleaseBindings(b)
    THEN [release |-> b.release, base |-> b.base]
    ELSE None

-----------------------------------------------------------------------------
(* execution-plan build and goal-build. *)

\* The planner binds the graph to the base as it is, whatever it is, and to any
\* plan and any receipt; the tickets are put in order for it.
Prepare ==
    /\ main # <<>> /\ run = None
    /\ \E release \in 1..2, plan \in plans \cup {None},
          receipt \in (ToSet(main) \cap Receipt) \cup {None} :
          LET b == [release |-> release, base |-> main, plan |-> plan, receipt |-> receipt] IN
          /\ b # basis
          /\ release = 1 => plan = None /\ receipt = None
          /\ basis' = b
    /\ tracker' = Published
    /\ UNCHANGED <<graph, stage, seen, todo, calm, done, edits>>
    /\ UNCHANGED <<main, run, plans, handoffs, results, accepted, moves>>

\* Without a plan it is a build, and with one a goal-build for a runner.
Launch ==
    /\ run = None /\ basis # None
    /\ \/ /\ Cardinality(plans) < MaxPlans
          /\ run' = [runner |-> None, plan |-> None, step |-> "order", look |-> 1]
       \/ \E p \in plans, runner \in Runners :
             /\ Cardinality(handoffs) < MaxHandoffs
             /\ run' = [runner |-> runner, plan |-> p, step |-> "order", look |-> 1]
    /\ UNCHANGED graphVars
    /\ UNCHANGED <<main, basis, plans, handoffs, results, accepted, moves>>

Going(step) == run # None /\ run.step = step

LookAtOrder ==
    /\ Going("order") /\ run' = [run EXCEPT !.step = "tickets"]
    /\ TakeOrder /\ UNCHANGED stage
    /\ UNCHANGED <<main, basis, plans, handoffs, results, accepted, moves>>

LookAtChild(c) ==
    /\ Going("tickets") /\ TakeChild(c)
    /\ UNCHANGED planVars

\* A variant of Judged: one look is enough.
JudgedOnce(plan) == [run EXCEPT !.plan = plan, !.step = "write"]

\* The plan must come out twice; a given one must come out each time.
Judged(plan) ==
    IF run.look = 1 THEN [run EXCEPT !.plan = plan, !.look = 2, !.step = "order"]
    ELSE [run EXCEPT !.step = "write"]

\* When the tickets are read the base is, and what was read is judged.
Judge ==
    /\ Going("tickets") /\ todo = {}
    /\ LET plan == compileExecutionPlan(basis, seen) IN
       run' = IF /\ assertFreshExecutionInput(basis) /\ plan # None
                 /\ run.plan \in {None, plan}
              THEN Judged(plan) ELSE None
    /\ seen' = Unread
    /\ UNCHANGED <<graph, stage, tracker, todo, calm, done, edits>>
    /\ UNCHANGED <<main, basis, plans, handoffs, results, accepted, moves>>

Write ==
    /\ Going("write") /\ run' = None
    /\ IF run.runner = None THEN plans' = plans \cup {run.plan} /\ UNCHANGED handoffs
       ELSE handoffs' = handoffs \cup {[plan |-> run.plan, runner |-> run.runner]}
            /\ UNCHANGED plans
    /\ UNCHANGED graphVars
    /\ UNCHANGED <<main, basis, results, accepted, moves>>

-----------------------------------------------------------------------------
(* The results. *)

\* A result is of the plan, and a runner's of the handoff too.
Matches(result, plan, handoff) ==
    /\ result.plan = plan
    /\ result.handoff = handoff
    /\ handoff # None => handoff.plan = plan

buildGoalResultAcceptance(i, handoff) ==
    [kind |-> "acceptance", of |-> i, runner |-> handoff.runner]

\* Of a runner's result an acceptance is written; a controller's stays as it is.
IngestResult ==
    /\ \E i \in DOMAIN results, p \in plans, h \in handoffs :
          /\ Matches(results[i], p, h)
          /\ accepted' = accepted \cup {buildGoalResultAcceptance(i, h)}
    /\ accepted' # accepted
    /\ UNCHANGED graphVars
    /\ UNCHANGED <<main, basis, run, plans, handoffs, results, moves>>

-----------------------------------------------------------------------------
(* The environment. *)

\* A controller executes a plan, or a runner a handoff, and it is merged.
Deliver ==
    /\ Len(results) < MaxResults
    /\ main' = Append(main, C("merge"))
    /\ \/ \E p \in plans :
             results' = Append(results, [plan |-> p, handoff |-> None, merge |-> main'])
       \/ \E h \in handoffs :
             results' = Append(results, [plan |-> h.plan, handoff |-> h, merge |-> main'])
    /\ UNCHANGED graphVars
    /\ UNCHANGED <<basis, run, plans, handoffs, accepted, moves>>

\* A result, or an acceptance that was written, is added to the repository.
Track ==
    /\ \E r \in accepted \cup {[kind |-> "result", of |-> i, runner |-> None] : i \in DOMAIN results} :
          /\ ~Contains(main, r)
          /\ main' = Append(main, r)
    /\ UNCHANGED graphVars
    /\ UNCHANGED <<basis, run, plans, handoffs, results, accepted, moves>>

\* Others push to the base branch, or rewrite what came after the acceptance.
Move ==
    /\ main # <<>> /\ moves < MaxMoves /\ moves' = moves + 1
    /\ \/ \E kind \in {"other", "decide", "accept"} : main' = Append(main, C(kind))
       \/ \E i \in 3..Len(main) : main' = RemoveAt(main, i)
    /\ UNCHANGED graphVars
    /\ UNCHANGED <<basis, run, plans, handoffs, results, accepted>>

\* People spoil a part of the tracker, in one way for each, or put it right.
Meddle ==
    /\ run # None /\ edits < MaxEdits /\ edits' = edits + 1
    /\ \/ tracker' = [tracker EXCEPT !.parent = ~@]
       \/ \E c \in Child : tracker' = [tracker EXCEPT !.same =
                             IF c \in @ THEN @ \ {c} ELSE @ \cup {c}]
       \/ tracker' = [tracker EXCEPT !.order = Reverse(@)]
    /\ UNCHANGED <<graph, stage, seen, todo, calm, done, planVars>>

\* The plan tells the truth at this moment.
Whole(t, base) == Wrong(t) = {} /\ base = basis.base

\* Whether it did at some moment of the run, and whether somebody spoiled a part
\* of the tracker during the run and put it right again.
Witness ==
    LET worse  == Wrong(tracker') \ Wrong(tracker)
        better == Wrong(tracker) \ Wrong(tracker')
    IN
    truth' = IF run' = None THEN Untold
             ELSE IF run = None THEN [Untold EXCEPT !.whole = Whole(tracker, main)]
             ELSE [whole |-> truth.whole \/ Whole(tracker', main'),
                   spoiled |-> truth.spoiled \cup worse,
                   undone |-> truth.undone \/ truth.spoiled \cap better # {}]

PlanNext ==
    \/ Prepare /\ Witness
    \/ Launch /\ Witness
    \/ LookAtOrder /\ Witness
    \/ \E c \in Child : LookAtChild(c) /\ Witness
    \/ Judge /\ Witness
    \/ Write /\ Witness
    \/ IngestResult /\ Witness
    \/ Deliver /\ Witness
    \/ Track /\ Witness
    \/ Move /\ Witness
    \/ Meddle /\ Witness

-----------------------------------------------------------------------------
(* One Release from its draft to its execution, or two of reviewed graphs. *)

GraphInit ==
    /\ Undrafted
    /\ main = <<>> /\ basis = None /\ run = None
    /\ plans = {} /\ handoffs = {} /\ results = <<>> /\ accepted = {}
    /\ moves = 0 /\ truth = Untold

\* There is no base branch yet.
Alone == main = <<>> /\ UNCHANGED <<planVars, truth>>

GraphNext ==
    \/ DraftFrontier /\ Alone
    \/ Review /\ Alone
    \/ ReadOrder /\ Alone
    \/ \E c \in Child : ReadChild(c) /\ Alone
    \/ Admit /\ Alone
    \/ Execute /\ Alone
    \/ Edit /\ Alone

RoadmapNext == GraphNext \/ PlanNext

\* An admission goes on, and the executor takes what it can take.
RoadmapSpec ==
    /\ (GraphInit \/ PlanInit) /\ [][RoadmapNext]_allVars
    /\ WF_allVars(Execute /\ Alone)
    /\ WF_allVars(stage = "reviewed" /\ ReadOrder /\ Alone)
    /\ WF_allVars(((\E c \in Child : ReadChild(c)) \/ Admit) /\ Alone)

-----------------------------------------------------------------------------
(* Properties. *)

\* execution-plan/cli.mjs and validate.mjs: the tracker and the base are read piece
\* by piece, and twice.  What is written was true all at once at some moment of the
\* run, unless somebody spoiled a part of the tracker and put it right meanwhile:
\* no mixture of two states of the tracker, or of a tracker and a base that never
\* were together, becomes a plan.
TrueAtOnce == Going("write") => truth.whole \/ truth.undone

\* What is read of the tracker piece by piece is taken for what was there at once:
\* by an admission that nobody disturbed, and by a build.
ReadWhole == AdmittedAsReviewed /\ TrueAtOnce

\* docs/security/threat-model.md, line 97 and 98: a later Release stands on its
\* predecessor: on a base that still has the merge of an execution of exactly the
\* plan it names, one of the Release before, and if a runner did it, ingested for
\* the handoff that the runner was given.
Chained ==
    Going("write") /\ basis.release = 2 =>
       \E i \in DOMAIN results :
          /\ results[i].plan = basis.plan /\ basis.plan.release = 1
          /\ IsPrefix(results[i].merge, run.plan.base)
          /\ results[i].handoff # None =>
                /\ results[i].handoff.plan = basis.plan
                /\ [kind |-> "acceptance", of |-> i, runner |-> results[i].handoff.runner]
                      \in accepted
=============================================================================
