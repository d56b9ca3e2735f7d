----------------------------- MODULE DeliveryGate -----------------------------
(***************************************************************************)
(* scripts/delivery-gate.mjs: how a repository gets its merge gate.        *)
(* Phase one writes the managed workflow file into a checkout; people then *)
(* publish it.  Phase two plans from what GitHub says, and applies: first  *)
(* the ruleset, then auto-merge, each write followed by a read.            *)
(*                                                                         *)
(* A read is several GitHub calls, and nothing is locked or conditional:   *)
(* people, pushes and other applies act between any two calls, and a write *)
(* whose client stopped waiting may still land.                            *)
(***************************************************************************)
EXTENDS Integers, FiniteSets

CONSTANTS
    Proc,        \* processes that run the command
    NoJob,       \* what an idle process works on
    NoPlan,      \* no plan file was written
    MaxPush,     \* bound on commits pushed to the default branch
    MaxFaults,   \* bound on crashes and failing calls
    MaxEdits     \* bound on what people change in the settings of GitHub

VARIABLES
    head,        \* the commit at the tip of the default branch
    published,   \* the commit that brought the managed workflow, or 0
    passed,      \* commits on which its check has succeeded
    base,        \* the commit of the local checkout
    file,        \* the workflow file of the checkout
    rulesets,    \* the managed rulesets, by id
    rival,       \* another rule asks for human approval, or lets some bypass
    settings,    \* which of the two merge settings are on
    draft, plan, \* the plan files of the two phases
    pc, job,     \* where each process is, and what it remembers
    flight,      \* GitHub writes sent and not answered yet
    result,      \* how the last apply of each process ended
    faults, edits

github == <<head, published, passed, rulesets, rival, settings>>
local  == <<base, file>>
vars   == <<github, local, draft, plan, pc, job, flight, result, faults, edits>>

-----------------------------------------------------------------------------
(* Data. *)

Id      == 1..2
Setting == {"autoMerge", "mergeCommit"}

\* The content of a ruleset: as the plan wants it, or anything else.
Content == {"desired", "drifted"}
Ruleset == Content \cup {"absent"}

Draft   == [base : 0..MaxPush, before : {"absent", "managed"}]
Plan    == [base : 1..MaxPush, ruleset : Ruleset, settings : SUBSET Setting]
Request == [from : Proc, kind : {"ruleset", "settings"}, id : Id \cup {0}, calm : BOOLEAN]

\* round: what this read is for: a plan, the first look, or the check of a write.
\* sent: it has written.  calm: nobody touched the gate since the read began.
Job == [plan : Plan \cup {NoPlan}, round : {"plan", "first", "ruleset", "settings"},
        settings : SUBSET Setting, head : 0..MaxPush, id : Id \cup {0},
        ruleset : Ruleset, ready : BOOLEAN, sent : BOOLEAN, calm : BOOLEAN]

Where == {"idle", "repository", "rulesets", "effective", "await",
          "write", "opened", "confirm"}

Ended == [status : {"none", "COMPLETE", "PARTIAL", "CONFLICT"},
          sent : BOOLEAN, calm : BOOLEAN]

ASSUME GateAssumption ==
    /\ NoJob \notin Job \cup Draft /\ NoPlan \notin Plan \cup Draft
    /\ MaxPush \in Nat /\ MaxFaults \in Nat /\ MaxEdits \in Nat

TypeOK ==
    /\ head \in 0..MaxPush /\ published \in 0..MaxPush /\ base \in 0..MaxPush
    /\ passed \subseteq 1..MaxPush
    /\ file \in {"absent", "managed", "other", "torn"}
    /\ rulesets \in [Id -> Ruleset]
    /\ rival \in BOOLEAN
    /\ settings \subseteq Setting
    /\ draft \in Draft \cup {NoPlan}
    /\ plan \in Plan \cup {NoPlan}
    /\ pc \in [Proc -> Where]
    /\ job \in [Proc -> Job \cup Draft \cup {NoJob}]
    /\ \A p \in Proc :
          CASE pc[p] = "idle"                          -> job[p] = NoJob
            [] pc[p] \in {"write", "opened", "confirm"} -> job[p] \in Draft
            [] OTHER                                   -> job[p] \in Job
    /\ flight \subseteq Request
    /\ result \in [Proc -> Ended]
    /\ faults \in 0..MaxFaults /\ edits \in 0..MaxEdits

Init ==
    /\ head = 0 /\ published = 0 /\ passed = {}
    /\ base = 0 /\ file = "absent"
    /\ rulesets = [i \in Id |-> "absent"]
    /\ rival = FALSE
    /\ settings \in {{}, {"mergeCommit"}}
    /\ draft = NoPlan /\ plan = NoPlan
    /\ pc = [p \in Proc |-> "idle"]
    /\ job = [p \in Proc |-> NoJob]
    /\ flight = {}
    /\ result = [p \in Proc |-> [status |-> "none", sent |-> FALSE, calm |-> FALSE]]
    /\ faults = 0 /\ edits = 0

-----------------------------------------------------------------------------
(* Control flow. *)

Goto(p, where) == pc' = [pc EXCEPT ![p] = where]

Remember(p, j) == job' = [job EXCEPT ![p] = j] /\ UNCHANGED <<flight, result, draft, plan>>

\* The command prints its result and ends.
Ends(p, status, sent, calm) ==
    /\ Goto(p, "idle")
    /\ result' = [result EXCEPT ![p] = [status |-> status, sent |-> sent, calm |-> calm]]
    /\ job' = [job EXCEPT ![p] = NoJob]
    /\ UNCHANGED <<flight, draft, plan>>

Works == UNCHANGED faults
Fault == faults < MaxFaults /\ faults' = faults + 1

At(p, where) == pc[p] = where /\ UNCHANGED <<github, edits>>

Named == {i \in Id : rulesets[i] # "absent"}

-----------------------------------------------------------------------------
(* WORKFLOW_BOOTSTRAP: the workflow file of a checkout. *)

\* inspectWorkflowTarget: the checkout is at the tip, the file absent or exact.
Inspectable == base = head /\ file \in {"absent", "managed"}

PlanWorkflow(p) ==
    /\ At(p, "idle") /\ Works /\ UNCHANGED local
    /\ Inspectable
    /\ draft' = [base |-> base, before |-> file]
    /\ UNCHANGED <<pc, job, flight, result, plan>>

ApplyWorkflow(p) ==
    LET known == Inspectable /\ base = draft.base IN
    /\ At(p, "idle") /\ draft # NoPlan /\ UNCHANGED local
    /\ \/ /\ known /\ file = "managed" /\ Works
          /\ Ends(p, "COMPLETE", FALSE, FALSE)
       \/ /\ known /\ file = "absent" /\ draft.before = "absent" /\ Works
          /\ Goto(p, "write") /\ Remember(p, draft)
       \/ /\ Fault \/ ((~known \/ (file = "absent" /\ draft.before = "managed")) /\ Works)
          /\ Ends(p, "CONFLICT", FALSE, FALSE)

\* The file is created, empty, and only if there is none.
OpenFile(p) ==
    /\ At(p, "write") /\ UNCHANGED base
    /\ \/ file = "absent" /\ file' = "torn" /\ Works /\ Goto(p, "opened")
       \/ (Fault \/ (file # "absent" /\ Works)) /\ UNCHANGED file /\ Goto(p, "confirm")
    /\ Remember(p, job[p])

\* Its content is written, unless people replaced it meanwhile.
WriteFile(p) ==
    /\ At(p, "opened") /\ UNCHANGED base
    /\ \/ file' = (IF file = "torn" THEN "managed" ELSE file) /\ Works
       \/ UNCHANGED file /\ Fault
    /\ Goto(p, "confirm") /\ Remember(p, job[p])

Confirm(p) ==
    LET good == Inspectable /\ base = job[p].base /\ file = "managed" IN
    /\ At(p, "confirm") /\ UNCHANGED local
    /\ \/ good /\ Works /\ Ends(p, "COMPLETE", TRUE, FALSE)
       \/ (Fault \/ (~good /\ Works)) /\ Ends(p, "PARTIAL", TRUE, FALSE)

-----------------------------------------------------------------------------
(* Reading GitHub: inspectEnforcementTarget. *)

StartRound(p, round, pl) ==
    /\ Goto(p, "repository")
    /\ Remember(p, [plan |-> pl, round |-> round, settings |-> {}, head |-> 0, id |-> 0,
                    ruleset |-> "absent", ready |-> FALSE,
                    sent |-> round \in {"ruleset", "settings"}, calm |-> TRUE])

\* The read that follows a write throws as PARTIAL, the first one as CONFLICT.
ReadFails(p) ==
    IF job[p].round = "plan"
    THEN Goto(p, "idle") /\ Remember(p, NoJob)
    ELSE Ends(p, IF job[p].round = "first" THEN "CONFLICT" ELSE "PARTIAL", job[p].sent, FALSE)

\* The repository and the commit at its tip.
ReadRepository(p) ==
    /\ At(p, "repository") /\ UNCHANGED local
    /\ \/ /\ Works
          /\ Goto(p, "rulesets")
          /\ Remember(p, [job[p] EXCEPT !.settings = settings, !.head = head])
       \/ Fault /\ ReadFails(p)

\* The workflow at the branch, its one successful check on the commit read
\* before, and the one ruleset of the managed name.
ReadRulesets(p) ==
    LET one  == CHOOSE i \in Named : TRUE
        good == published > 0 /\ job[p].head \in passed /\ Cardinality(Named) <= 1
    IN
    /\ At(p, "rulesets") /\ UNCHANGED local
    /\ \/ /\ good /\ Works
          /\ Goto(p, "effective")
          /\ Remember(p, IF Named = {} THEN job[p]
                         ELSE [job[p] EXCEPT !.id = one, !.ruleset = rulesets[one]])
       \/ (Fault \/ (~good /\ Works)) /\ ReadFails(p)

\* A variant of gateReady: conflicting rules of others are not looked at.
gateReadyAlone == settings = Setting /\ \E i \in Id : rulesets[i] = "desired"

gateReady == settings = Setting /\ (\E i \in Id : rulesets[i] = "desired") /\ ~rival

-----------------------------------------------------------------------------
(* GITHUB_ENFORCEMENT of applyDeliveryGatePlan.  j is the state just read. *)

Send(p, kind, j) ==
    /\ Goto(p, "await")
    /\ flight' = flight \cup {[from |-> p, kind |-> kind, id |-> j.id, calm |-> j.calm]}
    /\ job' = [job EXCEPT ![p] = [j EXCEPT !.sent = TRUE, !.round = kind]]
    /\ UNCHANGED <<result, draft, plan>>

Stop(p, status, j) == Ends(p, status, j.sent, j.calm)

Finish(p, j) == Stop(p, IF j.ready THEN "COMPLETE" ELSE "PARTIAL", j)

\* A variant of DecideSettings: the whole gate has to be in effect before it.
DecideSettingsLate(p, j) ==
    IF j.settings = Setting                         THEN Finish(p, j)
    ELSE IF j.settings = j.plan.settings /\ j.ready THEN Send(p, "settings", j)
    ELSE Stop(p, "PARTIAL", j)

DecideSettings(p, j) ==
    IF j.settings = Setting              THEN Finish(p, j)
    ELSE IF j.settings = j.plan.settings THEN Send(p, "settings", j)
    ELSE Stop(p, "PARTIAL", j)

DecideRuleset(p, j) ==
    IF j.ruleset = "desired"           THEN DecideSettings(p, j)
    ELSE IF j.ruleset = j.plan.ruleset THEN Send(p, "ruleset", j)
    ELSE Stop(p, "CONFLICT", j)

enforcementIdentity(j) == j.head = j.plan.base

\* A variant of Confirmed: any answer to the ruleset's write will do.
ConfirmedBlindly(j) ==
    enforcementIdentity(j) /\ (j.round = "settings" => j.settings = Setting)

\* What was written is there.
Confirmed(j) ==
    /\ enforcementIdentity(j)
    /\ IF j.round = "ruleset" THEN j.ruleset = "desired" ELSE j.settings = Setting

\* The plan is written to its file, or the apply goes on.
Decide(p, j) ==
    CASE j.round = "plan" ->
           /\ Goto(p, "idle")
           /\ plan' = [base |-> j.head, ruleset |-> j.ruleset, settings |-> j.settings]
           /\ job' = [job EXCEPT ![p] = NoJob]
           /\ UNCHANGED <<flight, result, draft>>
      [] j.round = "first" /\ enforcementIdentity(j)  -> DecideRuleset(p, j)
      [] j.round = "first" /\ ~enforcementIdentity(j) -> Stop(p, "CONFLICT", j)
      [] j.round = "ruleset" /\ Confirmed(j)          -> DecideSettings(p, j)
      [] j.round = "settings" /\ Confirmed(j)         -> Finish(p, j)
      [] OTHER                                        -> Stop(p, "PARTIAL", j)

\* The rules in effect.  Without a managed ruleset no other rule may conflict.
ReadEffective(p) ==
    LET good == job[p].ruleset # "absent" \/ ~rival IN
    /\ At(p, "effective") /\ UNCHANGED local
    /\ \/ good /\ Works /\ Decide(p, [job[p] EXCEPT !.ready = gateReady])
       \/ (Fault \/ (~good /\ Works)) /\ ReadFails(p)

\* The answer to a write came, was lost, or was not waited for: it reads again.
Answered(p) ==
    /\ At(p, "await") /\ UNCHANGED local
    /\ \/ Works /\ \A r \in flight : r.from # p
       \/ Fault
    /\ StartRound(p, job[p].round, job[p].plan)

StartPlan(p) ==
    /\ At(p, "idle") /\ Works /\ UNCHANGED local
    /\ StartRound(p, "plan", NoPlan)

\* The command was given the plan file and the fingerprint people confirmed.
StartApply(p) ==
    /\ At(p, "idle") /\ plan # NoPlan /\ Works /\ UNCHANGED local
    /\ StartRound(p, "first", plan)

\* An edited plan or another fingerprint: refused before anything is read.
Refuse(p) ==
    /\ At(p, "idle") /\ plan # NoPlan /\ Works /\ UNCHANGED local
    /\ Ends(p, "CONFLICT", FALSE, FALSE)

Crash(p) ==
    /\ pc[p] # "idle" /\ Fault
    /\ Goto(p, "idle") /\ Remember(p, NoJob)
    /\ UNCHANGED <<github, local, edits>>

-----------------------------------------------------------------------------
(* GitHub, which answers writes in any order, and people. *)

\* A write lands: POST makes a ruleset (two fit the bound), PUT changes one.
Land(r) ==
    /\ r \in flight
    /\ flight' = flight \ {r}
    /\ settings' = IF r.kind = "settings" THEN Setting ELSE settings
    /\ rulesets' =
         IF r.kind = "ruleset" /\ r.id \in Named THEN [rulesets EXCEPT ![r.id] = "desired"]
         ELSE IF r.kind = "ruleset" /\ r.id = 0 /\ Named # Id
         THEN [rulesets EXCEPT ![CHOOSE i \in Id \ Named : TRUE] = "desired"]
         ELSE rulesets
    /\ UNCHANGED <<head, published, passed, rival, local, draft, plan, pc, job, result,
                   faults, edits>>

Lose(r) ==
    /\ r \in flight /\ Fault
    /\ flight' = flight \ {r}
    /\ UNCHANGED <<github, local, draft, plan, pc, job, result, edits>>

\* People change the gate, and no read that began before saw it all.
Touched ==
    /\ edits < MaxEdits /\ edits' = edits + 1
    /\ job' = [p \in Proc |-> IF pc[p] \in {"repository", "rulesets", "effective", "await"}
                              THEN [job[p] EXCEPT !.calm = FALSE] ELSE job[p]]
    /\ result' = [p \in Proc |-> [result[p] EXCEPT !.calm = FALSE]]
    /\ flight' = {[r EXCEPT !.calm = FALSE] : r \in flight}
    /\ UNCHANGED <<head, published, passed, local, draft, plan, pc, faults>>

EditRuleset ==
    /\ Touched
    /\ \E i \in Named, c \in Ruleset : c # rulesets[i] /\ rulesets' = [rulesets EXCEPT ![i] = c]
    /\ UNCHANGED <<rival, settings>>

EditSettings ==
    /\ Touched
    /\ \E s \in SUBSET Setting : s # settings /\ settings' = s
    /\ UNCHANGED <<rulesets, rival>>

EditRival ==
    /\ Touched
    /\ rival' = ~rival
    /\ UNCHANGED <<rulesets, settings>>

EditFile ==
    /\ edits < MaxEdits /\ edits' = edits + 1
    /\ file' \in {"absent", "other"} \ {file}
    /\ UNCHANGED <<github, base, draft, plan, pc, job, flight, result, faults>>

\* A pull request is merged; one of them adds the workflow file.
Push ==
    /\ head < MaxPush
    /\ head' = head + 1
    /\ \/ UNCHANGED published
       \/ published = 0 /\ file = "managed" /\ base = head /\ published' = head + 1
    /\ UNCHANGED <<passed, rulesets, rival, settings, local, draft, plan, pc, job,
                   flight, result, faults, edits>>

CheckPasses ==
    /\ published > 0 /\ head \notin passed
    /\ passed' = passed \cup {head}
    /\ UNCHANGED <<head, published, rulesets, rival, settings, local, draft, plan, pc, job,
                   flight, result, faults, edits>>

Pull ==
    /\ base # head
    /\ base' = head
    /\ file' = IF published > 0 THEN "managed" ELSE file
    /\ UNCHANGED <<github, draft, plan, pc, job, flight, result, faults, edits>>

Step(p) ==
    \/ OpenFile(p) \/ WriteFile(p) \/ Confirm(p)
    \/ ReadRepository(p) \/ ReadRulesets(p) \/ ReadEffective(p) \/ Answered(p)

Begin(p) == PlanWorkflow(p) \/ ApplyWorkflow(p) \/ StartPlan(p) \/ StartApply(p) \/ Refuse(p)

Next ==
    \/ \E p \in Proc : Begin(p) \/ Step(p) \/ Crash(p)
    \/ \E r \in flight : Land(r) \/ Lose(r)
    \/ EditRuleset \/ EditSettings \/ EditRival \/ EditFile
    \/ Push \/ CheckPasses \/ Pull

Spec == Init /\ [][Next]_vars

\* The plan says what GitHub says.
Current == plan = [base     |-> head,
                   ruleset  |-> IF \E i \in Id : rulesets[i] = "desired" THEN "desired"
                                ELSE IF Named = {} THEN "absent" ELSE "drifted",
                   settings |-> settings]

\* A process goes on, GitHub answers and runs the check, and people make and
\* apply a fresh plan as often as it takes.
Fairness ==
    /\ \A p \in Proc : WF_vars(Step(p))
    /\ WF_vars(\E r \in flight : Land(r))
    /\ WF_vars(CheckPasses)
    /\ SF_vars(\E p \in Proc : StartPlan(p))
    /\ SF_vars(\E p \in Proc : StartApply(p) /\ Current)

FairSpec == Spec /\ Fairness

-----------------------------------------------------------------------------
(* Properties. *)

Protected == \E i \in Id : rulesets[i] = "desired"

\* scripts/delivery-gate.mjs: COMPLETE is only reported for a gate that is in
\* force, whatever was written, lost or landed late between the reads the
\* verdict was put together from, unless people changed it meanwhile.
CompleteIsGated ==
    \A p \in Proc : result[p].status = "COMPLETE" /\ result[p].calm =>
        Protected /\ settings = Setting /\ ~rival

\* SKILL.md: only after the readback of the ruleset succeeds is auto-merge
\* enabled: while the write that enables it travels the ruleset is in force,
\* whichever process sent it and whatever else is in flight.
AutoMergeGuarded ==
    \A r \in flight : r.kind = "settings" /\ r.calm => Protected

\* CONFLICT, which asks for a fresh plan, says that this apply wrote nothing;
\* an apply that may have written says PARTIAL.
ConflictUntouched == \A p \in Proc : result[p].status = "CONFLICT" => ~result[p].sent

\* What apply says of the gate is so, COMPLETE as well as CONFLICT.
ReportsTrue == CompleteIsGated /\ ConflictUntouched

\* README.md: PARTIAL rolls forward and CONFLICT asks for a fresh plan: once the
\* workflow is published and people repeat the two steps, the gate comes into
\* force, unless one of the two states lasts that the command only reports: a
\* conflicting rule of others, or two rulesets of the managed name.
RollsForward ==
    \/ <>[](published = 0)
    \/ <>[](Protected /\ settings = Setting /\ ~rival)
    \/ <>[](rival \/ Cardinality(Named) > 1)
=============================================================================
