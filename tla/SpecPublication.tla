-------------------------- MODULE SpecPublication --------------------------
(***************************************************************************)
(* The publication of an accepted Delivery Spec as one parent issue, the   *)
(* approvals it spends, and the commands that change the same Planning     *)
(* Case meanwhile: binding, clearing and checking its bindings, ingesting  *)
(* an outcome receipt and deciding what was learned from it.               *)
(*                                                                         *)
(* A process runs one command at a time and may end at any step; the Case  *)
(* commits one event at a time (PlanningCaseStore) and the tracker answers *)
(* one request at a time, so between two steps of a command every other    *)
(* process, people on the tracker and the clock may move.                  *)
(*                                                                         *)
(* One Plan is followed: its draft, its marker and its fingerprint are     *)
(* fixed, and the Case is about its release.  What of an issue has to read *)
(* back (title, body, state, controlled labels) is one flag, `exact`; what *)
(* else moves it (a comment, a reaction) moves its revision only.          *)
(***************************************************************************)
EXTENDS Naturals, Sequences, FiniteSets

CONSTANTS Procs,        \* processes that run commands
          NoBinding,    \* model value
          ApprovalLife, \* how long an approval is valid
          MaxTime, MaxApprovals, MaxIssues, \* bounds
          MaxFaults     \* bound on what gets in the way, all kinds together

ASSUME PublicationAssumption ==
  /\ ApprovalLife \in Nat /\ MaxTime \in Nat
  /\ MaxApprovals \in Nat /\ MaxIssues \in Nat /\ MaxFaults \in Nat
  /\ NoBinding \notin [issue : Nat, rev : Nat, by : Nat]

VARIABLES
  evidence,  \* snapshot.evidence: the recorded artifacts of the Plan
  given,     \* the times of the approvals of the Plan, in the order added
  consumed,  \* those of them in snapshot.approvals.consumed
  accepted,  \* the checkpoint is SPEC_ACCEPTED (or still SPEC_IN_PROGRESS)
  spec,      \* snapshot.bindings.spec
  outcome,   \* snapshot.bindings.outcome: "none", or of an "other" revision
  issues,    \* the tracker: issues that carry the Plan's marker
  posted,    \* requests to create one that were given up and may still arrive
  run,       \* what each process is doing
  conflict,  \* a run was refused for the binding it found
  clock,     \* the time
  faults,    \* how often something got in the way
  overlapped, late, cleared \* history: see the properties

case == <<evidence, given, consumed, accepted, spec, outcome>>
tracker == <<issues, posted>>
history == <<overlapped, late, cleared>>
vars == <<case, tracker, run, conflict, clock, faults, history>>

Artifacts == {"context", "draft", "plan"}
Approvals == DOMAIN given
Idle == [pc |-> "idle"]
Applying == {"resume", "authorize", "find", "create", "read", "look", "bind", "accept",
             "reread", "final", "consume"}

Ends(p) == run' = [run EXCEPT ![p] = Idle]
Goes(p, pc) == run' = [run EXCEPT ![p].pc = pc]

(* validateFactAttestation of an approval: not of the future, not expired. *)
Valid(a, now) == given[a] <= now /\ now <= given[a] + ApprovalLife

Binding(p) == [issue |-> run[p].issue, rev |-> run[p].rev, by |-> run[p].approval]

-----------------------------------------------------------------------------
(****************** the checks of the bindings (bindings.mjs) **************)
(* relationProblems: the outcome receipt has to be of the revision that    *)
(* the release and the Spec are of.                                        *)
RelationsAgree(receipt) == receipt # "other"

(* currentDigest of the bound issue *)
ReadsBack(binding) == binding # NoBinding => issues[binding.issue].exact

(* verify and resume, online *)
Resumable == RelationsAgree(outcome) /\ ReadsBack(spec)

-----------------------------------------------------------------------------
Init ==
  /\ evidence = {} /\ given = <<>> /\ consumed = {} /\ accepted = FALSE
  /\ spec = NoBinding /\ outcome = "none"
  /\ issues = <<>> /\ posted = 0
  /\ run = [p \in Procs |-> Idle]
  /\ conflict = FALSE
  /\ clock = 0 /\ faults = 0
  /\ overlapped = FALSE /\ late = FALSE /\ cleared = FALSE

(* Crashes, lost requests and people in the way share one bound. *)
Interfere == faults < MaxFaults /\ faults' = faults + 1

(******************************* build *************************************)
(* The Plan is built and its three artifacts are recorded, one event each. *)
Build(p) ==
  /\ run[p].pc = "idle"
  /\ evidence # Artifacts
  /\ run' = [run EXCEPT ![p] = [pc |-> "record"]]
  /\ UNCHANGED <<case, tracker, conflict, clock, faults, history>>

NextArtifact == CHOOSE a \in Artifacts \ evidence :
                  \/ a = "context"
                  \/ a = "draft" /\ "context" \in evidence
                  \/ a = "plan" /\ {"context", "draft"} \subseteq evidence

Record(p) ==
  /\ run[p].pc = "record"
  /\ IF evidence = Artifacts
     THEN Ends(p) /\ UNCHANGED evidence
     ELSE evidence' = evidence \cup {NextArtifact} /\ UNCHANGED run
  /\ UNCHANGED <<given, consumed, accepted, spec, outcome, tracker, conflict,
                 clock, faults, history>>

(****************************** approve ************************************)
(* The Case is read; the approval is added after it, without a lock around *)
(* both: two at once both find none.                                       *)
(* A variant that takes an expired approval for one that is still there. *)
UnapprovedEver(now) == given = <<>>

Unapproved(now) == \A a \in Approvals : a \notin consumed /\ ~Valid(a, now)

Approve(p) ==
  /\ run[p].pc = "idle"
  /\ evidence = Artifacts
  /\ Unapproved(clock)
  /\ run' = [run EXCEPT ![p] = [pc |-> "grant", now |-> clock]]
  /\ UNCHANGED <<case, tracker, conflict, clock, faults, history>>

Grant(p) ==
  /\ run[p].pc = "grant"
  /\ IF clock <= run[p].now + ApprovalLife /\ Len(given) < MaxApprovals
     THEN given' = Append(given, run[p].now)
     ELSE UNCHANGED given
  /\ Ends(p)
  /\ UNCHANGED <<evidence, consumed, accepted, spec, outcome, tracker, conflict,
                 clock, faults, history>>

(******************************** apply ************************************)
Launch(p, a) ==
  /\ run[p].pc = "idle"
  /\ run' = [run EXCEPT ![p] = [pc |-> "resume", approval |-> a, now |-> clock]]
  /\ overlapped' = (overlapped \/ \E q \in Procs : run[q].pc \in Applying)
  /\ UNCHANGED <<case, tracker, conflict, clock, faults, late, cleared>>

Resume(p) ==
  /\ run[p].pc = "resume"
  /\ IF Resumable THEN Goes(p, "authorize") ELSE Ends(p)
  /\ UNCHANGED <<case, tracker, conflict, clock, faults, history>>

(* An approval of this Plan other than the one given here is competing     *)
(* when it was consumed or could still be.                                 *)
Competing(a, now) == \E b \in Approvals \ {a} : b \in consumed \/ Valid(b, now)

Authorized(a, now) ==
  /\ evidence = Artifacts
  /\ ~Competing(a, now)
  /\ a \in consumed => accepted
  /\ a \notin consumed => Valid(a, now)

Authorize(p) ==
  /\ run[p].pc = "authorize"
  /\ IF Authorized(run[p].approval, run[p].now)
     THEN run' = [run EXCEPT ![p] = [pc |-> "find", approval |-> run[p].approval,
                                     pending |-> ~accepted]]
     ELSE Ends(p)
  /\ UNCHANGED <<case, tracker, conflict, clock, faults, history>>

(* findByMarker, and what is done about what it finds: the one issue is    *)
(* taken over; none is created when the Case already accepted one.         *)
(* A variant that looks only for what the Case knows of. *)
FoundBound == IF spec = NoBinding THEN {} ELSE DOMAIN issues

Found == DOMAIN issues

Find(p) ==
  /\ run[p].pc = "find"
  /\ IF Cardinality(Found) = 1
     THEN run' = [run EXCEPT ![p] = [pc |-> "read", approval |-> run[p].approval,
                                     pending |-> run[p].pending, issue |-> 1]]
     ELSE IF Found = {} /\ run[p].pending /\ Valid(run[p].approval, clock)
     THEN Goes(p, "create")
     ELSE Ends(p)
  /\ UNCHANGED <<case, tracker, conflict, clock, faults, history>>

(* createIssue: answered, or given up after 30 s and then lost or late.    *)
Posted == Append(issues, [exact |-> TRUE, rev |-> 0])

Create(p) ==
  /\ run[p].pc = "create"
  /\ Len(issues) + posted < MaxIssues
  /\ UNCHANGED <<case, conflict, clock, overlapped, cleared>>
  /\ \/ /\ issues' = Posted
        /\ run' = [run EXCEPT ![p] = [pc |-> "read", approval |-> run[p].approval,
                                      pending |-> run[p].pending, issue |-> Len(Posted)]]
        /\ UNCHANGED <<posted, faults, late>>
     \/ /\ Interfere
        /\ posted' = posted + 1
        /\ late' = TRUE
        /\ Ends(p)
        /\ UNCHANGED issues

Arrive ==
  /\ posted > 0
  /\ posted' = posted - 1
  /\ issues' = Posted
  /\ UNCHANGED <<case, run, conflict, clock, faults, history>>

(* readIssue: only an exact issue is bound, at the revision it is read at. *)
Read(p) ==
  /\ run[p].pc = "read"
  /\ LET issue == issues[run[p].issue]
     IN IF issue.exact
        THEN run' = [run EXCEPT ![p] = [pc |-> "look", approval |-> run[p].approval,
                                        pending |-> run[p].pending, issue |-> run[p].issue,
                                        rev |-> issue.rev]]
        ELSE Ends(p)
  /\ UNCHANGED <<case, tracker, conflict, clock, faults, history>>

(* The Case is read again: an unbound Spec will be bound, an equal binding *)
(* is the one of an earlier run, any other is a conflict.                  *)
Look(p) ==
  /\ run[p].pc = "look"
  /\ IF spec = NoBinding THEN Goes(p, "bind") /\ UNCHANGED conflict
     ELSE IF spec = Binding(p) THEN Goes(p, "accept") /\ UNCHANGED conflict
     ELSE Ends(p) /\ conflict' = TRUE
  /\ UNCHANGED <<case, tracker, clock, faults, history>>

(* store.bind checks the relations, not that the binding is still unset.   *)
(* A variant that goes on when the binding is refused. *)
BindOrNot(p) ==
  /\ run[p].pc = "bind"
  /\ spec' = IF RelationsAgree(outcome) THEN Binding(p) ELSE spec
  /\ Goes(p, "accept")
  /\ UNCHANGED <<evidence, given, consumed, accepted, outcome, tracker, conflict, clock, faults,
                 history>>

Bind(p) ==
  /\ run[p].pc = "bind"
  /\ IF RelationsAgree(outcome)
     THEN spec' = Binding(p) /\ Goes(p, "accept")
     ELSE UNCHANGED spec /\ Ends(p)
  /\ UNCHANGED <<evidence, given, consumed, accepted, outcome, tracker, conflict,
                 clock, faults, history>>

Accept(p) ==
  /\ run[p].pc = "accept"
  /\ IF accepted \/ run[p].pending
     THEN accepted' = TRUE /\ Goes(p, "reread")
     ELSE UNCHANGED accepted /\ Ends(p)
  /\ UNCHANGED <<evidence, given, consumed, spec, outcome, tracker, conflict,
                 clock, faults, history>>

(* The Case and then the issue are read once more before the approval is   *)
(* consumed; a run that finds it consumed has nothing left to do.          *)
Reread(p) ==
  /\ run[p].pc = "reread"
  /\ IF accepted /\ spec = Binding(p)
     THEN run' = [run EXCEPT ![p] = [pc |-> "final", approval |-> run[p].approval,
                                     issue |-> run[p].issue,
                                     owes |-> run[p].approval \notin consumed]]
     ELSE Ends(p)
  /\ UNCHANGED <<case, tracker, conflict, clock, faults, history>>

Final(p) ==
  /\ run[p].pc = "final"
  /\ IF issues[run[p].issue].exact /\ run[p].owes
     THEN run' = [run EXCEPT ![p] = [pc |-> "consume", approval |-> run[p].approval]]
     ELSE Ends(p)
  /\ UNCHANGED <<case, tracker, conflict, clock, faults, history>>

(* consumeApproval refuses the second time. *)
Consume(p) ==
  /\ run[p].pc = "consume"
  /\ consumed' = consumed \cup {run[p].approval}
  /\ Ends(p)
  /\ UNCHANGED <<evidence, given, accepted, spec, outcome, tracker, conflict,
                 clock, faults, history>>

(************************** outcome ingest and decide **********************)
(* The command line validates nothing of the receipt but its target.       *)
Ingest ==
  /\ Interfere
  /\ outcome' = "other"
  /\ UNCHANGED <<evidence, given, consumed, accepted, spec, tracker, run, conflict,
                 clock, history>>

(***************************** clear-binding *******************************)
(* Operators clear what a command reported: a Spec binding in conflict, an *)
(* outcome receipt the other bindings disagree with.                       *)
ClearSpec ==
  /\ conflict
  /\ conflict' = FALSE
  /\ spec' = NoBinding
  /\ cleared' = TRUE
  /\ UNCHANGED <<evidence, given, consumed, accepted, outcome, tracker, run,
                 clock, faults, overlapped, late>>

ClearOutcome ==
  /\ ~RelationsAgree(outcome)
  /\ outcome' = "none"
  /\ UNCHANGED <<evidence, given, consumed, accepted, spec, tracker, run, conflict,
                 clock, faults, history>>

(******************************** the rest *********************************)
(* A process is killed, or a read fails and the command gives up. *)
Crash(p) ==
  /\ run[p].pc # "idle"
  /\ Interfere
  /\ Ends(p)
  /\ UNCHANGED <<case, tracker, conflict, clock, history>>

(* People comment on an issue, or change it; what they change they may     *)
(* change back.                                                            *)
Touch(i) ==
  /\ Interfere
  /\ issues' = [issues EXCEPT ![i].rev = @ + 1]
  /\ UNCHANGED <<case, posted, run, conflict, clock, history>>

Edit(i) ==
  /\ issues[i].exact
  /\ Interfere
  /\ issues' = [issues EXCEPT ![i].exact = FALSE]
  /\ UNCHANGED <<case, posted, run, conflict, clock, history>>

Restore(i) ==
  /\ ~issues[i].exact
  /\ issues' = [issues EXCEPT ![i].exact = TRUE]
  /\ UNCHANGED <<case, posted, run, conflict, clock, faults, history>>

Tick ==
  /\ clock < MaxTime
  /\ clock' = clock + 1
  /\ UNCHANGED <<case, tracker, run, conflict, faults, history>>

Continue(p) ==
  \/ Record(p) \/ Grant(p)
  \/ Resume(p) \/ Authorize(p) \/ Find(p) \/ Create(p) \/ Read(p) \/ Look(p) \/ Bind(p)
  \/ Accept(p) \/ Reread(p) \/ Final(p) \/ Consume(p)

Next ==
  \/ \E p \in Procs :
       \/ Continue(p) \/ Build(p) \/ Approve(p) \/ Crash(p)
       \/ \E a \in Approvals : Launch(p, a)
  \/ Ingest
  \/ ClearSpec \/ ClearOutcome \/ Arrive \/ Tick
  \/ \E i \in DOMAIN issues : Touch(i) \/ Edit(i) \/ Restore(i)

Spec == Init /\ [][Next]_vars

(* A command that runs goes on; operators build the Plan, approve it when  *)
(* it is not, apply each approval again and again (as                      *)
(* skills/to-spec/SKILL.md:107-113 tells them to), and clear a binding     *)
(* that was reported.                                                      *)
Fairness ==
  /\ \A p \in Procs : WF_vars(Continue(p))
  /\ SF_vars(\E p \in Procs : Build(p))
  /\ SF_vars(\E p \in Procs : Approve(p))
  /\ \A a \in 1 .. MaxApprovals : SF_vars(\E p \in Procs : a \in Approvals /\ Launch(p, a))
  /\ WF_vars(ClearSpec)
  /\ WF_vars(ClearOutcome)

FairSpec == Spec /\ Fairness

-----------------------------------------------------------------------------
(* What a command remembers at each of its steps. *)
Places == Applying \cup {"idle", "record", "grant"}

Run(pc) ==
  CASE pc \in {"idle", "record"}      -> [pc : {pc}]
    [] pc = "grant"                   -> [pc : {pc}, now : 0 .. MaxTime]
    [] pc \in {"resume", "authorize"} -> [pc : {pc}, approval : Approvals, now : 0 .. MaxTime]
    [] pc \in {"find", "create"}      -> [pc : {pc}, approval : Approvals, pending : BOOLEAN]
    [] pc = "read"                    -> [pc : {pc}, approval : Approvals, pending : BOOLEAN,
                                          issue : DOMAIN issues]
    [] pc = "final"                   -> [pc : {pc}, approval : Approvals,
                                          issue : DOMAIN issues, owes : BOOLEAN]
    [] pc = "consume"                 -> [pc : {pc}, approval : Approvals]
    [] OTHER                          -> [pc : {pc}, approval : Approvals, pending : BOOLEAN,
                                          issue : DOMAIN issues, rev : 0 .. MaxFaults]

(* Type correctness of the Case, the tracker and the commands. *)
TypeOK ==
  /\ evidence \subseteq Artifacts
  /\ given \in Seq(0 .. MaxTime) /\ Len(given) <= MaxApprovals
  /\ consumed \subseteq Approvals
  /\ accepted \in BOOLEAN /\ conflict \in BOOLEAN
  /\ overlapped \in BOOLEAN /\ late \in BOOLEAN /\ cleared \in BOOLEAN
  /\ spec # NoBinding => spec \in [issue : DOMAIN issues, rev : 0 .. MaxFaults,
                                 by : Approvals]
  /\ outcome \in {"none", "other"}
  /\ issues \in Seq([exact : BOOLEAN, rev : 0 .. MaxFaults])
  /\ \A i \in DOMAIN issues : issues[i].rev <= faults
  /\ posted \in Nat /\ Len(issues) + posted <= MaxIssues
  /\ clock \in 0 .. MaxTime /\ faults \in 0 .. MaxFaults
  /\ run \in [Procs -> UNION {Run(pc) : pc \in Places}]

(* One release gets one parent issue: runs that follow each other, however *)
(* often they were killed or repeated and by whichever approval, never     *)
(* create a second one (skills/to-spec/SKILL.md:107).  Only a request that *)
(* arrives late or a run beside another can.                               *)
OneParent == Len(issues) > 1 => late \/ overlapped

(* A Case is accepted only on an issue it is bound to; only an operator    *)
(* takes the binding away again.                                           *)
AcceptedIsBound == accepted /\ spec = NoBinding => cleared

(* The approval is consumed last: what it was given for has happened, and  *)
(* of all the approvals of a Plan one is ever consumed, whatever expired,  *)
(* was approved twice or was repeated in between.                          *)
SpentLast ==
  /\ consumed # {} => accepted /\ issues # <<>>
  /\ Cardinality(consumed) > 1 => overlapped

(* Acceptance follows the binding and the spending of the approval follows *)
(* both, though each is a store write of its own and each may be the last. *)
InOrder == AcceptedIsBound /\ SpentLast

(* Whatever happened, repeating apply, approving anew once an approval has *)
(* expired and clearing what is reported in conflict publishes the Spec in *)
(* the end, unless there are two parents or two valid approvals, which     *)
(* wait for people.                                                        *)
Published == accepted /\ spec # NoBinding /\ consumed # {}
WaitsForPeople ==
  \/ Len(issues) > 1 \/ \E i \in DOMAIN issues : ~issues[i].exact
  \/ \E a \in Approvals : Valid(a, clock) /\ Competing(a, clock)
  \/ Len(given) = MaxApprovals /\ ~Valid(MaxApprovals, clock)
Heals == <>[](Published \/ WaitsForPeople)
=============================================================================
