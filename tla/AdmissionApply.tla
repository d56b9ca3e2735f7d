--------------------------- MODULE AdmissionApply ---------------------------
(***************************************************************************)
(* applyAdmissionPlan of admission/apply.mjs: one approved Plan is applied *)
(* to the tickets of a delivery graph, a comment and then a label for each *)
(* child and for the parent last, and the admission transaction of the     *)
(* Planning Case records how far it got.  Several commands may apply the   *)
(* Plan, each may crash, and every call to GitHub or to the store may      *)
(* fail; people edit tickets and the Harness claims them meanwhile.        *)
(*                                                                         *)
(* A mutation of the Planning Case is one step here: PlanningCaseStore     *)
(* shows what makes it atomic, and that one which throws may have happened.*)
(***************************************************************************)
EXTENDS Integers, Sequences, FiniteSets

CONSTANTS
    Proc,        \* processes that run the apply command
    Tickets,     \* the Plan's resources in order: the children, then the parent
    Approval,    \* ids of approvals an operator may pass
    NoTxn,       \* the case has no admission transaction
    ClaimGate,   \* tickets that must be ready before the Harness claims; none: it never does
    LateWrites,  \* whether a failed POST may still take effect later
    MaxFaults,   \* bound on crashes and failing calls
    MaxEdits     \* bound on edits by people

VARIABLES
    comments,    \* per ticket, the comments that carry this Plan's marker
    labels,      \* per ticket, its controlled labels
    drift,       \* tickets whose title, body or state is not the reviewed one
    late,        \* tickets whose failed comment POST has yet to take effect
    claimed,     \* a child has an assignee
    txn,         \* admissionTransaction of the case
    approvals,   \* per approval: absent, pending or consumed
    expired,     \* approvals older than their hour
    checkpoint,  \* checkpoint of the case
    pc,          \* where each process is
    run,         \* local variables of each apply
    faults, edits

tracker  == <<comments, labels, drift, late>>
case     == <<txn, approvals, expired, checkpoint>>
outside  == <<claimed, edits>>
vars     == <<tracker, case, outside, pc, run, faults>>

-----------------------------------------------------------------------------
(* Data. *)

Ticket == {Tickets[i] : i \in 1..Len(Tickets)}
Parent == Tickets[Len(Tickets)]
LastOp == 2 * Len(Tickets)

\* finalizePlan: per resource a comment, then its labels.  The controlled
\* labels a ticket had and the ones it gets are each one element here.
Op == [ticket : Ticket, kind : {"comment", "labels"}]
\* A variant of OpAt: the parent comes first.
OpAtParentFirst(k) == [ticket |-> Tickets[Len(Tickets) - ((k - 1) \div 2)],
                       kind   |-> IF k % 2 = 1 THEN "comment" ELSE "labels"]
OpAt(k) == [ticket |-> Tickets[(k + 1) \div 2],
            kind   |-> IF k % 2 = 1 THEN "comment" ELSE "labels"]

Label == {"before", "after", "foreign"}
MaxComments == 2  \* two or more

State == {"PLANNED", "AUTHORIZED", "APPLYING", "EXTERNAL_COMPLETE",
          "APPROVAL_CONSUMED", "COMMITTED"}

\* ADMISSION_TRANSITIONS; nothing ever writes ADMISSION_CONFLICT.
Successors == [s \in State |->
    CASE s = "PLANNED"           -> {"AUTHORIZED"}
      [] s = "AUTHORIZED"        -> {"APPLYING"}
      [] s = "APPLYING"          -> {"APPLYING", "EXTERNAL_COMPLETE"}
      [] s = "EXTERNAL_COMPLETE" -> {"APPROVAL_CONSUMED"}
      [] s = "APPROVAL_CONSUMED" -> {"COMMITTED"}
      [] OTHER                   -> {}]

Txn    == [state : State, approval : Approval, done : SUBSET (1..LastOp)]
Result == {"none", "LOST", "COMPLETE", "PARTIAL", "CONFLICT"}
Run    == [approval : Approval, txn : Txn \cup {NoTxn}, used : BOOLEAN,
           k : 1..LastOp, wrote : BOOLEAN, result : Result]

Where == {"idle", "ensure", "create", "initial", "approval", "authorize", "applying",
          "preact", "issue", "claims", "comment", "look", "delete", "relook", "add",
          "readback", "record", "final", "external", "consume", "consumed", "commit",
          "post", "handoff", "transition"}

ASSUME AdmissionAssumption ==
    /\ Tickets \in Seq(Ticket) /\ Len(Tickets) > 0
    /\ \A i, j \in 1..Len(Tickets) : Tickets[i] = Tickets[j] => i = j
    /\ NoTxn \notin Txn
    /\ ClaimGate \subseteq Ticket
    /\ LateWrites \in BOOLEAN
    /\ MaxFaults \in Nat /\ MaxEdits \in Nat

TypeOK ==
    /\ comments \in [Ticket -> 0..MaxComments]
    /\ labels \in [Ticket -> SUBSET Label]
    /\ drift \subseteq Ticket
    /\ late \subseteq Ticket
    /\ claimed \in BOOLEAN
    /\ txn \in Txn \cup {NoTxn}
    /\ approvals \in [Approval -> {"absent", "pending", "consumed"}]
    /\ expired \subseteq Approval
    /\ checkpoint \in {"EARLIER", "AWAITING", "HANDOFF_READY", "IN_PROGRESS"}
    /\ pc \in [Proc -> Where]
    /\ run \in [Proc -> Run]
    /\ faults \in 0..MaxFaults
    /\ edits \in 0..MaxEdits

Fresh(a) == [approval |-> a, txn |-> NoTxn, used |-> FALSE, k |-> 1,
             wrote |-> FALSE, result |-> "none"]

Init ==
    /\ comments = [t \in Ticket |-> 0]
    /\ labels = [t \in Ticket |-> {"before"}]
    /\ drift = {}
    /\ late = {}
    /\ claimed = FALSE
    /\ txn = NoTxn
    /\ approvals = [a \in Approval |-> "absent"]
    /\ expired = {}
    /\ checkpoint = "AWAITING"
    /\ pc = [p \in Proc |-> "idle"]
    /\ run \in [Proc -> {Fresh(a) : a \in Approval}]
    /\ faults = 0
    /\ edits = 0

-----------------------------------------------------------------------------
(* What the command reads. *)

\* operationState.
Status(op) ==
    LET n == comments[op.ticket]
        l == labels[op.ticket]
    IN IF op.kind = "comment"
       THEN CASE n = 0 -> "before" [] n = 1 -> "after" [] OTHER -> "conflict"
       ELSE CASE l = {"after"}    -> "after"
              [] l = {"before"}   -> "before"
              [] "foreign" \in l  -> "conflict"
              [] OTHER            -> "partial"

\* resourceStateProblems finds none.
ResourceOK(t) == t \notin drift /\ "foreign" \notin labels[t]

\* immutableStateProblems finds none; it looks at labels, not at comments.
ImmutableOK == \A t \in Ticket : ResourceOK(t)

AllAfter(n) == \A k \in 1..n : Status(OpAt(k)) = "after"

-----------------------------------------------------------------------------
(* Control flow, faults and the store. *)

Goto(p, where) == pc' = [pc EXCEPT ![p] = where]

\* The command ends, and its local variables with it.
End(p, result) ==
    /\ Goto(p, "idle")
    /\ run' = [run EXCEPT ![p] = [Fresh(@.approval) EXCEPT !.result = result]]

\* A read that fails is a CONFLICT until this apply has written something.
EndRead(p) == End(p, IF run[p].wrote THEN "PARTIAL" ELSE "CONFLICT")

Works == UNCHANGED faults
Fault == faults < MaxFaults /\ faults' = faults + 1

At(p, where) == pc[p] = where /\ UNCHANGED outside

\* A variant of Legal: progress recorded by another apply may be lost.
LegalNoProgress(state, done) ==
    IF txn = NoTxn THEN state = "PLANNED"
    ELSE /\ state \in Successors[txn.state]
         /\ state \in {"APPROVAL_CONSUMED", "COMMITTED"} => approvals[txn.approval] = "consumed"

\* What the reducer demands of ADMISSION_TRANSACTION_CHANGED.  The bindings
\* are the same for every apply of this Plan that passed EnsureTransaction.
Legal(state, done) ==
    IF txn = NoTxn THEN state = "PLANNED"
    ELSE /\ state \in Successors[txn.state]
         /\ txn.done \subseteq done
         /\ state \in {"APPROVAL_CONSUMED", "COMMITTED"} => approvals[txn.approval] = "consumed"

\* advanceTransaction: write the copy in memory with a new state, then go on
\* with operation k at next.  The store may refuse, and what it refuses to
\* confirm may have been written.
Advance(p, state, done, k, next, otherwise) ==
    LET new == [state |-> state, approval |-> run[p].approval, done |-> done] IN
    /\ \/ /\ Legal(state, done)
          /\ Works
          /\ txn' = new
          /\ run' = [run EXCEPT ![p].txn = new, ![p].k = k]
          /\ Goto(p, next)
       \/ /\ ~Legal(state, done)
          /\ Works
          /\ End(p, otherwise)
          /\ UNCHANGED txn
       \/ /\ Fault
          /\ End(p, otherwise)
          /\ txn' \in {txn} \cup IF Legal(state, done) THEN {new} ELSE {}
    /\ UNCHANGED <<tracker, approvals, expired, checkpoint>>

-----------------------------------------------------------------------------
(* Before the first write. *)

StartWith(p, a) ==
    /\ At(p, "idle")
    /\ run' = [run EXCEPT ![p] = Fresh(a)]
    /\ Goto(p, "ensure")
    /\ UNCHANGED <<tracker, case, faults>>

Start(p) == \E a \in Approval : StartWith(p, a)

\* ensureTransaction, the read: a transaction begun with another approval id
\* is a binding drift.
EnsureTransaction(p) ==
    /\ At(p, "ensure")
    /\ \/ Fault /\ End(p, "CONFLICT")
       \/ txn = NoTxn /\ Works /\ Goto(p, "create") /\ UNCHANGED run
       \/ /\ txn # NoTxn
          /\ txn.approval # run[p].approval
          /\ Works
          /\ End(p, "CONFLICT")
       \/ /\ txn # NoTxn
          /\ txn.approval = run[p].approval
          /\ Works
          /\ run' = [run EXCEPT ![p].txn = txn]
          /\ Goto(p, "initial")
    /\ UNCHANGED <<tracker, case>>

\* ensureTransaction, the write.  Nobody has looked at the approval yet.
CreateTransaction(p) ==
    At(p, "create") /\ Advance(p, "PLANNED", {}, 1, "initial", "CONFLICT")

\* The capability receipt, then the first full read.
InitialRead(p) ==
    /\ At(p, "initial")
    /\ \/ Fault /\ End(p, "CONFLICT")
       \/ ~ImmutableOK /\ Works /\ End(p, "CONFLICT")
       \/ ImmutableOK /\ Works /\ Goto(p, "approval") /\ UNCHANGED run
    /\ UNCHANGED <<tracker, case>>

\* Where the state of the transaction says to go on.
Resume(state) ==
    CASE state = "PLANNED"    -> "authorize"
      [] state = "AUTHORIZED" -> "applying"
      [] state = "APPLYING"   -> "issue"
      [] OTHER                -> "final"

\* A variant of ReadApproval: a resumed apply needs a fresh approval, too.
ReadApprovalAlways(p) ==
    LET a == run[p].approval IN
    /\ At(p, "approval")
    /\ \/ Fault /\ End(p, "CONFLICT")
       \/ approvals[a] # "pending" /\ Works /\ End(p, "CONFLICT")
       \/ a \in expired /\ Works /\ End(p, "CONFLICT")
       \/ /\ approvals[a] = "pending"
          /\ a \notin expired
          /\ Works
          /\ run' = [run EXCEPT ![p].used = FALSE]
          /\ Goto(p, Resume(run[p].txn.state))
    /\ UNCHANGED <<tracker, case>>

\* evaluateMutation of admission.apply.  The Plan fixes the transition and its
\* facts are made on the spot, so the verdict turns on the approval: it must not
\* be among the consumed ones, and not be stale.
evaluateMutation(a) == approvals[a] # "consumed" /\ a \notin expired

\* readApproval takes a pending or a consumed one.  Only a transaction that
\* is still PLANNED is put to evaluateMutation.
ReadApproval(p) ==
    LET a    == run[p].approval
        good == /\ approvals[a] # "absent"
                /\ run[p].txn.state = "PLANNED" => evaluateMutation(a)
    IN
    /\ At(p, "approval")
    /\ \/ Fault /\ End(p, "CONFLICT")
       \/ ~good /\ Works /\ End(p, "CONFLICT")
       \/ /\ good
          /\ Works
          /\ run' = [run EXCEPT ![p].used = (approvals[a] = "consumed")]
          /\ Goto(p, Resume(run[p].txn.state))
    /\ UNCHANGED <<tracker, case>>

Authorize(p) ==
    At(p, "authorize") /\ Advance(p, "AUTHORIZED", run[p].txn.done, 1, "applying", "CONFLICT")

Applying(p) ==
    At(p, "applying") /\ Advance(p, "APPLYING", run[p].txn.done, 1, "issue", "CONFLICT")

-----------------------------------------------------------------------------
(* One operation of the Plan. *)

NextK(k) == IF k = LastOp THEN k ELSE k + 1

Then(k) == IF k = LastOp THEN "final" ELSE IF k + 1 = LastOp THEN "preact" ELSE "issue"

\* Before the parent is activated everything is read again.
PreActivate(p) ==
    /\ At(p, "preact")
    /\ \/ Fault /\ EndRead(p)
       \/ ~(ImmutableOK /\ AllAfter(LastOp - 1)) /\ Works /\ End(p, "CONFLICT")
       \/ ImmutableOK /\ AllAfter(LastOp - 1) /\ Works /\ Goto(p, "issue") /\ UNCHANGED run
    /\ UNCHANGED <<tracker, case>>

\* A variant of ReadIssue: a comment is posted without looking for its marker.
ReadIssueBlind(p) ==
    LET op == OpAt(run[p].k) IN
    /\ At(p, "issue")
    /\ \/ Fault /\ EndRead(p)
       \/ ~ResourceOK(op.ticket) /\ Works /\ End(p, "CONFLICT")
       \/ /\ ResourceOK(op.ticket)
          /\ Works
          /\ Goto(p, "claims")
          /\ UNCHANGED run
    /\ UNCHANGED <<tracker, case>>

ReadIssue(p) ==
    LET op == OpAt(run[p].k)
        ok == ResourceOK(op.ticket)
        st == Status(op)
    IN
    /\ At(p, "issue")
    /\ \/ Fault /\ EndRead(p)
       \/ (~ok \/ st = "conflict") /\ Works /\ End(p, "CONFLICT")
       \/ /\ ok /\ st = "after" /\ Works
          /\ IF run[p].k \in run[p].txn.done
             THEN /\ run' = [run EXCEPT ![p].k = NextK(@)]
                  /\ Goto(p, Then(run[p].k))
             ELSE Goto(p, "record") /\ UNCHANGED run
       \/ /\ ok /\ st \in {"before", "partial"} /\ Works
          /\ Goto(p, "claims")
          /\ UNCHANGED run
    /\ UNCHANGED <<tracker, case>>

\* readClaims, once before each write.
ReadClaims(p) ==
    /\ At(p, "claims")
    /\ \/ Fault /\ EndRead(p)
       \/ claimed /\ Works /\ End(p, "CONFLICT")
       \/ /\ ~claimed
          /\ Works
          /\ Goto(p, IF OpAt(run[p].k).kind = "comment" THEN "comment" ELSE "look")
          /\ UNCHANGED run
    /\ UNCHANGED <<tracker, case>>

AddComment(t) ==
    comments' = [comments EXCEPT ![t] = IF @ = MaxComments THEN @ ELSE @ + 1]

\* addComment.  An error does not say whether GitHub took the comment, or
\* will take it yet; either way the issue is read back.
PostComment(p) ==
    LET t == OpAt(run[p].k).ticket IN
    /\ At(p, "comment")
    /\ Goto(p, "readback")
    /\ \/ (Works \/ Fault) /\ AddComment(t) /\ UNCHANGED late
       \/ Fault /\ UNCHANGED <<comments, late>>
       \/ LateWrites /\ Fault /\ late' = late \cup {t} /\ UNCHANGED comments
    /\ UNCHANGED <<labels, drift, case, run>>

\* setControlledLabels: look, remove what must go, look again, add.
LookLabels(p) ==
    LET l == labels[OpAt(run[p].k).ticket] IN
    /\ At(p, "look")
    /\ \/ Fault /\ Goto(p, "readback")
       \/ /\ Works
          /\ Goto(p, CASE l = {"after"} \/ "foreign" \in l -> "readback"
                       [] "before" \in l                   -> "delete"
                       [] OTHER                            -> "relook")
    /\ UNCHANGED <<tracker, case, run>>

\* GitHub answers 404 when the label has gone already.
DeleteLabel(p) ==
    LET t    == OpAt(run[p].k).ticket
        gone == labels' = [labels EXCEPT ![t] = @ \ {"before"}]
    IN
    /\ At(p, "delete")
    /\ \/ "before" \in labels[t] /\ Works /\ gone /\ Goto(p, "relook")
       \/ "before" \notin labels[t] /\ Works /\ UNCHANGED labels /\ Goto(p, "readback")
       \/ Fault /\ (gone \/ UNCHANGED labels) /\ Goto(p, "readback")
    /\ UNCHANGED <<comments, drift, late, case, run>>

RelookLabels(p) ==
    LET l == labels[OpAt(run[p].k).ticket] IN
    /\ At(p, "relook")
    /\ \/ Fault /\ Goto(p, "readback")
       \/ Works /\ Goto(p, IF "after" \in l THEN "readback" ELSE "add")
    /\ UNCHANGED <<tracker, case, run>>

AddLabel(p) ==
    LET t == OpAt(run[p].k).ticket IN
    /\ At(p, "add")
    /\ Goto(p, "readback")
    /\ \/ (Works \/ Fault) /\ labels' = [labels EXCEPT ![t] = @ \cup {"after"}]
       \/ Fault /\ UNCHANGED labels
    /\ UNCHANGED <<comments, drift, late, case, run>>

\* A variant of ReadBack: a write that raised no error is taken to be done.
ReadBackTrusting(p) ==
    /\ At(p, "readback")
    /\ Works
    /\ run' = [run EXCEPT ![p].wrote = TRUE]
    /\ Goto(p, "record")
    /\ UNCHANGED <<tracker, case>>

\* What the issue shows decides, whatever the write reported.
ReadBack(p) ==
    LET op == OpAt(run[p].k)
        ok == ResourceOK(op.ticket)
        st == Status(op)
    IN
    /\ At(p, "readback")
    /\ \/ Fault /\ End(p, "PARTIAL")
       \/ (~ok \/ st = "conflict") /\ Works /\ End(p, "CONFLICT")
       \/ /\ ok /\ st = "after" /\ Works
          /\ run' = [run EXCEPT ![p].wrote = TRUE]
          /\ Goto(p, "record")
       \/ ok /\ st \in {"before", "partial"} /\ Works /\ End(p, "PARTIAL")
    /\ UNCHANGED <<tracker, case>>

\* The operation joins completedOperations.  One that was there before and had
\* to be repeated is listed twice, which the schema refuses (uniqueItems).
Record(p) ==
    LET k    == run[p].k
        done == run[p].txn.done
    IN
    /\ At(p, "record")
    /\ \/ /\ k \notin done
          /\ Advance(p, "APPLYING", done \cup {k}, NextK(k), Then(k), "PARTIAL")
       \/ /\ k \in done
          /\ Works
          /\ End(p, "PARTIAL")
          /\ UNCHANGED <<tracker, case>>

-----------------------------------------------------------------------------
(* After the last write. *)

\* Where FinalRead goes on.
Finish(state) ==
    CASE state = "APPLYING"          -> "external"
      [] state = "EXTERNAL_COMPLETE" -> "consume"
      [] state = "APPROVAL_CONSUMED" -> "commit"
      [] OTHER                       -> "post"

FinalRead(p) ==
    /\ At(p, "final")
    /\ \/ Fault /\ EndRead(p)
       \/ ~(ImmutableOK /\ AllAfter(LastOp)) /\ Works /\ End(p, "CONFLICT")
       \/ /\ ImmutableOK /\ AllAfter(LastOp) /\ Works
          /\ Goto(p, Finish(run[p].txn.state))
          /\ UNCHANGED run
    /\ UNCHANGED <<tracker, case>>

ExternalComplete(p) ==
    At(p, "external") /\ Advance(p, "EXTERNAL_COMPLETE", 1..LastOp, LastOp, "consume", "PARTIAL")

\* consumeApproval, unless it was consumed when this apply began.
Consume(p) ==
    LET a == run[p].approval IN
    /\ At(p, "consume")
    /\ \/ /\ run[p].used
          /\ Works
          /\ Goto(p, "consumed")
          /\ UNCHANGED <<approvals, run>>
       \/ /\ ~run[p].used
          /\ approvals[a] = "pending"
          /\ approvals' = [approvals EXCEPT ![a] = "consumed"]
          /\ \/ Works /\ Goto(p, "consumed") /\ UNCHANGED run
             \/ Fault /\ End(p, "PARTIAL")
       \/ /\ ~run[p].used
          /\ Fault \/ (approvals[a] # "pending" /\ Works)
          /\ End(p, "PARTIAL")
          /\ UNCHANGED approvals
    /\ UNCHANGED <<tracker, txn, expired, checkpoint>>

Consumed(p) ==
    At(p, "consumed") /\ Advance(p, "APPROVAL_CONSUMED", run[p].txn.done, LastOp, "commit", "PARTIAL")

Commit(p) ==
    At(p, "commit") /\ Advance(p, "COMMITTED", run[p].txn.done, LastOp, "post", "PARTIAL")

\* The postconditions about the tracker repeat FinalRead's on the same state;
\* claims and the approval are read anew, the transaction is the copy.
PostConditions(p) ==
    LET good == /\ ~claimed
                /\ approvals[run[p].approval] = "consumed"
                /\ run[p].txn.state = "COMMITTED"
    IN
    /\ At(p, "post")
    /\ \/ (Fault \/ (~good /\ Works)) /\ End(p, "CONFLICT")
       \/ good /\ Works /\ Goto(p, "handoff") /\ UNCHANGED run
    /\ UNCHANGED <<tracker, case>>

Handoff(p) ==
    /\ At(p, "handoff")
    /\ \/ Fault /\ End(p, "CONFLICT")
       \/ checkpoint = "AWAITING" /\ Works /\ Goto(p, "transition") /\ UNCHANGED run
       \/ checkpoint # "AWAITING" /\ Works /\ End(p, "COMPLETE")
    /\ UNCHANGED <<tracker, case>>

\* CHECKPOINT_TRANSITIONED to EXECUTION, which the workflow allows from
\* ADMISSION and from EXECUTION itself.
Transition(p) ==
    /\ At(p, "transition")
    /\ \/ /\ checkpoint # "EARLIER"
          /\ checkpoint' = "HANDOFF_READY"
          /\ \/ Works /\ End(p, "COMPLETE")
             \/ Fault /\ End(p, "CONFLICT")
       \/ /\ Fault \/ (checkpoint = "EARLIER" /\ Works)
          /\ End(p, "CONFLICT")
          /\ UNCHANGED checkpoint
    /\ UNCHANGED <<tracker, txn, approvals, expired>>

-----------------------------------------------------------------------------
(* Everybody else. *)

Crash(p) ==
    /\ At(p, pc[p]) /\ pc[p] # "idle"
    /\ Fault
    /\ End(p, "LOST")
    /\ UNCHANGED <<tracker, case>>

\* case approve, and the hour passing.
Approve(a) ==
    /\ approvals[a] = "absent"
    /\ approvals' = [approvals EXCEPT ![a] = "pending"]
    /\ UNCHANGED <<tracker, txn, expired, checkpoint, outside, pc, run, faults>>

Expire(a) ==
    /\ approvals[a] # "absent"
    /\ expired' = expired \cup {a}
    /\ UNCHANGED <<tracker, txn, approvals, checkpoint, outside, pc, run, faults>>

\* A failed POST takes effect after all.
Land(t) ==
    /\ t \in late
    /\ AddComment(t)
    /\ late' = late \ {t}
    /\ UNCHANGED <<labels, drift, case, outside, pc, run, faults>>

\* The Harness assigns itself a ready child.
Claim ==
    /\ ClaimGate # {}
    /\ \A t \in ClaimGate : "after" \in labels[t]
    /\ claimed' = TRUE
    /\ UNCHANGED <<tracker, case, edits, pc, run, faults>>

\* Somebody edits a ticket: its text, its labels or the comment.
Edit(t) ==
    /\ edits < MaxEdits
    /\ edits' = edits + 1
    /\ \/ /\ drift' = drift \cup {t}
          /\ UNCHANGED <<comments, labels>>
       \/ /\ \E l \in SUBSET Label : labels' = [labels EXCEPT ![t] = l]
          /\ UNCHANGED <<comments, drift>>
       \/ /\ comments' = [comments EXCEPT ![t] = 0]
          /\ UNCHANGED <<labels, drift>>
    /\ UNCHANGED <<late, case, claimed, pc, run, faults>>

\* Another command moves the case: back to TICKETS, or on to delivery.
OtherCommand ==
    /\ checkpoint' = CASE checkpoint = "AWAITING"      -> "EARLIER"
                       [] checkpoint = "HANDOFF_READY" -> "IN_PROGRESS"
                       [] OTHER                        -> checkpoint
    /\ UNCHANGED <<tracker, txn, approvals, expired, outside, pc, run, faults>>

-----------------------------------------------------------------------------
Step(p) ==
    \/ EnsureTransaction(p) \/ CreateTransaction(p) \/ InitialRead(p) \/ ReadApproval(p)
    \/ Authorize(p) \/ Applying(p)
    \/ PreActivate(p) \/ ReadIssue(p) \/ ReadClaims(p) \/ PostComment(p)
    \/ LookLabels(p) \/ DeleteLabel(p) \/ RelookLabels(p) \/ AddLabel(p)
    \/ ReadBack(p) \/ Record(p)
    \/ FinalRead(p) \/ ExternalComplete(p) \/ Consume(p) \/ Consumed(p) \/ Commit(p)
    \/ PostConditions(p) \/ Handoff(p) \/ Transition(p)

Next ==
    \/ \E p \in Proc : Start(p) \/ Step(p) \/ Crash(p)
    \/ \E a \in Approval : Approve(a) \/ Expire(a)
    \/ \E t \in Ticket : Land(t) \/ Edit(t)
    \/ Claim
    \/ OtherCommand

Spec == Init /\ [][Next]_vars

\* A started apply runs on, and the operator keeps repeating it with the
\* approval its transaction was begun with.
Retry(p) == txn # NoTxn /\ StartWith(p, txn.approval)

Fairness == \A p \in Proc : WF_vars(Step(p)) /\ SF_vars(Retry(p))

FairSpec == Spec /\ Fairness

-----------------------------------------------------------------------------
(* Properties. *)

\* The parent is ready only when every child is: unless people interfere, a
\* Harness that finds the parent activated finds the whole graph admitted,
\* whatever crashes, failures and concurrent applies came before.
ActivationLast ==
    edits = 0 /\ "after" \in labels[Parent] =>
        /\ \A t \in Ticket : comments[t] > 0
        /\ \A t \in Ticket \ {Parent} : labels[t] = {"after"}

\* An approval is spent only on an admission whose writes were all read back
\* from the tracker: a partial apply leaves it to be resumed with.
SpentWhenExternal ==
    \A a \in Approval : approvals[a] = "consumed" =>
        /\ txn # NoTxn
        /\ txn.approval = a
        /\ txn.state \in {"EXTERNAL_COMPLETE", "APPROVAL_CONSUMED", "COMMITTED"}

\* What completedOperations lists was really done on the tracker.
RecordedIsDone ==
    edits = 0 /\ txn # NoTxn =>
        \A k \in txn.done : IF OpAt(k).kind = "comment"
                            THEN comments[OpAt(k).ticket] > 0
                            ELSE labels[OpAt(k).ticket] = {"after"}

\* The case reaches the handoff through a committed transaction only.
HandoffMeansCommitted ==
    checkpoint \in {"HANDOFF_READY", "IN_PROGRESS"} =>
        /\ txn # NoTxn
        /\ txn.state = "COMMITTED"
        /\ approvals[txn.approval] = "consumed"

\* The transaction, the approval and the checkpoint, which are written one after
\* the other and by whichever apply, say of the tracker what is so.
TransactionTrue == RecordedIsDone /\ SpentWhenExternal /\ HandoffMeansCommitted

\* The transaction never goes back, whichever stale copy an apply writes.
Rank == [s \in State |->
    CASE s = "PLANNED" -> 1 [] s = "AUTHORIZED" -> 2 [] s = "APPLYING" -> 3
      [] s = "EXTERNAL_COMPLETE" -> 4 [] s = "APPROVAL_CONSUMED" -> 5 [] OTHER -> 6]

TransactionMonotone ==
    [][txn # NoTxn =>
          /\ txn' # NoTxn
          /\ txn'.approval = txn.approval
          /\ Rank[txn.state] <= Rank[txn'.state]
          /\ txn.done \subseteq txn'.done]_vars

\* However often it crashes and is repeated, the apply comments once.
OneComment == \A t \in Ticket : comments[t] <= 1

\* An authorized admission can be resumed to its end, even when its approval
\* expires meanwhile, unless people edit a ticket or the Harness claims one.
Resumable ==
    txn # NoTxn /\ txn.state # "PLANNED" ~> checkpoint # "AWAITING" \/ claimed \/ edits > 0

=============================================================================
