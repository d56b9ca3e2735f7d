---------------------------- MODULE ReleaseHandoff ----------------------------
(***************************************************************************)
(* The handoff of one compiled release plan to an executor: applyExecution-*)
(* Plan (channel "release", for the Controller) and applyGoalHandoff       *)
(* (channel "goal") of execution-plan/.  Each checks its own approval and  *)
(* the checkpoint of the case, records HANDOFF_APPROVED, puts one file in  *)
(* a directory of its own, records HANDOFF_READY, consumes the approval    *)
(* last and prints a start command.  Commands may overlap, crash, and be   *)
(* repeated with another approval or another directory.                    *)
(*                                                                         *)
(* Reading or mutating the Planning Case is one step: PlanningCaseStore    *)
(* shows what makes it atomic, and that one which throws may have happened.*)
(***************************************************************************)
EXTENDS Integers, FiniteSets

CONSTANTS
    Proc,        \* processes that run either command
    Channel,     \* the channels: which apply command, for the same plan
    Approval,    \* ids of approvals, per channel
    Dir,         \* output directories an operator may pass
    NoRun,       \* the local variables of a process that runs nothing
    Moves,       \* checkpoint changes other commands make: pairs of verdicts
    MaxFaults,   \* bound on crashes, failing calls and edits together
    MaxEdits     \* bound on output tampered with and sources drifting

VARIABLES
    checkpoint,  \* verdict of the case's checkpoint
    facts,       \* handoff.approved and execution.handoffReady, per channel
    approvals,   \* per channel and approval: absent, pending or consumed
    asked,       \* approvals whose command has checked that none is current
    expired,     \* approvals older than their hour
    output,      \* per directory: absent, the handoff of a channel, or foreign
    drift,       \* the plan no longer is what the sources compile to
    pc,          \* where each process is
    run,         \* local variables of each apply
    printed,     \* channels whose start command was printed
    faults, edits

case    == <<checkpoint, facts, approvals>>
outside == <<asked, expired, drift, edits>>
procs   == <<pc, run, printed, faults>>
vars    == <<case, outside, output, procs>>

-----------------------------------------------------------------------------
(* Data. *)

\* Stage TICKETS, ADMISSION with two verdicts, EXECUTION with two verdicts.
Verdict == {"TICKETS", "AWAITING", "APPROVED", "READY", "IN_PROGRESS"}
Fact    == {"approved", "ready"} \X Channel
Stamp   == Channel \X Approval

\* The legal changes that other commands may make to a checkpoint.
Move == {<<"AWAITING", "TICKETS">>, <<"TICKETS", "AWAITING">>, <<"APPROVED", "AWAITING">>,
         <<"READY", "AWAITING">>, <<"READY", "IN_PROGRESS">>}

Run == [channel : Channel, approval : Approval, dir : Dir,
        verdict : Verdict,    \* of the checkpoint in the snapshot
        pending : BOOLEAN,    \* the approval is pending in the snapshot
        gate : BOOLEAN,       \* the channel's handoff.approved is in the snapshot
        existing : BOOLEAN,   \* the output was there and exact
        short : BOOLEAN]      \* only the approval is left to consume

Where == {"idle", "get", "existing", "verify", "approve", "reread",
          "materialize", "ready", "consume", "final"}

ASSUME HandoffAssumption ==
    /\ Approval # {} /\ Channel # {} /\ Dir # {}
    /\ "absent" \notin Channel /\ "foreign" \notin Channel
    /\ NoRun \notin Run
    /\ Moves \subseteq Move
    /\ MaxFaults \in Nat /\ MaxEdits \in Nat

TypeOK ==
    /\ checkpoint \in Verdict
    /\ facts \subseteq Fact
    /\ approvals \in [Stamp -> {"absent", "pending", "consumed"}]
    /\ asked \subseteq Stamp
    /\ expired \subseteq Stamp
    /\ output \in [Dir -> Channel \cup {"absent", "foreign"}]
    /\ drift \in BOOLEAN
    /\ pc \in [Proc -> Where]
    /\ run \in [Proc -> Run \cup {NoRun}]
    /\ \A p \in Proc : run[p] = NoRun <=> pc[p] = "idle"
    /\ printed \subseteq Channel
    /\ faults \in 0..MaxFaults
    /\ edits \in 0..MaxEdits

Fresh(c, a, d) ==
    [channel |-> c, approval |-> a, dir |-> d, verdict |-> "AWAITING", pending |-> FALSE,
     gate |-> FALSE, existing |-> FALSE, short |-> FALSE]

Init ==
    /\ checkpoint = "AWAITING"
    /\ facts = {}
    /\ approvals = [s \in Stamp |-> "absent"]
    /\ asked = {}
    /\ expired = {}
    /\ output = [d \in Dir |-> "absent"]
    /\ drift = FALSE
    /\ pc = [p \in Proc |-> "idle"]
    /\ run = [p \in Proc |-> NoRun]
    /\ printed = {}
    /\ faults = 0
    /\ edits = 0

-----------------------------------------------------------------------------
(* Control flow and faults. *)

StampOf(p) == <<run[p].channel, run[p].approval>>

Goto(p, where) == pc' = [pc EXCEPT ![p] = where]

\* The command ends, and its local variables with it.
Stop(p) == Goto(p, "idle") /\ run' = [run EXCEPT ![p] = NoRun]

\* It throws, and no start command is printed.
Throw(p) == Stop(p) /\ UNCHANGED printed

Complete(p) == Stop(p) /\ printed' = printed \cup {run[p].channel}

\* It goes on with new local variables.
Continue(p, where, r) ==
    Goto(p, where) /\ run' = [run EXCEPT ![p] = r] /\ UNCHANGED printed

Works == UNCHANGED faults
Fault == faults + edits < MaxFaults /\ faults' = faults + 1

At(p, where) == pc[p] = where /\ UNCHANGED outside

\* What a process keeps of store.get.
Snapshot(p) ==
    [run[p] EXCEPT !.verdict = checkpoint,
                   !.pending = (approvals[StampOf(p)] = "pending"),
                   !.gate    = (<<"approved", run[p].channel>> \in facts)]

-----------------------------------------------------------------------------
(* The apply command. *)

StartWith(p, c, a, d) ==
    /\ At(p, "idle")
    /\ Continue(p, "get", Fresh(c, a, d))
    /\ UNCHANGED <<case, output, faults>>

Start(p) == \E c \in Channel, a \in Approval, d \in Dir : StartWith(p, c, a, d)

\* A variant of Usable: approvals of the same handoff are not looked at.
UsableAlone(c, a) ==
    \/ approvals[<<c, a>>] = "consumed"
    \/ approvals[<<c, a>>] = "pending" /\ <<c, a>> \notin expired

\* One approval is selected, consumed already or valid now; of the others for
\* this handoff none is consumed and every pending one has expired.
Usable(c, a) ==
    /\ \/ approvals[<<c, a>>] = "consumed"
       \/ approvals[<<c, a>>] = "pending" /\ <<c, a>> \notin expired
    /\ \A b \in Approval \ {a} :
          /\ approvals[<<c, b>>] # "consumed"
          /\ approvals[<<c, b>>] = "pending" => <<c, b>> \in expired

\* The snapshot, and what it says of the approval.
Get(p) ==
    LET good == Usable(run[p].channel, run[p].approval) IN
    /\ At(p, "get")
    /\ \/ good /\ Works /\ Continue(p, "existing", Snapshot(p))
       \/ (Fault \/ (~good /\ Works)) /\ Throw(p)
    /\ UNCHANGED <<case, output>>

\* exactExisting: the handoff, no output, or a conflict.  After the approval
\* was consumed both the output and the checkpoint must show the handoff.
Existing(p) ==
    LET seen == output[run[p].dir]
        good == /\ seen \in {"absent", run[p].channel}
                /\ ~run[p].pending => seen = run[p].channel /\ run[p].verdict = "READY"
    IN
    /\ At(p, "existing")
    /\ \/ /\ good
          /\ Works
          /\ Continue(p, "verify", [run[p] EXCEPT !.existing = (seen = run[p].channel)])
       \/ (Fault \/ (~good /\ Works)) /\ Throw(p)
    /\ UNCHANGED <<case, output>>

\* A variant of Proceed: the approved fact may be any channel's.
ProceedAnyGate(p, r) ==
    IF r.pending /\ r.verdict = "APPROVED"
    THEN Continue(p, IF r.existing THEN "ready" ELSE "materialize", r)
    ELSE Throw(p)

\* A variant of Proceed: the verdict of the checkpoint is not compared.
ProceedAnyVerdict(p, r) ==
    IF r.pending /\ r.gate
    THEN Continue(p, IF r.existing THEN "ready" ELSE "materialize", r)
    ELSE Throw(p)

\* verify...ApprovalPendingExact and the search for the approved fact of the
\* channel, on the last snapshot r.
Proceed(p, r) ==
    IF r.pending /\ r.verdict = "APPROVED" /\ r.gate
    THEN Continue(p, IF r.existing THEN "ready" ELSE "materialize", r)
    ELSE Throw(p)

\* A variant of Verify: a handoff that is ready is not recognised as one.
VerifyNoShort(p) ==
    LET r == run[p] IN
    /\ At(p, "verify")
    /\ \/ (Fault \/ (drift /\ Works)) /\ Throw(p)
       \/ /\ ~drift /\ Works
          /\ \/ ~r.pending /\ Complete(p)
             \/ r.pending /\ r.verdict = "AWAITING" /\ Continue(p, "approve", r)
             \/ r.pending /\ r.verdict # "AWAITING" /\ Proceed(p, r)
    /\ UNCHANGED <<case, output>>

\* verifyExecutionPlan; then where the snapshot says to go on.
Verify(p) ==
    LET r     == run[p]
        short == r.pending /\ r.existing /\ r.verdict = "READY"
        apply == r.pending /\ ~short
    IN
    /\ At(p, "verify")
    /\ \/ (Fault \/ (drift /\ Works)) /\ Throw(p)
       \/ /\ ~drift /\ Works
          /\ \/ ~r.pending /\ Complete(p)
             \/ short /\ Continue(p, "consume", [r EXCEPT !.short = TRUE])
             \/ apply /\ r.verdict = "AWAITING" /\ Continue(p, "approve", r)
             \/ apply /\ r.verdict # "AWAITING" /\ Proceed(p, r)
    /\ UNCHANGED <<case, output>>

\* The workflow lets a checkpoint go to ADMISSION from any of these stages and
\* to EXECUTION from all but TICKETS; the verdict there is not the store's care.
ToAdmission == Verdict
ToExecution == Verdict \ {"TICKETS"}

\* store.transition to a verdict, with a fact of this channel.
Transition(p, from, verdict, fact, next) ==
    /\ \/ /\ checkpoint \in from
          /\ checkpoint' = verdict
          /\ facts' = facts \cup {<<fact, run[p].channel>>}
          /\ \/ Works /\ Continue(p, next, run[p])
             \/ Fault /\ Throw(p)
       \/ /\ Fault \/ (checkpoint \notin from /\ Works)
          /\ Throw(p)
          /\ UNCHANGED <<checkpoint, facts>>
    /\ UNCHANGED <<approvals, output>>

Approve(p) ==
    At(p, "approve") /\ Transition(p, ToAdmission, "APPROVED", "approved", "reread")

Reread(p) ==
    /\ At(p, "reread")
    /\ \/ Works /\ Proceed(p, Snapshot(p))
       \/ Fault /\ Throw(p)
    /\ UNCHANGED <<case, output>>

\* materialize: the file is written in a staging directory, which is renamed
\* to the output unless that exists.  The calls after the rename may fail.
Materialize(p) ==
    LET d == run[p].dir IN
    /\ At(p, "materialize")
    /\ \/ /\ output[d] = "absent"
          /\ output' = [output EXCEPT ![d] = run[p].channel]
          /\ \/ Works /\ Continue(p, "ready", run[p])
             \/ Fault /\ Throw(p)
       \/ /\ Fault \/ (output[d] # "absent" /\ Works)
          /\ Throw(p)
          /\ UNCHANGED output
    /\ UNCHANGED case

Ready(p) ==
    At(p, "ready") /\ Transition(p, ToExecution, "READY", "ready", "consume")

Consume(p) ==
    LET s == StampOf(p) IN
    /\ At(p, "consume")
    /\ \/ /\ approvals[s] = "pending"
          /\ approvals' = [approvals EXCEPT ![s] = "consumed"]
          /\ \/ Works /\ Continue(p, "final", run[p])
             \/ Fault /\ Throw(p)
       \/ /\ Fault \/ (approvals[s] # "pending" /\ Works)
          /\ Throw(p)
          /\ UNCHANGED approvals
    /\ UNCHANGED <<checkpoint, facts, output>>

\* The postconditions: the approval is consumed and, when this run did more
\* than that, the output reads back.
Final(p) ==
    LET good == /\ approvals[StampOf(p)] = "consumed"
                /\ run[p].short \/ output[run[p].dir] = run[p].channel
    IN
    /\ At(p, "final")
    /\ \/ good /\ Works /\ Complete(p)
       \/ (Fault \/ (~good /\ Works)) /\ Throw(p)
    /\ UNCHANGED <<case, output>>

-----------------------------------------------------------------------------
(* Everybody else. *)

Crash(p) ==
    /\ At(p, pc[p]) /\ pc[p] # "idle"
    /\ Fault
    /\ Throw(p)
    /\ UNCHANGED <<case, output>>

\* case approve-handoff and approve-goal-handoff look, hasCurrentApproval, for
\* an approval of the same handoff that is consumed or not yet expired, ...
Ask(c, a) ==
    /\ approvals[<<c, a>>] = "absent"
    /\ \A b \in Approval : /\ approvals[<<c, b>>] # "consumed"
                           /\ approvals[<<c, b>>] = "pending" => <<c, b>> \in expired
    /\ asked' = asked \cup {<<c, a>>}
    /\ UNCHANGED <<case, expired, drift, edits, output, procs>>

\* ... and add one.
Add(c, a) ==
    /\ <<c, a>> \in asked
    /\ asked' = asked \ {<<c, a>>}
    /\ approvals' = [approvals EXCEPT ![<<c, a>>] = "pending"]
    /\ UNCHANGED <<checkpoint, facts, expired, drift, edits, output, procs>>

\* The hour passes.  One approval per channel never expires, since the model
\* has no more to give.
Expire(c, a) ==
    /\ approvals[<<c, a>>] # "absent" /\ <<c, a>> \notin expired
    /\ \E b \in Approval \ {a} : <<c, b>> \notin expired
    /\ expired' = expired \cup {<<c, a>>}
    /\ UNCHANGED <<case, asked, drift, edits, output, procs>>

\* case transition, and the executor's start.
OtherCommand ==
    /\ \E m \in Moves : m[1] = checkpoint /\ checkpoint' = m[2]
    /\ UNCHANGED <<facts, approvals, outside, output, procs>>

\* People touch an output directory, or the sources of the plan.
Edit ==
    /\ edits < MaxEdits /\ faults + edits < MaxFaults
    /\ edits' = edits + 1
    /\ \/ /\ \E d \in Dir, o \in {"absent", "foreign"} : output' = [output EXCEPT ![d] = o]
          /\ UNCHANGED drift
       \/ drift' = ~drift /\ UNCHANGED output
    /\ UNCHANGED <<case, asked, expired, procs>>

-----------------------------------------------------------------------------
Step(p) ==
    \/ Get(p) \/ Existing(p) \/ Verify(p) \/ Approve(p) \/ Reread(p)
    \/ Materialize(p) \/ Ready(p) \/ Consume(p) \/ Final(p)

Next ==
    \/ \E p \in Proc : Start(p) \/ Step(p) \/ Crash(p)
    \/ \E c \in Channel, a \in Approval : Ask(c, a) \/ Add(c, a) \/ Expire(c, a)
    \/ OtherCommand
    \/ Edit

Spec == Init /\ [][Next]_vars

\* A started apply runs on; an operator keeps repeating an approved handoff
\* with an approval that is still good, and approves again when none is.  All
\* directories are tried again: once READY the command insists on the first.
Retry(p, d) ==
    \E c \in Channel, a \in Approval :
        /\ <<"approved", c>> \in facts
        /\ approvals[<<c, a>>] = "pending" /\ <<c, a>> \notin expired
        /\ StartWith(p, c, a, d)

Fairness ==
    /\ \A p \in Proc : WF_vars(Step(p)) /\ (\A d \in Dir : SF_vars(Retry(p, d)))
    /\ \A c \in Channel, a \in Approval :
          WF_vars(Ask(c, a)) /\ WF_vars(Add(c, a)) /\ WF_vars(Expire(c, a))

FairSpec == Spec /\ Fairness

-----------------------------------------------------------------------------
(* Properties. *)

\* No channel's file is ever put anywhere, whichever commands overlap, before
\* the case has recorded that this channel's handoff was approved: neither
\* channel takes the other's HANDOFF_APPROVED for its own.
OutputApproved ==
    \A d \in Dir : output[d] \in Channel => <<"approved", output[d]>> \in facts

\* The case never says that a release may be started before some channel's
\* handoff lies there complete; the record outlives crashes and replays.
ReadyHasOutput ==
    edits = 0 /\ (\E c \in Channel : <<"ready", c>> \in facts) =>
        \E d \in Dir : output[d] \in Channel

\* An approval is spent last: the channel's own handoff was approved and its
\* file is in place, and the case has been told that a release is ready.
SpentLast ==
    \A s \in Stamp : approvals[s] = "consumed" =>
        /\ <<"approved", s[1]>> \in facts
        /\ \E c \in Channel : <<"ready", c>> \in facts
        /\ edits = 0 => \E d \in Dir : output[d] = s[1]

\* Nobody is given a start command for a handoff whose approval is not spent.
StartIsPaid ==
    \A c \in printed : \E a \in Approval : approvals[<<c, a>>] = "consumed"

Handed(c) == \/ <<"ready", c>> \in facts
             \/ \E a \in Approval : approvals[<<c, a>>] = "consumed"

\* A plan is handed to one executor: while applies do not overlap and nobody
\* reworks the case, at most one channel becomes ready or spends an approval,
\* however often the other one is tried after a crash.
OneChannel ==
    \A c, e \in Channel : Handed(c) /\ Handed(e) => c = e

\* One approval per handoff is spent, however many were given, by commands
\* that raced, and after however many of them had expired.
OneSpent ==
    \A s, t \in Stamp :
        approvals[s] = "consumed" /\ approvals[t] = "consumed" => s = t

\* A plan goes to one executor, by one approval.
OneHandoff == OneChannel /\ OneSpent

\* An execution under way is not thrown back by a replay.
NeverBack ==
    [][checkpoint = "IN_PROGRESS" => checkpoint' = "IN_PROGRESS"]_vars

\* A handoff once approved is finished by repeating it, with the same approval
\* or the one that replaces it, unless its sources or output are touched or
\* somebody starts the executor from the command stored in the case.
Resumable ==
    \A c \in Channel :
        <<"approved", c>> \in facts ~>
            \/ \E a \in Approval : approvals[<<c, a>>] = "consumed"
            \/ checkpoint = "IN_PROGRESS"
            \/ edits > 0
=============================================================================
