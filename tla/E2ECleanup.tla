------------------------------ MODULE E2ECleanup ------------------------------
(***************************************************************************)
(* The disposable integration run and its cleanup: integration/e2e.mjs,    *)
(* live-adapter.mjs, e2e-state.mjs and cleanup.mjs.  The run makes issues  *)
(* in a shared repository.  Each is declared in a state file and in the    *)
(* body of a control issue before it is made, so that a cleanup in another *)
(* process, or on another machine, closes what a dead run left behind.     *)
(*                                                                         *)
(* Every GitHub call may fail, lose its answer, or time out and land after *)
(* the client went on; any process may stop between two steps; the machine *)
(* with the state file may be lost.                                        *)
(***************************************************************************)
EXTENDS Integers, FiniteSets

CONSTANTS
    Resource,    \* the issues the scenarios make, by marker
    NoState,     \* there is no state file, or no control issue
    NoResource,  \* the process works on no resource
    MaxFaults    \* bound on crashes, failing calls and lost machines

VARIABLES
    file,        \* the state file
    gh,          \* the repository: control issue, issues and label
    late,        \* calls nobody waits for any more and that may still land
    pc, job,     \* what the one running process does, and remembers
    report,      \* the report of the run
    verdict,     \* what the last cleanup said
    strays,      \* what came into being out of sight of a cleanup
    faults

vars == <<file, gh, late, pc, job, report, verdict, strays, faults>>

-----------------------------------------------------------------------------
(* Data. *)

\* A resource is declared, bound to its issue, and may get its second title.
Stage  == {"none", "declared", "bound", "renamed"}
Status == {"ACTIVE", "CLEANUP_COMMITTING", "COMPLETE"}
State  == [status : Status, control : BOOLEAN, res : [Resource -> Stage]]

\* The body of the control issue holds a state; tagged: it carries the label.
GitHub == [ctl : {"none", "open", "closed"}, body : State \cup {NoState},
           indexed : BOOLEAN, tagged : BOOLEAN, label : BOOLEAN,
           issue : [Resource -> {"none", "open", "closed"}], titled : SUBSET Resource]

OfRun   == {"postControl", "bindControl", "makeLabel", "tagControl", "scenarios",
            "create", "bind", "product", "rename"}
Cleaner == {"load", "verify", "list", "match", "close", "commit", "closeControl",
            "dropLabel", "finish", "pass"}

\* interrupt, child and verify: the three cleanups of a run that tests recovery;
\* plain: the only one of another run; alone: one that people start.
Round == {"run", "interrupt", "child", "verify", "plain", "alone"}

\* seen: the issues of the listing, and those of them that were open.
Job == [round : Round, failed : BOOLEAN, res : Resource \cup {NoResource},
        seen : SUBSET Resource, open : SUBSET Resource, ctlOpen : BOOLEAN,
        next : OfRun \cup Cleaner]

Idle == [round |-> "alone", failed |-> FALSE, res |-> NoResource, seen |-> {},
         open |-> {}, ctlOpen |-> FALSE, next |-> "load"]

ASSUME E2EAssumption ==
    /\ NoState \notin State /\ NoResource \notin Resource
    /\ MaxFaults \in Nat

TypeOK ==
    /\ file \in State \cup {NoState}
    /\ gh \in GitHub
    /\ late \subseteq ({"control", "body"} \X State) \cup ({"issue"} \X Resource) \cup {<<"label">>}
    /\ pc \in {"idle", "sync"} \cup OfRun \cup Cleaner
    /\ job \in Job
    /\ pc = "idle" => job = Idle
    /\ report \in {"none", "running", "lost", "UNTESTED", "PARTIAL", "COMPLETE"}
    /\ verdict \in {"none", "PASS", "FAIL"}
    /\ strays \subseteq Resource \cup {"control", "label", "body"}
    /\ faults \in 0..MaxFaults

Init ==
    /\ file = NoState
    /\ gh = [ctl |-> "none", body |-> NoState, indexed |-> FALSE, tagged |-> FALSE,
             label |-> FALSE, issue |-> [r \in Resource |-> "none"], titled |-> {}]
    /\ late = {} /\ pc = "idle" /\ job = Idle
    /\ report = "none" /\ verdict = "none" /\ strays = {} /\ faults = 0

-----------------------------------------------------------------------------
(* Control flow. *)

Works == UNCHANGED faults
Fault == faults < MaxFaults /\ faults' = faults + 1

Goto(where) == pc' = where /\ UNCHANGED <<job, report, verdict, strays>>

\* runIntegrationE2E: COMPLETE needs every scenario and the recovered cleanup.
Report(good) == IF good /\ ~job.failed THEN "COMPLETE" ELSE "PARTIAL"

\* A cleanup ends, and with it the run it belongs to, unless more are to come.
CleanupEnds(status) ==
    LET more == job.round = "child" /\ status = "PASS"
        good == job.round = "verify" /\ status = "PASS"
    IN
    /\ pc' = IF more THEN "load" ELSE "idle"
    /\ job' = IF more THEN [job EXCEPT !.round = "verify"] ELSE Idle
    /\ report' = IF job.round = "alone" \/ more THEN report ELSE Report(good)
    /\ verdict' = status
    /\ UNCHANGED strays

\* The process is at one of these labels, or goes on there when the state is sent.
Near(labels) == pc \in labels \/ (pc = "sync" /\ job.next \in labels)

\* An exception: preflight gives up, a scenario fails, a cleanup fails.
Throws ==
    \/ Near(Cleaner) /\ CleanupEnds("FAIL")
    \/ /\ Near({"create", "bind", "product", "rename"})
       /\ pc' = "scenarios"
       /\ job' = [job EXCEPT !.failed = TRUE, !.res = NoResource]
       /\ UNCHANGED <<report, verdict, strays>>
    \/ /\ ~Near(Cleaner \cup {"create", "bind", "product", "rename"})
       /\ pc' = "idle" /\ job' = Idle /\ report' = "UNTESTED"
       /\ UNCHANGED <<verdict, strays>>

\* A call that writes.  late: how it is called when it may land later, or <<>>.
\* The first write of an interrupted cleanup is not sent: another process starts.
Sends(after, name, where) ==
    /\ UNCHANGED file
    /\ IF job.round = "interrupt"
       THEN /\ Works /\ pc' = "load" /\ job' = [job EXCEPT !.round = "child"]
            /\ UNCHANGED <<gh, late, report, verdict, strays>>
       ELSE \/ Works /\ gh' = after /\ UNCHANGED late /\ Goto(where)
            \/ Fault /\ gh' \in {gh, after} /\ UNCHANGED late /\ Throws
            \/ Fault /\ name # <<>> /\ UNCHANGED gh /\ late' = late \cup {name} /\ Throws

\* A step that only reads GitHub, or fails to.
Reads(next) ==
    /\ UNCHANGED <<file, gh, late>>
    /\ (Works /\ next) \/ (Fault /\ Throws)

\* persistE2EState, then persistRemoteE2EState when there is a control issue.
Persist(state, j, where) ==
    /\ Works /\ file' = state /\ UNCHANGED <<gh, late, report, verdict, strays>>
    /\ pc' = IF state.control THEN "sync" ELSE where
    /\ job' = [j EXCEPT !.next = where]

Sync == pc = "sync" /\ Sends([gh EXCEPT !.body = file], <<"body", file>>, job.next)

-----------------------------------------------------------------------------
(* The run: preflight, scenarios. *)

\* One run has a run id.  Its guards pass and its first state is written, or not.
StartRun ==
    /\ pc = "idle" /\ report = "none" /\ Works
    /\ UNCHANGED <<gh, late, verdict, strays>>
    /\ \/ /\ file' = [status |-> "ACTIVE", control |-> FALSE, res |-> [r \in Resource |-> "none"]]
          /\ pc' = "postControl" /\ job' = [Idle EXCEPT !.round = "run"]
          /\ report' = "running"
       \/ report' = "UNTESTED" /\ UNCHANGED <<file, pc, job>>

PostControl ==
    /\ pc = "postControl"
    /\ Sends([gh EXCEPT !.ctl = "open", !.body = file], <<"control", file>>, "bindControl")

BindControl ==
    /\ pc = "bindControl"
    /\ \/ Persist([file EXCEPT !.control = TRUE], job, "makeLabel")
       \/ Fault /\ Throws /\ UNCHANGED <<file, gh, late>>

MakeLabel ==
    pc = "makeLabel" /\ Sends([gh EXCEPT !.label = TRUE], <<"label">>, "tagControl")

TagControl ==
    pc = "tagControl" /\ Sends([gh EXCEPT !.tagged = gh.label], <<>>, "scenarios")

\* A variant of Declare: the resource is declared on this machine only.
DeclareLocally ==
    /\ pc = "scenarios" /\ Works
    /\ \E r \in Resource :
          /\ file.res[r] = "none" /\ file' = [file EXCEPT !.res[r] = "declared"]
          /\ pc' = "create" /\ job' = [job EXCEPT !.res = r]
          /\ UNCHANGED <<gh, late, report, verdict, strays>>

\* createIssue: first the declaration, here and there.
Declare ==
    /\ pc = "scenarios"
    /\ \E r \in Resource :
          /\ file.res[r] = "none"
          /\ Persist([file EXCEPT !.res[r] = "declared"], [job EXCEPT !.res = r], "create")

Create ==
    /\ pc = "create"
    /\ Sends([gh EXCEPT !.issue[job.res] = "open"], <<"issue", job.res>>, "bind")

Bind ==
    /\ pc = "bind"
    /\ \/ Persist([file EXCEPT !.res[job.res] = "bound"], job, "product")
       \/ Fault /\ Throws /\ UNCHANGED <<file, gh, late>>

\* runProductPath: the scenario goes as expected or not, or it changes the title,
\* which is allowed by the state first.
Product ==
    /\ pc = "product"
    /\ \/ /\ Works /\ pc' = "scenarios" /\ UNCHANGED <<file, gh, late, report, verdict, strays>>
          /\ \E bad \in BOOLEAN : job' = [job EXCEPT !.failed = @ \/ bad, !.res = NoResource]
       \/ Persist([file EXCEPT !.res[job.res] = "renamed"], job, "rename")

Rename ==
    /\ pc = "rename"
    /\ Sends([gh EXCEPT !.titled = @ \cup {job.res}], <<>>, "scenarios")

\* All scenarios are done.  The first cleanup is interrupted when the scenario
\* that asks for it went well.
StartOwnCleanup ==
    /\ pc = "scenarios" /\ \A r \in Resource : file.res[r] # "none"
    /\ Works /\ pc' = "load" /\ UNCHANGED <<file, gh, late, report, verdict, strays>>
    /\ \E round \in IF job.failed THEN {"interrupt", "plain"} ELSE {"interrupt"} :
          job' = [job EXCEPT !.round = round, !.res = NoResource]

-----------------------------------------------------------------------------
(* cleanupPersistedE2E. *)

StartCleanup ==
    /\ pc = "idle" /\ report # "none" /\ Works
    /\ Goto("load") /\ UNCHANGED <<file, gh, late>>

\* recoverRemoteE2EState: the control issue, by its label or by a search.
Findable == gh.ctl # "none" /\ (gh.tagged \/ gh.indexed)

\* The state comes from the file, or else from the control issue.  Without any
\* there is nothing to clean up, if there is no label either.
Load ==
    LET bound   == file # NoState /\ file.control
        known   == [gh.body EXCEPT !.control = TRUE]
        drift   == file # NoState /\ file.status = "COMPLETE" /\ known.status # "COMPLETE"
        on(s)   == pc' = (IF s.status = "COMPLETE" THEN "verify" ELSE "list")
                     /\ UNCHANGED <<job, report, verdict>>
    IN
    /\ pc = "load" /\ UNCHANGED <<gh, late>>
    /\ \/ bound /\ Works /\ on(file) /\ UNCHANGED <<file, strays>>
       \/ /\ ~bound /\ Findable /\ ~drift /\ Works
          /\ file' = known /\ on(known) /\ UNCHANGED strays
       \/ ~bound /\ Findable /\ drift /\ Works /\ Throws /\ UNCHANGED file
       \/ /\ ~bound /\ ~Findable /\ Works /\ UNCHANGED file
          /\ strays' = IF gh.ctl = "open" THEN strays \cup {"control"} ELSE strays
          /\ IF file # NoState THEN on(file)
             ELSE /\ pc' = "idle" /\ job' = Idle /\ UNCHANGED report
                  /\ verdict' = IF gh.label THEN "FAIL" ELSE "PASS"
       \/ Fault /\ Throws /\ UNCHANGED file

ClosedAll(state) == \A r \in Resource :
    state.res[r] \in {"bound", "renamed"} => gh.issue[r] = "closed"

\* A completed cleanup is only checked again.
Verify ==
    LET good == /\ ClosedAll(file) /\ ~gh.label
                /\ file.control => gh.ctl = "closed" /\ gh.body = file
    IN
    /\ pc = "verify"
    /\ Reads(CleanupEnds(IF good THEN "PASS" ELSE "FAIL"))

\* A variant of List: a cleanup that commits does not look at the control issue.
ListActive ==
    LET seen == IF gh.label /\ file.status = "ACTIVE"
                THEN {r \in Resource : gh.issue[r] # "none"} ELSE {}
    IN
    /\ pc = "list"
    /\ Reads(/\ pc' = "match"
             /\ job' = [job EXCEPT !.seen = seen, !.open = {r \in seen : gh.issue[r] = "open"},
                       !.ctlOpen = file.status = "ACTIVE" /\ file.control /\ gh.ctl = "open"]
             /\ UNCHANGED <<report, verdict, strays>>)

\* The issues with the label, and the control issue.
List ==
    LET seen == IF gh.label /\ file.status = "ACTIVE"
                THEN {r \in Resource : gh.issue[r] # "none"} ELSE {}
    IN
    /\ pc = "list"
    /\ Reads(/\ pc' = "match"
             /\ job' = [job EXCEPT !.seen = seen, !.open = {r \in seen : gh.issue[r] = "open"},
                                   !.ctlOpen = file.control /\ gh.ctl = "open"]
             /\ UNCHANGED <<report, verdict, strays>>)

\* A variant of Matches: every declared resource has to have an issue.
MatchesAll ==
    IF file.status = "ACTIVE"
    THEN \A r \in Resource :
           /\ r \in job.seen \cap gh.titled => file.res[r] = "renamed"
           /\ file.res[r] # "none" <=> r \in job.seen
    ELSE ClosedAll(file)

\* Every issue is one resource's, with a title of its own, and no bound one is
\* missing; a committing cleanup has closed them all.
Matches ==
    IF file.status = "ACTIVE"
    THEN \A r \in Resource :
           /\ r \in job.seen => file.res[r] # "none"
           /\ r \in job.seen \cap gh.titled => file.res[r] = "renamed"
           /\ file.res[r] \in {"bound", "renamed"} => r \in job.seen
    ELSE ClosedAll(file)

Match ==
    /\ pc = "match"
    /\ \/ ~file.control /\ gh.tagged /\ Reads(CleanupEnds("FAIL"))
       \/ (file.control \/ ~gh.tagged) /\ Reads(IF Matches THEN Goto("close") ELSE CleanupEnds("FAIL"))

\* An issue the run did not learn of is bound first.
BindFound(r) ==
    /\ file.res[r] = "declared"
    /\ Persist([file EXCEPT !.res[r] = "bound"], job, "close")

CloseIssue(r) ==
    /\ file.res[r] # "declared" /\ r \in job.open /\ gh.issue[r] = "open"
    /\ Sends([gh EXCEPT !.issue[r] = "closed"], <<>>, "close")

Close ==
    /\ pc = "close"
    /\ \/ \E r \in job.seen : BindFound(r) \/ CloseIssue(r)
       \/ /\ \A r \in job.seen : file.res[r] # "declared" /\ gh.issue[r] = "closed"
          /\ Works /\ Goto("commit") /\ UNCHANGED <<file, gh, late>>

Commit ==
    /\ pc = "commit"
    /\ IF file.status = "ACTIVE"
       THEN Persist([file EXCEPT !.status = "CLEANUP_COMMITTING"], job, "closeControl")
       ELSE Works /\ Goto("closeControl") /\ UNCHANGED <<file, gh, late>>

CloseControl ==
    /\ pc = "closeControl"
    /\ IF job.ctlOpen THEN Sends([gh EXCEPT !.ctl = "closed"], <<>>, "dropLabel")
       ELSE Works /\ Goto("dropLabel") /\ UNCHANGED <<file, gh, late>>

\* The label is deleted, and with it its uses.
DropLabel ==
    /\ pc = "dropLabel"
    /\ IF gh.label THEN Sends([gh EXCEPT !.label = FALSE, !.tagged = FALSE], <<>>, "finish")
       ELSE Reads(Goto("finish"))

Finish ==
    pc = "finish" /\ Persist([file EXCEPT !.status = "COMPLETE"], job, "pass")

Pass == pc = "pass" /\ Works /\ CleanupEnds("PASS") /\ UNCHANGED <<file, gh, late>>

-----------------------------------------------------------------------------
(* The environment. *)

Crash ==
    /\ pc # "idle" /\ Fault
    /\ pc' = "idle" /\ job' = Idle
    /\ report' = IF job.round = "alone" THEN report ELSE "lost"
    /\ UNCHANGED <<file, gh, late, verdict, strays>>

\* The machine with the file is lost.
LoseFile ==
    /\ pc = "idle" /\ file # NoState /\ Fault
    /\ file' = NoState
    /\ UNCHANGED <<gh, late, pc, job, report, verdict, strays>>

\* Some cleanup has looked, or is about to rely on what it saw.
Looked ==
    \/ Near(Cleaner)
    \/ verdict = "PASS" \/ "body" \in strays
    \/ file # NoState /\ file.status # "ACTIVE"
    \/ gh.body # NoState /\ gh.body.status # "ACTIVE"
    \/ \E l \in late : l[1] = "body" /\ l[2].status # "ACTIVE"

\* An issue that lands when the label is gone is listed by no cleanup to come,
\* even if every trace of the one that deleted it is lost.
Lands(l, after, what) ==
    /\ late' = late \ {l} /\ gh' = after
    /\ strays' = IF Looked \/ (what \in Resource /\ ~gh.label)
                 THEN strays \cup {what} ELSE strays
    /\ UNCHANGED <<file, pc, job, report, verdict, faults>>

\* A stale state replaces a newer one.
LandBody(s) ==
    /\ late' = late \ {<<"body", s>>}
    /\ gh' = [gh EXCEPT !.body = s]
    /\ strays' = IF s = file THEN strays ELSE strays \cup {"body"}
    /\ UNCHANGED <<file, pc, job, report, verdict, faults>>

Land(l) ==
    \/ l[1] = "control" /\ Lands(l, [gh EXCEPT !.ctl = "open", !.body = l[2]], "control")
    \/ l[1] = "issue" /\ Lands(l, [gh EXCEPT !.issue[l[2]] = "open"], l[2])
    \/ l[1] = "label" /\ Lands(l, [gh EXCEPT !.label = TRUE], "label")
    \/ l[1] = "body" /\ LandBody(l[2])

\* The control issue turns up in the search.
Index ==
    /\ gh.ctl # "none" /\ ~gh.indexed
    /\ gh' = [gh EXCEPT !.indexed = TRUE]
    /\ UNCHANGED <<file, late, pc, job, report, verdict, strays, faults>>

Step ==
    \/ PostControl \/ BindControl \/ MakeLabel \/ TagControl
    \/ Declare \/ Create \/ Bind \/ Product \/ Rename \/ StartOwnCleanup
    \/ Sync \/ Load \/ Verify \/ List \/ Match \/ Close \/ Commit \/ CloseControl
    \/ DropLabel \/ Finish \/ Pass

Next ==
    \/ StartRun \/ StartCleanup \/ Step
    \/ Crash \/ LoseFile
    \/ \E l \in late : Land(l)
    \/ Index

Spec == Init /\ [][Next]_vars

\* A process goes on, calls land, the search catches up, and people dispatch the
\* cleanup again and again.
Fairness ==
    /\ WF_vars(Step) /\ WF_vars(StartCleanup)
    /\ WF_vars(\E l \in late : Land(l)) /\ WF_vars(Index)

FairSpec == Spec /\ Fairness

-----------------------------------------------------------------------------
(* Properties. *)

\* live-adapter.mjs, createIssue: an issue that exists, or may still come into
\* being, is declared with the titles it may have in the file and in the control
\* issue, wherever the run died and whichever of the two is left, as long as no
\* late write put an older state in the place of a newer one.
DeclaredFirst ==
    "body" \notin strays =>
       \A s \in {file, gh.body} \ {NoState}, r \in Resource :
          /\ gh.issue[r] # "none" \/ <<"issue", r>> \in late => s.res[r] # "none"
          /\ r \in gh.titled => s.res[r] = "renamed"

\* A state that says the cleanup commits makes every later cleanup skip the
\* issues it does not name: by then none is open that could be seen.
CommittedIsClosed ==
    \A s \in {file, gh.body} : s # NoState /\ s.status # "ACTIVE" =>
        \A r \in Resource : gh.issue[r] = "open" => r \in strays

\* PASS of a cleanup, on any machine and after any crash: no issue of the run is
\* open and its label is gone, but for what was made out of its sight.
PassIsClean ==
    verdict = "PASS" =>
        /\ \A r \in Resource : gh.issue[r] = "open" => r \in strays
        /\ gh.ctl = "open" => "control" \in strays
        /\ gh.label => "label" \in strays

\* COMPLETE of the report is stronger: nothing was made out of sight, nothing is
\* still to land, and both states agree that all is done.
ReportIsClean ==
    report = "COMPLETE" /\ file # NoState =>
        /\ strays = {} /\ late = {}
        /\ \A r \in Resource : gh.issue[r] = "closed"
        /\ gh.ctl = "closed" /\ ~gh.label /\ gh.body = file

\* cleanup.mjs and report.mjs: whatever a state, a cleanup or a report says of what
\* is left of the run, in whichever process or after whichever crash, is so.
VerdictsClean == CommittedIsClosed /\ PassIsClean /\ ReportIsClean

\* A cleanup stopped between its two last writes: the control issue is not
\* patched again, and every later cleanup finds that it differs.
TornCompletion == file # NoState /\ file.status = "COMPLETE" /\ gh.body # file

\* The write that the cleanup commits failed, the resumed cleanup did not repeat
\* it and deleted the label, and the file was lost: the issues are not found.
Overtaken == gh.body # NoState /\ gh.body.status = "ACTIVE" /\ ~gh.label /\ gh.ctl = "closed"

\* recovery.md: the cleanup can be dispatched until it succeeds, also without the
\* file: repeated, it ends in PASS for good, unless something is out of its sight
\* or one of the two writes above is missing.
CleanedUp ==
    \/ <>[](verdict = "PASS")
    \/ <>[](report = "none")
    \/ <>[](strays # {} \/ TornCompletion \/ Overtaken)
=============================================================================
