------------------------------ MODULE LiveProofs ------------------------------
(***************************************************************************)
(* Theorems about the two parts that drive live services: E2ECleanup, for  *)
(* every set of resources and every number of crashes, failing calls and   *)
(* lost machines; and LiveSessions, for every set of evaluation cases and  *)
(* every number of rounds, retries and turns.                              *)
(***************************************************************************)
EXTENDS E2ECleanup, LiveSessions, FiniteSetTheorems, SequenceTheorems, TLAPS

-----------------------------------------------------------------------------
(***************************************************************************)
(* E2ECleanup.                                                             *)
(***************************************************************************)


-----------------------------------------------------------------------------
(* Type correctness.                                                       *)

\* The calls that may land later.
Calls == ({"control", "body"} \X State) \cup ({"issue"} \X Resource) \cup {<<"label">>}

\* What the process does, and what it remembers.
ProcessOK ==
    /\ pc \in {"idle", "sync"} \cup OfRun \cup Cleaner
    /\ job \in Job
    /\ pc = "idle" => job = Idle
    /\ report \in {"none", "running", "lost", "UNTESTED", "PARTIAL", "COMPLETE"}
    /\ verdict \in {"none", "PASS", "FAIL"}

LEMMA IdleType == Idle \in Job
BY DEF Idle, Job, Round, Cleaner

LEMMA InitType == Init => TypeOK
<1> SUFFICES ASSUME Init PROVE TypeOK
  OBVIOUS
<1>1. gh \in GitHub
  BY DEF Init, GitHub
<1> QED
  BY <1>1, IdleType, E2EAssumption DEF Init, TypeOK

LEMMA CleanupEndsType ==
    ASSUME TypeOK, NEW status \in {"PASS", "FAIL"}, CleanupEnds(status)
    PROVE  ProcessOK' /\ strays' = strays
<1>1. [job EXCEPT !.round = "verify"] \in Job
  BY DEF TypeOK, Job, Round
<1> QED
  BY <1>1, IdleType DEF TypeOK, ProcessOK, CleanupEnds, Report, Cleaner

LEMMA ThrowsType ==
    ASSUME TypeOK, Throws
    PROVE  ProcessOK' /\ strays' = strays
<1>1. CASE Near(Cleaner) /\ CleanupEnds("FAIL")
  BY <1>1, CleanupEndsType
<1>2. CASE /\ pc' = "scenarios"
           /\ job' = [job EXCEPT !.failed = TRUE, !.res = NoResource]
           /\ UNCHANGED <<report, verdict, strays>>
  <2>1. [job EXCEPT !.failed = TRUE, !.res = NoResource] \in Job
    BY DEF TypeOK, Job
  <2> QED
    BY <1>2, <2>1 DEF TypeOK, ProcessOK, OfRun
<1>3. CASE /\ pc' = "idle" /\ job' = Idle /\ report' = "UNTESTED"
           /\ UNCHANGED <<verdict, strays>>
  BY <1>3, IdleType DEF TypeOK, ProcessOK
<1> QED
  BY <1>1, <1>2, <1>3 DEF Throws

LEMMA FaultType == TypeOK /\ (Works \/ Fault) => faults' \in 0..MaxFaults
BY E2EAssumption DEF TypeOK, Works, Fault

LEMMA SendsType ==
    ASSUME TypeOK, NEW after \in GitHub, NEW name \in Calls \cup {<<>>},
           NEW where \in OfRun \cup Cleaner, Sends(after, name, where)
    PROVE  TypeOK'
<1>1. file' = file /\ faults' \in 0..MaxFaults
  BY FaultType DEF Sends
<1>2. CASE job.round = "interrupt"
  <2>1. [job EXCEPT !.round = "child"] \in Job
    BY DEF TypeOK, Job, Round
  <2> QED
    BY <1>1, <1>2, <2>1 DEF Sends, TypeOK, Cleaner
<1>3. CASE job.round # "interrupt"
  <2>1. CASE Works /\ gh' = after /\ UNCHANGED late /\ Goto(where)
    BY <1>1, <2>1 DEF TypeOK, Goto, OfRun, Cleaner
  <2>2. CASE Fault /\ gh' \in {gh, after} /\ UNCHANGED late /\ Throws
    BY <1>1, <2>2, ThrowsType DEF TypeOK, ProcessOK
  <2>3. CASE Fault /\ name # <<>> /\ UNCHANGED gh /\ late' = late \cup {name} /\ Throws
    BY <1>1, <2>3, ThrowsType DEF TypeOK, ProcessOK, Calls
  <2> QED
    BY <1>3, <2>1, <2>2, <2>3 DEF Sends
<1> QED
  BY <1>2, <1>3

LEMMA PersistType ==
    ASSUME TypeOK, NEW state \in State, NEW j \in Job,
           NEW where \in OfRun \cup Cleaner, Persist(state, j, where)
    PROVE  TypeOK'
<1>1. [j EXCEPT !.next = where] \in Job
  BY DEF Job
<1> QED
  BY <1>1 DEF Persist, TypeOK, Works, State, OfRun, Cleaner

\* What the steps write is of the right shape.
LEMMA GhType ==
    ASSUME TypeOK
    PROVE  /\ file # NoState => [gh EXCEPT !.body = file] \in GitHub
           /\ file # NoState => [gh EXCEPT !.ctl = "open", !.body = file] \in GitHub
           /\ [gh EXCEPT !.ctl = "closed"] \in GitHub
           /\ [gh EXCEPT !.label = TRUE] \in GitHub
           /\ [gh EXCEPT !.tagged = gh.label] \in GitHub
           /\ [gh EXCEPT !.label = FALSE, !.tagged = FALSE] \in GitHub
           /\ [gh EXCEPT !.indexed = TRUE] \in GitHub
           /\ \A r \in Resource :
                 /\ [gh EXCEPT !.issue[r] = "open"] \in GitHub
                 /\ [gh EXCEPT !.issue[r] = "closed"] \in GitHub
                 /\ [gh EXCEPT !.titled = @ \cup {r}] \in GitHub
           /\ \A st \in State :
                 /\ [gh EXCEPT !.body = st] \in GitHub
                 /\ [gh EXCEPT !.ctl = "open", !.body = st] \in GitHub
BY DEF TypeOK, GitHub

LEMMA FileType ==
    ASSUME TypeOK, file # NoState
    PROVE  /\ file \in State
           /\ [file EXCEPT !.control = TRUE] \in State
           /\ [file EXCEPT !.status = "CLEANUP_COMMITTING"] \in State
           /\ [file EXCEPT !.status = "COMPLETE"] \in State
           /\ \A r \in Resource, stage \in Stage : [file EXCEPT !.res[r] = stage] \in State
BY DEF TypeOK, State, Status

LEMMA JobType ==
    ASSUME TypeOK
    PROVE  /\ \A bad \in BOOLEAN : [job EXCEPT !.failed = bad, !.res = NoResource] \in Job
           /\ \A r \in Resource : [job EXCEPT !.res = r] \in Job
           /\ \A round \in Round : [job EXCEPT !.round = round, !.res = NoResource] \in Job
           /\ \A seen \in SUBSET Resource, open \in SUBSET Resource, ctlOpen \in BOOLEAN :
                 [job EXCEPT !.seen = seen, !.open = open, !.ctlOpen = ctlOpen] \in Job
BY DEF TypeOK, Job

-----------------------------------------------------------------------------
(* The inductive invariant, in parts.                                      *)

InScenario == {"create", "bind", "product", "rename"}

\* Whoever works on the state has one, and on a resource knows which.
Known ==
    /\ Near(OfRun) \/ (Near(Cleaner) /\ pc # "load") => file # NoState
    /\ gh.ctl # "none" => gh.body # NoState
    /\ Near(InScenario) => job.res \in Resource

\* No issue exists, may still come into being, or has a second title.
Barren ==
    /\ gh.titled = {}
    /\ \A r \in Resource : gh.issue[r] = "none" /\ <<"issue", r>> \notin late

\* Some state says that a cleanup commits.
Committed ==
    \/ file # NoState /\ file.status # "ACTIVE"
    \/ gh.body # NoState /\ gh.body.status # "ACTIVE"
    \/ \E l \in late : l[1] = "body" /\ l[2].status # "ACTIVE"

\* Every open issue, or the open control issue, was made out of sight.
Unseen    == \A r \in Resource : gh.issue[r] = "open" => r \in strays
UnseenCtl == gh.ctl = "open" => "control" \in strays

\* What exists, or may still come into being, is declared in a state.
Declares(st) ==
    st # NoState /\ "body" \notin strays =>
       \A r \in Resource :
          /\ gh.issue[r] # "none" \/ <<"issue", r>> \in late => st.res[r] # "none"
          /\ r \in gh.titled => st.res[r] = "renamed"

\* Whatever process is at work or none: when a cleanup commits, and when the label
\* is gone, every open issue is out of sight; a committed state that does not know
\* of the control issue leaves it out of sight; a control issue that may still land
\* is that of a run that made no issue.
World ==
    /\ Declares(file) /\ Declares(gh.body)
    /\ Committed \/ ~gh.label => Unseen
    /\ file # NoState /\ ~file.control /\ file.status # "ACTIVE" => UnseenCtl
    /\ \A l \in late : l[1] = "control" => Barren /\ l[2].status = "ACTIVE"

\* Before the run there is nothing.
Untouched ==
    report = "none" =>
       /\ pc = "idle" /\ file = NoState /\ gh.body = NoState /\ gh.ctl = "none" /\ ~gh.label
       /\ late = {} /\ strays = {} /\ verdict = "none" /\ Barren

\* The run comes before every cleanup; which process is at work, and what of the
\* state is settled by then.
Phases ==
    /\ report = "running" => pc # "idle" /\ \A l \in late : l[1] # "control"
    /\ pc # "idle" => (job.round # "alone" <=> report = "running")
    /\ Near(OfRun) => job.round = "run" /\ verdict = "none" /\ ~Committed
    /\ Near(Cleaner) => job.round # "run"
    /\ Near(OfRun \ {"postControl", "bindControl"}) => file.control
    /\ Near(Cleaner) /\ job.round # "alone" => file # NoState /\ file.control
    /\ job.round = "verify" =>
          pc \in {"load", "verify"} /\ file # NoState /\ file.status = "COMPLETE"
    /\ Near({"verify", "pass"}) => file.status = "COMPLETE"
    /\ Near({"closeControl", "dropLabel", "finish"}) => file.status # "ACTIVE"
    /\ pc = "sync" => file.control /\ job.next # "load" /\ job.next # "bind"

\* The control issue and the label come before every issue.
Early ==
    /\ Near({"postControl", "bindControl", "makeLabel", "tagControl"}) => Barren
    /\ Near({"tagControl", "scenarios"} \cup InScenario) => gh.label

\* A scenario works on what it has declared, here and there.
Working ==
    /\ Near({"create", "bind"}) => file.res[job.res] = "declared"
    /\ Near({"product"}) => file.res[job.res] = "bound"
    /\ Near({"rename"}) => file.res[job.res] = "renamed"
    /\ pc \in {"create", "rename"} /\ "body" \notin strays /\ gh.body # NoState =>
          /\ gh.body.res[job.res] # "none"
          /\ pc = "rename" => gh.body.res[job.res] = "renamed"

\* What a cleanup relies on when it goes on: the issues it has not listed, and what
\* it will not close of the control issue, were made out of sight, and so was a
\* label after it was deleted.
Relies ==
    /\ Near({"match", "close"}) =>
          \A r \in Resource : gh.issue[r] = "open" => r \in job.seen \cup strays
    /\ Near({"commit"}) => Unseen
    /\ Near(Cleaner) /\ pc # "load" /\ ~file.control => UnseenCtl
    /\ Near({"match", "close", "commit", "closeControl"}) =>
          IF job.ctlOpen THEN gh.body # NoState ELSE UnseenCtl
    /\ Near({"dropLabel", "finish", "pass"}) => UnseenCtl
    /\ Near({"finish", "pass"}) => (gh.label => "label" \in strays)

\* A run in which nothing failed has lost no answer and bound every resource that
\* it has finished with.
Smooth ==
    pc # "idle" /\ job.round # "alone" /\ ~job.failed =>
       /\ late = {} /\ strays = {}
       /\ \A r \in Resource :
             \/ file.res[r] \in {"bound", "renamed"}
             \/ file.res[r] = "none" /\ Near(OfRun)
             \/ Near({"create", "bind"}) /\ r = job.res

\* After a COMPLETE report nothing is left and nothing changes, with the file or
\* without it.
Completed ==
    report = "COMPLETE" =>
       /\ pc \in {"idle", "load", "verify"}
       /\ strays = {} /\ late = {}
       /\ \A r \in Resource : gh.issue[r] = "closed"
       /\ gh.ctl = "closed" /\ ~gh.label
       /\ gh.body # NoState /\ gh.body.status = "COMPLETE" /\ gh.body.control
       /\ file \in {NoState, gh.body}

Inv == /\ Known /\ World /\ Untouched /\ Phases /\ Early /\ Working
       /\ Relies /\ Smooth /\ Completed /\ PassIsClean

LEMMA InitInv == Init => Inv
BY DEF Init, Inv, Known, World, Declares, Untouched, Phases, Early, Working, Relies, Unseen,
       UnseenCtl, Smooth, Completed, PassIsClean, Barren, Committed, Near, Idle, OfRun,
       Cleaner, InScenario

-----------------------------------------------------------------------------
(* Every step keeps the types.                                             *)

LEMMA RunType == ASSUME TypeOK, Known,
    StartRun \/ PostControl \/ BindControl \/ MakeLabel \/ TagControl
  PROVE TypeOK'
<1> USE GhType, FileType
<1>1. CASE StartRun
  <2>1. [Idle EXCEPT !.round = "run"] \in Job
    BY IdleType DEF Job, Round
  <2>2. [status |-> "ACTIVE", control |-> FALSE, res |-> [r \in Resource |-> "none"]] \in State
    BY DEF State, Status, Stage
  <2> QED
    BY <1>1, <2>1, <2>2 DEF StartRun, TypeOK, Works, OfRun
<1>2. CASE PostControl
  <2>1. file # NoState /\ <<"control", file>> \in Calls
    BY <1>2 DEF PostControl, Known, Near, OfRun, TypeOK, Calls
  <2> QED
    BY <1>2, <2>1, SendsType DEF PostControl, OfRun
<1>3. CASE BindControl
  <2>1. file # NoState
    BY <1>3 DEF BindControl, Known, Near, OfRun
  <2>2. CASE Persist([file EXCEPT !.control = TRUE], job, "makeLabel")
    BY <2>1, <2>2, PersistType DEF OfRun, TypeOK
  <2>3. CASE Fault /\ Throws /\ UNCHANGED <<file, gh, late>>
    BY <2>3, ThrowsType, FaultType DEF TypeOK, ProcessOK
  <2> QED
    BY <1>3, <2>2, <2>3 DEF BindControl
<1>4. CASE MakeLabel
  BY <1>4, SendsType DEF MakeLabel, OfRun, Calls
<1>5. CASE TagControl
  BY <1>5, SendsType DEF TagControl, OfRun
<1> QED
  BY <1>1, <1>2, <1>3, <1>4, <1>5

LEMMA ScenarioType == ASSUME TypeOK, Known,
    Declare \/ Create \/ Bind \/ Product \/ Rename \/ StartOwnCleanup
  PROVE TypeOK'
<1>1. file # NoState
  BY DEF Known, Near, OfRun, Declare, Create, Bind, Product, Rename, StartOwnCleanup
<1>2. CASE Declare
  <2>1. PICK r \in Resource :
          Persist([file EXCEPT !.res[r] = "declared"], [job EXCEPT !.res = r], "create")
    BY <1>2 DEF Declare
  <2> QED
    BY <1>1, <2>1, FileType, JobType, PersistType DEF OfRun, Stage
<1>3. CASE Create
  <2>1. job.res \in Resource
    BY <1>3 DEF Create, Known, Near, InScenario
  <2> QED
    BY <1>3, <2>1, GhType, SendsType DEF Create, OfRun, Calls
<1>4. CASE Bind
  <2>1. job.res \in Resource
    BY <1>4 DEF Bind, Known, Near, InScenario
  <2>2. CASE Persist([file EXCEPT !.res[job.res] = "bound"], job, "product")
    BY <1>1, <2>1, <2>2, FileType, PersistType DEF OfRun, Stage, TypeOK
  <2>3. CASE Fault /\ Throws /\ UNCHANGED <<file, gh, late>>
    BY <2>3, ThrowsType, FaultType DEF TypeOK, ProcessOK
  <2> QED
    BY <1>4, <2>2, <2>3 DEF Bind
<1>5. CASE Product
  <2>1. job.res \in Resource
    BY <1>5 DEF Product, Known, Near, InScenario
  <2>2. CASE Persist([file EXCEPT !.res[job.res] = "renamed"], job, "rename")
    BY <1>1, <2>1, <2>2, FileType, PersistType DEF OfRun, Stage, TypeOK
  <2>3. CASE /\ Works /\ pc' = "scenarios" /\ UNCHANGED <<file, gh, late, report, verdict, strays>>
             /\ \E bad \in BOOLEAN : job' = [job EXCEPT !.failed = @ \/ bad, !.res = NoResource]
    BY <2>3 DEF TypeOK, Works, OfRun, Job
  <2> QED
    BY <1>5, <2>2, <2>3 DEF Product
<1>6. CASE Rename
  <2>1. job.res \in Resource
    BY <1>6 DEF Rename, Known, Near, InScenario
  <2> QED
    BY <1>6, <2>1, GhType, SendsType DEF Rename, OfRun
<1>7. CASE StartOwnCleanup
  BY <1>7, JobType DEF StartOwnCleanup, TypeOK, Works, Round, Cleaner
<1> QED
  BY <1>2, <1>3, <1>4, <1>5, <1>6, <1>7

LEMMA ReadsType ==
    ASSUME TypeOK, NEW status \in {"PASS", "FAIL"}, Reads(CleanupEnds(status))
    PROVE  TypeOK'
BY CleanupEndsType, ThrowsType, FaultType DEF Reads, TypeOK, ProcessOK

LEMMA CleanerType == ASSUME TypeOK, Known,
    StartCleanup \/ Sync \/ Load \/ Verify \/ List \/ Match
  PROVE TypeOK'
<1>1. CASE StartCleanup
  BY <1>1 DEF StartCleanup, Goto, Works, TypeOK, Cleaner
<1>2. CASE Sync
  <2>1. file # NoState /\ <<"body", file>> \in Calls
    BY <1>2 DEF Sync, Known, Near, OfRun, Cleaner, TypeOK, Calls, Job
  <2> QED
    BY <1>2, <2>1, GhType, SendsType DEF Sync, TypeOK, Job
<1>3. CASE Load
  <2>1. CASE Throws /\ UNCHANGED <<file, gh, late>> /\ (Works \/ Fault)
    BY <2>1, ThrowsType, FaultType DEF TypeOK, ProcessOK
  <2>2. CASE Findable
    <3>1. [gh.body EXCEPT !.control = TRUE] \in State
      BY <2>2 DEF Findable, Known, TypeOK, GitHub, State
    <3>2. CASE file # NoState /\ file.control
      BY <1>3, <2>1, <3>2 DEF Load, TypeOK, Works, Cleaner
    <3>3. CASE ~(file # NoState /\ file.control)
      <4> DEFINE known == [gh.body EXCEPT !.control = TRUE]
      <4> HIDE DEF known
      <4>1. CASE /\ Works /\ file' = known /\ pc' \in {"verify", "list"}
                 /\ UNCHANGED <<gh, late, job, report, verdict, strays>>
        BY <3>1, <4>1 DEF known, TypeOK, Works, Cleaner
      <4> QED
        BY <1>3, <2>1, <2>2, <3>3, <4>1 DEF Load, known
    <3> QED
      BY <3>2, <3>3
  <2>3. CASE ~Findable
    BY <1>3, <2>1, <2>3, IdleType DEF Load, TypeOK, Works, Cleaner
  <2> QED
    BY <2>2, <2>3
<1>4. CASE Verify
  BY <1>4, ReadsType DEF Verify
<1>5. CASE List
  <2> DEFINE seen == IF gh.label /\ file.status = "ACTIVE"
                     THEN {r \in Resource : gh.issue[r] # "none"} ELSE {}
             open == {r \in seen : gh.issue[r] = "open"}
             ctlOpen == file.control /\ gh.ctl = "open"
             read == /\ pc' = "match"
                     /\ job' = [job EXCEPT !.seen = seen, !.open = open, !.ctlOpen = ctlOpen]
                     /\ UNCHANGED <<report, verdict, strays>>
  <2>1. seen \in SUBSET Resource /\ open \in SUBSET Resource /\ ctlOpen \in BOOLEAN
    <3>1. file \in State
      BY <1>5 DEF List, Known, Near, Cleaner, TypeOK
    <3> QED
      BY <3>1 DEF State
  <2>2. (Works /\ read) \/ (Fault /\ Throws)
    BY <1>5 DEF List, Reads
  <2>3. UNCHANGED <<file, gh, late>>
    BY <1>5 DEF List, Reads
  <2>4. [job EXCEPT !.seen = seen, !.open = open, !.ctlOpen = ctlOpen] \in Job
    BY <2>1, JobType
  <2> HIDE DEF seen, open, ctlOpen
  <2>5. CASE Works /\ read
    BY <2>3, <2>4, <2>5 DEF TypeOK, Works, Cleaner
  <2>6. CASE Fault /\ Throws
    BY <2>3, <2>6, ThrowsType, FaultType DEF TypeOK, ProcessOK
  <2> QED
    BY <2>2, <2>5, <2>6
<1>6. CASE Match
  <2>1. UNCHANGED <<file, gh, late>>
    BY <1>6 DEF Match, Reads
  <2>2. CASE Works /\ Goto("close")
    BY <2>1, <2>2 DEF TypeOK, Works, Goto, Cleaner
  <2>3. CASE Works /\ CleanupEnds("FAIL")
    BY <2>1, <2>3, CleanupEndsType, FaultType DEF TypeOK, ProcessOK
  <2>4. CASE Fault /\ Throws
    BY <2>1, <2>4, ThrowsType, FaultType DEF TypeOK, ProcessOK
  <2> QED
    BY <1>6, <2>2, <2>3, <2>4 DEF Match, Reads
<1> QED
  BY <1>1, <1>2, <1>3, <1>4, <1>5, <1>6

LEMMA ClosingType == ASSUME TypeOK, Known,
    Close \/ Commit \/ CloseControl \/ DropLabel \/ Finish \/ Pass
  PROVE TypeOK'
<1>1. file # NoState
  BY DEF Known, Near, Cleaner, Close, Commit, CloseControl, DropLabel, Finish, Pass
<1>2. ASSUME NEW where \in Cleaner, Works, Goto(where), UNCHANGED <<file, gh, late>>
      PROVE  TypeOK'
  BY <1>2 DEF TypeOK, Works, Goto, Cleaner
<1>3. CASE Close
  <2>1. ASSUME NEW r \in job.seen, BindFound(r) PROVE TypeOK'
    <3>1. r \in Resource
      BY DEF TypeOK, Job
    <3> QED
      BY <1>1, <2>1, <3>1, FileType, PersistType DEF BindFound, Cleaner, Stage, TypeOK
  <2>2. ASSUME NEW r \in job.seen, CloseIssue(r) PROVE TypeOK'
    <3>1. r \in Resource
      BY DEF TypeOK, Job
    <3> QED
      BY <2>2, <3>1, GhType, SendsType DEF CloseIssue, Cleaner
  <2> QED
    BY <1>2, <1>3, <2>1, <2>2 DEF Close, Cleaner
<1>4. CASE Commit
  <2>1. ASSUME Persist([file EXCEPT !.status = "CLEANUP_COMMITTING"], job, "closeControl")
        PROVE TypeOK'
    BY <1>1, <2>1, FileType, PersistType DEF Cleaner, TypeOK
  <2> QED
    BY <1>2, <1>4, <2>1 DEF Commit, Cleaner
<1>5. CASE CloseControl
  <2>1. ASSUME Sends([gh EXCEPT !.ctl = "closed"], <<>>, "dropLabel") PROVE TypeOK'
    BY <2>1, GhType, SendsType DEF Cleaner
  <2> QED
    BY <1>2, <1>5, <2>1 DEF CloseControl, Cleaner
<1>6. CASE DropLabel
  <2>1. ASSUME Sends([gh EXCEPT !.label = FALSE, !.tagged = FALSE], <<>>, "finish") PROVE TypeOK'
    BY <2>1, GhType, SendsType DEF Cleaner
  <2>2. ASSUME Fault, Throws, UNCHANGED <<file, gh, late>> PROVE TypeOK'
    BY <2>2, ThrowsType, FaultType DEF TypeOK, ProcessOK
  <2> QED
    BY <1>2, <1>6, <2>1, <2>2 DEF DropLabel, Cleaner, Reads
<1>7. CASE Finish
  BY <1>1, <1>7, FileType, PersistType DEF Finish, Cleaner, TypeOK
<1>8. CASE Pass
  BY <1>8, CleanupEndsType, FaultType DEF Pass, TypeOK, ProcessOK
<1> QED
  BY <1>3, <1>4, <1>5, <1>6, <1>7, <1>8

LEMMA CallShape == ASSUME TypeOK, NEW l \in late
    PROVE \/ l[1] = "control" /\ l[2] \in State /\ l = <<"control", l[2]>>
          \/ l[1] = "body" /\ l[2] \in State /\ l = <<"body", l[2]>>
          \/ l[1] = "issue" /\ l[2] \in Resource /\ l = <<"issue", l[2]>>
          \/ l[1] = "label" /\ l = <<"label">>
<1>1. CASE l \in {"control", "body"} \X State
  BY <1>1
<1>2. CASE l \in {"issue"} \X Resource
  BY <1>2
<1>3. CASE l = <<"label">>
  BY <1>3
<1> QED
  BY <1>1, <1>2, <1>3 DEF TypeOK

LEMMA WorldType == ASSUME TypeOK, Known,
    \/ Crash \/ LoseFile \/ Index
    \/ \E l \in late : Land(l)
    \/ UNCHANGED vars
  PROVE TypeOK'
<1>1. CASE Crash \/ LoseFile \/ Index \/ UNCHANGED vars
  BY <1>1, GhType, IdleType, FaultType DEF Crash, LoseFile, Index, vars, TypeOK
<1>2. ASSUME NEW l \in late, Land(l) PROVE TypeOK'
  <2>1. late' \subseteq late /\ UNCHANGED <<file, pc, job, report, verdict, faults>>
    BY <1>2 DEF Land, Lands, LandBody
  <2>2. gh' \in GitHub
    <3>1. CASE l[1] = "control" /\ l[2] \in State
      BY <1>2, <3>1, GhType DEF Land, Lands
    <3>2. CASE l[1] = "body" /\ l[2] \in State
      BY <1>2, <3>2, GhType DEF Land, LandBody
    <3>3. CASE l[1] = "issue" /\ l[2] \in Resource
      BY <1>2, <3>3, GhType DEF Land, Lands
    <3>4. CASE l[1] = "label"
      BY <1>2, <3>4, GhType DEF Land, Lands
    <3> QED
      BY <3>1, <3>2, <3>3, <3>4, CallShape
  <2>3. strays' \subseteq Resource \cup {"control", "label", "body"}
    <3>1. \A what \in Resource \cup {"control", "label", "body"} :
            strays \cup {what} \subseteq Resource \cup {"control", "label", "body"}
      BY DEF TypeOK
    <3>2. l[1] = "issue" => l[2] \in Resource
      BY CallShape
    <3>3. strays' = strays \/ \E what \in Resource \cup {"control", "label", "body"} :
            strays' = strays \cup {what}
      BY <1>2, <3>2 DEF Land, Lands, LandBody
    <3> QED
      BY <3>1, <3>3 DEF TypeOK
  <2> QED
    BY <2>1, <2>2, <2>3 DEF TypeOK
<1> QED
  BY <1>1, <1>2

LEMMA TypeStep == TypeOK /\ Known /\ [Next]_vars => TypeOK'
BY RunType, ScenarioType, CleanerType, ClosingType, WorldType DEF Next, Step

-----------------------------------------------------------------------------
(* How the invariant is kept, whatever the step, when the process goes no  *)
(* further: another process takes over, or it gives up.                    *)

LEMMA Interrupted ==
    ASSUME TypeOK, Inv, job.round = "interrupt",
           UNCHANGED <<file, gh, late, report, verdict, strays>>,
           pc' = "load", job' = [job EXCEPT !.round = "child"]
    PROVE  Inv'
<1>1. job'.round = "child" /\ job'.failed = job.failed
  BY DEF TypeOK, Job
<1>2. Near(Cleaner) /\ ~Near(OfRun) /\ pc # "idle"
  BY DEF Inv, Phases, TypeOK, Near, Job, Idle
<1>3. Known' /\ World' /\ Untouched' /\ Early' /\ Working' /\ Completed' /\ PassIsClean'
  BY <1>2 DEF Inv, Known, World, Untouched, Early, Working, Completed, PassIsClean,
         Phases, Near, OfRun, Cleaner, InScenario, Declares, Committed, Unseen, UnseenCtl, Barren
<1>4. Phases' /\ Relies'
  BY <1>1, <1>2 DEF Inv, Phases, Relies, Near, OfRun, Cleaner, Committed, Unseen, UnseenCtl
<1>5. Smooth'
  <2>1. ~Near({"create", "bind"})
    BY <1>2 DEF Near, OfRun
  <2> QED
    BY <1>1, <1>2, <2>1 DEF Inv, Smooth
<1> QED
  BY <1>3, <1>4, <1>5 DEF Inv

LEMMA Thrown ==
    ASSUME TypeOK, Inv, World', Throws, pc # "idle", UNCHANGED file,
           gh'.ctl # "none" => gh'.body # NoState,
           Near(InScenario) =>
              /\ gh'.label /\ ~Committed'
              /\ \A l \in late' : l[1] # "control",
           report = "COMPLETE" => UNCHANGED <<gh, late>>
    PROVE  Inv'
<1>1. strays' = strays /\ report # "none" /\ pc # "idle"
  <2>1. strays' = strays
    BY DEF Throws, CleanupEnds
  <2> QED
    BY <2>1 DEF Inv, Untouched
<1>2. CASE Near(Cleaner) /\ CleanupEnds("FAIL")
  <2>1. pc' = "idle" /\ job' = Idle /\ verdict' = "FAIL"
    BY <1>2 DEF CleanupEnds
  <2>2. report' = IF job.round = "alone" THEN report ELSE "PARTIAL"
    BY <1>2 DEF CleanupEnds, Report
  <2>3. report' # "running"
    BY <1>1, <2>2 DEF Inv, Phases
  <2>4. Completed'
    BY <1>1, <2>1, <2>2 DEF Inv, Completed
  <2> QED
    BY <1>1, <2>1, <2>2, <2>3, <2>4 DEF Inv, Known, Untouched, Phases, Early, Working, Relies,
       Smooth, PassIsClean, Near, OfRun, Cleaner, InScenario, Idle
<1>3. CASE /\ Near(InScenario) /\ pc' = "scenarios"
           /\ job' = [job EXCEPT !.failed = TRUE, !.res = NoResource]
           /\ UNCHANGED <<report, verdict, strays>>
  <2>1. job'.failed /\ job'.round = "run" /\ report = "running" /\ verdict = "none"
    BY <1>1, <1>3 DEF TypeOK, Job, Inv, Phases, Near, OfRun, InScenario
  <2>2. file # NoState /\ file.control
    BY <1>3 DEF Inv, Known, Phases, Near, OfRun, InScenario
  <2> QED
    BY <1>1, <1>3, <2>1, <2>2 DEF Inv, Known, Untouched, Phases, Early, Working, Relies, Smooth,
       Completed, PassIsClean, Near, OfRun, Cleaner, InScenario
<1>4. CASE /\ ~Near(Cleaner \cup InScenario)
           /\ pc' = "idle" /\ job' = Idle /\ report' = "UNTESTED"
           /\ UNCHANGED <<verdict, strays>>
  <2>1. Near(OfRun)
    BY <1>1, <1>4 DEF TypeOK, Near, OfRun, Cleaner, InScenario, Job
  <2> QED
    BY <1>1, <1>4, <2>1 DEF Inv, Known, Untouched, Phases, Early, Working, Relies, Smooth,
       Completed, PassIsClean, Near, OfRun, Cleaner, InScenario, Idle
<1> QED
  BY <1>2, <1>3, <1>4 DEF Throws, InScenario

\* A call that writes.
LEMMA SendsWrites ==
    ASSUME NEW STATE after, NEW STATE name, NEW where, Sends(after, name, where)
    PROVE  /\ UNCHANGED <<file, strays>>
           /\ gh' = gh \/ gh' = after
           /\ late' = late \/ (name # <<>> /\ late' = late \cup {name})
BY DEF Sends, Goto, Throws, CleanupEnds

LEMMA SendsKeeps ==
    ASSUME TypeOK, Inv, NEW STATE after, NEW STATE name, NEW where, Sends(after, name, where),
           pc # "idle", report # "COMPLETE",
           World', gh'.ctl # "none" => gh'.body # NoState,
           Near(InScenario) =>
              /\ gh'.label /\ ~Committed'
              /\ \A l \in late' : l[1] # "control",
           job.round # "interrupt" /\ gh' = after /\ UNCHANGED <<file, late>> /\ Goto(where) => Inv'
    PROVE  Inv'
BY Interrupted, Thrown DEF Sends

\* A call that only reads, or fails.
LEMMA ReadsKeeps ==
    ASSUME TypeOK, Inv, NEW ACTION next, Reads(next), pc # "idle",
           next /\ UNCHANGED <<file, gh, late>> => Inv'
    PROVE  Inv'
<1>1. UNCHANGED <<file, gh, late>>
  BY DEF Reads
<1>2. CASE Throws
  <2>1. strays' = strays
    BY <1>2 DEF Throws, CleanupEnds
  <2>2. World' /\ (gh'.ctl # "none" => gh'.body # NoState)
    BY <1>1, <2>1 DEF Inv, Known, World, Declares, Unseen, UnseenCtl, Barren, Committed
  <2>3. Near(InScenario) => /\ gh'.label /\ ~Committed'
                            /\ \A l \in late' : l[1] # "control"
    BY <1>1 DEF Inv, Phases, Early, Near, OfRun, InScenario, Committed
  <2> QED
    BY <1>1, <1>2, <2>2, <2>3, Thrown
<1> QED
  BY <1>1, <1>2 DEF Reads

-----------------------------------------------------------------------------
(* The run.                                                                *)

LEMMA StartRunKeeps == ASSUME TypeOK, Inv, StartRun PROVE Inv'
<1>1. /\ pc = "idle" /\ job = Idle /\ file = NoState /\ gh.body = NoState /\ gh.ctl = "none"
      /\ ~gh.label /\ late = {} /\ strays = {} /\ verdict = "none" /\ Barren
  BY DEF StartRun, Inv, Untouched, TypeOK
<1>2. UNCHANGED <<gh, late, strays, verdict>> /\ report' # "none" /\ report' # "COMPLETE"
  BY DEF StartRun
<1>3. CASE report' = "UNTESTED" /\ UNCHANGED <<file, pc, job>>
  BY <1>1, <1>2, <1>3 DEF Inv, Known, World, Untouched, Phases, Early, Working, Relies, Smooth,
     Completed, PassIsClean, Declares, Committed, Unseen, UnseenCtl, Barren, Near, OfRun,
     Cleaner, InScenario, Idle
<1>4. CASE /\ file' = [status |-> "ACTIVE", control |-> FALSE, res |-> [r \in Resource |-> "none"]]
           /\ pc' = "postControl" /\ job' = [Idle EXCEPT !.round = "run"] /\ report' = "running"
  <2>1. /\ file' # NoState /\ file'.status = "ACTIVE" /\ job'.round = "run"
        /\ \A r \in Resource : file'.res[r] = "none"
    <3>1. file' \in State
      BY <1>4 DEF State, Status, Stage
    <3>2. job'.round = "run"
      BY <1>4 DEF Idle
    <3> QED
      BY <1>4, <3>1, <3>2, E2EAssumption
  <2>2. ~Committed' /\ Barren' /\ Near(OfRun)'
    BY <1>1, <1>2, <1>4, <2>1 DEF Committed, Barren, Near, OfRun
  <2> QED
    BY <1>1, <1>2, <1>4, <2>1, <2>2 DEF Inv, Known, World, Untouched, Phases, Early, Working,
       Relies, Smooth, Completed, PassIsClean, Declares, Unseen, UnseenCtl, Barren, Near, OfRun,
       Cleaner, InScenario
<1> QED
  BY <1>3, <1>4 DEF StartRun

\* What holds wherever the run is at work.
LEMMA InRun == ASSUME TypeOK, Inv, Near(OfRun)
    PROVE  /\ file # NoState /\ file \in State /\ file.status = "ACTIVE"
           /\ pc # "idle" /\ report = "running" /\ job.round = "run" /\ verdict = "none"
           /\ ~Committed /\ ~Near(Cleaner)
           /\ \A l \in late : l[1] # "control"
<1>1. pc # "idle" /\ ~Near(Cleaner)
  BY DEF TypeOK, Near, OfRun, Cleaner, Job
<1> QED
  BY <1>1 DEF Inv, Known, Phases, TypeOK, Committed

LEMMA PostControlKeeps == ASSUME TypeOK, Inv, PostControl PROVE Inv'
<1> DEFINE after == [gh EXCEPT !.ctl = "open", !.body = file]
<1>1. Sends(after, <<"control", file>>, "bindControl") /\ pc = "postControl"
  BY DEF PostControl
<1>2. Near(OfRun) /\ Barren /\ ~Near(InScenario)
  BY <1>1 DEF Inv, Early, Near, OfRun, InScenario
<1>3. /\ after.body = file /\ after.ctl = "open" /\ after.label = gh.label
      /\ after.issue = gh.issue /\ after.titled = gh.titled
  BY DEF TypeOK, GitHub
<1> HIDE DEF after
<1>4. Barren'
  BY <1>1, <1>2, <1>3, SendsWrites DEF Barren
<1>5. ~Committed'
  BY <1>1, <1>2, <1>3, InRun, SendsWrites DEF Committed
<1>6. World' /\ (gh'.ctl # "none" => gh'.body # NoState)
  BY <1>1, <1>2, <1>3, <1>4, <1>5, InRun, SendsWrites DEF World, Declares, Barren, Committed,
     Unseen, UnseenCtl, Inv, Known
<1>7. ASSUME gh' = after, UNCHANGED <<file, late>>, Goto("bindControl") PROVE Inv'
  BY <1>2, <1>3, <1>4, <1>5, <1>6, <1>7, InRun DEF Goto, Inv, Known, Untouched, Phases, Early,
     Working, Relies, Smooth, Completed, PassIsClean, Near, OfRun, Cleaner, InScenario
<1> QED
  BY <1>1, <1>2, <1>6, <1>7, InRun, SendsKeeps

\* The state file is written, and then sent if there is a control issue.
LEMMA BindControlKeeps == ASSUME TypeOK, Inv, BindControl PROVE Inv'
<1>1. pc = "bindControl" /\ Near(OfRun) /\ Barren /\ ~Near(InScenario)
  BY DEF BindControl, Inv, Early, Near, OfRun, InScenario
<1>2. CASE Persist([file EXCEPT !.control = TRUE], job, "makeLabel")
  <2>1. file' \in State /\ file'.control /\ file'.status = "ACTIVE" /\ file'.res = file.res
    BY <1>1, <1>2, InRun DEF Persist, State
  <2>2. /\ UNCHANGED <<gh, late, report, verdict, strays>>
        /\ pc' = "sync" /\ job' = [job EXCEPT !.next = "makeLabel"]
    BY <1>2, <2>1 DEF Persist
  <2>3. /\ job'.next = "makeLabel" /\ job'.round = job.round /\ job'.failed = job.failed
        /\ job'.res = job.res
    BY <2>2 DEF TypeOK, Job
  <2>4. ~Committed' /\ Barren' /\ file' # NoState
    BY <1>1, <2>1, <2>2, InRun, E2EAssumption DEF Committed, Barren
  <2> QED
    BY <1>1, <2>1, <2>2, <2>3, <2>4, InRun DEF Inv, Known, World, Untouched, Phases, Early,
       Working, Relies, Smooth, Completed, PassIsClean, Near, OfRun, Cleaner, InScenario,
       Declares, Unseen, UnseenCtl, Barren
<1>3. CASE Fault /\ Throws /\ UNCHANGED <<file, gh, late>>
  <2>1. World' /\ (gh'.ctl # "none" => gh'.body # NoState)
    BY <1>3 DEF Throws, CleanupEnds, Inv, Known, World, Declares, Unseen, UnseenCtl, Barren, Committed
  <2> QED
    BY <1>1, <1>3, <2>1, InRun, Thrown
<1> QED
  BY <1>2, <1>3 DEF BindControl

LEMMA MakeLabelKeeps == ASSUME TypeOK, Inv, MakeLabel PROVE Inv'
<1> DEFINE after == [gh EXCEPT !.label = TRUE]
<1>1. Sends(after, <<"label">>, "tagControl") /\ pc = "makeLabel"
  BY DEF MakeLabel
<1>2. Near(OfRun) /\ Barren /\ ~Near(InScenario)
  BY <1>1 DEF Inv, Early, Near, OfRun, InScenario
<1>3. /\ after.body = gh.body /\ after.ctl = gh.ctl /\ after.label
      /\ after.issue = gh.issue /\ after.titled = gh.titled
  BY DEF TypeOK, GitHub
<1> HIDE DEF after
<1>4. Barren' /\ ~Committed'
  BY <1>1, <1>2, <1>3, InRun, SendsWrites DEF Barren, Committed
<1>5. World' /\ (gh'.ctl # "none" => gh'.body # NoState)
  BY <1>1, <1>2, <1>3, <1>4, InRun, SendsWrites DEF World, Declares, Barren,
     Unseen, UnseenCtl, Inv, Known
<1>6. ASSUME gh' = after, UNCHANGED <<file, late>>, Goto("tagControl") PROVE Inv'
  BY <1>1, <1>2, <1>3, <1>4, <1>5, <1>6, InRun DEF Goto, Inv, Known, Untouched, Phases, Early,
     Working, Relies, Smooth, Completed, PassIsClean, Near, OfRun, Cleaner, InScenario
<1> QED
  BY <1>1, <1>2, <1>5, <1>6, InRun, SendsKeeps

LEMMA TagControlKeeps == ASSUME TypeOK, Inv, TagControl PROVE Inv'
<1> DEFINE after == [gh EXCEPT !.tagged = gh.label]
<1>1. Sends(after, <<>>, "scenarios") /\ pc = "tagControl"
  BY DEF TagControl
<1>2. Near(OfRun) /\ Barren /\ ~Near(InScenario) /\ gh.label
  BY <1>1 DEF Inv, Early, Near, OfRun, InScenario
<1>3. /\ after.body = gh.body /\ after.ctl = gh.ctl /\ after.label = gh.label
      /\ after.issue = gh.issue /\ after.titled = gh.titled
  BY DEF TypeOK, GitHub
<1> HIDE DEF after
<1>4. UNCHANGED <<file, strays, late>> /\ (gh' = gh \/ gh' = after)
  BY <1>1, SendsWrites
<1>5. World' /\ ~Committed' /\ (gh'.ctl # "none" => gh'.body # NoState)
  <2>1. ~Committed' /\ (gh'.ctl # "none" => gh'.body # NoState)
    BY <1>2, <1>3, <1>4, InRun DEF Committed, Inv, Known
  <2>2. Declares(file)' /\ Declares(gh.body)'
    BY <1>3, <1>4 DEF Inv, World, Declares
  <2> QED
    BY <1>2, <1>3, <1>4, <2>1, <2>2, InRun DEF World
<1>6. ASSUME gh' = after, UNCHANGED <<file, late>>, Goto("scenarios") PROVE Inv'
  BY <1>1, <1>2, <1>3, <1>4, <1>5, <1>6, InRun DEF Goto, Inv, Known, Untouched, Phases, Early,
     Working, Relies, Smooth, Completed, PassIsClean, Near, OfRun, Cleaner, InScenario
<1> QED
  BY <1>1, <1>2, <1>5, <1>6, InRun, SendsKeeps

-----------------------------------------------------------------------------
(* The scenarios.                                                          *)

\* A resource's stage changes in the file, by a run that is at work on it.
LEMMA DeclareKeeps == ASSUME TypeOK, Inv, Declare PROVE Inv'
<1>1. PICK r \in Resource :
        /\ file.res[r] = "none"
        /\ Persist([file EXCEPT !.res[r] = "declared"], [job EXCEPT !.res = r], "create")
  BY DEF Declare
<1>2. pc = "scenarios" /\ Near(OfRun) /\ file.control /\ gh.label
  BY DEF Declare, Inv, Phases, Early, Near, OfRun
<1>3. /\ file' \in State /\ file'.control /\ file'.status = "ACTIVE" /\ file'.res[r] = "declared"
      /\ \A q \in Resource : q # r => file'.res[q] = file.res[q]
  BY <1>1, <1>2, InRun DEF Persist, State, Stage
<1>4. /\ UNCHANGED <<gh, late, report, verdict, strays>> /\ pc' = "sync"
      /\ job' = [[job EXCEPT !.res = r] EXCEPT !.next = "create"]
  BY <1>1, <1>3 DEF Persist
<1>5. /\ job'.next = "create" /\ job'.round = job.round /\ job'.failed = job.failed
      /\ job'.res = r
  BY <1>4 DEF TypeOK, Job
<1>6. ~Committed' /\ file' # NoState
  BY <1>2, <1>3, <1>4, InRun, E2EAssumption DEF Committed
<1>7. Declares(file)'
  BY <1>1, <1>2, <1>3, <1>4, InRun DEF Inv, World, Declares
<1>8. World'
  BY <1>2, <1>3, <1>4, <1>6, <1>7, InRun DEF Inv, World, Declares, Unseen, UnseenCtl
<1>9. Smooth'
  BY <1>2, <1>3, <1>4, <1>5, InRun DEF Inv, Smooth, Near, OfRun
<1> QED
  BY <1>2, <1>3, <1>4, <1>5, <1>6, <1>8, <1>9, InRun DEF Inv, Known, Untouched, Phases, Early,
     Working, Relies, Completed, PassIsClean, Near, OfRun, Cleaner, InScenario

LEMMA CreateKeeps == ASSUME TypeOK, Inv, Create PROVE Inv'
<1> DEFINE after == [gh EXCEPT !.issue[job.res] = "open"]
           name == <<"issue", job.res>>
<1>1. Sends(after, name, "bind") /\ pc = "create"
  BY DEF Create
<1>2. Near(OfRun) /\ Near(InScenario) /\ gh.label /\ file.control /\ job.res \in Resource
  BY <1>1 DEF Inv, Known, Phases, Early, Near, OfRun, InScenario
<1>3. /\ after.body = gh.body /\ after.ctl = gh.ctl /\ after.label = gh.label
      /\ after.issue[job.res] = "open" /\ after.titled = gh.titled
      /\ \A q \in Resource : q # job.res => after.issue[q] = gh.issue[q]
  BY <1>2 DEF TypeOK, GitHub
<1>4. name[1] = "issue" /\ \A q \in Resource : <<"issue", q>> = name => q = job.res
  OBVIOUS
<1> HIDE DEF after, name
<1>5. /\ UNCHANGED <<file, strays>> /\ (gh' = gh \/ gh' = after)
      /\ late' = late \/ late' = late \cup {name}
  BY <1>1, SendsWrites
<1>6. ~Committed' /\ \A l \in late' : l[1] # "control"
  BY <1>2, <1>3, <1>4, <1>5, InRun DEF Committed
<1>7. file.res[job.res] = "declared"
  BY <1>1 DEF Inv, Working, Near
<1>8. "body" \notin strays /\ gh.body # NoState => gh.body.res[job.res] # "none"
  BY <1>1 DEF Inv, Working
<1>9. Declares(file)' /\ Declares(gh.body)'
  BY <1>2, <1>3, <1>4, <1>5, <1>7, <1>8, InRun DEF Inv, World, Declares
<1>10. World' /\ gh'.label /\ (gh'.ctl # "none" => gh'.body # NoState)
  BY <1>2, <1>3, <1>5, <1>6, <1>9, InRun DEF World, Inv, Known
<1>11. ASSUME gh' = after, UNCHANGED <<file, late>>, Goto("bind") PROVE Inv'
  <2>1. Smooth'
    BY <1>1, <1>2, <1>5, <1>11, InRun DEF Goto, Inv, Smooth, Near, OfRun
  <2> QED
    BY <1>1, <1>2, <1>3, <1>5, <1>6, <1>7, <1>10, <1>11, <2>1, InRun DEF Goto, Inv, Known,
       Untouched, Phases, Early, Working, Relies, Completed, PassIsClean, Near, OfRun, Cleaner,
       InScenario
<1> QED
  BY <1>1, <1>2, <1>6, <1>10, <1>11, InRun, SendsKeeps

\* The resource is bound, or allowed its second title.
LEMMA StageKeeps ==
    ASSUME TypeOK, Inv, NEW stage \in {"bound", "renamed"}, NEW where \in {"product", "rename"},
           stage = "bound" <=> where = "product",
           pc \in {"bind", "product"},
           Persist([file EXCEPT !.res[job.res] = stage], job, where)
    PROVE  Inv'
<1>1. /\ Near(OfRun) /\ Near(InScenario) /\ file.control /\ gh.label /\ job.res \in Resource
      /\ file.res[job.res] # "renamed" /\ file.res[job.res] # "none"
  BY DEF Inv, Known, Phases, Early, Working, Near, OfRun, InScenario
<1>2. /\ file' \in State /\ file'.control /\ file'.status = "ACTIVE" /\ file'.res[job.res] = stage
      /\ \A q \in Resource : q # job.res => file'.res[q] = file.res[q]
  BY <1>1, InRun DEF Persist, State, Stage
<1>3. /\ UNCHANGED <<gh, late, report, verdict, strays>> /\ pc' = "sync"
      /\ job' = [job EXCEPT !.next = where]
  BY <1>1, <1>2, InRun DEF Persist, State
<1>4. /\ job'.next = where /\ job'.round = job.round /\ job'.failed = job.failed
      /\ job'.res = job.res
  BY <1>3 DEF TypeOK, Job
<1>5. ~Committed' /\ file' # NoState
  BY <1>1, <1>2, <1>3, InRun, E2EAssumption DEF Committed
<1>6. Declares(file)'
  BY <1>1, <1>2, <1>3, InRun DEF Inv, World, Declares
<1>7. World'
  BY <1>1, <1>2, <1>3, <1>5, <1>6, InRun DEF Inv, World, Declares, Unseen, UnseenCtl
<1>8. Smooth'
  BY <1>1, <1>2, <1>3, <1>4, InRun DEF Inv, Smooth, Near, OfRun
<1> QED
  BY <1>1, <1>2, <1>3, <1>4, <1>5, <1>7, <1>8, InRun DEF Inv, Known, Untouched, Phases, Early,
     Working, Relies, Completed, PassIsClean, Near, OfRun, Cleaner, InScenario

LEMMA BindKeeps == ASSUME TypeOK, Inv, Bind PROVE Inv'
<1>1. pc = "bind" /\ Near(OfRun)
  BY DEF Bind, Near, OfRun
<1>2. CASE Fault /\ Throws /\ UNCHANGED <<file, gh, late>>
  <2>1. World' /\ (gh'.ctl # "none" => gh'.body # NoState)
    BY <1>2 DEF Throws, CleanupEnds, Inv, Known, World, Declares, Unseen, UnseenCtl, Barren, Committed
  <2>2. gh'.label /\ ~Committed'
    BY <1>1, <1>2, InRun DEF Inv, Early, Near, InScenario, Committed
  <2> QED
    BY <1>1, <1>2, <2>1, <2>2, InRun, Thrown
<1> QED
  BY <1>1, <1>2, StageKeeps DEF Bind

LEMMA ProductKeeps == ASSUME TypeOK, Inv, Product PROVE Inv'
<1>1. pc = "product" /\ Near(OfRun) /\ Near(InScenario) /\ gh.label /\ file.control
  BY DEF Product, Inv, Phases, Early, Near, OfRun, InScenario
<1>2. CASE /\ Works /\ pc' = "scenarios" /\ UNCHANGED <<file, gh, late, report, verdict, strays>>
           /\ \E bad \in BOOLEAN : job' = [job EXCEPT !.failed = @ \/ bad, !.res = NoResource]
  <2>1. job'.round = job.round /\ (~job'.failed => ~job.failed)
    BY <1>2 DEF TypeOK, Job
  <2>2. World' /\ ~Committed'
    BY <1>1, <1>2, InRun DEF Inv, World, Declares, Committed, Unseen, UnseenCtl, Barren
  <2>3. Smooth'
    BY <1>1, <1>2, <2>1, InRun DEF Inv, Smooth, Working, Near, OfRun
  <2> QED
    BY <1>1, <1>2, <2>1, <2>2, <2>3, InRun DEF Inv, Known, Untouched, Phases, Early, Working,
       Relies, Completed, PassIsClean, Near, OfRun, Cleaner, InScenario
<1> QED
  BY <1>1, <1>2, StageKeeps DEF Product

LEMMA RenameKeeps == ASSUME TypeOK, Inv, Rename PROVE Inv'
<1> DEFINE after == [gh EXCEPT !.titled = @ \cup {job.res}]
<1>1. Sends(after, <<>>, "scenarios") /\ pc = "rename"
  BY DEF Rename
<1>2. /\ Near(OfRun) /\ Near(InScenario) /\ gh.label /\ file.control /\ job.res \in Resource
      /\ file.res[job.res] = "renamed"
  BY <1>1 DEF Inv, Known, Phases, Early, Working, Near, OfRun, InScenario
<1>3. /\ after.body = gh.body /\ after.ctl = gh.ctl /\ after.label = gh.label
      /\ after.issue = gh.issue /\ after.titled = gh.titled \cup {job.res}
  BY DEF TypeOK, GitHub
<1> HIDE DEF after
<1>4. UNCHANGED <<file, strays, late>> /\ (gh' = gh \/ gh' = after)
  BY <1>1, SendsWrites
<1>5. ~Committed'
  BY <1>2, <1>3, <1>4, InRun DEF Committed
<1>6. "body" \notin strays /\ gh.body # NoState => gh.body.res[job.res] = "renamed"
  BY <1>1 DEF Inv, Working
<1>7. Declares(file)' /\ Declares(gh.body)'
  BY <1>2, <1>3, <1>4, <1>6, InRun DEF Inv, World, Declares
<1>8. World' /\ gh'.label /\ (gh'.ctl # "none" => gh'.body # NoState)
  BY <1>2, <1>3, <1>4, <1>5, <1>7, InRun DEF World, Inv, Known
<1>9. ASSUME gh' = after, Goto("scenarios") PROVE Inv'
  <2>1. Smooth'
    BY <1>1, <1>2, <1>4, <1>9, InRun DEF Goto, Inv, Smooth, Working, Near, OfRun
  <2> QED
    BY <1>1, <1>2, <1>3, <1>4, <1>5, <1>8, <1>9, <2>1, InRun DEF Goto, Inv, Known, Untouched,
       Phases, Early, Working, Relies, Completed, PassIsClean, Near, OfRun, Cleaner, InScenario
<1> QED
  BY <1>1, <1>2, <1>4, <1>5, <1>8, <1>9, InRun, SendsKeeps

LEMMA StartOwnCleanupKeeps == ASSUME TypeOK, Inv, StartOwnCleanup PROVE Inv'
<1>1. pc = "scenarios" /\ Near(OfRun) /\ file.control
  BY DEF StartOwnCleanup, Inv, Phases, Near, OfRun
<1>2. /\ pc' = "load" /\ UNCHANGED <<file, gh, late, report, verdict, strays>>
      /\ job'.round \in {"interrupt", "plain"} /\ job'.failed = job.failed
  BY DEF StartOwnCleanup, TypeOK, Job
<1>3. World'
  BY <1>1, <1>2, InRun DEF Inv, World, Declares, Committed, Unseen, UnseenCtl, Barren
<1>4. Smooth'
  BY <1>1, <1>2, InRun DEF StartOwnCleanup, Inv, Smooth, Near
<1> QED
  BY <1>1, <1>2, <1>3, <1>4, InRun DEF Inv, Known, Untouched, Phases, Early, Working, Relies,
     Completed, PassIsClean, Near, OfRun, Cleaner, InScenario

-----------------------------------------------------------------------------
(* A cleanup looks at what there is.                                       *)

LEMMA InCleanup == ASSUME TypeOK, Inv, Near(Cleaner)
    PROVE  /\ pc # "idle" /\ ~Near(OfRun) /\ ~Near(InScenario)
           /\ job.round # "run" /\ report # "none"
           /\ pc # "load" => file # NoState /\ file \in State
<1>1. pc # "idle" /\ ~Near(OfRun) /\ ~Near(InScenario)
  BY DEF TypeOK, Near, OfRun, Cleaner, InScenario, Job
<1> QED
  BY <1>1 DEF Inv, Known, Phases, Untouched, TypeOK

LEMMA StartCleanupKeeps == ASSUME TypeOK, Inv, StartCleanup PROVE Inv'
<1>1. /\ pc = "idle" /\ job = Idle /\ report # "none" /\ report # "running"
      /\ pc' = "load" /\ UNCHANGED <<file, gh, late, job, report, verdict, strays>>
  BY DEF StartCleanup, Goto, TypeOK, Inv, Phases
<1>2. World'
  BY <1>1 DEF Inv, World, Declares, Committed, Unseen, UnseenCtl, Barren
<1> QED
  BY <1>1, <1>2 DEF Inv, Known, Untouched, Phases, Early, Working, Relies, Smooth, Completed,
     PassIsClean, Near, OfRun, Cleaner, InScenario, Idle

\* The control issue gets the state of the file, whoever wrote it.
LEMMA SyncKeeps == ASSUME TypeOK, Inv, Sync PROVE Inv'
<1> DEFINE after == [gh EXCEPT !.body = file]
           name == <<"body", file>>
<1>1. Sends(after, name, job.next) /\ pc = "sync"
  BY DEF Sync
<1>2. /\ file # NoState /\ file \in State /\ file.control /\ job.next \in OfRun \cup Cleaner
      /\ job.next # "load" /\ job.next # "bind" /\ report # "COMPLETE" /\ report # "none"
      /\ job.round # "verify"
  BY <1>1 DEF TypeOK, Job, Inv, Known, Phases, Completed, Untouched, Near
<1>3. /\ after.body = file /\ after.ctl = gh.ctl /\ after.label = gh.label
      /\ after.issue = gh.issue /\ after.titled = gh.titled
  BY DEF TypeOK, GitHub
<1>4. name[1] = "body" /\ name[2] = file /\ \A q \in Resource : <<"issue", q>> # name
  OBVIOUS
<1> HIDE DEF after, name
<1>5. /\ UNCHANGED <<file, strays>> /\ (gh' = gh \/ gh' = after)
      /\ late' = late \/ late' = late \cup {name}
  BY <1>1, SendsWrites
<1>6. /\ Committed' => Committed
      /\ \A l \in late' : l[1] = "control" => l \in late
  BY <1>2, <1>3, <1>4, <1>5 DEF Committed
<1>7. Declares(file)' /\ Declares(gh.body)'
  BY <1>2, <1>3, <1>4, <1>5 DEF Inv, World, Declares
<1>8. Barren => Barren'
  BY <1>3, <1>4, <1>5 DEF Barren
<1>9. World' /\ (gh'.ctl # "none" => gh'.body # NoState)
  BY <1>2, <1>3, <1>5, <1>6, <1>7, <1>8 DEF World, Inv, Known, Unseen, UnseenCtl
<1>10. Near(InScenario) => gh'.label /\ ~Committed' /\ \A l \in late' : l[1] # "control"
  <2>1. Near(InScenario) => Near(OfRun)
    BY DEF Near, InScenario, OfRun
  <2> QED
    BY <1>3, <1>5, <1>6, <2>1, InRun DEF Inv, Early, Near
<1>11. ASSUME gh' = after, UNCHANGED <<file, late>>, Goto(job.next) PROVE Inv'
  <2>1. pc' = job.next /\ UNCHANGED <<job, report, verdict, strays, late, file>>
    BY <1>11 DEF Goto
  <2>2. \A labels : "sync" \notin labels => (Near(labels)' <=> Near(labels))
    BY <1>1, <1>2, <2>1 DEF Near, OfRun, Cleaner
  <2>3. Known' /\ Untouched' /\ Early' /\ Completed' /\ PassIsClean'
    BY <1>2, <1>3, <1>8, <1>9, <1>11, <2>1, <2>2 DEF Inv, Known, Untouched, Early, Completed,
       PassIsClean, Near, OfRun, Cleaner, InScenario
  <2>4. Phases'
    BY <1>1, <1>2, <1>6, <1>11, <2>1, <2>2 DEF Inv, Phases, OfRun, Cleaner
  <2>5. Working'
    BY <1>1, <1>2, <1>3, <1>11, <2>1, <2>2 DEF Inv, Working, Near
  <2>6. Relies'
    BY <1>1, <1>2, <1>3, <1>11, <2>1, <2>2 DEF Inv, Relies, Unseen, UnseenCtl
  <2>7. Smooth'
    BY <1>1, <1>2, <1>11, <2>1, <2>2 DEF Inv, Smooth, OfRun
  <2> QED
    BY <1>9, <2>3, <2>4, <2>5, <2>6, <2>7 DEF Inv
<1> QED
  BY <1>1, <1>2, <1>9, <1>10, <1>11, SendsKeeps

LEMMA LoadKeeps == ASSUME TypeOK, Inv, Load PROVE Inv'
<1> DEFINE known == [gh.body EXCEPT !.control = TRUE]
<1>1. pc = "load" /\ Near(Cleaner) /\ UNCHANGED <<gh, late>>
  BY DEF Load, Near, Cleaner
<1>2. ASSUME Throws, UNCHANGED <<file, gh, late>> PROVE Inv'
  <2>1. strays' = strays
    BY <1>2 DEF Throws, CleanupEnds
  <2>2. World' /\ (gh'.ctl # "none" => gh'.body # NoState)
    BY <1>2, <2>1 DEF Inv, Known, World, Declares, Unseen, UnseenCtl, Barren, Committed
  <2> QED
    BY <1>1, <1>2, <2>2, InCleanup, Thrown
<1>3. CASE file # NoState /\ file.control
  <2>1. CASE /\ pc' = (IF file.status = "COMPLETE" THEN "verify" ELSE "list")
             /\ UNCHANGED <<file, job, report, verdict, strays>>
    <3>1. World'
      BY <1>1, <2>1 DEF Inv, World, Declares, Committed, Unseen, UnseenCtl, Barren
    <3>2. Completed'
      BY <1>1, <1>3, <2>1 DEF Inv, Completed
    <3>3. Smooth'
      <4>1. ~Near({"create", "bind"})
        BY <1>1 DEF Near
      <4> QED
        BY <1>1, <2>1, <4>1, InCleanup DEF Inv, Smooth
    <3> QED
      BY <1>1, <1>3, <2>1, <3>1, <3>2, <3>3, InCleanup DEF Inv, Known, Untouched, Phases, Early,
         Working, Relies, PassIsClean, Near, OfRun, Cleaner, InScenario
  <2> QED
    BY <1>2, <1>3, <2>1 DEF Load
<1>4. CASE ~(file # NoState /\ file.control)
  <2>1. job.round = "alone" /\ report # "running"
    BY <1>1, <1>4, InCleanup DEF Inv, Phases
  <2>2. CASE Findable
    <3>1. CASE /\ file' = known
               /\ pc' = (IF known.status = "COMPLETE" THEN "verify" ELSE "list")
               /\ UNCHANGED <<job, report, verdict, strays>>
      <4>1. gh.body # NoState /\ gh.body \in State
        BY <2>2 DEF Findable, Inv, Known, TypeOK, GitHub
      <4>2. /\ known \in State /\ known.control /\ known.status = gh.body.status
            /\ known.res = gh.body.res
            /\ gh.body.control => known = gh.body
        BY <4>1 DEF State
      <4> HIDE DEF known
      <4>3. file' # NoState /\ (Committed' => Committed)
        BY <1>1, <3>1, <4>1, <4>2, E2EAssumption DEF Committed
      <4>4. World'
        BY <1>1, <3>1, <4>1, <4>2, <4>3 DEF Inv, World, Declares, Unseen, UnseenCtl, Barren
      <4>5. Completed'
        BY <1>1, <3>1, <4>1, <4>2 DEF Inv, Completed
      <4> QED
        BY <1>1, <2>1, <3>1, <4>2, <4>3, <4>4, <4>5, InCleanup DEF Inv, Known, Untouched, Phases,
           Early, Working, Relies, Smooth, PassIsClean, Near, OfRun, Cleaner, InScenario
    <3> QED
      BY <1>2, <1>4, <2>2, <3>1 DEF Load
  <2>3. CASE ~Findable
    <3>1. CASE /\ strays' = IF gh.ctl = "open" THEN strays \cup {"control"} ELSE strays
               /\ UNCHANGED file
               /\ IF file # NoState
                  THEN /\ pc' = (IF file.status = "COMPLETE" THEN "verify" ELSE "list")
                       /\ UNCHANGED <<job, report, verdict>>
                  ELSE /\ pc' = "idle" /\ job' = Idle /\ UNCHANGED report
                       /\ verdict' = IF gh.label THEN "FAIL" ELSE "PASS"
      <4>1. strays \subseteq strays' /\ UnseenCtl'
        BY <1>1, <3>1 DEF UnseenCtl
      <4>2. World'
        BY <1>1, <3>1, <4>1 DEF Inv, World, Declares, Committed, Unseen, Barren
      <4>3. Completed'
        BY <1>1, <1>4, <3>1 DEF Inv, Completed
      <4>4. ~gh.label => Unseen'
        BY <1>1, <4>1 DEF Inv, World, Unseen
      <4>5. PassIsClean'
        BY <1>1, <3>1, <4>1, <4>4 DEF Inv, PassIsClean, Unseen, UnseenCtl
      <4>6. CASE file # NoState
        BY <1>1, <1>4, <2>1, <3>1, <4>1, <4>2, <4>3, <4>5, <4>6, InCleanup DEF Inv, Known,
           Untouched, Phases, Early, Working, Relies, Smooth, Committed, Near, OfRun, Cleaner,
           InScenario
      <4>7. CASE file = NoState
        BY <1>1, <1>4, <2>1, <3>1, <4>1, <4>2, <4>3, <4>5, <4>7, InCleanup DEF Inv, Known,
           Untouched, Phases, Early, Working, Relies, Smooth, Near, OfRun, Cleaner, InScenario,
           Idle
      <4> QED
        BY <4>6, <4>7
    <3> QED
      BY <1>2, <1>4, <2>3, <3>1 DEF Load
  <2> QED
    BY <2>2, <2>3
<1> QED
  BY <1>3, <1>4

\* A cleanup ends well.
LEMMA PassedKeeps ==
    ASSUME TypeOK, Inv, Near(Cleaner), file # NoState, file.status = "COMPLETE",
           UNCHANGED <<file, gh, late>>, CleanupEnds("PASS"),
           Unseen, UnseenCtl, gh.label => "label" \in strays,
           job.round = "verify" /\ ~job.failed =>
              /\ strays = {} /\ late = {} /\ \A r \in Resource : gh.issue[r] = "closed"
              /\ gh.ctl = "closed" /\ ~gh.label /\ gh.body = file /\ file.control
    PROVE  Inv'
<1>1. strays' = strays /\ verdict' = "PASS" /\ report # "none"
  BY InCleanup DEF CleanupEnds
<1>2. World'
  BY <1>1 DEF Inv, World, Declares, Committed, Unseen, UnseenCtl, Barren
<1>3. PassIsClean'
  BY <1>1 DEF PassIsClean, Unseen, UnseenCtl
<1>4. CASE job.round = "child"
  <2>1. /\ pc' = "load" /\ job' = [job EXCEPT !.round = "verify"] /\ UNCHANGED report
        /\ report = "running" /\ file.control
    BY <1>4, InCleanup DEF CleanupEnds, Inv, Phases
  <2>2. job'.round = "verify" /\ job'.failed = job.failed
    BY <2>1 DEF TypeOK, Job
  <2>3. Smooth'
    BY <1>1, <1>4, <2>1, <2>2, InCleanup DEF Inv, Smooth, Near, OfRun
  <2> QED
    BY <1>1, <1>2, <1>3, <2>1, <2>2, <2>3 DEF Inv, Known, Untouched, Phases, Early, Working,
       Relies, Completed, Near, OfRun, Cleaner, InScenario
<1>5. CASE job.round # "child"
  <2>1. pc' = "idle" /\ job' = Idle
    BY <1>5 DEF CleanupEnds
  <2>2. report' = IF job.round = "alone" THEN report
                  ELSE IF job.round = "verify" /\ ~job.failed THEN "COMPLETE" ELSE "PARTIAL"
    BY <1>5 DEF CleanupEnds, Report
  <2>3. report' # "running" /\ report' # "none"
    BY <1>1, <2>2, InCleanup DEF Inv, Phases
  <2>4. Completed'
    BY <1>1, <2>1, <2>2 DEF Inv, Completed
  <2> QED
    BY <1>1, <1>2, <1>3, <2>1, <2>3, <2>4 DEF Inv, Known, Untouched, Phases, Early, Working,
       Relies, Smooth, Near, OfRun, Cleaner, InScenario, Idle
<1> QED
  BY <1>4, <1>5

\* And badly: the same as with an exception.
LEMMA FailedKeeps ==
    ASSUME TypeOK, Inv, Near(Cleaner), UNCHANGED <<file, gh, late>>, CleanupEnds("FAIL")
    PROVE  Inv'
<1>1. strays' = strays
  BY DEF CleanupEnds
<1>2. World' /\ (gh'.ctl # "none" => gh'.body # NoState)
  BY <1>1 DEF Inv, Known, World, Declares, Unseen, UnseenCtl, Barren, Committed
<1>3. Throws
  BY DEF Throws
<1> QED
  BY <1>2, <1>3, InCleanup, Thrown

\* A completed cleanup relies on the state for what it does not look at.
LEMMA VerifyKeeps == ASSUME TypeOK, Inv, Verify PROVE Inv'
<1> DEFINE good == /\ ClosedAll(file) /\ ~gh.label
                   /\ file.control => gh.ctl = "closed" /\ gh.body = file
<1>1. /\ pc = "verify" /\ Near(Cleaner) /\ file # NoState /\ file.status = "COMPLETE"
      /\ file \in State
  BY InCleanup DEF Verify, Inv, Phases, Near, Cleaner
<1>2. ASSUME CleanupEnds("PASS"), UNCHANGED <<file, gh, late>>, good PROVE Inv'
  <2>1. Unseen
    BY <1>1 DEF Inv, World, Committed
  <2>2. UnseenCtl
    BY <1>1, <1>2 DEF Inv, World, UnseenCtl
  <2>3. ASSUME job.round = "verify", ~job.failed
        PROVE  /\ strays = {} /\ late = {} /\ \A r \in Resource : gh.issue[r] = "closed"
               /\ gh.ctl = "closed" /\ ~gh.label /\ gh.body = file /\ file.control
    <3>1. file.control /\ ~Near(OfRun) /\ ~Near({"create", "bind"})
      BY <1>1, <2>3, InCleanup DEF Inv, Phases, Near
    <3>2. strays = {} /\ late = {} /\ \A r \in Resource : file.res[r] \in {"bound", "renamed"}
      BY <1>1, <2>3, <3>1 DEF Inv, Smooth
    <3> QED
      BY <1>2, <3>1, <3>2 DEF ClosedAll
  <2> QED
    BY <1>1, <1>2, <2>1, <2>2, <2>3, PassedKeeps
<1>3. Reads(CleanupEnds(IF good THEN "PASS" ELSE "FAIL"))
  BY DEF Verify
<1> HIDE DEF good
<1>4. CASE good
  BY <1>1, <1>2, <1>3, <1>4, InCleanup, ReadsKeeps
<1>5. CASE ~good
  BY <1>1, <1>3, <1>5, InCleanup, FailedKeeps, ReadsKeeps
<1> QED
  BY <1>4, <1>5

\* What is not listed is closed or out of sight.
LEMMA ListKeeps == ASSUME TypeOK, Inv, List PROVE Inv'
<1> DEFINE seen == IF gh.label /\ file.status = "ACTIVE"
                   THEN {r \in Resource : gh.issue[r] # "none"} ELSE {}
           open == {r \in seen : gh.issue[r] = "open"}
           ctlOpen == file.control /\ gh.ctl = "open"
           read == /\ pc' = "match"
                   /\ job' = [job EXCEPT !.seen = seen, !.open = open, !.ctlOpen = ctlOpen]
                   /\ UNCHANGED <<report, verdict, strays>>
<1>1. pc = "list" /\ Near(Cleaner) /\ file # NoState /\ file \in State
  BY InCleanup DEF List, Near, Cleaner
<1>2. Reads(read)
  BY DEF List
<1>3. ASSUME read, UNCHANGED <<file, gh, late>> PROVE Inv'
  <2>1. job' = [job EXCEPT !.seen = seen, !.open = open, !.ctlOpen = ctlOpen]
    BY <1>3
  <2>2. /\ job'.seen = seen /\ (job'.ctlOpen <=> file.control /\ gh.ctl = "open")
        /\ job'.round = job.round /\ job'.failed = job.failed
    BY <2>1 DEF TypeOK, Job
  <2>3. \A r \in Resource : gh.issue[r] = "open" => r \in seen \cup strays
    BY <1>1 DEF Inv, World, Committed, Unseen
  <2>4. pc' = "match" /\ UNCHANGED <<file, gh, late, report, verdict, strays>>
    BY <1>3
  <2> HIDE DEF seen, open, ctlOpen, read
  <2>5. World'
    BY <2>4 DEF Inv, World, Declares, Committed, Unseen, UnseenCtl, Barren
  <2>6. Relies'
    BY <1>1, <2>2, <2>3, <2>4 DEF Inv, Known, Relies, UnseenCtl, Near, Cleaner
  <2>7. Smooth'
    <3>1. ~Near({"create", "bind"})
      BY <1>1 DEF Near
    <3> QED
      BY <1>1, <2>2, <2>4, <3>1, InCleanup DEF Inv, Smooth
  <2> QED
    BY <1>1, <2>2, <2>4, <2>5, <2>6, <2>7, InCleanup DEF Inv, Known, Untouched, Phases, Early,
       Working, Completed, PassIsClean, Near, OfRun, Cleaner, InScenario
<1> QED
  BY <1>1, <1>2, <1>3, InCleanup, ReadsKeeps

LEMMA MatchKeeps == ASSUME TypeOK, Inv, Match PROVE Inv'
<1>1. pc = "match" /\ Near(Cleaner) /\ file # NoState
  BY InCleanup DEF Match, Near, Cleaner
<1>2. ASSUME Goto("close"), UNCHANGED <<file, gh, late>> PROVE Inv'
  <2>1. pc' = "close" /\ UNCHANGED <<file, gh, late, job, report, verdict, strays>>
    BY <1>2 DEF Goto
  <2>2. World'
    BY <2>1 DEF Inv, World, Declares, Committed, Unseen, UnseenCtl, Barren
  <2>3. Relies'
    BY <1>1, <2>1 DEF Inv, Relies, UnseenCtl, Near, Cleaner
  <2>4. Smooth'
    <3>1. ~Near({"create", "bind"})
      BY <1>1 DEF Near
    <3> QED
      BY <1>1, <2>1, <3>1, InCleanup DEF Inv, Smooth
  <2> QED
    BY <1>1, <2>1, <2>2, <2>3, <2>4, InCleanup DEF Inv, Known, Untouched, Phases, Early,
       Working, Completed, PassIsClean, Near, OfRun, Cleaner, InScenario
<1>3. CASE Reads(CleanupEnds("FAIL"))
  BY <1>1, <1>3, InCleanup, FailedKeeps, ReadsKeeps
<1>4. CASE Reads(IF Matches THEN Goto("close") ELSE CleanupEnds("FAIL"))
  BY <1>1, <1>2, <1>4, InCleanup, FailedKeeps, ReadsKeeps
<1> QED
  BY <1>3, <1>4 DEF Match

-----------------------------------------------------------------------------
(* A cleanup closes what it found.                                         *)

\* It goes on without touching anything.
LEMMA GoesOn ==
    ASSUME TypeOK, Inv, NEW from, NEW where,
           pc = from, <<from, where>> \in {<<"close", "commit">>, <<"commit", "closeControl">>,
              <<"closeControl", "dropLabel">>, <<"dropLabel", "finish">>},
           UNCHANGED <<file, gh, late>>, Goto(where),
           where = "commit" => Unseen,
           where = "closeControl" => file.status # "ACTIVE",
           where = "dropLabel" => ~job.ctlOpen,
           where = "finish" => ~gh.label
    PROVE  Inv'
<1>1. /\ Near(Cleaner) /\ pc # "load" /\ pc' = where
      /\ UNCHANGED <<file, gh, late, job, report, verdict, strays>>
  BY DEF Goto, Near, Cleaner
<1>2. World'
  BY <1>1 DEF Inv, World, Declares, Committed, Unseen, UnseenCtl, Barren
<1>3. Relies'
  BY <1>1 DEF Inv, Relies, Unseen, UnseenCtl, Near, Cleaner
<1>4. Smooth'
  <2>1. ~Near({"create", "bind"})
    BY <1>1 DEF Near
  <2> QED
    BY <1>1, <2>1, InCleanup DEF Inv, Smooth
<1>5. Phases'
  BY <1>1, InCleanup DEF Inv, Phases, Committed, Near, OfRun, Cleaner
<1> QED
  BY <1>1, <1>2, <1>3, <1>4, <1>5, InCleanup DEF Inv, Known, Untouched, Early,
     Working, Completed, PassIsClean, Near, OfRun, Cleaner, InScenario

\* The state of a cleanup changes: a resource it found is bound, it commits, or it is
\* complete.
LEMMA PersistKeeps ==
    ASSUME TypeOK, Inv, NEW state \in State, NEW where, Persist(state, job, where),
           <<pc, where>> \in {<<"close", "close">>, <<"commit", "closeControl">>,
                              <<"finish", "pass">>},
           file \in State, state.control = file.control, state.status # "ACTIVE" => Unseen,
           \A r \in Resource : \/ state.res[r] = file.res[r]
                               \/ file.res[r] = "declared" /\ state.res[r] = "bound",
           where = "closeControl" => state.status # "ACTIVE",
           where = "pass" => state.status = "COMPLETE"
    PROVE  Inv'
<1>1. /\ Near(Cleaner) /\ file' = state /\ UNCHANGED <<gh, late, report, verdict, strays>>
      /\ pc' = (IF state.control THEN "sync" ELSE where)
      /\ job' = [job EXCEPT !.next = where]
      /\ file # NoState /\ file' # NoState
  BY E2EAssumption DEF Persist, Near, Cleaner
<1>2. /\ job'.next = where /\ job'.round = job.round /\ job'.failed = job.failed
      /\ job'.seen = job.seen /\ job'.ctlOpen = job.ctlOpen
  BY <1>1 DEF TypeOK, Job
<1>3. report # "COMPLETE" /\ job.round # "verify"
  BY DEF Inv, Completed, Phases
<1>4. pc' \in {"sync", where} /\ where \in {"close", "closeControl", "pass"}
  BY <1>1
<1>5. Declares(file)' /\ Declares(gh.body)'
  BY <1>1 DEF Inv, World, Declares
<1>6. Near(Cleaner)' /\ ~Near(OfRun)' /\ ~Near({"create", "bind"})' /\ pc' # "idle"
  BY <1>1, <1>2 DEF Near, Cleaner, OfRun
<1>7. ~state.control => UnseenCtl
  BY <1>1 DEF Inv, Relies
<1>8. World'
  BY <1>1, <1>5, <1>7, InCleanup DEF Inv, World, Committed, Unseen, UnseenCtl, Barren
<1>9. Relies'
  BY <1>1, <1>2, <1>7 DEF Inv, Relies, Unseen, UnseenCtl, Near, Cleaner
<1>10. Smooth'
  <2>1. ~Near({"create", "bind"})
    BY DEF Near
  <2> QED
    BY <1>1, <1>2, <2>1, InCleanup DEF Inv, Smooth
<1>11. Phases'
  BY <1>1, <1>2, <1>3, <1>6, InCleanup DEF Inv, Phases, Near, OfRun, Cleaner
<1> QED
  BY <1>1, <1>2, <1>3, <1>6, <1>8, <1>9, <1>10, <1>11, InCleanup DEF Inv, Known, Untouched, Early,
     Working, Completed, PassIsClean, Near, OfRun, Cleaner, InScenario

LEMMA CloseIssueKeeps == ASSUME TypeOK, Inv, pc = "close", NEW r \in job.seen, CloseIssue(r)
    PROVE Inv'
<1> DEFINE after == [gh EXCEPT !.issue[r] = "closed"]
<1>1. Sends(after, <<>>, "close") /\ gh.issue[r] = "open" /\ r \in Resource
  BY DEF CloseIssue, TypeOK, Job
<1>2. Near(Cleaner) /\ report # "COMPLETE" /\ ~Near({"create", "bind"})
  BY DEF Near, Cleaner, Inv, Completed
<1>3. /\ after.body = gh.body /\ after.ctl = gh.ctl /\ after.label = gh.label
      /\ after.issue[r] = "closed" /\ after.titled = gh.titled
      /\ \A q \in Resource : q # r => after.issue[q] = gh.issue[q]
  BY <1>1 DEF TypeOK, GitHub
<1> HIDE DEF after
<1>4. UNCHANGED <<file, strays, late>> /\ (gh' = gh \/ gh' = after)
  BY <1>1, SendsWrites
<1>5. Committed' => Committed
  BY <1>3, <1>4 DEF Committed
<1>6. Declares(file)' /\ Declares(gh.body)'
  BY <1>1, <1>3, <1>4 DEF Inv, World, Declares
<1>7. World' /\ (gh'.ctl # "none" => gh'.body # NoState)
  BY <1>1, <1>3, <1>4, <1>5, <1>6 DEF World, Inv, Known, Unseen, UnseenCtl, Barren
<1>8. ASSUME gh' = after, Goto("close") PROVE Inv'
  <2>1. pc' = pc /\ UNCHANGED <<file, late, job, report, verdict, strays>>
    BY <1>4, <1>8 DEF Goto
  <2>2. \A q \in Resource : gh'.issue[q] = "open" => gh.issue[q] = "open"
    BY <1>1, <1>3, <1>8
  <2>3. Relies' /\ PassIsClean'
    BY <1>3, <1>8, <2>1, <2>2 DEF Inv, Relies, PassIsClean, Unseen, UnseenCtl, Near
  <2>4. Phases'
    BY <1>2, <1>5, <2>1, InCleanup DEF Inv, Phases, Near, OfRun
  <2>5. Smooth'
    BY <1>2, <2>1, InCleanup DEF Inv, Smooth, Near
  <2> QED
    BY <1>2, <1>3, <1>7, <1>8, <2>1, <2>3, <2>4, <2>5, InCleanup DEF Inv, Known, Untouched,
       Early, Working, Completed, Near, OfRun, Cleaner, InScenario
<1> QED
  BY <1>1, <1>2, <1>7, <1>8, InCleanup, SendsKeeps

LEMMA CloseKeeps == ASSUME TypeOK, Inv, Close PROVE Inv'
<1>1. pc = "close" /\ Near(Cleaner) /\ file # NoState /\ file \in State
  BY InCleanup DEF Close, Near, Cleaner
<1>2. ASSUME NEW r \in job.seen, BindFound(r) PROVE Inv'
  <2>1. r \in Resource /\ file.res[r] = "declared"
    BY <1>2 DEF TypeOK, Job, BindFound
  <2> DEFINE state == [file EXCEPT !.res[r] = "bound"]
  <2>2. /\ state \in State /\ state.control = file.control /\ state.status = file.status
        /\ state.res[r] = "bound" /\ \A q \in Resource : q # r => state.res[q] = file.res[q]
    BY <1>1, <2>1 DEF State, Stage
  <2>3. Persist(state, job, "close")
    BY <1>2 DEF BindFound
  <2>4. state.status # "ACTIVE" => Unseen
    BY <1>1, <2>2 DEF Inv, World, Committed
  <2> HIDE DEF state
  <2> QED
    BY <1>1, <2>1, <2>2, <2>3, <2>4, PersistKeeps
<1>3. ASSUME \A r \in job.seen : file.res[r] # "declared" /\ gh.issue[r] = "closed",
             Goto("commit"), UNCHANGED <<file, gh, late>>
      PROVE  Inv'
  <2>1. Unseen
    BY <1>1, <1>3 DEF Inv, Relies, Near, Unseen
  <2> QED
    BY <1>1, <1>3, <2>1, GoesOn
<1> QED
  BY <1>1, <1>2, <1>3, CloseIssueKeeps DEF Close

LEMMA CommitKeeps == ASSUME TypeOK, Inv, Commit PROVE Inv'
<1>1. pc = "commit" /\ Near(Cleaner) /\ file # NoState /\ file \in State
  BY InCleanup DEF Commit, Near, Cleaner
<1> DEFINE state == [file EXCEPT !.status = "CLEANUP_COMMITTING"]
<1>2. CASE Persist(state, job, "closeControl")
  <2>1. /\ state \in State /\ state.control = file.control /\ state.res = file.res
        /\ state.status = "CLEANUP_COMMITTING"
    BY <1>1 DEF State, Status
  <2>2. Unseen
    BY <1>1 DEF Inv, Relies, Near
  <2> HIDE DEF state
  <2> QED
    BY <1>1, <1>2, <2>1, <2>2, PersistKeeps
<1>3. CASE file.status # "ACTIVE" /\ Goto("closeControl") /\ UNCHANGED <<file, gh, late>>
  BY <1>1, <1>3, GoesOn
<1> QED
  BY <1>2, <1>3 DEF Commit

\* Two writes on the whole of the repository, one after the other.
LEMMA CloseControlKeeps == ASSUME TypeOK, Inv, CloseControl PROVE Inv'
<1> DEFINE after == [gh EXCEPT !.ctl = "closed"]
<1>1. /\ pc = "closeControl" /\ Near(Cleaner) /\ file # NoState /\ report # "COMPLETE"
      /\ ~Near({"create", "bind"}) /\ file.status # "ACTIVE"
  BY InCleanup DEF CloseControl, Near, Cleaner, Inv, Completed, Phases
<1>2. CASE job.ctlOpen /\ Sends(after, <<>>, "dropLabel")
  <2>1. /\ after.body = gh.body /\ after.ctl = "closed" /\ after.label = gh.label
        /\ after.issue = gh.issue /\ after.titled = gh.titled
    BY DEF TypeOK, GitHub
  <2>2. gh.body # NoState
    BY <1>1, <1>2 DEF Inv, Relies, Near
  <2> HIDE DEF after
  <2>3. UNCHANGED <<file, strays, late>> /\ (gh' = gh \/ gh' = after)
    BY <1>2, SendsWrites
  <2>4. Committed' => Committed
    BY <2>1, <2>3 DEF Committed
  <2>5. World' /\ (gh'.ctl # "none" => gh'.body # NoState)
    BY <2>1, <2>2, <2>3, <2>4 DEF World, Inv, Known, Declares, Unseen, UnseenCtl, Barren
  <2>6. ASSUME gh' = after, Goto("dropLabel") PROVE Inv'
    <3>1. pc' = "dropLabel" /\ UNCHANGED <<file, late, job, report, verdict, strays>>
      BY <2>3, <2>6 DEF Goto
    <3>2. Relies' /\ PassIsClean'
      BY <1>1, <2>1, <2>6, <3>1 DEF Inv, Relies, PassIsClean, Unseen, UnseenCtl, Near, Cleaner
    <3>3. Phases'
      BY <1>1, <2>4, <3>1, InCleanup DEF Inv, Phases, Near, OfRun, Cleaner
    <3>4. Smooth'
      BY <1>1, <3>1, InCleanup DEF Inv, Smooth, Near
    <3> QED
      BY <1>1, <2>1, <2>5, <2>6, <3>1, <3>2, <3>3, <3>4, InCleanup DEF Inv, Known, Untouched,
         Early, Working, Completed, Near, OfRun, Cleaner, InScenario
  <2> QED
    BY <1>1, <1>2, <2>5, <2>6, InCleanup, SendsKeeps
<1>3. CASE ~job.ctlOpen /\ Goto("dropLabel") /\ UNCHANGED <<file, gh, late>>
  BY <1>1, <1>3, GoesOn
<1> QED
  BY <1>2, <1>3 DEF CloseControl

LEMMA DropLabelKeeps == ASSUME TypeOK, Inv, DropLabel PROVE Inv'
<1> DEFINE after == [gh EXCEPT !.label = FALSE, !.tagged = FALSE]
<1>1. /\ pc = "dropLabel" /\ Near(Cleaner) /\ file # NoState /\ report # "COMPLETE"
      /\ ~Near({"create", "bind"}) /\ file.status # "ACTIVE"
  BY InCleanup DEF DropLabel, Near, Cleaner, Inv, Completed, Phases
<1>2. Unseen
  BY <1>1 DEF Inv, World, Committed
<1>3. CASE Sends(after, <<>>, "finish")
  <2>1. /\ after.body = gh.body /\ after.ctl = gh.ctl /\ after.label = FALSE
        /\ after.issue = gh.issue /\ after.titled = gh.titled
    BY DEF TypeOK, GitHub
  <2> HIDE DEF after
  <2>2. UNCHANGED <<file, strays, late>> /\ (gh' = gh \/ gh' = after)
    BY <1>3, SendsWrites
  <2>3. Unseen' /\ (Committed' => Committed)
    BY <1>2, <2>1, <2>2 DEF Committed, Unseen
  <2>4. World' /\ (gh'.ctl # "none" => gh'.body # NoState)
    BY <2>1, <2>2, <2>3 DEF World, Inv, Known, Declares, UnseenCtl, Barren
  <2>5. ASSUME gh' = after, Goto("finish") PROVE Inv'
    <3>1. pc' = "finish" /\ UNCHANGED <<file, late, job, report, verdict, strays>>
      BY <2>2, <2>5 DEF Goto
    <3>2. Relies' /\ PassIsClean'
      BY <1>1, <2>1, <2>5, <3>1 DEF Inv, Relies, PassIsClean, Unseen, UnseenCtl, Near, Cleaner
    <3>3. Phases'
      BY <1>1, <2>3, <3>1, InCleanup DEF Inv, Phases, Near, OfRun, Cleaner
    <3>4. Smooth'
      BY <1>1, <3>1, InCleanup DEF Inv, Smooth, Near
    <3> QED
      BY <1>1, <2>1, <2>4, <2>5, <3>1, <3>2, <3>3, <3>4, InCleanup DEF Inv, Known, Untouched,
         Early, Working, Completed, Near, OfRun, Cleaner, InScenario
  <2> QED
    BY <1>1, <1>3, <2>4, <2>5, InCleanup, SendsKeeps
<1>4. CASE ~gh.label /\ Reads(Goto("finish"))
  <2>1. ASSUME Goto("finish"), UNCHANGED <<file, gh, late>> PROVE Inv'
    BY <1>1, <1>4, <2>1, GoesOn
  <2> QED
    BY <1>1, <1>4, <2>1, InCleanup, ReadsKeeps
<1> QED
  BY <1>3, <1>4 DEF DropLabel

LEMMA FinishKeeps == ASSUME TypeOK, Inv, Finish PROVE Inv'
<1>1. pc = "finish" /\ Near(Cleaner) /\ file # NoState /\ file \in State /\ file.status # "ACTIVE"
  BY InCleanup DEF Finish, Near, Cleaner, Inv, Phases
<1> DEFINE state == [file EXCEPT !.status = "COMPLETE"]
<1>2. Persist(state, job, "pass")
  BY DEF Finish
<1>3. /\ state \in State /\ state.control = file.control /\ state.res = file.res
      /\ state.status = "COMPLETE"
  BY <1>1 DEF State, Status
<1>4. Unseen
  BY <1>1 DEF Inv, World, Committed
<1> HIDE DEF state
<1> QED
  BY <1>1, <1>2, <1>3, <1>4, PersistKeeps

LEMMA PassKeeps == ASSUME TypeOK, Inv, Pass PROVE Inv'
<1>1. /\ pc = "pass" /\ Near(Cleaner) /\ file # NoState /\ file.status = "COMPLETE"
      /\ CleanupEnds("PASS") /\ UNCHANGED <<file, gh, late>>
  BY InCleanup DEF Pass, Near, Cleaner, Inv, Phases
<1>2. Unseen /\ UnseenCtl /\ (gh.label => "label" \in strays) /\ job.round # "verify"
  BY <1>1 DEF Inv, World, Committed, Relies, Near, Phases
<1> QED
  BY <1>1, <1>2, PassedKeeps

-----------------------------------------------------------------------------
(* The environment.                                                        *)

LEMMA CrashKeeps == ASSUME TypeOK, Inv, Crash PROVE Inv'
<1>1. /\ pc # "idle" /\ pc' = "idle" /\ job' = Idle /\ UNCHANGED <<file, gh, late, verdict, strays>>
      /\ report' = IF job.round = "alone" THEN report ELSE "lost"
  BY DEF Crash
<1>2. report # "none" /\ report' # "running" /\ report' # "none"
  BY <1>1 DEF Inv, Untouched, Phases
<1>3. World'
  BY <1>1 DEF Inv, World, Declares, Committed, Unseen, UnseenCtl, Barren
<1> QED
  BY <1>1, <1>2, <1>3 DEF Inv, Known, Untouched, Phases, Early, Working, Relies, Smooth, Completed,
     PassIsClean, Near, OfRun, Cleaner, InScenario, Idle

LEMMA LoseFileKeeps == ASSUME TypeOK, Inv, LoseFile PROVE Inv'
<1>1. /\ pc = "idle" /\ file # NoState /\ file' = NoState
      /\ UNCHANGED <<gh, late, pc, job, report, verdict, strays>>
  BY DEF LoseFile
<1>2. report # "none" /\ job = Idle
  BY <1>1 DEF Inv, Untouched, TypeOK
<1>3. Committed' => Committed
  BY <1>1 DEF Committed
<1>4. World'
  BY <1>1, <1>3 DEF Inv, World, Declares, Unseen, UnseenCtl, Barren
<1> QED
  BY <1>1, <1>2, <1>4 DEF Inv, Known, Untouched, Phases, Early, Working, Relies, Smooth, Completed,
     PassIsClean, Near, OfRun, Cleaner, InScenario, Idle

LEMMA IndexKeeps == ASSUME TypeOK, Inv, Index \/ UNCHANGED vars PROVE Inv'
<1>1. /\ UNCHANGED <<file, late, pc, job, report, verdict, strays>>
      /\ gh'.body = gh.body /\ gh'.ctl = gh.ctl /\ gh'.label = gh.label
      /\ gh'.issue = gh.issue /\ gh'.titled = gh.titled
  BY DEF Index, vars, TypeOK, GitHub
<1>2. (Committed' <=> Committed) /\ (Barren' <=> Barren) /\ (Unseen' <=> Unseen)
      /\ (UnseenCtl' <=> UnseenCtl)
  BY <1>1 DEF Committed, Barren, Unseen, UnseenCtl
<1>3. World'
  BY <1>1, <1>2 DEF Inv, World, Declares
<1>4. Phases' /\ Relies' /\ Smooth'
  BY <1>1, <1>2 DEF Inv, Phases, Relies, Smooth, Near
<1> QED
  BY <1>1, <1>2, <1>3, <1>4 DEF Inv, Known, Untouched, Early, Working, Completed, PassIsClean, Near

\* A call lands when nobody waits for it: a run that went well has none, and what
\* comes into being after a cleanup looked is counted as out of its sight.
LEMMA LandsLate ==
    ASSUME TypeOK, Inv, NEW l \in late
    PROVE  /\ report # "none" /\ report # "COMPLETE"
           /\ ~(pc # "idle" /\ job.round # "alone" /\ ~job.failed)
           /\ l[1] = "control" => /\ Barren /\ l[2].status = "ACTIVE" /\ ~Near(OfRun)
           /\ l = <<"issue", l[2]>> /\ l[2] \in Resource => ~Barren
<1>1. Untouched /\ Completed /\ Smooth /\ World /\ Phases
  BY DEF Inv
<1>2. /\ report # "none" /\ report # "COMPLETE"
      /\ ~(pc # "idle" /\ job.round # "alone" /\ ~job.failed)
  BY <1>1 DEF Untouched, Completed, Smooth
<1>3. l[1] = "control" => Barren /\ l[2].status = "ACTIVE" /\ ~Near(OfRun)
  <2>1. Near(OfRun) => report = "running"
    <3>1. Near(OfRun) => pc # "idle" /\ job.round = "run"
      BY <1>1 DEF Phases, Near, OfRun
    <3> QED
      BY <1>1, <3>1 DEF Phases
  <2> QED
    BY <1>1, <2>1 DEF World, Phases
<1> QED
  BY <1>2, <1>3 DEF Barren

\* Nobody has looked while the run is at work, and everybody who commits has.
LEMMA LookedBy ==
    /\ Near(Cleaner) \/ verdict = "PASS" => Looked
    /\ Committed => Looked
BY DEF Looked, Committed

LEMMA LandControlKeeps ==
    ASSUME TypeOK, Inv, NEW l \in late, l[1] = "control", l[2] \in State, Land(l)
    PROVE  Inv'
<1> DEFINE after == [gh EXCEPT !.ctl = "open", !.body = l[2]]
<1>1. /\ after.body = l[2] /\ after.ctl = "open" /\ after.label = gh.label
      /\ after.issue = gh.issue /\ after.titled = gh.titled
  BY DEF TypeOK, GitHub
<1>2. /\ gh' = after /\ late' \subseteq late /\ UNCHANGED <<file, pc, job, report, verdict>>
      /\ strays \subseteq strays' /\ strays' \subseteq strays \cup {"control"}
      /\ Looked => "control" \in strays'
  BY DEF Land, Lands
<1> HIDE DEF after
<1>3. /\ report # "none" /\ report # "COMPLETE" /\ l[2] # NoState
      /\ ~(pc # "idle" /\ job.round # "alone" /\ ~job.failed)
      /\ Barren /\ l[2].status = "ACTIVE" /\ ~Near(OfRun)
  BY LandsLate, E2EAssumption
<1>4. Barren' /\ Unseen' /\ (Committed' => Committed)
  BY <1>1, <1>2, <1>3 DEF Barren, Unseen, Committed
<1>5. Looked => UnseenCtl'
  BY <1>2 DEF UnseenCtl
<1>6. World'
  <2>1. file # NoState /\ file.status # "ACTIVE" => UnseenCtl'
    BY <1>5, LookedBy DEF Committed
  <2>2. \A k \in late' : k[1] = "control" => k[2].status = "ACTIVE"
    BY <1>2 DEF Inv, World
  <2>3. Declares(file)' /\ Declares(gh.body)'
    BY <1>4 DEF Declares, Barren
  <2> QED
    BY <1>2, <1>4, <2>1, <2>2, <2>3 DEF World
<1>7. Known' /\ Early' /\ Working'
  BY <1>1, <1>2, <1>3, <1>4 DEF Inv, Known, Early, Working, Near, OfRun, Cleaner, InScenario
<1>8. Phases'
  <2>1. report = "running" => \A k \in late' : k[1] # "control"
    BY <1>2 DEF Inv, Phases
  <2> QED
    BY <1>2, <1>3, <2>1 DEF Inv, Phases, Near
<1>9. Relies'
  <2>1. Near(Cleaner) => UnseenCtl'
    BY <1>5, LookedBy
  <2> QED
    BY <1>1, <1>2, <1>3, <1>4, <2>1 DEF Inv, Relies, Unseen, Near, Cleaner
<1>10. Untouched' /\ Smooth' /\ Completed'
  BY <1>2, <1>3 DEF Untouched, Smooth, Completed
<1>11. PassIsClean'
  <2>1. verdict = "PASS" => UnseenCtl'
    BY <1>5, LookedBy
  <2> QED
    BY <1>1, <1>2, <1>4, <2>1 DEF Inv, PassIsClean, Unseen, UnseenCtl
<1> QED
  BY <1>6, <1>7, <1>8, <1>9, <1>10, <1>11 DEF Inv

LEMMA LandIssueKeeps ==
    ASSUME TypeOK, Inv, NEW l \in late, NEW r \in Resource, l = <<"issue", r>>, Land(l)
    PROVE  Inv'
<1> DEFINE after == [gh EXCEPT !.issue[r] = "open"]
<1>1. /\ after.body = gh.body /\ after.ctl = gh.ctl /\ after.label = gh.label
      /\ after.titled = gh.titled /\ after.issue[r] = "open"
      /\ \A q \in Resource : q # r => after.issue[q] = gh.issue[q]
  BY DEF TypeOK, GitHub
<1>2. /\ gh' = after /\ late' \subseteq late /\ UNCHANGED <<file, pc, job, report, verdict>>
      /\ strays \subseteq strays' /\ strays' \subseteq strays \cup {r}
      /\ Looked \/ ~gh.label => r \in strays'
  BY DEF Land, Lands
<1> HIDE DEF after
<1>3. /\ report # "none" /\ report # "COMPLETE" /\ ~Barren
      /\ ~(pc # "idle" /\ job.round # "alone" /\ ~job.failed)
  BY LandsLate
<1>4. \A k \in late : k[1] # "control"
  BY <1>3 DEF Inv, World
<1>5. /\ Committed' => Committed
      /\ Looked \/ ~gh.label => (Unseen => Unseen')
      /\ UnseenCtl => UnseenCtl'
  BY <1>1, <1>2 DEF Unseen, UnseenCtl, Committed
<1>6. World'
  <2>1. Committed' \/ ~gh'.label => Unseen'
    BY <1>1, <1>2, <1>5, LookedBy DEF Inv, World
  <2>2. ASSUME NEW st, st # NoState, Declares(st), "body" \notin strays', NEW q \in Resource
        PROVE  /\ gh'.issue[q] # "none" \/ <<"issue", q>> \in late' => st.res[q] # "none"
               /\ q \in gh'.titled => st.res[q] = "renamed"
    <3>1. "body" \notin strays
      BY <1>2, <2>2
    <3>2. gh'.issue[q] # "none" => gh.issue[q] # "none" \/ <<"issue", q>> \in late
      BY <1>1, <1>2
    <3> QED
      BY <1>1, <1>2, <2>2, <3>1, <3>2 DEF Declares
  <2>3. Declares(file)' /\ Declares(gh.body)'
    BY <1>1, <1>2, <2>2 DEF Declares, Inv, World
  <2> QED
    BY <1>2, <1>4, <1>5, <2>1, <2>3 DEF Inv, World
<1>7. Known' /\ Early' /\ Working'
  <2>1. ~Near({"postControl", "bindControl", "makeLabel", "tagControl"})
    BY <1>3 DEF Inv, Early
  <2> QED
    BY <1>1, <1>2, <2>1 DEF Inv, Known, Early, Working, Near, OfRun, Cleaner, InScenario
<1>8. Phases'
  <2>1. \A k \in late' : k[1] # "control"
    BY <1>2, <1>4
  <2> QED
    BY <1>2, <1>5, <2>1 DEF Inv, Phases, Near
<1>9. Relies'
  <2>1. Near({"match", "close"}) =>
          \A q \in Resource : gh'.issue[q] = "open" => q \in job'.seen \cup strays'
    BY <1>1, <1>2, LookedBy DEF Inv, Relies, Near, Cleaner
  <2>2. Near({"commit"}) => Looked
    BY LookedBy DEF Near, Cleaner
  <2> QED
    BY <1>1, <1>2, <1>5, <2>1, <2>2 DEF Inv, Relies, Near
<1>10. Untouched' /\ Smooth' /\ Completed'
  BY <1>2, <1>3 DEF Untouched, Smooth, Completed
<1>11. PassIsClean'
  BY <1>1, <1>2, <1>5, LookedBy DEF Inv, PassIsClean, Unseen
<1> QED
  BY <1>6, <1>7, <1>8, <1>9, <1>10, <1>11 DEF Inv

LEMMA LandLabelKeeps == ASSUME TypeOK, Inv, NEW l \in late, l[1] = "label", Land(l) PROVE Inv'
<1> DEFINE after == [gh EXCEPT !.label = TRUE]
<1>1. /\ after.body = gh.body /\ after.ctl = gh.ctl /\ after.label = TRUE
      /\ after.issue = gh.issue /\ after.titled = gh.titled
  BY DEF TypeOK, GitHub
<1>2. /\ gh' = after /\ late' \subseteq late /\ UNCHANGED <<file, pc, job, report, verdict>>
      /\ strays \subseteq strays'
      /\ Looked => "label" \in strays'
      /\ "body" \in strays => "body" \in strays'
  BY DEF Land, Lands
<1> HIDE DEF after
<1>3. /\ report # "none" /\ report # "COMPLETE"
      /\ ~(pc # "idle" /\ job.round # "alone" /\ ~job.failed)
  BY LandsLate
<1>4. /\ Committed' => Committed
      /\ Unseen => Unseen'
      /\ UnseenCtl => UnseenCtl'
      /\ Barren => Barren'
  BY <1>1, <1>2 DEF Unseen, UnseenCtl, Committed, Barren
<1>5. World'
  <2>1. Declares(file)' /\ Declares(gh.body)'
    BY <1>1, <1>2 DEF Declares, Inv, World
  <2> QED
    BY <1>1, <1>2, <1>4, <2>1 DEF Inv, World
<1>6. Known' /\ Early' /\ Working'
  BY <1>1, <1>2, <1>4 DEF Inv, Known, Early, Working, Near
<1>7. Phases'
  BY <1>2, <1>4 DEF Inv, Phases, Near
<1>8. Relies'
  <2>1. Near({"finish", "pass"}) => "label" \in strays'
    BY <1>2, LookedBy DEF Near, Cleaner
  <2> QED
    BY <1>1, <1>2, <1>4, <2>1 DEF Inv, Relies, Near
<1>9. Untouched' /\ Smooth' /\ Completed'
  BY <1>2, <1>3 DEF Untouched, Smooth, Completed
<1>10. PassIsClean'
  BY <1>1, <1>2, LookedBy DEF Inv, PassIsClean
<1> QED
  BY <1>5, <1>6, <1>7, <1>8, <1>9, <1>10 DEF Inv

\* A stale body: it is the state of the file after all, or it is counted.
LEMMA LandBodyKeeps ==
    ASSUME TypeOK, Inv, NEW l \in late, NEW st \in State, l = <<"body", st>>, Land(l)
    PROVE  Inv'
<1> DEFINE after == [gh EXCEPT !.body = st]
<1>1. /\ after.body = st /\ after.ctl = gh.ctl /\ after.label = gh.label
      /\ after.issue = gh.issue /\ after.titled = gh.titled
  BY DEF TypeOK, GitHub
<1>2. /\ gh' = after /\ late' \subseteq late /\ UNCHANGED <<file, pc, job, report, verdict>>
      /\ strays \subseteq strays'
      /\ st = file \/ "body" \in strays'
  BY DEF Land, Lands, LandBody
<1> HIDE DEF after
<1>3. /\ report # "none" /\ report # "COMPLETE" /\ st # NoState
      /\ ~(pc # "idle" /\ job.round # "alone" /\ ~job.failed)
  BY LandsLate, E2EAssumption
<1>4. /\ Committed' => Committed
      /\ Unseen => Unseen'
      /\ UnseenCtl => UnseenCtl'
      /\ Barren => Barren'
  BY <1>1, <1>2 DEF Unseen, UnseenCtl, Committed, Barren
<1>5. World'
  <2>1. Declares(file)'
    BY <1>1, <1>2 DEF Declares, Inv, World
  <2>2. Declares(gh.body)'
    BY <1>1, <1>2, <2>1 DEF Declares
  <2> QED
    BY <1>1, <1>2, <1>4, <2>1, <2>2 DEF Inv, World
<1>6. Known' /\ Early'
  BY <1>1, <1>2, <1>3, <1>4 DEF Inv, Known, Early, Near
<1>7. Working'
  BY <1>1, <1>2 DEF Inv, Working, Near
<1>8. Phases'
  BY <1>2, <1>4 DEF Inv, Phases, Near
<1>9. Relies'
  BY <1>1, <1>2, <1>3, <1>4 DEF Inv, Relies, Near
<1>10. Untouched' /\ Smooth' /\ Completed'
  BY <1>2, <1>3 DEF Untouched, Smooth, Completed
<1>11. PassIsClean'
  BY <1>1, <1>2, <1>4 DEF Inv, PassIsClean
<1> QED
  BY <1>5, <1>6, <1>7, <1>8, <1>9, <1>10, <1>11 DEF Inv

LEMMA LandKeeps == ASSUME TypeOK, Inv, NEW l \in late, Land(l) PROVE Inv'
BY CallShape, LandControlKeeps, LandIssueKeeps, LandLabelKeeps, LandBodyKeeps

-----------------------------------------------------------------------------
(* The theorems.                                                           *)

LEMMA StepInv == TypeOK /\ Inv /\ [Next]_vars => Inv'
<1> SUFFICES ASSUME TypeOK, Inv, [Next]_vars PROVE Inv'
  OBVIOUS
<1>1. CASE StartRun \/ PostControl \/ BindControl \/ MakeLabel \/ TagControl
  BY <1>1, StartRunKeeps, PostControlKeeps, BindControlKeeps, MakeLabelKeeps, TagControlKeeps
<1>2. CASE Declare \/ Create \/ Bind \/ Product \/ Rename \/ StartOwnCleanup
  BY <1>2, DeclareKeeps, CreateKeeps, BindKeeps, ProductKeeps, RenameKeeps, StartOwnCleanupKeeps
<1>3. CASE StartCleanup \/ Sync \/ Load \/ Verify \/ List \/ Match
  BY <1>3, StartCleanupKeeps, SyncKeeps, LoadKeeps, VerifyKeeps, ListKeeps, MatchKeeps
<1>4. CASE Close \/ Commit \/ CloseControl \/ DropLabel \/ Finish \/ Pass
  BY <1>4, CloseKeeps, CommitKeeps, CloseControlKeeps, DropLabelKeeps, FinishKeeps, PassKeeps
<1>5. CASE Crash \/ LoseFile \/ (\E l \in late : Land(l)) \/ Index \/ UNCHANGED vars
  BY <1>5, CrashKeeps, LoseFileKeeps, LandKeeps, IndexKeeps
<1> QED
  BY <1>1, <1>2, <1>3, <1>4, <1>5 DEF Next, Step

\* The invariant of all that follows: after every number of crashes, lost answers,
\* late writes and lost machines, at most MaxFaults of them, the states, the
\* repository and the process at work fit each other as Inv says.
THEOREM Invariance == Spec => [](TypeOK /\ Inv)
<1>1. Init => TypeOK /\ Inv
  BY InitType, InitInv
<1>2. TypeOK /\ Inv /\ [Next]_vars => (TypeOK /\ Inv)'
  BY TypeStep, StepInv DEF Inv
<1> QED
  BY <1>1, <1>2, PTL DEF Spec

\* Every variable has its type: whoever goes on after a crash finds a state that
\* e2e-state.mjs can read, or none.
THEOREM Typing == Spec => []TypeOK
<1> QED
  BY Invariance, PTL

\* live-adapter.mjs, createIssue: whatever exists of the run, or may still come into
\* being, is declared with the titles it may have in the file and in the control
\* issue, whichever of the two is left.
THEOREM AlwaysDeclared == Spec => []DeclaredFirst
<1>1. ASSUME Inv, "body" \notin strays, NEW st \in {file, gh.body} \ {NoState}, NEW r \in Resource
      PROVE  /\ gh.issue[r] # "none" \/ <<"issue", r>> \in late => st.res[r] # "none"
             /\ r \in gh.titled => st.res[r] = "renamed"
  <2>1. Declares(st)
    BY <1>1 DEF Inv, World
  <2> QED
    BY <1>1, <2>1 DEF Declares
<1>2. Inv => DeclaredFirst
  BY <1>1 DEF DeclaredFirst
<1> QED
  BY <1>2, Invariance, PTL

\* cleanup.mjs and report.mjs: a committed state, a PASS and a COMPLETE report are
\* true of the repository, in whichever process and after whichever crash.
THEOREM VerdictsAlwaysClean == Spec => []VerdictsClean
<1>1. Inv => CommittedIsClosed
  BY DEF Inv, World, Committed, Unseen, CommittedIsClosed
<1>2. Inv => ReportIsClean
  BY DEF Inv, Completed, ReportIsClean
<1>3. Inv => VerdictsClean
  BY <1>1, <1>2 DEF Inv, VerdictsClean
<1> QED
  BY <1>3, Invariance, PTL

-----------------------------------------------------------------------------
(***************************************************************************)
(* LiveSessions.  The invariant is LInv, below: Sound says what a session  *)
(* is whatever its client does; EvalInv and ProbeInv say, for each place   *)
(* of the client's program, what its sessions are there, what it recorded, *)
(* and what it still has to do.  First come its parts, then one lemma for  *)
(* each function of a session, then one for each step of a session, of an  *)
(* evaluation and of the probe.                                            *)
(***************************************************************************)

\* The sessions of the probe.
Probed == Sessions \ {"case"}

-----------------------------------------------------------------------------
(* One session. *)

\* What each method awaits.
Awaits(op) ==
    CASE op = "idle"    -> {"none"}
      [] op = "create"  -> {"commands", "state", "reap"}
      [] op = "prompt"  -> {"prompt", "settled", "text", "state"}
      [] op = "entries" -> {"entries"}
      [] op = "stats"   -> {"stats"}
      [] op = "control" -> {"ack"}
      [] op = "close"   -> {"closed"}
      [] op = "exit"    -> {"closed"}

\* Only the last request in the pipe may be one that somebody waits for; before
\* anything went wrong there is no other.
Channel(r) == \A n \in DOMAIN r.inbox :
    /\ r.inbox[n].live /\ r.inbox[n].ask # "abort" => n = Len(r.inbox) /\ r.inbox[n].ask = r.at
    /\ r.error = "none" => r.inbox[n].live /\ r.inbox[n].ask # "abort"

\* A prompt that is under way: nothing has failed, and how far its turn is.
UnderWay(r) ==
    /\ r.op = "create" => r.error = "none" \/ r.at = "reap"
    /\ r.op = "prompt" => r.error = "none"
    /\ r.at = "prompt" => ~r.busy /\ r.settle = "waiting"
    /\ r.op = "prompt" /\ r.at \in {"text", "state"} => ~r.busy /\ r.said = r.turn
    /\ r.op = "prompt" /\ r.at = "state" => r.text = r.turn

SessionOK(r) ==
    /\ r \in Session /\ r.at \in Awaits(r.op) /\ Channel(r) /\ UnderWay(r)
    /\ r.said <= r.turn /\ (r.busy => r.said < r.turn)
    /\ r.op = "close" => r.gone
    /\ r.child = "none" => r.op = "idle" /\ r.error = "none"

\* The child is over, or was told to stop.
Stopped(r) == r.child = "up" => r.term

\* No turn is worked on, and none was asked for that could still begin.
Quiet(r) == ~r.busy /\ \A n \in DOMAIN r.inbox : r.inbox[n].ask # "prompt"

Own(r) == r.text = r.turn /\ r.said = r.turn /\ ~r.busy

\* How a method that has returned left its session.
CloseOK(r) == r.op = "idle" => (r.out = "ok" => r.child = "ended")
CreateOK(r) == r.op = "idle" => (IF r.out = "ok" THEN r.error = "none" ELSE r.child # "up")
PromptOK(r) == r.op = "idle" /\ r.out = "ok" => Own(r) /\ r.error = "none"

Sound(r) == SessionOK(r) /\ (r.gone /\ r.op # "close" => Stopped(r))

\* At most one prompt is still to be taken on, and it is number k.
Asked(r, k) ==
    /\ r.turn <= k
    /\ \A n \in DOMAIN r.inbox : r.inbox[n].ask = "prompt" =>
          /\ r.turn = k - 1
          /\ \A m \in DOMAIN r.inbox : r.inbox[m].ask = "prompt" => m = n

\* The prompt under way is number k.
Under(r, k) == r.turn = IF r.at = "prompt" THEN k - 1 ELSE k

-----------------------------------------------------------------------------
(* The evaluation. *)
Case == s["case"]

\* What the session of an attempt is up to.
AttemptOK ==
    /\ phase = "off" => Case = NoSession
    /\ phase \in {"off", "next", "fail", "turn", "stats", "done"} => Case.op = "idle"
    /\ phase \in {"create", "turn", "answer", "stats", "close", "clean"} => Case.child # "none"
    /\ phase = "create" => Case.op \in {"create", "idle"} /\ CreateOK(Case)
                           /\ Quiet(Case) /\ Case.turn = 0 /\ ~Case.gone /\ turn = 1
    /\ phase = "fail" => Case.child # "up"
    /\ phase = "turn" => Case.error = "none" /\ ~Case.busy /\ Case.turn = turn - 1 /\ ~Case.gone
    /\ phase = "answer" => Case.op \in {"prompt", "idle"} /\ PromptOK(Case) /\ ~Case.gone
    /\ phase \in {"stats"} => ~Case.gone
    /\ phase = "close" => Case.op \in {"stats", "idle"} /\ ~Case.gone
    /\ phase = "clean" => Case.op \in {"close", "idle"} /\ Case.gone /\ CloseOK(Case)
    /\ phase \in {"next", "done"} => Stopped(Case)
    /\ phase \in {"stats", "close", "clean"} /\ ~infra => Quiet(Case)

\* Every prompt of an attempt is for a turn of its own.
Counted ==
    /\ Asked(Case, turn)
    /\ phase = "answer" /\ Case.op = "prompt" => Under(Case, turn)
    /\ phase = "answer" /\ Case.op = "idle" /\ Case.out = "ok" => Case.turn = turn

Did(t) == {p \in Paths : <<t, p>> \in wrote}
Fine(t) == Needed[t] \subseteq Did(t) /\ Did(t) \subseteq Allowed[t]

\* How the workspace, its snapshot and what the turns did stand to each other.
Judged ==
    /\ \A w \in wrote : w[1] <= Case.said
    /\ ~stray =>
       /\ phase \in {"turn", "answer"} => \A t \in 1..(turn - 1) : Fine(t)
       /\ phase = "answer" /\ (Case.op = "prompt" \/ Case.out = "ok") =>
             /\ Case.turn = turn - 1 => tree = before
             /\ Case.turn = turn /\ Case.said # turn => start = before
             /\ Case.said = turn => Did(turn) = modelMutations
       /\ phase \in {"stats", "close", "clean"} /\ ~infra /\ ~errors =>
             turn = Turns /\ \A t \in 1..Turns : Fine(t)

\* The attempts that were made, and those still to make.
InProgress == phase \notin {"off", "next", "done"}

Made(list, j) == \E k \in DOMAIN list :
    list[k].case = j.case /\ list[k].round = j.round /\ list[k].retryOf = j.retryOf

Booked ==
    /\ \A k \in DOMAIN attempts : attempts[k].attempt <= Repeat + k
    /\ \A k \in DOMAIN attempts :
          IF attempts[k].retryOf = 0 THEN attempts[k].attempt = attempts[k].round
          ELSE attempts[k].retryOf = attempts[k].round
    /\ \A k \in DOMAIN todo : todo[k].retryOf \in {0, todo[k].round}
    /\ task.retryOf \in {0, task.round}
    /\ \A j \in FirstTasks : Made(attempts, j) \/ (\E k \in DOMAIN todo : todo[k] = j)
                                     \/ (InProgress /\ task = j)
    /\ \A j, k \in DOMAIN attempts :
          attempts[j].retryOf = 0 /\ attempts[k].retryOf = 0
          /\ attempts[j].case = attempts[k].case /\ attempts[j].round = attempts[k].round
          => j = k
    /\ \A k \in DOMAIN todo : todo[k].retryOf = 0 =>
          /\ ~Made(attempts, todo[k]) /\ \A j \in DOMAIN todo : todo[j] = todo[k] => j = k
          /\ InProgress => task # todo[k]
    /\ InProgress /\ task.retryOf = 0 => ~Made(attempts, task)
    /\ gate.done => phase = "done"

-----------------------------------------------------------------------------
(* The probe. *)

\* The step at which the script creates, prompts and lets go of a session.
Opens   == [i \in Probed |-> CASE i = "tool" -> 1 [] i = "reviewer" -> 3 [] i = "named" -> 5
                               [] i = "resumed" -> 9 [] i = "timeout" -> 13]
Prompts == [i \in Probed |-> CASE i = "tool" -> 2 [] i = "reviewer" -> 4 [] i = "named" -> 6
                               [] i = "resumed" -> 11 [] i = "timeout" -> 14]
LetsGo  == [i \in Probed |-> CASE i = "named" -> 8 [] i = "resumed" -> 12 [] OTHER -> 17]

InScript == mode \in {"call", "wait"}

\* The call at n was not made yet.
Before(n) == InScript /\ (step < n \/ (step = n /\ mode = "call"))

\* Which session may be awaited.
Moving == CASE mode = "wait" -> {On} [] mode = "closing" -> {NextHeld} [] OTHER -> {}

ProbeOK ==
    /\ mode = "off" => \A i \in Probed : s[i] = NoSession
    /\ held \subseteq Probed
    /\ \A i \in Probed \ Moving : s[i].op = "idle"
    /\ InScript => held = {i \in Probed : Opens[i] < step /\ step <= LetsGo[i]}
    /\ mode = "look" => step = 17
    /\ \A i \in Probed \ held :
          Stopped(s[i]) \/ (mode = "wait" /\ On = i /\ Do = "create")
    /\ \A i \in held : s[i].child # "none"
    /\ mode = "closing" => held # {} /\ s[NextHeld].gone

\* What the call that is awaited leaves.
CallOK ==
    mode = "wait" =>
       /\ s[On].op \in {"idle", Do}
       /\ Do = "create" => CreateOK(s[On]) /\ s[On].child # "none"
       /\ Do = "prompt" => PromptOK(s[On])
       /\ step = 8 => CloseOK(s[On])
       /\ Do = "close" => s[On].gone

Unprompted == \A i \in Probed : Before(Prompts[i]) => Quiet(s[i])

Reopened ==
    /\ Before(8) => ~s["named"].gone
    /\ mode # "off" /\ step > 8 => s["named"].child = "ended" /\ "named" \notin held
    /\ step <= 8 \/ Before(9) => s["resumed"].child = "none"

Ending ==
    /\ step > 16 \/ (step = 16 /\ mode = "wait") => s["timeout"].gone
    /\ mode = "look" => "timeout" \in held
    /\ mode \in {"call", "wait", "look"} =>
          /\ step > 2 => results["session"] # "UNTESTED"
          /\ step > 4 => results["reviewer"] # "UNTESTED"
          /\ step > 11 => results["resume"] # "UNTESTED"
    /\ mode \in {"finally", "closing", "done"} =>
          \A c \in Capabilities \ {"timeout"} : results[c] # "UNTESTED"
    /\ results["resume"] = "SUPPORTED" => step >= 11
    /\ forced => s["timeout"].error = "timeout" /\ step > 14
    /\ receipt => prober = "gone"
    /\ results["timeout"] = "SUPPORTED" => evidence
    /\ mode = "done" => results["timeout"] # "UNTESTED"
    /\ mode \in {"done", "threw"} => held = {}
    /\ evidence => /\ mode \in {"finally", "closing", "done", "threw"}
                   /\ "timeout" \notin held
                   /\ s["timeout"].error # "none" /\ s["timeout"].abort = "acked"
                   /\ s["timeout"].child \in {"ended", "died"} /\ prober = "gone"

-----------------------------------------------------------------------------
(* The whole.                                                              *)
AllSound == s \in [Sessions -> Session] /\ \A i \in Sessions : Sound(s[i])

OneClient == phase = "off" <=> mode # "off"

EvalTypes ==
    /\ phase \in {"off", "next", "create", "turn", "answer", "stats", "close", "clean", "fail", "done"}
    /\ todo \in Seq(Task) /\ retry \in 0..RetryFailures /\ task \in Task /\ turn \in 1..Turns
    /\ {tree, before, start} \subseteq [Paths -> 0..2]
    /\ {errors, infra, stray} \subseteq BOOLEAN
    /\ attempts \in Seq(Attempt)
    /\ gate \in [done : BOOLEAN, failed : SUBSET Cases, flaky : SUBSET Cases]
    /\ wrote \subseteq (1..Turns) \X Paths

ProbeTypes ==
    /\ step \in 1..17
    /\ mode \in {"off", "call", "wait", "look", "finally", "closing", "done", "threw"}
    /\ held \subseteq Sessions
    /\ results \in [Capabilities -> {"UNTESTED", "SUPPORTED", "BLOCKED"}]
    /\ prober \in {"none", "up", "gone"}
    /\ {forced, receipt, evidence} \subseteq BOOLEAN

EvalInv == AttemptOK /\ Counted /\ Judged /\ Booked /\ TurnJudged /\ PassedIsOver /\ GateHonest

ProbeInv == ProbeOK /\ CallOK /\ Unprompted /\ Reopened /\ Ending

LInv == AllSound /\ OneClient /\ EvalTypes /\ ProbeTypes /\ EvalInv /\ ProbeInv

-----------------------------------------------------------------------------
(* What a step of the child or of a timer does to a session.               *)

Steady(r, q) == q.turn = r.turn /\ q.said = r.said
Begins(r, q) == q.turn = r.turn + 1 /\ q.said \in {r.said, q.turn}
Settles(r, q) == q.turn = r.turn /\ q.said = r.turn /\ r.busy

Moves(r, q) ==
    /\ SessionOK(q)
    /\ q.gone = r.gone /\ q.op \in {r.op, "idle"}
    /\ r.error # "none" => q.error = r.error
    /\ (q.child = "up" => r.child = "up") /\ q.child # "none" /\ (r.term => q.term)
    /\ Quiet(r) => Quiet(q) /\ Steady(r, q)
    /\ Steady(r, q) \/ Begins(r, q) \/ Settles(r, q)
    /\ \A k \in Nat : Asked(r, k) => Asked(q, k)
    /\ r.op = "create" => CreateOK(q)
    /\ r.op = "prompt" =>
          /\ PromptOK(q)
          /\ \A k \in Nat : Under(r, k) => /\ q.op = "prompt" => Under(q, k)
                                           /\ q.op = "idle" /\ q.out = "ok" => q.turn = k
    /\ r.op = "close" => CloseOK(q) /\ (q.op = "idle" => Stopped(q))

\* What is left of a session when all that was awaited has failed.
Requests == [ask : Asks, live : BOOLEAN]

\* What the fields of a session may be.
LEMMA FieldTypes == ASSUME NEW r \in Session
    PROVE  /\ r.child \in {"none", "up", "ended", "died"} /\ r.term \in BOOLEAN /\ r.eof \in BOOLEAN
           /\ r.inbox \in Seq(Requests)
           /\ r.op \in {"idle", "create", "prompt", "entries", "stats", "control", "close", "exit"}
           /\ r.at \in Asks \cup {"none", "settled", "reap", "closed", "ack"}
           /\ r.out \in {"none", "ok", "failed"}
           /\ r.settle \in {"none", "waiting", "done", "failed"}
           /\ r.error \in {"none", "timeout", "jsonl", "died"}
           /\ r.abort \in {"none", "asked", "acked", "failed"}
           /\ r.kill \in BOOLEAN /\ r.busy \in BOOLEAN
           /\ r.turn \in Nat /\ r.said \in Nat /\ r.text \in Nat /\ r.gone \in BOOLEAN
BY DEF Session, Requests

\* A change of one of its fields leaves a session a session.
LEMMA Field == ASSUME NEW r \in Session
    PROVE  /\ \A v \in {"none", "up", "ended", "died"} : [r EXCEPT !.child = v] \in Session
           /\ \A v \in BOOLEAN : /\ [r EXCEPT !.term = v] \in Session
                               /\ [r EXCEPT !.eof = v] \in Session
                               /\ [r EXCEPT !.kill = v] \in Session
                               /\ [r EXCEPT !.busy = v] \in Session
                               /\ [r EXCEPT !.gone = v] \in Session
           /\ \A v \in Seq(Requests) : [r EXCEPT !.inbox = v] \in Session
           /\ \A v \in {"none", "waiting", "done", "failed"} : [r EXCEPT !.settle = v] \in Session
           /\ \A v \in {"none", "timeout", "jsonl", "died"} : [r EXCEPT !.error = v] \in Session
           /\ \A v \in {"none", "asked", "acked", "failed"} : [r EXCEPT !.abort = v] \in Session
           /\ \A v \in Nat : /\ [r EXCEPT !.turn = v] \in Session
                            /\ [r EXCEPT !.said = v] \in Session
                            /\ [r EXCEPT !.text = v] \in Session
           /\ \A v \in {"none", "ok", "failed"} : [r EXCEPT !.out = v] \in Session
           /\ \A v \in Asks \cup {"none", "settled", "reap", "closed", "ack"} : [r EXCEPT !.at = v] \in Session
           /\ \A v \in {"idle", "create", "prompt", "entries", "stats", "control", "close", "exit"} :
                 [r EXCEPT !.op = v] \in Session
<1>1. /\ \A v \in {"none", "up", "ended", "died"} : [r EXCEPT !.child = v] \in Session
      /\ \A v \in BOOLEAN : [r EXCEPT !.term = v] \in Session /\ [r EXCEPT !.eof = v] \in Session
  BY DEF Session
<1>2. \A v \in BOOLEAN : /\ [r EXCEPT !.kill = v] \in Session /\ [r EXCEPT !.busy = v] \in Session
                        /\ [r EXCEPT !.gone = v] \in Session
  BY DEF Session
<1>3. \A v \in Seq(Requests) : [r EXCEPT !.inbox = v] \in Session
  BY DEF Session, Requests
<1>4. /\ \A v \in {"none", "waiting", "done", "failed"} : [r EXCEPT !.settle = v] \in Session
      /\ \A v \in {"none", "timeout", "jsonl", "died"} : [r EXCEPT !.error = v] \in Session
  BY DEF Session
<1>5. /\ \A v \in {"none", "asked", "acked", "failed"} : [r EXCEPT !.abort = v] \in Session
      /\ \A v \in {"none", "ok", "failed"} : [r EXCEPT !.out = v] \in Session
  BY DEF Session
<1>6. \A v \in Nat : /\ [r EXCEPT !.turn = v] \in Session /\ [r EXCEPT !.said = v] \in Session
                    /\ [r EXCEPT !.text = v] \in Session
  BY DEF Session
<1>7. \A v \in Asks \cup {"none", "settled", "reap", "closed", "ack"} : [r EXCEPT !.at = v] \in Session
  BY DEF Session
<1>8. \A v \in {"idle", "create", "prompt", "entries", "stats", "control", "close", "exit"} :
         [r EXCEPT !.op = v] \in Session
  BY DEF Session
<1> QED
  BY <1>1, <1>2, <1>3, <1>4, <1>5, <1>6, <1>7, <1>8

\* A method returns, asks for something, or the child is told to stop.
LEMMA ReturnIs == ASSUME NEW r \in Session, NEW how \in {"ok", "failed"}
    PROVE  LET q == Return(r, how) IN
           /\ q \in Session /\ q.op = "idle" /\ q.at = "none" /\ q.out = how
           /\ q.child = r.child /\ q.term = r.term /\ q.inbox = r.inbox /\ q.settle = r.settle
           /\ q.error = r.error /\ q.abort = r.abort /\ q.kill = r.kill /\ q.busy = r.busy
           /\ q.turn = r.turn /\ q.said = r.said /\ q.text = r.text /\ q.gone = r.gone
<1>1. Return(r, how) \in Session
  BY DEF Return, Session
<1> QED
  BY <1>1 DEF Return, Session

\* terminate() changes nothing but that the child was told to stop.
LEMMA TerminateIs == ASSUME NEW r \in Session
    PROVE  LET q == terminate(r) IN
           /\ q \in Session /\ q.op = r.op /\ q.at = r.at /\ q.out = r.out
           /\ q.child = r.child /\ q.inbox = r.inbox /\ q.settle = r.settle
           /\ q.error = r.error /\ q.abort = r.abort /\ q.kill = r.kill /\ q.busy = r.busy
           /\ q.turn = r.turn /\ q.said = r.said /\ q.text = r.text /\ q.gone = r.gone
           /\ q.term = (r.term \/ r.child = "up")
<1>1. terminate(r) \in Session
  BY DEF terminate, Session
<1> QED
  BY <1>1 DEF terminate, Session

\* What a method awaits changes nothing else.
LEMMA AtIs == ASSUME NEW r \in Session, NEW v \in Asks \cup {"none", "settled", "reap", "closed", "ack"}
    PROVE  LET q == [r EXCEPT !.at = v] IN
           /\ q \in Session /\ q.op = r.op /\ q.at = v /\ q.out = r.out /\ q.term = r.term
           /\ q.child = r.child /\ q.inbox = r.inbox /\ q.settle = r.settle
           /\ q.error = r.error /\ q.abort = r.abort /\ q.kill = r.kill /\ q.busy = r.busy
           /\ q.turn = r.turn /\ q.said = r.said /\ q.text = r.text /\ q.gone = r.gone
<1>1. [r EXCEPT !.at = v] \in Session
  BY Field
<1> QED
  BY <1>1 DEF Session

\* A method that throws.
LEMMA ThrowIs == ASSUME NEW r \in Session
    PROVE  LET q == Throw(r) IN
           /\ q \in Session
           /\ q.child = r.child /\ q.inbox = r.inbox /\ q.settle = r.settle
           /\ q.error = r.error /\ q.abort = r.abort /\ q.kill = r.kill /\ q.busy = r.busy
           /\ q.turn = r.turn /\ q.said = r.said /\ q.text = r.text /\ q.gone = r.gone
           /\ r.term => q.term
           /\ IF r.op = "create" THEN q.op = "create" /\ q.at = "reap" /\ q.out = r.out
              ELSE q.op = "idle" /\ q.at = "none" /\ q.out = "failed"
<1>1. CASE r.op = "create"
  <2> DEFINE p == terminate(r)
  <2>1. Throw(r) = [p EXCEPT !.at = "reap"]
    BY <1>1 DEF Throw
  <2>2. p \in Session
    BY TerminateIs
  <2>3. /\ p.child = r.child /\ p.inbox = r.inbox /\ p.settle = r.settle
        /\ p.error = r.error /\ p.abort = r.abort /\ p.kill = r.kill /\ p.busy = r.busy
        /\ p.turn = r.turn /\ p.said = r.said /\ p.text = r.text /\ p.gone = r.gone
        /\ p.op = r.op /\ p.out = r.out /\ (r.term => p.term)
    BY TerminateIs
  <2> QED
    <3> HIDE DEF p
    <3> QED
      BY <1>1, <2>1, <2>2, <2>3, AtIs
<1>2. CASE r.op # "create"
  <2>1. Throw(r) = Return(r, "failed")
    BY <1>2 DEF Throw
  <2> QED
    BY <1>2, <2>1, ReturnIs
<1> QED
  BY <1>1, <1>2

\* The pipe without its first request.
LEMMA InboxTypes == ASSUME NEW r \in Session
    PROVE  /\ Len(r.inbox) \in Nat /\ DOMAIN r.inbox = 1..Len(r.inbox)
           /\ \A n \in DOMAIN r.inbox : r.inbox[n] \in Requests
           /\ r.inbox # <<>> => /\ 1 \in DOMAIN r.inbox /\ Head(r.inbox) = r.inbox[1]
                                /\ Tail(r.inbox) \in Seq(Requests)
                                /\ Len(Tail(r.inbox)) = Len(r.inbox) - 1
                                /\ DOMAIN Tail(r.inbox) = 1..(Len(r.inbox) - 1)
                                /\ \A n \in DOMAIN Tail(r.inbox) : Tail(r.inbox)[n] = r.inbox[n + 1]
<1>1. r.inbox \in Seq(Requests)
  BY FieldTypes
<1> HIDE DEF Requests
<1> QED
  BY <1>1, HeadTailProperties

\* Requests nobody waits for any more are in the pipe as they were.
LEMMA Dead == ASSUME NEW box \in Seq(Requests)
    PROVE  LET dead == [n \in DOMAIN box |-> [box[n] EXCEPT !.live = FALSE]] IN
           /\ dead \in Seq(Requests) /\ Len(dead) = Len(box) /\ DOMAIN dead = DOMAIN box
           /\ \A n \in DOMAIN box : dead[n].ask = box[n].ask /\ ~dead[n].live
<1>1. DOMAIN box = 1..Len(box) /\ Len(box) \in Nat /\ \A n \in DOMAIN box : box[n] \in Requests
  OBVIOUS
<1>2. \A n \in DOMAIN box : [box[n] EXCEPT !.live = FALSE] \in Requests
  BY <1>1 DEF Requests
<1> QED
  BY <1>1, <1>2 DEF Requests

\* failPending() ends the method in progress and leaves its requests to nobody.
LEMMA FailIs == ASSUME NEW r \in Session, NEW cause \in {"timeout", "jsonl", "died"}
    PROVE  LET f == failPending(r, cause) IN
           /\ f \in Session
           /\ f.error # "none" /\ (r.error # "none" => f.error = r.error)
           /\ f.child = r.child /\ f.busy = r.busy /\ f.turn = r.turn /\ f.said = r.said
           /\ f.text = r.text /\ f.gone = r.gone /\ f.kill = r.kill
           /\ r.term => f.term
           /\ DOMAIN f.inbox = DOMAIN r.inbox /\ Len(f.inbox) = Len(r.inbox)
           /\ \A n \in DOMAIN r.inbox : f.inbox[n].ask = r.inbox[n].ask /\ ~f.inbox[n].live
           /\ IF r.at \in Timed
              THEN IF r.op = "create" THEN f.op = "create" /\ f.at = "reap" /\ f.out = r.out
                   ELSE f.op = "idle" /\ f.at = "none" /\ f.out = "failed"
              ELSE IF r.at = "ack" THEN f.op = "idle" /\ f.at = "none" /\ f.out = "ok"
              ELSE f.op = r.op /\ f.at = r.at /\ f.out = r.out
<1> DEFINE box == [n \in DOMAIN r.inbox |-> [r.inbox[n] EXCEPT !.live = FALSE]]
           dead == [r EXCEPT !.error  = IF @ = "none" THEN cause ELSE @,
                          !.settle = IF @ = "waiting" THEN "failed" ELSE @,
                          !.abort  = IF @ = "asked" THEN "failed" ELSE @,
                          !.inbox  = box]
<1>1. /\ box \in Seq(Requests) /\ Len(box) = Len(r.inbox) /\ DOMAIN box = DOMAIN r.inbox
      /\ \A n \in DOMAIN r.inbox : box[n].ask = r.inbox[n].ask /\ ~box[n].live
  BY FieldTypes, Dead
<1> HIDE DEF box
<1>2. dead \in Session
  <2> DEFINE r1 == [r EXCEPT !.error = IF @ = "none" THEN cause ELSE @]
             r2 == [r1 EXCEPT !.settle = IF @ = "waiting" THEN "failed" ELSE @]
             r3 == [r2 EXCEPT !.abort = IF @ = "asked" THEN "failed" ELSE @]
             r4 == [r3 EXCEPT !.inbox = box]
  <2>1. r1 \in Session
    BY FieldTypes, Field
  <2>2. r2 \in Session
    <3> HIDE DEF r1
    <3> QED
      BY <2>1, FieldTypes, Field
  <2>3. r3 \in Session
    <3> HIDE DEF r2
    <3> QED
      BY <2>2, FieldTypes, Field
  <2>4. r4 \in Session
    <3> HIDE DEF r3
    <3> QED
      BY <1>1, <2>3, Field
  <2> QED
    BY <2>4 DEF Session
<1>3. /\ dead.error # "none" /\ (r.error # "none" => dead.error = r.error)
      /\ dead.child = r.child /\ dead.busy = r.busy /\ dead.turn = r.turn /\ dead.said = r.said
      /\ dead.text = r.text /\ dead.gone = r.gone /\ dead.kill = r.kill /\ dead.term = r.term
      /\ dead.op = r.op /\ dead.at = r.at /\ dead.out = r.out /\ dead.inbox = box
  BY DEF Session
<1>4. failPending(r, cause) = IF r.at \in Timed THEN Throw(dead)
                              ELSE IF r.at = "ack" THEN Return(dead, "ok") ELSE dead
  BY DEF failPending, box
<1> HIDE DEF dead
<1>5. CASE r.at \in Timed
  <2>1. failPending(r, cause) = Throw(dead)
    BY <1>4, <1>5
  <2> QED
    BY <1>1, <1>2, <1>3, <1>5, <2>1, ThrowIs
<1>6. CASE r.at \notin Timed /\ r.at = "ack"
  <2>1. failPending(r, cause) = Return(dead, "ok")
    BY <1>4, <1>6
  <2> QED
    BY <1>1, <1>2, <1>3, <1>6, <2>1, ReturnIs
<1>7. CASE r.at \notin Timed /\ r.at # "ack"
  <2>1. failPending(r, cause) = dead
    BY <1>4, <1>7
  <2> QED
    BY <1>1, <1>2, <1>3, <1>7, <2>1
<1> QED
  BY <1>5, <1>6, <1>7

\* A request is sent, and one that is waited for.
LEMMA SentIs == ASSUME NEW r \in Session, NEW ask \in Asks
    PROVE  LET q == Sent(r, ask) IN
           /\ q \in Session /\ q.op = r.op /\ q.at = r.at /\ q.out = r.out /\ q.term = r.term
           /\ q.child = r.child /\ q.settle = r.settle
           /\ q.error = r.error /\ q.abort = r.abort /\ q.kill = r.kill /\ q.busy = r.busy
           /\ q.turn = r.turn /\ q.said = r.said /\ q.text = r.text /\ q.gone = r.gone
           /\ q.inbox = IF r.child = "up" THEN Append(r.inbox, [ask |-> ask, live |-> TRUE]) ELSE r.inbox
<1> DEFINE box == Append(r.inbox, [ask |-> ask, live |-> TRUE])
<1>1. box \in Seq(Requests)
  <2>1. r.inbox \in Seq(Requests) /\ [ask |-> ask, live |-> TRUE] \in Requests
    BY FieldTypes DEF Requests
  <2> HIDE DEF Requests
  <2> QED
    BY <2>1
<1>2. Sent(r, ask) = IF r.child = "up" THEN [r EXCEPT !.inbox = box] ELSE r
  BY DEF Sent
<1> HIDE DEF box
<1>3. [r EXCEPT !.inbox = box] \in Session
  BY <1>1, Field
<1>4. LET q == [r EXCEPT !.inbox = box] IN
           /\ q.op = r.op /\ q.at = r.at /\ q.out = r.out /\ q.term = r.term
           /\ q.child = r.child /\ q.settle = r.settle
           /\ q.error = r.error /\ q.abort = r.abort /\ q.kill = r.kill /\ q.busy = r.busy
           /\ q.turn = r.turn /\ q.said = r.said /\ q.text = r.text /\ q.gone = r.gone
           /\ q.inbox = box
  BY DEF Session
<1> QED
  BY <1>2, <1>3, <1>4 DEF box

\* A request somebody waits for is the last in the pipe.
LEMMA AskIs == ASSUME NEW r \in Session, NEW ask \in Asks
    PROVE  LET q == Ask(r, ask) IN
           /\ q \in Session /\ q.op = r.op /\ q.at = ask /\ q.out = r.out /\ q.term = r.term
           /\ q.child = r.child /\ q.settle = r.settle
           /\ q.error = r.error /\ q.abort = r.abort /\ q.kill = r.kill /\ q.busy = r.busy
           /\ q.turn = r.turn /\ q.said = r.said /\ q.text = r.text /\ q.gone = r.gone
           /\ q.inbox = IF r.child = "up" THEN Append(r.inbox, [ask |-> ask, live |-> TRUE]) ELSE r.inbox
<1> DEFINE p == Sent(r, ask)
<1>1. Ask(r, ask) = [p EXCEPT !.at = ask]
  BY DEF Ask
<1>2. p \in Session
  BY SentIs
<1>3. /\ p.op = r.op /\ p.out = r.out /\ p.term = r.term
      /\ p.child = r.child /\ p.settle = r.settle
      /\ p.error = r.error /\ p.abort = r.abort /\ p.kill = r.kill /\ p.busy = r.busy
      /\ p.turn = r.turn /\ p.said = r.said /\ p.text = r.text /\ p.gone = r.gone
      /\ p.inbox = IF r.child = "up" THEN Append(r.inbox, [ask |-> ask, live |-> TRUE]) ELSE r.inbox
  BY SentIs
<1> HIDE DEF p
<1> QED
  BY <1>1, <1>2, <1>3, AtIs

\* The answer to a request is taken from the pipe.
Alike(r, q) == /\ q.op = r.op /\ q.at = r.at /\ q.out = r.out /\ q.term = r.term
               /\ q.child = r.child /\ q.error = r.error /\ q.kill = r.kill
               /\ q.text = r.text /\ q.gone = r.gone

\* A request is taken from the pipe.
LEMMA TakenIs == ASSUME NEW r \in Session, r.inbox # << >>
    PROVE  LET q == [r EXCEPT !.inbox = Tail(@)] IN
           /\ q \in Session /\ Alike(r, q) /\ q.inbox = Tail(r.inbox)
           /\ q.settle = r.settle /\ q.abort = r.abort /\ q.busy = r.busy
           /\ q.turn = r.turn /\ q.said = r.said
<1> DEFINE box == Tail(r.inbox)
<1>1. box \in Seq(Requests)
  BY InboxTypes
<1>2. [r EXCEPT !.inbox = Tail(@)] = [r EXCEPT !.inbox = box]
  OBVIOUS
<1> HIDE DEF box
<1>3. [r EXCEPT !.inbox = box] \in Session
  BY <1>1, Field
<1>4. LET q == [r EXCEPT !.inbox = box] IN
           /\ Alike(r, q) /\ q.inbox = box
           /\ q.settle = r.settle /\ q.abort = r.abort /\ q.busy = r.busy
           /\ q.turn = r.turn /\ q.said = r.said
  BY DEF Session, Alike
<1> QED
  BY <1>2, <1>3, <1>4 DEF box

\* A turn begins, and a turn is broken off.
LEMMA WorksIs == ASSUME NEW r \in Session
    PROVE  /\ LET q == [r EXCEPT !.busy = TRUE, !.turn = @ + 1] IN
              /\ q \in Session /\ Alike(r, q) /\ q.inbox = r.inbox
              /\ q.settle = r.settle /\ q.abort = r.abort /\ q.busy
              /\ q.turn = r.turn + 1 /\ q.said = r.said
           /\ LET q == [r EXCEPT !.busy = FALSE] IN
              /\ q \in Session /\ Alike(r, q) /\ q.inbox = r.inbox
              /\ q.settle = r.settle /\ q.abort = r.abort /\ ~q.busy
              /\ q.turn = r.turn /\ q.said = r.said
<1>1. [r EXCEPT !.busy = FALSE] \in Session
  BY Field
<1>2. LET q == [r EXCEPT !.busy = FALSE] IN
              /\ Alike(r, q) /\ q.inbox = r.inbox
              /\ q.settle = r.settle /\ q.abort = r.abort /\ ~q.busy
              /\ q.turn = r.turn /\ q.said = r.said
  BY DEF Session, Alike
<1>3. [r EXCEPT !.busy = TRUE, !.turn = @ + 1] \in Session
  <2> DEFINE p == [r EXCEPT !.busy = TRUE]
  <2>1. p \in Session
    BY Field
  <2>2. p.turn \in Nat
    BY <2>1, FieldTypes
  <2>3. [p EXCEPT !.turn = p.turn + 1] \in Session
    <3> DEFINE v == p.turn + 1
    <3>1. v \in Nat
      BY <2>2
    <3> HIDE DEF p, v
    <3>2. [p EXCEPT !.turn = v] \in Session
      BY <2>1, <3>1, Field
    <3> QED
      BY <3>2 DEF v
  <2>4. p.turn = r.turn
    BY DEF Session
  <2>5. [r EXCEPT !.busy = TRUE, !.turn = @ + 1] = [p EXCEPT !.turn = r.turn + 1]
    OBVIOUS
  <2> QED
    BY <2>3, <2>4, <2>5
<1>4. LET q == [r EXCEPT !.busy = TRUE, !.turn = @ + 1] IN
              /\ Alike(r, q) /\ q.inbox = r.inbox
              /\ q.settle = r.settle /\ q.abort = r.abort /\ q.busy
              /\ q.turn = r.turn + 1 /\ q.said = r.said
  BY DEF Session, Alike
<1> QED
  BY <1>1, <1>2, <1>3, <1>4

Settled(r, settle) == [r EXCEPT !.busy = FALSE, !.said = r.turn, !.settle = settle]

\* A turn ends with its last message.
LEMMA SettlesIs == ASSUME NEW r \in Session, NEW settle \in {"none", "waiting", "done", "failed"}
    PROVE  LET q == Settled(r, settle) IN
           /\ q \in Session /\ Alike(r, q) /\ q.inbox = r.inbox
           /\ q.settle = settle /\ q.abort = r.abort /\ ~q.busy
           /\ q.turn = r.turn /\ q.said = r.turn
<1> DEFINE p1 == [r EXCEPT !.busy = FALSE]
           p2 == [p1 EXCEPT !.said = r.turn]
<1>1. p1 \in Session
  BY Field
<1>2. p2 \in Session
  <2>1. r.turn \in Nat
    BY FieldTypes
  <2> HIDE DEF p1
  <2> QED
    BY <1>1, <2>1, Field
<1>3. [p2 EXCEPT !.settle = settle] \in Session
  <2> HIDE DEF p2
  <2> QED
    BY <1>2, Field
<1>4. [p2 EXCEPT !.settle = settle] = Settled(r, settle)
  BY DEF Session, Settled
<1>5. LET q == Settled(r, settle) IN
           /\ Alike(r, q) /\ q.inbox = r.inbox
           /\ q.settle = settle /\ q.abort = r.abort /\ ~q.busy
           /\ q.turn = r.turn /\ q.said = r.turn
  BY DEF Session, Alike, Settled
<1> QED
  BY <1>3, <1>4, <1>5

\* How far the abort of a timed-out prompt is.
LEMMA AbortIs == ASSUME NEW r \in Session, NEW how \in {"none", "asked", "acked", "failed"}
    PROVE  LET q == [r EXCEPT !.abort = how] IN
           /\ q \in Session /\ Alike(r, q) /\ q.inbox = r.inbox
           /\ q.settle = r.settle /\ q.abort = how /\ q.busy = r.busy
           /\ q.turn = r.turn /\ q.said = r.said
<1>1. [r EXCEPT !.abort = how] \in Session
  BY Field
<1> QED
  BY <1>1 DEF Session, Alike

\* The record of a settled turn changes nothing else.
LEMMA SettleIs == ASSUME NEW r \in Session, NEW settle \in {"none", "waiting", "done", "failed"}
    PROVE  LET q == [r EXCEPT !.settle = settle] IN
           /\ q \in Session /\ Alike(r, q) /\ q.inbox = r.inbox
           /\ q.settle = settle /\ q.abort = r.abort /\ q.busy = r.busy
           /\ q.turn = r.turn /\ q.said = r.said
<1>1. [r EXCEPT !.settle = settle] \in Session
  BY Field
<1> QED
  BY <1>1 DEF Session, Alike

\* The text of the last message changes nothing else.
LEMMA TextIs == ASSUME NEW r \in Session, NEW text \in Nat
    PROVE  LET q == [r EXCEPT !.text = text] IN
           /\ q \in Session /\ q.op = r.op /\ q.at = r.at /\ q.out = r.out /\ q.term = r.term
           /\ q.child = r.child /\ q.inbox = r.inbox /\ q.settle = r.settle
           /\ q.error = r.error /\ q.abort = r.abort /\ q.kill = r.kill /\ q.busy = r.busy
           /\ q.turn = r.turn /\ q.said = r.said /\ q.text = text /\ q.gone = r.gone
<1>1. [r EXCEPT !.text = text] \in Session
  BY Field
<1> QED
  BY <1>1 DEF Session

\* The method in progress takes its next step.
LEMMA ResumeIs == ASSUME NEW r \in Session, r.child = "up"
    PROVE  LET q == Resume(r) IN
           /\ q \in Session /\ q.term = r.term /\ q.child = r.child /\ q.settle = r.settle
           /\ q.error = r.error /\ q.abort = r.abort /\ q.kill = r.kill /\ q.busy = r.busy
           /\ q.turn = r.turn /\ q.said = r.said /\ q.gone = r.gone
           /\ IF r.op = "create" /\ r.at = "commands"
              THEN /\ q.op = "create" /\ q.at = "state" /\ q.out = r.out /\ q.text = r.text
                   /\ q.inbox = Append(r.inbox, [ask |-> "state", live |-> TRUE])
              ELSE IF r.op = "prompt" /\ r.at = "prompt" /\ r.settle # "done"
              THEN /\ q.op = "prompt" /\ q.at = "settled" /\ q.out = r.out /\ q.text = r.text
                   /\ q.inbox = r.inbox
              ELSE IF r.op = "prompt" /\ r.at \in {"prompt", "settled"}
              THEN /\ q.op = "prompt" /\ q.at = "text" /\ q.out = r.out /\ q.text = r.text
                   /\ q.inbox = Append(r.inbox, [ask |-> "text", live |-> TRUE])
              ELSE IF r.op = "prompt" /\ r.at = "text"
              THEN /\ q.op = "prompt" /\ q.at = "state" /\ q.out = r.out /\ q.text = r.said
                   /\ q.inbox = Append(r.inbox, [ask |-> "state", live |-> TRUE])
              ELSE /\ q.op = "idle" /\ q.at = "none" /\ q.out = "ok" /\ q.text = r.text
                   /\ q.inbox = r.inbox
<1>1. CASE r.op = "create" /\ r.at = "commands"
  <2>1. Resume(r) = Ask(r, "state")
    BY <1>1 DEF Resume
  <2>2. LET q == Ask(r, "state") IN
           /\ q \in Session /\ q.term = r.term /\ q.child = r.child /\ q.settle = r.settle
           /\ q.error = r.error /\ q.abort = r.abort /\ q.kill = r.kill /\ q.busy = r.busy
           /\ q.turn = r.turn /\ q.said = r.said /\ q.gone = r.gone
           /\ q.op = r.op /\ q.at = "state" /\ q.out = r.out /\ q.text = r.text
           /\ q.inbox = Append(r.inbox, [ask |-> "state", live |-> TRUE])
    BY AskIs DEF Asks
  <2> QED
    BY <1>1, <2>1, <2>2
<1>2. CASE r.op = "prompt" /\ r.at = "prompt" /\ r.settle # "done"
  <2>1. Resume(r) = [r EXCEPT !.at = "settled"]
    BY <1>2 DEF Resume
  <2> QED
    BY <1>2, <2>1, AtIs
<1>3. CASE r.op = "prompt" /\ r.at \in {"prompt", "settled"} /\ ~(r.at = "prompt" /\ r.settle # "done")
  <2>1. Resume(r) = Ask(r, "text")
    BY <1>3 DEF Resume
  <2>2. LET q == Ask(r, "text") IN
           /\ q \in Session /\ q.term = r.term /\ q.child = r.child /\ q.settle = r.settle
           /\ q.error = r.error /\ q.abort = r.abort /\ q.kill = r.kill /\ q.busy = r.busy
           /\ q.turn = r.turn /\ q.said = r.said /\ q.gone = r.gone
           /\ q.op = r.op /\ q.at = "text" /\ q.out = r.out /\ q.text = r.text
           /\ q.inbox = Append(r.inbox, [ask |-> "text", live |-> TRUE])
    BY AskIs DEF Asks
  <2> QED
    BY <1>3, <2>1, <2>2
<1>4. CASE r.op = "prompt" /\ r.at = "text"
  <2> DEFINE p == Ask(r, "state")
  <2>1. Resume(r) = [p EXCEPT !.text = r.said]
    BY <1>4 DEF Resume
  <2>2. /\ p \in Session /\ p.op = r.op /\ p.at = "state" /\ p.out = r.out /\ p.term = r.term
        /\ p.child = r.child /\ p.settle = r.settle
        /\ p.error = r.error /\ p.abort = r.abort /\ p.kill = r.kill /\ p.busy = r.busy
        /\ p.turn = r.turn /\ p.said = r.said /\ p.gone = r.gone
        /\ p.inbox = Append(r.inbox, [ask |-> "state", live |-> TRUE])
    BY AskIs DEF Asks
  <2>3. r.said \in Nat
    BY FieldTypes
  <2> HIDE DEF p
  <2> QED
    BY <1>4, <2>1, <2>2, <2>3, TextIs
<1>5. CASE /\ ~(r.op = "create" /\ r.at = "commands")
           /\ ~(r.op = "prompt" /\ r.at \in {"prompt", "settled", "text"})
  <2>1. Resume(r) = Return(r, "ok")
    BY <1>5 DEF Resume
  <2> QED
    BY <1>5, <2>1, ReturnIs
<1> QED
  BY <1>1, <1>2, <1>3, <1>4, <1>5

\* A refused request fails the method that waits for it.
LEMMA RefusedIs == ASSUME NEW r \in Session
    PROVE  LET q == Refused(r) IN
           /\ q \in Session /\ q.child = r.child /\ q.inbox = r.inbox
           /\ q.error = r.error /\ q.abort = r.abort /\ q.kill = r.kill /\ q.busy = r.busy
           /\ q.turn = r.turn /\ q.said = r.said /\ q.text = r.text /\ q.gone = r.gone
           /\ r.term => q.term
           /\ IF r.op = "create" THEN q.op = "create" /\ q.at = "reap" /\ q.out = r.out
              ELSE q.op = "idle" /\ q.at = "none" /\ q.out = "failed"
<1> DEFINE p == IF r.at = "prompt" THEN [r EXCEPT !.settle = "none"] ELSE r
<1>1. Refused(r) = Throw(p)
  BY DEF Refused
<1>2. p \in Session /\ Alike(r, p) /\ p.inbox = r.inbox /\ p.abort = r.abort /\ p.busy = r.busy
      /\ p.turn = r.turn /\ p.said = r.said
  BY SettleIs DEF Alike
<1> HIDE DEF p
<1> QED
  BY <1>1, <1>2, ThrowIs DEF Alike

\* What one request in an empty pipe looks like.
LEMMA OneRequest == ASSUME NEW ask
    PROVE  LET box == Append(<< >>, [ask |-> ask, live |-> TRUE]) IN
           /\ Len(box) = 1 /\ DOMAIN box = {1} /\ box[1].ask = ask /\ box[1].live
  OBVIOUS

-----------------------------------------------------------------------------
(* Answers.                                                                *)

\* An answer somebody waits for leaves the pipe empty.
LEMMA LiveHead == ASSUME NEW r, SessionOK(r), r.inbox # << >>,
                         Head(r.inbox).live, Head(r.inbox).ask # "abort"
    PROVE  /\ Len(r.inbox) = 1 /\ Tail(r.inbox) = << >> /\ Head(r.inbox).ask = r.at
           /\ 1 \in DOMAIN r.inbox /\ r.inbox[1].ask = r.at /\ r.at \in Asks \ {"abort"}
           /\ r.op # "create" => r.at # "commands"
           /\ r.op \notin {"create", "prompt"} => r.at \in {"entries", "stats"}
           /\ r.op = "create" => r.at \in {"commands", "state"}
           /\ r.op = "prompt" => r.at \in {"prompt", "text", "state"}
<1>1. r \in Session /\ r.at \in Awaits(r.op) /\ Channel(r)
  BY DEF SessionOK
<1>2. 1 \in DOMAIN r.inbox /\ Head(r.inbox) = r.inbox[1]
  BY <1>1, InboxTypes
<1>3. Len(r.inbox) = 1 /\ Head(r.inbox).ask = r.at
  BY <1>1, <1>2 DEF Channel
<1>4. Tail(r.inbox) = << >>
  <2>1. Tail(r.inbox) \in Seq(Requests) /\ Len(Tail(r.inbox)) = 0
    BY <1>1, <1>3, InboxTypes
  <2> QED
    BY <2>1, EmptySeq
<1>5. r.at \in Asks \ {"abort"}
  BY <1>1, <1>2, <1>3, InboxTypes DEF Requests
<1>6. r.op \in {"idle", "create", "prompt", "entries", "stats", "control", "close", "exit"}
  BY <1>1, FieldTypes
<1> QED
  BY <1>1, <1>2, <1>3, <1>4, <1>5, <1>6 DEF Awaits, Asks

\* The method goes on with the answer.
LEMMA Resumes == ASSUME NEW r, SessionOK(r), r.child = "up",
                        NEW p \in Session, Alike(r, p), p.inbox = << >>,
                        p.said <= p.turn, p.busy => p.said < p.turn,
                        r.at \in {"commands", "state", "prompt", "text", "entries", "stats", "settled"},
                        r.at = "prompt" => /\ Begins(r, p) /\ \E n \in DOMAIN r.inbox : r.inbox[n].ask = "prompt"
                                           /\ p.settle = "done" => ~p.busy /\ p.said = p.turn,
                        r.at = "settled" => Settles(r, p) /\ ~p.busy,
                        r.at \notin {"prompt", "settled"} => Steady(r, p) /\ p.busy = r.busy
    PROVE  Moves(r, Resume(p))
<1> DEFINE q == Resume(p)
<1>r. r \in Session /\ r.at \in Awaits(r.op) /\ UnderWay(r) /\ r.op \in {"idle", "create", "prompt", "entries", "stats", "control", "close", "exit"}
  BY FieldTypes DEF SessionOK
<1>o. \/ r.op = "create" /\ r.at \in {"commands", "state"}
      \/ r.op = "prompt" /\ r.at \in {"prompt", "settled", "text", "state"}
      \/ r.op \in {"entries", "stats"} /\ r.at = r.op
  BY <1>r DEF Awaits
<1>p. /\ p.op = r.op /\ p.at = r.at /\ p.child = "up" /\ p.error = r.error /\ p.gone = r.gone /\ p.term = r.term
      /\ p.text = r.text
  BY DEF Alike
<1>q. /\ q \in Session /\ q.term = r.term /\ q.child = "up" /\ q.error = r.error /\ q.gone = r.gone
      /\ q.busy = p.busy /\ q.turn = p.turn /\ q.said = p.said
      /\ \/ /\ r.op = "create" /\ r.at = "commands" /\ q.op = "create" /\ q.at = "state"
            /\ q.inbox = Append(<< >>, [ask |-> "state", live |-> TRUE])
         \/ /\ r.op = "prompt" /\ r.at = "prompt" /\ q.op = "prompt" /\ q.at = "settled"
            /\ q.inbox = << >>
         \/ /\ r.op = "prompt" /\ r.at = "prompt" /\ p.settle = "done" /\ q.op = "prompt" /\ q.at = "text"
            /\ q.inbox = Append(<< >>, [ask |-> "text", live |-> TRUE])
         \/ /\ r.op = "prompt" /\ r.at = "settled" /\ q.op = "prompt" /\ q.at = "text"
            /\ q.inbox = Append(<< >>, [ask |-> "text", live |-> TRUE])
         \/ /\ r.op = "prompt" /\ r.at = "text" /\ q.op = "prompt" /\ q.at = "state" /\ q.text = p.said
            /\ q.inbox = Append(<< >>, [ask |-> "state", live |-> TRUE])
         \/ /\ \/ r.op = "create" /\ r.at = "state"
               \/ r.op = "prompt" /\ r.at = "state"
               \/ r.op \in {"entries", "stats"}
            /\ q.op = "idle" /\ q.at = "none" /\ q.out = "ok" /\ q.text = r.text /\ q.inbox = << >>
  BY <1>o, <1>p, ResumeIs
<1>i. /\ \A n \in DOMAIN q.inbox : /\ n = 1 /\ Len(q.inbox) = 1
                                   /\ q.inbox[n].ask = q.at /\ q.inbox[n].live
                                   /\ q.inbox[n].ask \in {"text", "state"}
  <2>1. CASE q.inbox = << >>
    BY <2>1
  <2>2. CASE q.at = "text" /\ q.inbox = Append(<< >>, [ask |-> "text", live |-> TRUE])
    BY <2>2, OneRequest
  <2>3. CASE q.at = "state" /\ q.inbox = Append(<< >>, [ask |-> "state", live |-> TRUE])
    BY <2>3, OneRequest
  <2> HIDE DEF q
  <2> QED
    BY <2>1, <2>2, <2>3, <1>q
<1>n. r.turn \in Nat /\ r.said \in Nat /\ p.turn \in Nat /\ p.said \in Nat /\ r.busy \in BOOLEAN /\ p.busy \in BOOLEAN
  BY <1>r, FieldTypes
<1> HIDE DEF q
<1>e. r.op \in {"create", "prompt"} => r.error = "none"
  BY <1>r, <1>o DEF UnderWay
<1>b. q.op = "prompt" /\ q.at \in {"text", "state"} => ~q.busy /\ q.said = q.turn
  BY <1>q, <1>r, <1>n DEF UnderWay, Steady, Settles
<1>t. q.op = "prompt" /\ q.at = "state" => q.text = q.turn
  BY <1>q, <1>r, <1>n DEF UnderWay, Steady
<1>1. SessionOK(q)
  <2>1. Channel(q)
    BY <1>i DEF Channel
  <2>2. UnderWay(q)
    BY <1>b, <1>t, <1>e, <1>q DEF UnderWay
  <2>3. q.at \in Awaits(q.op)
    BY <1>q DEF Awaits
  <2> QED
    BY <2>1, <2>2, <2>3, <1>q DEF SessionOK
<1>2. Quiet(q) \/ q.busy
  BY <1>i DEF Quiet
<1>3. Quiet(r) => Quiet(q) /\ Steady(r, q)
  BY <1>2, <1>q, <1>o DEF Quiet, Steady, Settles
<1>4. Steady(r, q) \/ Begins(r, q) \/ Settles(r, q)
  BY <1>q, <1>o DEF Steady, Begins, Settles
<1>5. ASSUME NEW k \in Nat, Asked(r, k) PROVE Asked(q, k)
  BY <1>5, <1>i, <1>q, <1>o, <1>n DEF Asked, Steady, Begins, Settles
<1>6. r.op = "create" => CreateOK(q)
  BY <1>q, <1>e DEF CreateOK
<1>7. r.op = "prompt" => PromptOK(q)
  BY <1>q, <1>r, <1>e DEF PromptOK, Own, UnderWay, Steady
<1>8. ASSUME r.op = "prompt", NEW k \in Nat, Under(r, k)
      PROVE  /\ q.op = "prompt" => Under(q, k)
             /\ q.op = "idle" /\ q.out = "ok" => q.turn = k
  BY <1>8, <1>q, <1>n DEF Under, Steady, Begins, Settles
<1> QED
  BY <1>1, <1>3, <1>4, <1>5, <1>6, <1>7, <1>8, <1>q, <1>p, <1>o DEF Moves, q

\* What is left of the pipe when d requests were taken from it: none of it is waited for
\* by a method that went on.
Left(r, q, d) == \A n \in DOMAIN q.inbox :
    /\ \/ q.inbox[n].ask = "abort" \/ ~q.inbox[n].live
       \/ /\ q.at = r.at /\ Len(r.inbox) = Len(q.inbox) + d
          /\ n + d \in DOMAIN r.inbox /\ q.inbox[n] = r.inbox[n + d]
    /\ q.inbox[n].ask = "prompt" => n + d \in DOMAIN r.inbox /\ r.inbox[n + d].ask = "prompt"

\* Something failed: what is left in the pipe is nobody's concern any more.
LEMMA Fails == ASSUME NEW r, SessionOK(r), NEW q \in Session, q.error # "none", NEW d \in {0, 1},
                      q.gone = r.gone, q.op \in {r.op, "idle"}, q.at \in Awaits(q.op),
                      q.op # "prompt", q.op = "create" => q.at = "reap",
                      r.error # "none" => q.error = r.error,
                      q.child = "up" => r.child = "up", q.child # "none", r.term => q.term,
                      Left(r, q, d),
                      \/ Steady(r, q) /\ (q.busy => r.busy)
                      \/ /\ q.turn = r.turn + 1 /\ q.said = r.said
                         /\ d = 1 /\ 1 \in DOMAIN r.inbox /\ r.inbox[1].ask = "prompt",
                      r.op = "create" /\ q.op = "idle" => q.out = "failed" /\ q.child # "up",
                      r.op = "prompt" => q.op = "idle" /\ q.out = "failed",
                      r.op = "close" /\ q.op = "idle" => q.out # "ok" /\ Stopped(q)
    PROVE  Moves(r, q)
<1>r. r \in Session /\ r.at \in Awaits(r.op) /\ r.said <= r.turn /\ (r.busy => r.said < r.turn)
      /\ (r.op = "close" => r.gone) /\ (r.child = "none" => r.op = "idle" /\ r.error = "none")
      /\ Channel(r)
  BY DEF SessionOK
<1>n. /\ r.turn \in Nat /\ r.said \in Nat /\ q.turn \in Nat /\ q.said \in Nat
      /\ DOMAIN q.inbox = 1..Len(q.inbox) /\ Len(q.inbox) \in Nat /\ Len(r.inbox) \in Nat
      /\ q.op \in {"idle", "create", "prompt", "entries", "stats", "control", "close", "exit"}
  BY <1>r, FieldTypes, InboxTypes
<1>a. q.at # "prompt"
  BY <1>n DEF Awaits
<1>1. SessionOK(q)
  <2>1. Channel(q)
    BY <1>r, <1>n DEF Channel, Left
  <2>2. UnderWay(q)
    BY <1>a DEF UnderWay
  <2>3. q.said <= q.turn /\ (q.busy => q.said < q.turn)
    BY <1>r, <1>n DEF Steady
  <2>4. q.op = "close" => q.gone
    BY <1>r
  <2> QED
    BY <2>1, <2>2, <2>3, <2>4 DEF SessionOK
<1>2. Quiet(r) => Quiet(q) /\ Steady(r, q)
  BY DEF Quiet, Steady, Left
<1>3. Steady(r, q) \/ Begins(r, q) \/ Settles(r, q)
  BY DEF Steady, Begins
<1>4. ASSUME NEW k \in Nat, Asked(r, k) PROVE Asked(q, k)
  BY <1>4, <1>n DEF Asked, Steady, Left
<1>5. r.op = "create" => CreateOK(q)
  BY DEF CreateOK
<1>6. r.op = "prompt" => PromptOK(q)
  BY DEF PromptOK
<1>7. r.op = "close" => CloseOK(q) /\ (q.op = "idle" => Stopped(q))
  BY DEF CloseOK
<1> QED
  BY <1>1, <1>2, <1>3, <1>4, <1>5, <1>6, <1>7 DEF Moves

\* Nothing new is told: a method ends, or the child does.
LEMMA Calms == ASSUME NEW r, SessionOK(r), NEW q \in Session, q.error = r.error,
                      q.child = "up" => r.child = "up",
                      q.gone = r.gone, q.child # "none", r.term => q.term,
                      q.inbox \in {r.inbox, << >>}, q.busy => r.busy, Steady(r, q),
                      \/ q.op = r.op /\ q.at = r.at /\ q.out = r.out /\ q.text = r.text
                         /\ q.settle = r.settle
                      \/ /\ q.op = "idle" /\ q.at = "none"
                         /\ r.op \in {"create", "prompt"} => q.out = "failed"
                         /\ r.op = "create" => q.child # "up"
                         /\ r.op = "close" => Stopped(q) /\ (q.out = "ok" => q.child = "ended")
                         /\ r.at \in Asks => q.inbox = << >>
                      \/ r.op = "create" /\ q.op = "create" /\ q.at = "reap" /\ q.inbox = << >>
    PROVE  Moves(r, q)
<1>r. r \in Session /\ r.at \in Awaits(r.op) /\ r.said <= r.turn /\ (r.busy => r.said < r.turn)
      /\ (r.op = "close" => r.gone) /\ Channel(r) /\ UnderWay(r)
  BY DEF SessionOK
<1>n. /\ r.turn \in Nat /\ r.said \in Nat /\ q.turn \in Nat /\ q.said \in Nat
      /\ \A n \in DOMAIN r.inbox : r.inbox[n].ask \in Asks
      /\ r.op \in {"idle", "create", "prompt", "entries", "stats", "control", "close", "exit"}
  BY <1>r, FieldTypes, InboxTypes DEF Requests
<1>1. SessionOK(q)
  <2>1. Channel(q)
    <3>1. CASE q.inbox = << >>
      BY <3>1 DEF Channel
    <3>2. CASE q.inbox = r.inbox /\ q.at = r.at
      BY <3>2, <1>r DEF Channel
    <3>3. CASE q.inbox = r.inbox /\ q.inbox # << >> /\ r.at \notin Asks
      BY <3>3, <1>r, <1>n DEF Channel
    <3> QED
      BY <3>1, <3>2, <3>3
  <2>2. UnderWay(q)
    <3>0. (q.busy => r.busy) /\ q.turn = r.turn /\ q.said = r.said
      BY DEF Steady
    <3>1. CASE q.op = r.op /\ q.at = r.at /\ q.out = r.out /\ q.text = r.text /\ q.settle = r.settle
      BY <3>0, <3>1, <1>r DEF UnderWay
    <3>2. CASE q.op = "idle" /\ q.at = "none"
      BY <3>2 DEF UnderWay
    <3>3. CASE q.op = "create" /\ q.at = "reap"
      BY <3>3 DEF UnderWay
    <3> QED
      BY <3>1, <3>2, <3>3
  <2>3. q.said <= q.turn /\ (q.busy => q.said < q.turn)
    BY <1>r, <1>n DEF Steady
  <2>4. q.op = "close" => q.gone
    BY <1>r
  <2>5. q.at \in Awaits(q.op)
    BY <1>r DEF Awaits
  <2> QED
    BY <2>1, <2>2, <2>3, <2>4, <2>5 DEF SessionOK
<1>2. Quiet(r) => Quiet(q)
  BY DEF Quiet
<1>4. ASSUME NEW k \in Nat, Asked(r, k) PROVE Asked(q, k)
  <2>1. CASE q.inbox = << >>
    BY <1>4, <2>1, <1>n DEF Asked, Steady
  <2>2. CASE q.inbox = r.inbox
    BY <1>4, <2>2, <1>n DEF Asked, Steady
  <2> QED
    BY <2>1, <2>2
<1>5. r.op = "create" => CreateOK(q)
  BY <1>r DEF CreateOK, Awaits
<1>6. r.op = "prompt" => PromptOK(q)
  BY <1>r DEF PromptOK, Awaits
<1>7. r.op = "close" => CloseOK(q) /\ (q.op = "idle" => Stopped(q))
  BY <1>r DEF CloseOK, Awaits
<1>8. ASSUME r.op = "prompt", NEW k \in Nat, Under(r, k)
      PROVE  /\ q.op = "prompt" => Under(q, k)
             /\ q.op = "idle" /\ q.out = "ok" => q.turn = k
  BY <1>8, <1>n, <1>r DEF Under, Steady, Awaits
<1> QED
  BY <1>1, <1>2, <1>4, <1>5, <1>6, <1>7, <1>8 DEF Moves

-----------------------------------------------------------------------------
(* One step of the child or of a timer at a time.                          *)
Replaced(i, q) == s' = [s EXCEPT ![i] = q]

\* Changes that leave the same fields alone do so together.
LEMMA AlikeTrans == ASSUME NEW r, NEW p, NEW q, Alike(r, p), Alike(p, q) PROVE Alike(r, q)
BY DEF Alike

\* PI answers the first request of the pipe.
LEMMA AnswerMoves == ASSUME NEW i, SessionOK(s[i]), Answer(i)
    PROVE  \E q \in Session : Replaced(i, q) /\ Moves(s[i], q)
<1> DEFINE r == s[i]
           h == Head(r.inbox)
           taken == [r EXCEPT !.inbox = Tail(@)]
           works == CASE h.ask = "prompt" -> [taken EXCEPT !.busy = TRUE, !.turn = @ + 1]
                      [] h.ask = "abort" -> [taken EXCEPT !.busy = FALSE]
                      [] OTHER -> taken
           early == [works EXCEPT !.busy = FALSE, !.said = works.turn, !.settle = "done"]
<1>r. /\ SessionOK(r) /\ r \in Session /\ r.child = "up" /\ r.inbox # << >> /\ r.at \in Awaits(r.op) /\ Channel(r) /\ UnderWay(r)
      /\ r.said <= r.turn /\ (r.busy => r.said < r.turn)
  BY DEF SessionOK, Answer
<1>n. /\ r.turn \in Nat /\ r.said \in Nat /\ r.busy \in BOOLEAN
      /\ r.op \in {"idle", "create", "prompt", "entries", "stats", "control", "close", "exit"}
  BY <1>r, FieldTypes
<1>h. /\ h = r.inbox[1] /\ 1 \in DOMAIN r.inbox /\ h.ask \in Asks /\ h.live \in BOOLEAN
      /\ \A n \in DOMAIN Tail(r.inbox) : n + 1 \in DOMAIN r.inbox /\ Tail(r.inbox)[n] = r.inbox[n + 1]
      /\ \A n \in DOMAIN Tail(r.inbox) : n \in Nat /\ n >= 1 /\ n < Len(r.inbox)
  BY <1>r, InboxTypes DEF Requests
<1>t. /\ taken \in Session /\ Alike(r, taken) /\ taken.inbox = Tail(r.inbox)
      /\ taken.settle = r.settle /\ taken.abort = r.abort /\ taken.busy = r.busy
      /\ taken.turn = r.turn /\ taken.said = r.said
  BY <1>r, TakenIs
<1>w. /\ works \in Session /\ Alike(r, works) /\ works.inbox = Tail(r.inbox)
      /\ works.settle = r.settle /\ works.abort = r.abort /\ works.said = r.said
      /\ h.ask = "prompt" => works.busy /\ works.turn = r.turn + 1
      /\ h.ask # "prompt" => works.turn = r.turn /\ (works.busy => r.busy)
      /\ h.ask \notin {"prompt", "abort"} => works.busy = r.busy
  <2> HIDE DEF taken, h
  <2> DEFINE p1 == [taken EXCEPT !.busy = TRUE, !.turn = @ + 1]
             p2 == [taken EXCEPT !.busy = FALSE]
  <2>p. /\ p1 \in Session /\ Alike(taken, p1) /\ p1.inbox = taken.inbox
        /\ p1.settle = taken.settle /\ p1.abort = taken.abort /\ p1.busy
        /\ p1.turn = taken.turn + 1 /\ p1.said = taken.said
        /\ p2 \in Session /\ Alike(taken, p2) /\ p2.inbox = taken.inbox
        /\ p2.settle = taken.settle /\ p2.abort = taken.abort /\ ~p2.busy
        /\ p2.turn = taken.turn /\ p2.said = taken.said
    BY <1>t, WorksIs
  <2>a. Alike(r, p1) /\ Alike(r, p2)
    BY <1>t, <2>p, AlikeTrans
  <2>w. works = IF h.ask = "prompt" THEN p1 ELSE IF h.ask = "abort" THEN p2 ELSE taken
    OBVIOUS
  <2> HIDE DEF p1, p2, works
  <2>1. CASE h.ask = "prompt"
    BY <1>t, <2>1, <2>p, <2>a, <2>w
  <2>2. CASE h.ask = "abort"
    BY <1>t, <2>2, <2>p, <2>a, <2>w
  <2>3. CASE h.ask \notin {"prompt", "abort"}
    BY <1>t, <2>3, <2>w
  <2> QED
    BY <2>1, <2>2, <2>3
<1>e. /\ early \in Session /\ Alike(r, early) /\ early.inbox = Tail(r.inbox)
      /\ early.settle = "done" /\ ~early.busy /\ early.turn = works.turn /\ early.said = works.turn
  <2>1. works.turn \in Nat
    BY <1>w, <1>n
  <2> HIDE DEF works, early
  <2>2. early = Settled(works, "done")
    BY DEF early, Settled
  <2>3. /\ early \in Session /\ Alike(works, early) /\ early.inbox = works.inbox
        /\ early.settle = "done" /\ ~early.busy /\ early.turn = works.turn /\ early.said = works.turn
    BY <1>w, <2>1, <2>2, SettlesIs, "done" \in {"none", "waiting", "done", "failed"}
  <2> QED
    BY <1>w, <2>3, AlikeTrans
<1>x. \/ /\ h.ask = "abort"
         /\ \E how \in {"acked", "failed"} :
                LET told == IF h.live THEN [works EXCEPT !.abort = how] ELSE works
                IN  Replaced(i, IF h.live /\ r.at = "ack" THEN Return(told, "ok") ELSE told)
      \/ h.ask # "abort" /\ Replaced(i, IF h.live THEN Resume(works) ELSE works)
      \/ h.ask = "prompt" /\ h.live /\ Replaced(i, Resume(early))
      \/ h.ask # "abort" /\ Replaced(i, IF h.live THEN Refused(taken) ELSE taken)
  BY DEF Answer, Becomes, Replaced
<1> HIDE DEF r, h, taken, works, early
\* an answer nobody waits for
<1>d. ASSUME h.ask = "abort" \/ ~h.live PROVE r.error # "none"
  BY <1>d, <1>r, <1>h DEF Channel
<1>1. CASE h.ask = "abort"
  <2>1. PICK how \in {"acked", "failed"} :
           LET told == IF h.live THEN [works EXCEPT !.abort = how] ELSE works
           IN  Replaced(i, IF h.live /\ r.at = "ack" THEN Return(told, "ok") ELSE told)
    BY <1>1, <1>x
  <2> DEFINE told == IF h.live THEN [works EXCEPT !.abort = how] ELSE works
             q == IF h.live /\ r.at = "ack" THEN Return(told, "ok") ELSE told
  <2>2. /\ told \in Session /\ Alike(r, told) /\ told.inbox = Tail(r.inbox)
        /\ told.turn = r.turn /\ told.said = r.said /\ (told.busy => r.busy)
    <3> DEFINE p == [works EXCEPT !.abort = how]
    <3>1. /\ p \in Session /\ Alike(works, p) /\ p.inbox = works.inbox /\ p.busy = works.busy
          /\ p.turn = works.turn /\ p.said = works.said
      BY <1>w, AbortIs, how \in {"none", "asked", "acked", "failed"}
    <3>2. Alike(r, p)
      BY <1>w, <3>1, AlikeTrans
    <3> HIDE DEF p
    <3>3. told \in {p, works}
      BY DEF p
    <3> QED
      BY <1>1, <1>w, <3>1, <3>2, <3>3
  <2> HIDE DEF told
  <2>3. /\ q \in Session /\ q.inbox = Tail(r.inbox) /\ Steady(r, q) /\ (q.busy => r.busy)
        /\ q.gone = r.gone /\ q.child = r.child /\ q.error = r.error /\ q.term = r.term
        /\ \/ q.op = r.op /\ q.at = r.at
           \/ r.at = "ack" /\ q.op = "idle" /\ q.at = "none"
    BY <2>2, ReturnIs DEF Alike, Steady
  <2> HIDE DEF q
  <2>4. Moves(r, q)
    <3>1. r.error # "none"
      BY <1>1, <1>d
    <3>2. r.op # "prompt" /\ (r.op = "create" => r.at = "reap") /\ (r.at = "ack" => r.op = "control")
      BY <1>r, <1>n, <3>1 DEF UnderWay, Awaits
    <3>3. Len(r.inbox) \in Nat /\ Len(Tail(r.inbox)) = Len(r.inbox) - 1 /\ Len(r.inbox) = Len(q.inbox) + 1
      BY <1>r, <2>3, InboxTypes
    <3>4. q.at \in Awaits(q.op)
      BY <1>r, <2>3 DEF Awaits
    <3>5. \A n \in DOMAIN q.inbox : n + 1 \in DOMAIN r.inbox /\ q.inbox[n] = r.inbox[n + 1]
      BY <1>h, <2>3
    <3>6. ASSUME r.at = "ack", NEW n \in DOMAIN r.inbox PROVE r.inbox[n].ask = "abort" \/ ~r.inbox[n].live
      BY <1>r, <3>6, InboxTypes DEF Channel, Requests, Asks
    <3>7. Left(r, q, 1)
      BY <2>3, <3>3, <3>5, <3>6 DEF Left
    <3>8. /\ q.op \in {r.op, "idle"} /\ q.op # "prompt" /\ (q.op = "create" => q.at = "reap")
          /\ q.error # "none" /\ (r.error # "none" => q.error = r.error)
          /\ (q.child = "up" => r.child = "up") /\ q.child # "none" /\ (r.term => q.term)
          /\ ~(r.op = "create" /\ q.op = "idle") /\ ~(r.op = "close" /\ q.op = "idle")
          /\ r.op # "prompt" /\ q \in Session /\ q.gone = r.gone
      BY <1>r, <2>3, <3>1, <3>2
    <3>9. Steady(r, q) /\ (q.busy => r.busy)
      BY <2>3
    <3> QED
      BY <1>r, <3>4, <3>7, <3>8, <3>9, Fails
  <2> QED
    BY <2>1, <2>3, <2>4 DEF q, told, r
<1>2. CASE h.ask # "abort" /\ ~h.live
  <2>1. PICK q \in {works, taken} : Replaced(i, q)
    BY <1>2, <1>x
  <2>2. /\ q \in Session /\ Alike(r, q) /\ q.inbox = Tail(r.inbox) /\ q.said = r.said
        /\ \/ h.ask = "prompt" /\ q.turn = r.turn + 1
           \/ q.turn = r.turn /\ (q.busy => r.busy)
    BY <1>2, <1>t, <1>w
  <2>4. Moves(r, q)
    <3>1. r.error # "none"
      BY <1>2, <1>d
    <3>2. r.op # "prompt" /\ (r.op = "create" => r.at = "reap")
      BY <1>r, <1>n, <3>1 DEF UnderWay, Awaits
    <3>3. Len(r.inbox) \in Nat /\ Len(Tail(r.inbox)) = Len(r.inbox) - 1 /\ Len(r.inbox) = Len(q.inbox) + 1
      BY <1>r, <2>2, InboxTypes
    <3>4. q.op = r.op /\ q.at = r.at /\ q.error = r.error /\ q.child = r.child /\ q.term = r.term /\ q.gone = r.gone
      BY <2>2 DEF Alike
    <3>5. \A n \in DOMAIN q.inbox : n + 1 \in DOMAIN r.inbox /\ q.inbox[n] = r.inbox[n + 1]
      BY <1>h, <2>2
    <3>7. Left(r, q, 1)
      BY <3>3, <3>4, <3>5 DEF Left
    <3>8. \/ Steady(r, q) /\ (q.busy => r.busy)
          \/ /\ q.turn = r.turn + 1 /\ q.said = r.said
             /\ 1 \in DOMAIN r.inbox /\ r.inbox[1].ask = "prompt"
      BY <1>h, <2>2 DEF Steady
    <3>9. /\ q.op \in {r.op, "idle"} /\ q.op # "prompt" /\ (q.op = "create" => q.at = "reap")
          /\ q.error # "none" /\ (r.error # "none" => q.error = r.error)
          /\ (q.child = "up" => r.child = "up") /\ q.child # "none" /\ (r.term => q.term)
          /\ ~(r.op = "create" /\ q.op = "idle") /\ ~(r.op = "close" /\ q.op = "idle")
          /\ r.op # "prompt" /\ q.at \in Awaits(q.op) /\ q.gone = r.gone /\ q \in Session
      BY <1>r, <2>2, <3>1, <3>2, <3>4
    <3> QED
      BY <1>r, <3>7, <3>8, <3>9, Fails
  <2> QED
    BY <2>1, <2>2, <2>4 DEF r
<1>3. CASE h.ask # "abort" /\ h.live
  <2>1. /\ Len(r.inbox) = 1 /\ Tail(r.inbox) = << >> /\ h.ask = r.at /\ r.inbox[1].ask = r.at
        /\ r.at \in Asks \ {"abort"}
        /\ r.op # "create" => r.at # "commands"
        /\ r.op \notin {"create", "prompt"} => r.at \in {"entries", "stats"}
        /\ r.op = "create" => r.at \in {"commands", "state"}
        /\ r.op = "prompt" => r.at \in {"prompt", "text", "state"}
    BY <1>3, <1>r, LiveHead DEF r, h
  <2>2. Moves(r, Resume(works))
    <3>1. works.inbox = << >> /\ works.said <= works.turn /\ (works.busy => works.said < works.turn)
      BY <1>r, <1>n, <1>w, <2>1
    <3>2. r.at = "prompt" => Begins(r, works) /\ works.settle # "done"
      BY <1>r, <1>w, <2>1 DEF Begins, UnderWay
    <3>3. r.at # "prompt" => Steady(r, works) /\ works.busy = r.busy
      BY <1>w, <2>1 DEF Steady
    <3>4. /\ r.at \in {"commands", "state", "prompt", "text", "entries", "stats", "settled"}
          /\ r.at # "settled"
      BY <2>1 DEF Asks
    <3> QED
      BY <1>r, <1>h, <1>w, <2>1, <3>1, <3>2, <3>3, <3>4, Resumes
  <2>3. h.ask = "prompt" => Moves(r, Resume(early))
    <3> SUFFICES ASSUME h.ask = "prompt" PROVE Moves(r, Resume(early))
      OBVIOUS
    <3>1. early.inbox = << >> /\ early.said <= early.turn /\ (early.busy => early.said < early.turn)
      BY <1>n, <1>e, <1>w, <2>1
    <3>2. Begins(r, early) /\ ~early.busy /\ early.said = early.turn
      BY <1>e, <1>w DEF Begins
    <3> QED
      BY <1>r, <1>h, <1>e, <2>1, <3>1, <3>2, Resumes
  <2>4. Moves(r, Refused(taken))
    <3> DEFINE q == Refused(taken)
    <3>1. /\ q \in Session /\ q.child = "up" /\ q.inbox = << >> /\ q.error = r.error /\ q.busy = r.busy
          /\ q.turn = r.turn /\ q.said = r.said /\ q.gone = r.gone /\ (r.term => q.term)
          /\ \/ r.op = "create" /\ q.op = "create" /\ q.at = "reap" /\ q.inbox = << >>
             \/ r.op # "create" /\ q.op = "idle" /\ q.at = "none" /\ q.out = "failed" /\ q.inbox = << >>
      <4>1. taken.op = r.op /\ taken.child = "up" /\ taken.error = r.error /\ taken.gone = r.gone /\ taken.term = r.term
        BY <1>r, <1>t DEF Alike
      <4>2. taken.inbox = << >>
        BY <1>t, <2>1
      <4> QED
        BY <1>t, <4>1, <4>2, RefusedIs
    <3> HIDE DEF q
    <3>2. r.op # "close" /\ q.inbox \in {r.inbox, << >>} /\ q.child # "none"
      <4>1. r.op # "close"
        BY <2>1, <1>r DEF Awaits
      <4> QED
        BY <3>1, <4>1
    <3>3. Steady(r, q)
      BY <3>1 DEF Steady
    <3>4. Moves(r, q)
      BY <1>r, <3>1, <3>2, <3>3, Calms
    <3> QED
      BY <3>4 DEF q
  <2>5. Refused(taken) \in Session /\ Resume(works) \in Session /\ Resume(early) \in Session
    BY <2>2, <2>3, <2>4, <1>r, <1>t, <1>e, <1>w, RefusedIs, ResumeIs DEF Alike
  <2> QED
    BY <1>3, <1>x, <2>2, <2>3, <2>4, <2>5 DEF r
<1> QED
  BY <1>1, <1>2, <1>3, <1>h

\* A turn ends.
LEMMA SettleMoves == ASSUME NEW i, SessionOK(s[i]), Settle(i)
    PROVE  \E q \in Session : Replaced(i, q) /\ Moves(s[i], q)
<1> DEFINE r == s[i]
           to == IF r.settle = "waiting" THEN "done" ELSE r.settle
           done == Settled(r, to)
<1>r. /\ SessionOK(r) /\ r \in Session /\ r.child = "up" /\ r.busy
      /\ r.at \in Awaits(r.op) /\ Channel(r) /\ UnderWay(r)
      /\ r.said <= r.turn /\ r.said < r.turn /\ (r.op = "close" => r.gone)
      /\ to \in {"none", "waiting", "done", "failed"}
  BY FieldTypes DEF SessionOK, Settle
<1>s. Replaced(i, IF r.at = "settled" THEN Resume(done) ELSE done)
  BY DEF Settle, Becomes, Replaced, Settled
<1> HIDE DEF r, to
<1>d. /\ done \in Session /\ Alike(r, done) /\ done.inbox = r.inbox
      /\ done.settle = to /\ done.abort = r.abort /\ ~done.busy
      /\ done.turn = r.turn /\ done.said = r.turn
  BY <1>r, SettlesIs
<1>n. /\ r.turn \in Nat /\ r.said \in Nat
      /\ \A n \in DOMAIN r.inbox : r.inbox[n].ask \in Asks
      /\ r.op \in {"idle", "create", "prompt", "entries", "stats", "control", "close", "exit"}
  BY <1>r, FieldTypes, InboxTypes DEF Requests
<1> HIDE DEF done
<1>a. Settles(r, done)
  BY <1>d, <1>r DEF Settles
<1>1. CASE r.at = "settled"
  <2>1. r.op = "prompt" /\ r.error = "none"
    BY <1>1, <1>r, <1>n DEF Awaits, UnderWay
  <2>2. \A n \in DOMAIN r.inbox : FALSE
    BY <1>1, <1>r, <1>n, <2>1 DEF Channel, Asks
  <2>3. r.inbox = << >>
    BY <1>r, <2>2, InboxTypes
  <2>4. Moves(r, Resume(done))
    BY <1>1, <1>r, <1>n, <1>a, <1>d, <2>3, Resumes
  <2>5. Resume(done) \in Session
    BY <1>r, <1>d, ResumeIs DEF Alike
  <2> QED
    BY <1>1, <1>s, <2>4, <2>5 DEF r
<1>2. CASE r.at # "settled"
  <2>0. /\ done.op = r.op /\ done.at = r.at /\ done.out = r.out /\ done.term = r.term /\ done.child = "up"
        /\ done.error = r.error /\ done.gone = r.gone
    BY <1>r, <1>d DEF Alike
  <2>1. r.op # "prompt" /\ r.at # "prompt"
    BY <1>2, <1>r, <1>n DEF Awaits, UnderWay
  <2>2. SessionOK(done)
    <3>1. Channel(done)
      BY <1>r, <1>d, <2>0 DEF Channel
    <3>2. UnderWay(done)
      BY <1>r, <2>0, <2>1 DEF UnderWay
    <3> QED
      BY <1>r, <1>d, <1>n, <2>0, <3>1, <3>2 DEF SessionOK
  <2>3. ASSUME NEW k \in Nat, Asked(r, k) PROVE Asked(done, k)
    BY <2>3, <1>d DEF Asked
  <2>4. r.op = "create" => CreateOK(done)
    BY <2>0, <1>r DEF CreateOK
  <2>5. r.op = "close" => CloseOK(done) /\ (done.op = "idle" => Stopped(done))
    BY <2>0 DEF CloseOK
  <2>6. ~Quiet(r)
    BY <1>r DEF Quiet
  <2>7. Moves(r, done)
    BY <1>r, <1>a, <2>0, <2>1, <2>2, <2>3, <2>4, <2>5, <2>6 DEF Moves
  <2> QED
    BY <1>2, <1>s, <1>d, <2>7 DEF r
<1> QED
  BY <1>1, <1>2

\* The child is no more.
Perished(r, how) == [r EXCEPT !.child = how, !.inbox = << >>, !.busy = FALSE]

\* What a dead child leaves of its session.
LEMMA PerishedIs == ASSUME NEW r \in Session, NEW how \in {"ended", "died"}
    PROVE  LET q == Perished(r, how) IN
           /\ q \in Session /\ q.child = how /\ q.inbox = << >> /\ ~q.busy
           /\ q.op = r.op /\ q.at = r.at /\ q.out = r.out /\ q.term = r.term /\ q.settle = r.settle
           /\ q.error = r.error /\ q.abort = r.abort /\ q.kill = r.kill
           /\ q.turn = r.turn /\ q.said = r.said /\ q.text = r.text /\ q.gone = r.gone
<1> DEFINE p1 == [r EXCEPT !.child = how]
           p2 == [p1 EXCEPT !.inbox = << >>]
<1>1. p1 \in Session
  BY Field
<1>2. p2 \in Session
  <2>1. << >> \in Seq(Requests)
    OBVIOUS
  <2> HIDE DEF p1
  <2> QED
    BY <1>1, <2>1, Field
<1>3. [p2 EXCEPT !.busy = FALSE] \in Session
  <2> HIDE DEF p2
  <2> QED
    BY <1>2, Field
<1>4. [p2 EXCEPT !.busy = FALSE] = Perished(r, how)
  BY DEF Perished
<1>5. LET q == Perished(r, how) IN
           /\ q.child = how /\ q.inbox = << >> /\ ~q.busy
           /\ q.op = r.op /\ q.at = r.at /\ q.out = r.out /\ q.term = r.term /\ q.settle = r.settle
           /\ q.error = r.error /\ q.abort = r.abort /\ q.kill = r.kill
           /\ q.turn = r.turn /\ q.said = r.said /\ q.text = r.text /\ q.gone = r.gone
  BY DEF Perished, Session
<1> QED
  BY <1>3, <1>4, <1>5

\* PI prints something that is not JSON.
LEMMA GarbageMoves == ASSUME NEW i, SessionOK(s[i]), Garbage(i)
    PROVE  \E q \in Session : Replaced(i, q) /\ Moves(s[i], q)
<1> DEFINE r == s[i]
           q == failPending(r, "jsonl")
<1>r. /\ SessionOK(r) /\ r \in Session /\ r.child = "up" /\ r.error = "none" /\ r.at \in Awaits(r.op)
  BY DEF SessionOK, Garbage
<1>s. Replaced(i, q)
  BY DEF Garbage, Becomes, Replaced
<1>n. r.op \in {"idle", "create", "prompt", "entries", "stats", "control", "close", "exit"}
  BY <1>r, FieldTypes
<1> HIDE DEF r
<1>q. /\ q \in Session
      /\ q.error # "none" /\ q.child = r.child /\ q.busy = r.busy /\ q.turn = r.turn /\ q.said = r.said
      /\ q.gone = r.gone /\ (r.term => q.term)
      /\ DOMAIN q.inbox = DOMAIN r.inbox /\ Len(q.inbox) = Len(r.inbox)
      /\ \A n \in DOMAIN r.inbox : q.inbox[n].ask = r.inbox[n].ask /\ ~q.inbox[n].live
      /\ IF r.at \in Timed
              THEN IF r.op = "create" THEN q.op = "create" /\ q.at = "reap" /\ q.out = r.out
                   ELSE q.op = "idle" /\ q.at = "none" /\ q.out = "failed"
              ELSE IF r.at = "ack" THEN q.op = "idle" /\ q.at = "none" /\ q.out = "ok"
              ELSE q.op = r.op /\ q.at = r.at /\ q.out = r.out
  BY <1>r, FailIs
<1> HIDE DEF q
<1>1. Left(r, q, 0)
  <2>1. \A n \in DOMAIN r.inbox : n + 0 = n
    BY <1>r, InboxTypes
  <2> QED
    BY <1>q, <2>1 DEF Left
<1>2. /\ q.op \in {r.op, "idle"} /\ q.op # "prompt" /\ (q.op = "create" => q.at = "reap")
      /\ ~(r.op = "create" /\ q.op = "idle") /\ ~(r.op = "close" /\ q.op = "idle")
      /\ r.op = "prompt" => q.op = "idle" /\ q.out = "failed"
      /\ q.at \in Awaits(q.op)
  BY <1>q, <1>r, <1>n DEF Awaits, Timed, Asks
<1>3. Steady(r, q) /\ (q.busy => r.busy) /\ q.child # "none" /\ (q.child = "up" => r.child = "up")
  BY <1>q, <1>r DEF Steady
<1>4. Moves(r, q)
  BY <1>r, <1>q, <1>1, <1>2, <1>3, Fails
<1> QED
  BY <1>s, <1>q, <1>4 DEF r

\* The child exits with code 0.
LEMMA ExitMoves == ASSUME NEW i, SessionOK(s[i]), Exit(i)
    PROVE  \E q \in Session : Replaced(i, q) /\ Moves(s[i], q)
<1> DEFINE r == s[i]
           p == Perished(r, "ended")
           q == IF p.at = "closed" THEN Return(p, "ok") ELSE IF p.at = "reap" THEN Return(p, "failed") ELSE p
<1>r. /\ SessionOK(r) /\ r \in Session /\ r.child = "up" /\ r.at \in Awaits(r.op)
  BY DEF SessionOK, Exit
<1>s. Replaced(i, q)
  BY DEF Exit, Becomes, Replaced, Perished
<1>n. r.op \in {"idle", "create", "prompt", "entries", "stats", "control", "close", "exit"}
  BY <1>r, FieldTypes
<1> HIDE DEF r
<1>p. /\ p \in Session /\ p.child = "ended" /\ p.inbox = << >> /\ ~p.busy
      /\ p.op = r.op /\ p.at = r.at /\ p.out = r.out /\ p.term = r.term /\ p.settle = r.settle
      /\ p.error = r.error /\ p.turn = r.turn /\ p.said = r.said /\ p.text = r.text /\ p.gone = r.gone
  BY <1>r, PerishedIs
<1> HIDE DEF p
<1>q. /\ q \in Session /\ q.child = "ended" /\ q.inbox = << >> /\ ~q.busy /\ q.term = r.term /\ q.error = r.error
      /\ q.turn = r.turn /\ q.said = r.said /\ q.gone = r.gone
      /\ \/ q.op = r.op /\ q.at = r.at /\ q.out = r.out /\ q.text = r.text /\ q.settle = r.settle
         \/ q.op = "idle" /\ q.at = "none" /\ r.at = "closed"
         \/ q.op = "idle" /\ q.at = "none" /\ r.at = "reap" /\ q.out = "failed"
  BY <1>p, ReturnIs
<1> HIDE DEF q
<1>1. Steady(r, q) /\ Stopped(q)
  BY <1>q DEF Steady, Stopped
<1>2. (r.at = "closed" => r.op \notin {"create", "prompt"}) /\ (r.at = "reap" => r.op = "create")
  BY <1>r, <1>n DEF Awaits
<1>3. Moves(r, q)
  BY <1>r, <1>q, <1>1, <1>2, Calms
<1> QED
  BY <1>s, <1>q, <1>3 DEF r

\* The child dies.
LEMMA DieMoves == ASSUME NEW i, SessionOK(s[i]), Die(i)
    PROVE  \E q \in Session : Replaced(i, q) /\ Moves(s[i], q)
<1> DEFINE r == s[i]
           p == Perished(r, "died")
           f == failPending(p, "died")
           q == IF f.at = "closed" THEN Return(f, IF f.op = "exit" THEN "ok" ELSE "failed")
                ELSE IF f.at = "reap" THEN Return(f, "failed") ELSE f
<1>r. /\ SessionOK(r) /\ r \in Session /\ r.child = "up" /\ r.at \in Awaits(r.op) /\ UnderWay(r)
  BY DEF SessionOK, Die
<1>s. Replaced(i, q)
  BY DEF Die, Becomes, Replaced, Perished
<1>n. r.op \in {"idle", "create", "prompt", "entries", "stats", "control", "close", "exit"}
  BY <1>r, FieldTypes
<1> HIDE DEF r
<1>p. /\ p \in Session /\ p.child = "died" /\ p.inbox = << >> /\ ~p.busy
      /\ p.op = r.op /\ p.at = r.at /\ p.out = r.out /\ p.term = r.term
      /\ p.error = r.error /\ p.turn = r.turn /\ p.said = r.said /\ p.gone = r.gone
  BY <1>r, PerishedIs
<1> HIDE DEF p
<1>f. /\ f \in Session
      /\ f.error # "none" /\ (p.error # "none" => f.error = p.error)
      /\ f.child = "died" /\ ~f.busy /\ f.turn = r.turn /\ f.said = r.said /\ f.gone = r.gone
      /\ (r.term => f.term) /\ DOMAIN f.inbox = {}
      /\ \/ f.op = r.op /\ f.at = r.at /\ r.at \notin Timed /\ r.at # "ack"
         \/ f.op = "idle" /\ f.at = "none" /\ r.at = "ack" /\ f.out = "ok"
         \/ f.op = "idle" /\ f.at = "none" /\ r.at \in Timed /\ r.op # "create" /\ f.out = "failed"
         \/ f.op = "create" /\ f.at = "reap" /\ r.op = "create"
  <2>1. /\ f \in Session
        /\ f.error # "none" /\ (p.error # "none" => f.error = p.error)
        /\ f.child = p.child /\ f.busy = p.busy /\ f.turn = p.turn /\ f.said = p.said
        /\ f.gone = p.gone /\ (p.term => f.term) /\ DOMAIN f.inbox = DOMAIN p.inbox
        /\ IF p.at \in Timed
              THEN IF p.op = "create" THEN f.op = "create" /\ f.at = "reap" /\ f.out = p.out
                   ELSE f.op = "idle" /\ f.at = "none" /\ f.out = "failed"
              ELSE IF p.at = "ack" THEN f.op = "idle" /\ f.at = "none" /\ f.out = "ok"
              ELSE f.op = p.op /\ f.at = p.at /\ f.out = p.out
    BY <1>p, FailIs
  <2> HIDE DEF f
  <2> QED
    BY <1>p, <2>1
<1> HIDE DEF f
<1>q. /\ q \in Session /\ q.child = "died" /\ q.error # "none" /\ (r.error # "none" => q.error = r.error)
      /\ DOMAIN q.inbox = {} /\ ~q.busy /\ (r.term => q.term)
      /\ q.turn = r.turn /\ q.said = r.said /\ q.gone = r.gone
      /\ \/ q.op = r.op /\ q.at = r.at /\ r.at \notin Timed /\ r.at \notin {"ack", "closed", "reap"}
         \/ q.op = "idle" /\ q.at = "none" /\ r.at = "ack"
         \/ q.op = "idle" /\ q.at = "none" /\ r.at = "closed" /\ (r.op # "exit" => q.out = "failed")
         \/ q.op = "idle" /\ q.at = "none" /\ r.at \in Timed /\ r.op # "create" /\ q.out = "failed"
         \/ q.op = "idle" /\ q.at = "none" /\ r.op = "create" /\ q.out = "failed"
         \/ q.op = "idle" /\ q.at = "none" /\ r.at = "reap" /\ q.out = "failed"
  BY <1>p, <1>f, ReturnIs
<1> HIDE DEF q
<1>1. Left(r, q, 0)
  BY <1>q DEF Left
<1>2. /\ q.op \in {r.op, "idle"} /\ q.op # "prompt" /\ (q.op = "create" => q.at = "reap")
      /\ r.op \in {"create", "prompt"} => q.op = "idle" /\ q.out = "failed"
      /\ r.op = "close" /\ q.op = "idle" => q.out # "ok"
      /\ q.at \in Awaits(q.op)
  BY <1>q, <1>r, <1>n DEF Awaits, Timed, Asks
<1>3. Steady(r, q) /\ Stopped(q)
  BY <1>q DEF Steady, Stopped
<1>4. Moves(r, q)
  BY <1>r, <1>q, <1>1, <1>2, <1>3, Fails
<1> QED
  BY <1>s, <1>q, <1>4 DEF r

\* The timer that sends SIGTERM after a failed request.
LEMMA KillMoves == ASSUME NEW i, SessionOK(s[i]), Awaiting(i), KillTimer(i)
    PROVE  \E q \in Session : Replaced(i, q) /\ Moves(s[i], q) /\ Steady(s[i], q)
<1> DEFINE r == s[i]
           p == terminate(r)
           q == [p EXCEPT !.kill = FALSE]
<1>r. SessionOK(r) /\ r \in Session /\ r.child # "none"
  BY DEF SessionOK, Awaiting
<1>s. Replaced(i, q)
  BY DEF KillTimer, Becomes, Replaced
<1> HIDE DEF r
<1>p. /\ p \in Session /\ p.child = r.child /\ p.inbox = r.inbox /\ p.busy = r.busy
      /\ p.op = r.op /\ p.at = r.at /\ p.out = r.out /\ (r.term => p.term) /\ p.settle = r.settle
      /\ p.error = r.error /\ p.turn = r.turn /\ p.said = r.said /\ p.text = r.text /\ p.gone = r.gone
  BY <1>r, TerminateIs
<1> HIDE DEF p
<1>q. /\ q \in Session /\ q.child = p.child /\ q.inbox = p.inbox /\ q.busy = p.busy
      /\ q.op = p.op /\ q.at = p.at /\ q.out = p.out /\ q.term = p.term /\ q.settle = p.settle
      /\ q.error = p.error /\ q.turn = p.turn /\ q.said = p.said /\ q.text = p.text /\ q.gone = p.gone
  <2>1. q \in Session
    BY <1>p, Field
  <2> QED
    BY <1>p, <2>1 DEF Session
<1> HIDE DEF q
<1>1. Steady(r, q)
  BY <1>p, <1>q DEF Steady
<1>2. Moves(r, q)
  BY <1>r, <1>p, <1>q, <1>1, Calms
<1> QED
  BY <1>s, <1>q, <1>1, <1>2 DEF r

\* The timer of the method in progress.
LEMMA TimeoutMoves == ASSUME NEW i, SessionOK(s[i]), Awaiting(i), Timeout(i)
    PROVE  \E q \in Session : Replaced(i, q) /\ Moves(s[i], q) /\ Steady(s[i], q)
<1> DEFINE r == s[i]
<1>r. /\ SessionOK(r) /\ r \in Session /\ r.child # "none" /\ r.at \in Awaits(r.op)
      /\ r.op \in {"create", "prompt", "entries", "stats", "control", "close", "exit"}
  BY FieldTypes DEF SessionOK, Awaiting
<1>t. \/ r.at \in Timed /\ Replaced(i, TimedOut(r))
      \/ r.at = "ack" /\ Replaced(i, Return(r, "ok"))
      \/ r.at = "closed" /\ Replaced(i, Return(IF r.op = "close" THEN terminate(r) ELSE r, "failed"))
      \/ r.at = "reap" /\ Replaced(i, Return(Perished(r, "died"), "failed"))
  BY DEF Timeout, Becomes, Replaced, Perished
<1> HIDE DEF r
<1>1. CASE r.at \in Timed /\ Replaced(i, TimedOut(r))
  <2> DEFINE f == failPending(r, "timeout")
             m == Sent(f, "abort")
             a == [m EXCEPT !.abort = "asked"]
             q == IF r.child = "up" THEN [a EXCEPT !.kill = TRUE] ELSE f
  <2>f. /\ f \in Session
        /\ f.error # "none" /\ (r.error # "none" => f.error = r.error)
        /\ f.child = r.child /\ f.busy = r.busy /\ f.turn = r.turn /\ f.said = r.said
        /\ f.gone = r.gone /\ (r.term => f.term)
        /\ DOMAIN f.inbox = DOMAIN r.inbox /\ Len(f.inbox) = Len(r.inbox)
        /\ \A n \in DOMAIN r.inbox : f.inbox[n].ask = r.inbox[n].ask /\ ~f.inbox[n].live
        /\ IF r.op = "create" THEN f.op = "create" /\ f.at = "reap"
                   ELSE f.op = "idle" /\ f.at = "none" /\ f.out = "failed"
    BY <1>1, <1>r, FailIs
  <2>i. f.inbox \in Seq(Requests) /\ DOMAIN f.inbox = 1..Len(f.inbox) /\ Len(f.inbox) \in Nat
    BY <2>f, FieldTypes, InboxTypes
  <2> HIDE DEF f
  <2>m. /\ m \in Session /\ m.op = f.op /\ m.at = f.at /\ m.out = f.out /\ m.term = f.term
        /\ m.child = f.child /\ m.error = f.error /\ m.busy = f.busy
        /\ m.turn = f.turn /\ m.said = f.said /\ m.gone = f.gone
        /\ m.inbox = IF f.child = "up" THEN Append(f.inbox, [ask |-> "abort", live |-> TRUE]) ELSE f.inbox
    BY <2>f, SentIs DEF Asks
  <2> HIDE DEF m
  <2>a. /\ a \in Session /\ a.op = m.op /\ a.at = m.at /\ a.out = m.out /\ a.term = m.term
        /\ a.child = m.child /\ a.error = m.error /\ a.busy = m.busy
        /\ a.turn = m.turn /\ a.said = m.said /\ a.gone = m.gone /\ a.inbox = m.inbox
    BY <2>m, AbortIs DEF Alike
  <2>t. TimedOut(r) = q
    BY DEF TimedOut, f, m
  <2> HIDE DEF a
  <2>k. LET k == [a EXCEPT !.kill = TRUE] IN
        /\ k \in Session /\ k.op = a.op /\ k.at = a.at /\ k.out = a.out /\ k.term = a.term
        /\ k.child = a.child /\ k.error = a.error /\ k.busy = a.busy
        /\ k.turn = a.turn /\ k.said = a.said /\ k.gone = a.gone /\ k.inbox = a.inbox
    <3>1. [a EXCEPT !.kill = TRUE] \in Session
      BY <2>a, Field
    <3> QED
      BY <2>a, <3>1 DEF Session
  <2>q. /\ q \in Session /\ q.error # "none" /\ (r.error # "none" => q.error = r.error)
        /\ q.child = r.child /\ q.busy = r.busy /\ q.turn = r.turn /\ q.said = r.said
        /\ q.gone = r.gone /\ (r.term => q.term)
        /\ q.inbox \in {f.inbox, Append(f.inbox, [ask |-> "abort", live |-> TRUE])}
        /\ IF r.op = "create" THEN q.op = "create" /\ q.at = "reap"
                   ELSE q.op = "idle" /\ q.at = "none" /\ q.out = "failed"
    <3> DEFINE k == [a EXCEPT !.kill = TRUE]
    <3>1. /\ k \in Session /\ k.op = a.op /\ k.at = a.at /\ k.out = a.out /\ k.term = a.term
          /\ k.child = a.child /\ k.error = a.error /\ k.busy = a.busy
          /\ k.turn = a.turn /\ k.said = a.said /\ k.gone = a.gone /\ k.inbox = a.inbox
      BY <2>k
    <3>2. q = IF r.child = "up" THEN k ELSE f
      OBVIOUS
    <3> HIDE DEF k, q
    <3>3. CASE r.child = "up"
      BY <2>f, <2>m, <2>a, <3>1, <3>2, <3>3
    <3>4. CASE r.child # "up"
      BY <2>f, <3>2, <3>4
    <3> QED
      BY <3>3, <3>4
  <2> HIDE DEF q
  <2>1. Left(r, q, 0)
    <3>1. CASE q.inbox = f.inbox
      BY <2>f, <2>i, <3>1 DEF Left
    <3>2. CASE q.inbox = Append(f.inbox, [ask |-> "abort", live |-> TRUE])
      <4> DEFINE e == [ask |-> "abort", live |-> TRUE]
      <4>1. e \in Requests /\ e.ask = "abort"
        BY DEF Requests, Asks
      <4> HIDE DEF e, Requests
      <4>2. /\ DOMAIN Append(f.inbox, e) = 1..(Len(f.inbox) + 1)
            /\ \A n \in 1..Len(f.inbox) : Append(f.inbox, e)[n] = f.inbox[n]
            /\ Append(f.inbox, e)[Len(f.inbox) + 1] = e
        BY <2>i, <4>1
      <4>3. q.inbox = Append(f.inbox, e)
        BY <3>2 DEF e
      <4>4. \A n \in DOMAIN q.inbox : q.inbox[n] = e \/ (n \in DOMAIN f.inbox /\ n + 0 = n /\ q.inbox[n] = f.inbox[n])
        BY <2>i, <4>2, <4>3
      <4> QED
        BY <2>f, <4>1, <4>4 DEF Left
    <3> QED
      BY <2>q, <3>1, <3>2
  <2>2. /\ q.op \in {r.op, "idle"} /\ q.op # "prompt" /\ (q.op = "create" => q.at = "reap")
        /\ ~(r.op = "create" /\ q.op = "idle") /\ r.op # "close"
        /\ r.op = "prompt" => q.op = "idle" /\ q.out = "failed"
        /\ q.at \in Awaits(q.op)
    BY <1>1, <1>r, <2>q DEF Awaits, Timed, Asks
  <2>3. Steady(r, q) /\ (q.busy => r.busy) /\ q.child # "none" /\ (q.child = "up" => r.child = "up")
    BY <1>r, <2>q DEF Steady
  <2>4. Moves(r, q)
    BY <1>r, <2>q, <2>1, <2>2, <2>3, Fails
  <2> QED
    BY <1>1, <2>q, <2>t, <2>3, <2>4 DEF r
<1>2. CASE r.at = "ack" /\ Replaced(i, Return(r, "ok"))
  <2> DEFINE q == Return(r, "ok")
  <2>1. /\ q \in Session /\ q.op = "idle" /\ q.at = "none" /\ q.child = r.child /\ q.term = r.term
        /\ q.inbox = r.inbox /\ q.error = r.error /\ q.busy = r.busy
        /\ q.turn = r.turn /\ q.said = r.said /\ q.gone = r.gone
    BY <1>r, ReturnIs
  <2> HIDE DEF q
  <2>2. r.op = "control" /\ r.at \notin Asks
    BY <1>2, <1>r DEF Awaits, Asks
  <2>3. Steady(r, q)
    BY <2>1 DEF Steady
  <2>4. Moves(r, q)
    BY <1>r, <2>1, <2>2, <2>3, Calms
  <2> QED
    BY <1>2, <2>1, <2>3, <2>4 DEF q, r
<1>3. CASE r.at = "closed" /\ Replaced(i, Return(IF r.op = "close" THEN terminate(r) ELSE r, "failed"))
  <2> DEFINE p == IF r.op = "close" THEN terminate(r) ELSE r
             q == Return(p, "failed")
  <2>0. /\ p \in Session /\ p.child = r.child /\ (r.term => p.term) /\ (r.op = "close" => Stopped(p))
        /\ p.inbox = r.inbox /\ p.error = r.error /\ p.busy = r.busy
        /\ p.turn = r.turn /\ p.said = r.said /\ p.gone = r.gone
    BY <1>r, TerminateIs DEF Stopped
  <2> HIDE DEF p
  <2>1. /\ q \in Session /\ q.op = "idle" /\ q.at = "none" /\ q.child = r.child /\ (r.term => q.term)
        /\ q.inbox = r.inbox /\ q.error = r.error /\ q.busy = r.busy /\ q.out = "failed"
        /\ q.turn = r.turn /\ q.said = r.said /\ q.gone = r.gone
        /\ r.op = "close" => Stopped(q)
    BY <2>0, ReturnIs DEF Stopped
  <2> HIDE DEF q
  <2>2. r.op \in {"close", "exit"} /\ r.at \notin Asks
    BY <1>3, <1>r DEF Awaits, Asks
  <2>3. Steady(r, q)
    BY <2>1 DEF Steady
  <2>4. Moves(r, q)
    BY <1>r, <2>1, <2>2, <2>3, Calms
  <2> QED
    BY <1>3, <2>1, <2>3, <2>4 DEF p, q, r
<1>4. CASE r.at = "reap" /\ Replaced(i, Return(Perished(r, "died"), "failed"))
  <2> DEFINE p == Perished(r, "died")
             q == Return(p, "failed")
  <2>0. /\ p \in Session /\ p.child = "died" /\ p.term = r.term
        /\ p.inbox = << >> /\ p.error = r.error /\ ~p.busy
        /\ p.turn = r.turn /\ p.said = r.said /\ p.gone = r.gone
    BY <1>r, PerishedIs
  <2> HIDE DEF p
  <2>1. /\ q \in Session /\ q.op = "idle" /\ q.at = "none" /\ q.child = "died" /\ q.term = r.term
        /\ q.inbox = << >> /\ q.error = r.error /\ ~q.busy /\ q.out = "failed"
        /\ q.turn = r.turn /\ q.said = r.said /\ q.gone = r.gone
    BY <2>0, ReturnIs
  <2> HIDE DEF q
  <2>2. r.op = "create" /\ q.inbox \in {r.inbox, << >>}
    BY <1>4, <1>r, <2>1 DEF Awaits, Asks
  <2>3. Steady(r, q)
    BY <2>1 DEF Steady
  <2>4. Moves(r, q)
    BY <1>r, <2>1, <2>2, <2>3, Calms
  <2> QED
    BY <1>4, <2>1, <2>3, <2>4 DEF p, q, r
<1> QED
  BY <1>t, <1>1, <1>2, <1>3, <1>4

\* Whatever the child or a timer does, it moves its session, and a timer begins and ends no turn.
LEMMA ChildMoves == ASSUME NEW i, SessionOK(s[i]), Child(i)
    PROVE  s[i].op # "idle" /\ \E q \in Session : Replaced(i, q) /\ Moves(s[i], q)
BY AnswerMoves, SettleMoves, GarbageMoves, ExitMoves, DieMoves DEF Child, Awaiting

\* Whatever timer fires, the session moves and its turn stays.
LEMMA TimersMove == ASSUME NEW i, SessionOK(s[i]), Timers(i)
    PROVE  s[i].op # "idle" /\ \E q \in Session : Replaced(i, q) /\ Moves(s[i], q) /\ Steady(s[i], q)
BY KillMoves, TimeoutMoves DEF Timers, Awaiting

\* A session that moves stays sound.
LEMMA MovesSound == ASSUME NEW r, NEW q, Sound(r), Moves(r, q)
    PROVE  Sound(q)
BY DEF Sound, Moves, Stopped

-----------------------------------------------------------------------------
(* One session changes, the others stay.                                   *)
LEMMA Put == ASSUME AllSound, NEW i \in Sessions, NEW q, s' = [s EXCEPT ![i] = q], Sound(q)
    PROVE  AllSound' /\ s'[i] = q /\ \A j \in Sessions : j # i => s'[j] = s[j]
<1>1. q \in Session
  BY DEF Sound, SessionOK
<1> QED
  BY <1>1 DEF AllSound

-----------------------------------------------------------------------------
(* What the clients do to a session that is not awaited.                   *)

\* A session whose method has returned waits for nothing.
LEMMA Unawaited == ASSUME NEW r, SessionOK(r), r.op = "idle"
    PROVE  /\ r.at = "none" /\ r.error = "none" => r.inbox = << >>
           /\ \A n \in DOMAIN r.inbox : r.inbox[n].live => r.inbox[n].ask = "abort"
           /\ r.at = "none"
<1>1. r \in Session /\ r.at = "none" /\ Channel(r)
  BY DEF SessionOK, Awaits
<1>2. \A n \in DOMAIN r.inbox : r.inbox[n].live => r.inbox[n].ask = "abort"
  BY <1>1, InboxTypes DEF Channel, Requests, Asks
<1>3. r.error = "none" => \A n \in DOMAIN r.inbox : FALSE
  BY <1>1, <1>2 DEF Channel
<1>4. r.error = "none" => r.inbox = << >>
  BY <1>1, <1>3, InboxTypes
<1> QED
  BY <1>1, <1>2, <1>4

\* A session that was not created yet.
LEMMA NoSessionIs ==
    /\ NoSession \in Session /\ NoSession.child = "none" /\ NoSession.inbox = << >>
    /\ NoSession.op = "idle" /\ NoSession.at = "none" /\ NoSession.error = "none"
    /\ ~NoSession.busy /\ NoSession.turn = 0 /\ NoSession.said = 0 /\ NoSession.text = 0
    /\ ~NoSession.gone /\ SessionOK(NoSession) /\ Sound(NoSession) /\ Quiet(NoSession)
<1>1. NoSession \in Session
  <2>1. << >> \in Seq([ask : Asks, live : BOOLEAN])
    BY EmptySeq
  <2> QED
    BY <2>1 DEF NoSession, Session
<1>2. /\ NoSession.child = "none" /\ NoSession.inbox = << >>
      /\ NoSession.op = "idle" /\ NoSession.at = "none" /\ NoSession.error = "none"
      /\ ~NoSession.busy /\ NoSession.turn = 0 /\ NoSession.said = 0 /\ NoSession.text = 0
      /\ ~NoSession.gone
  BY DEF NoSession
<1>3. SessionOK(NoSession) /\ Quiet(NoSession)
  BY <1>1, <1>2 DEF SessionOK, Awaits, Channel, UnderWay, Quiet
<1> QED
  BY <1>1, <1>2, <1>3 DEF Sound

\* createPiRpcSession sends its first request.
LEMMA CreateIs == ASSUME NEW r
    PROVE  LET q == create(r) IN
           /\ Sound(q) /\ Quiet(q) /\ q.op = "create" /\ q.child = "up" /\ q.turn = 0 /\ ~q.gone
           /\ q.error = "none" /\ q.said = 0
<1> DEFINE p0 == [NoSession EXCEPT !.child = "up"]
           p == Ask(p0, "commands")
           q == [p EXCEPT !.op = "create"]
<1>1. create(r) = q
  BY DEF create
<1>2. /\ p0 \in Session /\ p0.child = "up" /\ p0.inbox = << >> /\ p0.error = "none" /\ ~p0.busy
      /\ p0.turn = 0 /\ p0.said = 0 /\ ~p0.gone
  <2>1. p0 \in Session
    BY NoSessionIs, Field
  <2> QED
    BY <2>1 DEF NoSession
<1> HIDE DEF p0
<1>3. /\ p \in Session /\ p.child = "up" /\ p.at = "commands" /\ p.error = "none" /\ ~p.busy
      /\ p.turn = 0 /\ p.said = 0 /\ ~p.gone
      /\ p.inbox = Append(<< >>, [ask |-> "commands", live |-> TRUE])
  <2>1. "commands" \in Asks
    BY DEF Asks
  <2>2. /\ p \in Session /\ p.child = p0.child /\ p.at = "commands" /\ p.error = p0.error /\ p.busy = p0.busy
        /\ p.turn = p0.turn /\ p.said = p0.said /\ p.gone = p0.gone
        /\ p.inbox = IF p0.child = "up" THEN Append(p0.inbox, [ask |-> "commands", live |-> TRUE]) ELSE p0.inbox
    BY <1>2, <2>1, AskIs
  <2> HIDE DEF p
  <2> QED
    BY <1>2, <2>2
<1> HIDE DEF p
<1>4. /\ q \in Session /\ q.op = "create" /\ q.child = "up" /\ q.at = "commands" /\ q.error = "none" /\ ~q.busy
      /\ q.turn = 0 /\ q.said = 0 /\ ~q.gone /\ q.inbox = p.inbox
  <2>1. q \in Session
    BY <1>3, Field
  <2> QED
    BY <1>3, <2>1 DEF Session
<1> HIDE DEF q
<1>5. \A n \in DOMAIN q.inbox : n = 1 /\ Len(q.inbox) = 1 /\ q.inbox[n].ask = "commands" /\ q.inbox[n].live
  <2>1. q.inbox = Append(<< >>, [ask |-> "commands", live |-> TRUE])
    BY <1>3, <1>4
  <2> QED
    BY <2>1, OneRequest
<1>6. Quiet(q) /\ Channel(q)
  BY <1>4, <1>5 DEF Channel, Quiet
<1>7. UnderWay(q) /\ q.at \in Awaits(q.op)
  BY <1>4 DEF Awaits, UnderWay
<1>8. SessionOK(q)
  BY <1>4, <1>6, <1>7 DEF SessionOK
<1> QED
  BY <1>1, <1>4, <1>6, <1>8 DEF Sound

\* prompt() is called of a session whose turn is over.
LEMMA PromptIs == ASSUME NEW r, SessionOK(r), r.op = "idle", ~r.busy, Stopped(r) \/ ~r.gone, r.child # "none"
    PROVE  LET q == prompt(r) IN
           /\ Sound(q) /\ q.op \in {"prompt", "idle"} /\ q.child = r.child /\ q.term = r.term /\ q.error = r.error
           /\ q.gone = r.gone /\ q.turn = r.turn /\ q.said = r.said /\ PromptOK(q) /\ ~q.busy
           /\ q.op = "prompt" => q.at = "prompt" /\ Asked(q, r.turn + 1)
           /\ q.op = "idle" => q.out = "failed" /\ q.inbox = r.inbox
<1> DEFINE q == prompt(r)
<1>r. /\ r \in Session /\ r.said <= r.turn /\ r.turn \in Nat /\ r.said \in Nat /\ r.at = "none"
      /\ r.error = "none" => r.inbox = << >>
  BY FieldTypes, Unawaited DEF SessionOK
<1>1. CASE r.error # "none" \/ r.settle = "waiting"
  <2>1. q = Return(r, "failed")
    BY <1>1 DEF prompt
  <2> HIDE DEF q
  <2>2. /\ q \in Session /\ q.op = "idle" /\ q.at = "none" /\ q.out = "failed" /\ q.child = r.child /\ q.term = r.term
        /\ q.error = r.error /\ q.gone = r.gone /\ q.turn = r.turn /\ q.said = r.said /\ q.inbox = r.inbox /\ ~q.busy
    BY <1>r, <2>1, ReturnIs
  <2>3. Channel(q)
    BY <1>r, <2>2 DEF Channel, SessionOK
  <2>4. SessionOK(q)
    BY <1>r, <2>2, <2>3 DEF SessionOK, UnderWay, Awaits
  <2> QED
    BY <2>2, <2>4 DEF q, Sound, Stopped, PromptOK
<1>2. CASE r.error = "none" /\ r.settle # "waiting"
  <2> DEFINE p == Ask(r, "prompt")
             p1 == [p EXCEPT !.op = "prompt"]
             p2 == [p1 EXCEPT !.settle = "waiting"]
             p3 == [p2 EXCEPT !.out = "none"]
  <2>0. q = [p EXCEPT !.op = "prompt", !.settle = "waiting", !.out = "none"]
    BY <1>2 DEF prompt
  <2>1. /\ p \in Session /\ p.at = "prompt" /\ p.child = r.child /\ p.term = r.term
        /\ p.error = r.error /\ p.gone = r.gone /\ p.turn = r.turn /\ p.said = r.said /\ p.busy = r.busy
        /\ p.inbox = IF r.child = "up" THEN Append(r.inbox, [ask |-> "prompt", live |-> TRUE]) ELSE r.inbox
    BY <1>r, AskIs DEF Asks
  <2> HIDE DEF p
  <2>2. p1 \in Session
    BY <2>1, Field
  <2>3. p2 \in Session
    <3> HIDE DEF p1
    <3> QED
      BY <2>2, Field
  <2>4. p3 \in Session
    <3> HIDE DEF p2
    <3> QED
      BY <2>3, Field
  <2>5. q \in Session
    BY <2>0, <2>4
  <2>6. /\ q.op = "prompt" /\ q.at = "prompt" /\ q.settle = "waiting" /\ q.child = p.child /\ q.term = p.term
        /\ q.error = p.error /\ q.gone = p.gone /\ q.turn = p.turn /\ q.said = p.said /\ q.busy = p.busy
        /\ q.inbox = p.inbox
    BY <2>0, <2>1 DEF Session
  <2> HIDE DEF q
  <2>7. \A n \in DOMAIN q.inbox : n = 1 /\ Len(q.inbox) = 1 /\ q.inbox[n].ask = "prompt" /\ q.inbox[n].live
    <3>1. CASE r.child = "up"
      <4>1. q.inbox = Append(<< >>, [ask |-> "prompt", live |-> TRUE])
        BY <1>2, <1>r, <2>1, <2>6, <3>1
      <4> QED
        BY <4>1, OneRequest
    <3>2. CASE r.child # "up"
      BY <1>2, <1>r, <2>1, <2>6, <3>2
    <3> QED
      BY <3>1, <3>2
  <2>8. SessionOK(q)
    <3>1. Channel(q)
      BY <2>6, <2>7 DEF Channel
    <3>2. UnderWay(q)
      BY <1>2, <2>1, <2>6 DEF UnderWay
    <3> QED
      BY <1>r, <2>1, <2>5, <2>6, <3>1, <3>2 DEF SessionOK, Awaits
  <2>9. Asked(q, r.turn + 1)
    BY <1>r, <2>1, <2>6, <2>7 DEF Asked
  <2> QED
    BY <2>1, <2>6, <2>8, <2>9 DEF q, Sound, Stopped, PromptOK
<1> QED
  BY <1>1, <1>2

\* entries() and stats() send one request.
LEMMA RequestIs == ASSUME NEW r, SessionOK(r), r.op = "idle", Stopped(r) \/ ~r.gone, r.child # "none"
    PROVE  \A do \in {"entries", "stats"} :
           LET q == IF do = "entries" THEN entries(r) ELSE stats(r) IN
           /\ Sound(q) /\ q.op = do /\ q.child = r.child /\ q.term = r.term /\ q.error = r.error
           /\ q.gone = r.gone /\ q.turn = r.turn /\ q.said = r.said /\ q.busy = r.busy
           /\ Quiet(r) => Quiet(q)
           /\ \A k \in Nat : Asked(r, k) => Asked(q, k)
<1> SUFFICES ASSUME NEW do \in {"entries", "stats"}
             PROVE  LET q == IF do = "entries" THEN entries(r) ELSE stats(r) IN
                    /\ Sound(q) /\ q.op = do /\ q.child = r.child /\ q.term = r.term /\ q.error = r.error
                    /\ q.gone = r.gone /\ q.turn = r.turn /\ q.said = r.said /\ q.busy = r.busy
                    /\ Quiet(r) => Quiet(q)
                    /\ \A k \in Nat : Asked(r, k) => Asked(q, k)
  OBVIOUS
<1> DEFINE q == IF do = "entries" THEN entries(r) ELSE stats(r)
           p == Ask(r, do)
           p1 == [p EXCEPT !.op = do]
           p2 == [p1 EXCEPT !.out = "none"]
<1>r. /\ r \in Session /\ r.said <= r.turn /\ r.turn \in Nat /\ r.said \in Nat /\ r.at = "none" /\ (r.busy => r.said < r.turn)
      /\ r.error = "none" => r.inbox = << >>
      /\ \A n \in DOMAIN r.inbox : r.inbox[n].live => r.inbox[n].ask = "abort"
      /\ r.inbox \in Seq(Requests) /\ Len(r.inbox) \in Nat /\ DOMAIN r.inbox = 1..Len(r.inbox)
  BY FieldTypes, InboxTypes, Unawaited DEF SessionOK
<1>0. q = [p EXCEPT !.op = do, !.out = "none"]
  BY DEF entries, stats
<1>1. /\ p \in Session /\ p.at = do /\ p.child = r.child /\ p.term = r.term
      /\ p.error = r.error /\ p.gone = r.gone /\ p.turn = r.turn /\ p.said = r.said /\ p.busy = r.busy
      /\ p.inbox = IF r.child = "up" THEN Append(r.inbox, [ask |-> do, live |-> TRUE]) ELSE r.inbox
  BY <1>r, AskIs, do \in Asks DEF Asks
<1> HIDE DEF p
<1>2. p1 \in Session
  BY <1>1, Field
<1>3. p2 \in Session
  <2> HIDE DEF p1
  <2> QED
    BY <1>2, Field
<1>5. q \in Session
  BY <1>0, <1>3
<1>6. /\ q.op = do /\ q.at = do /\ q.child = p.child /\ q.term = p.term
      /\ q.error = p.error /\ q.gone = p.gone /\ q.turn = p.turn /\ q.said = p.said /\ q.busy = p.busy
      /\ q.inbox = p.inbox
  BY <1>0, <1>1 DEF Session
<1> HIDE DEF q
<1>7. \A n \in DOMAIN q.inbox :
         \/ n \in DOMAIN r.inbox /\ q.inbox[n] = r.inbox[n]
         \/ n = Len(q.inbox) /\ n = Len(r.inbox) + 1 /\ q.inbox[n].ask = do /\ q.inbox[n].live
  <2> DEFINE e == [ask |-> do, live |-> TRUE]
  <2>1. e \in Requests /\ e.ask = do /\ e.live
    BY DEF Requests, Asks
  <2> HIDE DEF e, Requests
  <2>2. /\ DOMAIN Append(r.inbox, e) = 1..(Len(r.inbox) + 1) /\ Len(Append(r.inbox, e)) = Len(r.inbox) + 1
        /\ \A n \in 1..Len(r.inbox) : Append(r.inbox, e)[n] = r.inbox[n]
        /\ Append(r.inbox, e)[Len(r.inbox) + 1] = e
    BY <1>r, <2>1
  <2>3. q.inbox \in {r.inbox, Append(r.inbox, e)}
    BY <1>1, <1>6 DEF e
  <2>4. CASE q.inbox = r.inbox
    BY <2>4
  <2>5. CASE q.inbox = Append(r.inbox, e)
    BY <1>r, <2>1, <2>2, <2>5
  <2> QED
    BY <2>3, <2>4, <2>5
<1>8. SessionOK(q)
  <2>1. Channel(q)
    <3>1. r.error = "none" => DOMAIN r.inbox = {}
      BY <1>r
    <3> QED
      BY <1>r, <1>1, <1>6, <1>7, <3>1 DEF Channel
  <2>2. UnderWay(q)
    BY <1>6 DEF UnderWay
  <2> QED
    BY <1>r, <1>1, <1>5, <1>6, <2>1, <2>2 DEF SessionOK, Awaits
<1>9. Quiet(r) => Quiet(q)
  BY <1>1, <1>6, <1>7 DEF Quiet
<1>10. ASSUME NEW k \in Nat, Asked(r, k) PROVE Asked(q, k)
  BY <1>10, <1>1, <1>6, <1>7 DEF Asked
<1> QED
  BY <1>1, <1>6, <1>8, <1>9, <1>10 DEF q, Sound, Stopped

\* timeoutControl() aborts a prompt that timed out.
LEMMA ControlIs == ASSUME NEW r, SessionOK(r), r.op = "idle", Stopped(r) \/ ~r.gone, r.child # "none"
    PROVE  LET q == timeoutControl(r) IN
           /\ Sound(q) /\ q.op \in {"control", "idle"} /\ q.child = r.child /\ q.term = r.term /\ q.error = r.error
           /\ q.gone = r.gone /\ q.turn = r.turn /\ q.said = r.said /\ q.busy = r.busy /\ q.inbox = r.inbox
<1> DEFINE q == timeoutControl(r)
<1>r. /\ r \in Session /\ r.said <= r.turn /\ r.turn \in Nat /\ r.said \in Nat /\ r.at = "none" /\ (r.busy => r.said < r.turn)
      /\ Channel(r) /\ \A n \in DOMAIN r.inbox : r.inbox[n].live => r.inbox[n].ask = "abort"
  BY FieldTypes, Unawaited DEF SessionOK
<1>1. /\ q \in Session /\ ((q.op = "idle" /\ q.at = "none") \/ (q.op = "control" /\ q.at = "ack"))
      /\ q.child = r.child /\ q.term = r.term /\ q.error = r.error
      /\ q.gone = r.gone /\ q.turn = r.turn /\ q.said = r.said /\ q.busy = r.busy /\ q.inbox = r.inbox
  <2>1. CASE r.abort # "asked"
    <3>1. q = Return(r, "ok")
      BY <2>1 DEF timeoutControl
    <3>a. LET p == Return(r, "ok") IN
          /\ p \in Session /\ p.op = "idle" /\ p.at = "none" /\ p.out = "ok" /\ p.child = r.child /\ p.term = r.term
          /\ p.error = r.error /\ p.gone = r.gone /\ p.turn = r.turn /\ p.said = r.said /\ p.busy = r.busy
          /\ p.inbox = r.inbox
      BY <1>r, ReturnIs
    <3> HIDE DEF q
    <3> QED
      BY <3>1, <3>a
  <2>2. CASE r.abort = "asked"
    <3> DEFINE p1 == [r EXCEPT !.op = "control"]
               p2 == [p1 EXCEPT !.at = "ack"]
               p3 == [p2 EXCEPT !.out = "none"]
    <3>1. q = [r EXCEPT !.op = "control", !.at = "ack", !.out = "none"]
      BY <2>2 DEF timeoutControl
    <3>2. p1 \in Session
      BY <1>r, Field
    <3>3. p2 \in Session
      <4> HIDE DEF p1
      <4> QED
        BY <3>2, Field
    <3>4. p3 \in Session
      <4> HIDE DEF p2
      <4> QED
        BY <3>3, Field
    <3>5. q \in Session
      BY <3>1, <3>4
    <3> QED
      BY <1>r, <3>1, <3>5 DEF Session
  <2> QED
    BY <2>1, <2>2
<1> HIDE DEF q
<1>2. Channel(q)
  BY <1>r, <1>1 DEF Channel
<1>3. SessionOK(q)
  BY <1>r, <1>1, <1>2 DEF SessionOK, Awaits, UnderWay
<1> QED
  BY <1>1, <1>3 DEF q, Sound, Stopped

\* close() ends stdin, and the session with it.
LEMMA CloseIs == ASSUME NEW r, SessionOK(r), r.op = "idle", Stopped(r) \/ ~r.gone, r.child # "none"
    PROVE  LET q == close(r) IN
           /\ Sound(q) /\ q.op \in {"close", "idle"} /\ q.child = r.child /\ q.term = r.term /\ q.error = r.error
           /\ q.gone /\ q.turn = r.turn /\ q.said = r.said /\ q.busy = r.busy /\ q.inbox = r.inbox
           /\ ~r.gone => CloseOK(q)
<1> DEFINE q == close(r)
<1>r. /\ r \in Session /\ r.said <= r.turn /\ r.turn \in Nat /\ r.said \in Nat /\ r.at = "none" /\ (r.busy => r.said < r.turn)
      /\ Channel(r) /\ \A n \in DOMAIN r.inbox : r.inbox[n].live => r.inbox[n].ask = "abort"
  BY FieldTypes, Unawaited DEF SessionOK
<1> DEFINE g == [r EXCEPT !.gone = TRUE]
<1>g. /\ g \in Session /\ g.op = "idle" /\ g.at = "none" /\ g.out = r.out /\ g.child = r.child /\ g.term = r.term
      /\ g.error = r.error /\ g.gone /\ g.turn = r.turn /\ g.said = r.said /\ g.busy = r.busy /\ g.inbox = r.inbox
  <2>1. g \in Session
    BY <1>r, Field
  <2> QED
    BY <1>r, <2>1 DEF Session
<1>1. /\ q \in Session /\ ((q.op = "idle" /\ q.at = "none") \/ (q.op = "close" /\ q.at = "closed"))
      /\ q.child = r.child /\ q.term = r.term /\ q.error = r.error
      /\ q.gone /\ q.turn = r.turn /\ q.said = r.said /\ q.busy = r.busy /\ q.inbox = r.inbox
      /\ q.op = "idle" => Stopped(q)
      /\ ~r.gone => CloseOK(q)
  <2>1. CASE r.gone
    <3>1. q = Return(r, "ok")
      BY <2>1 DEF close
    <3>a. LET p == Return(r, "ok") IN
          /\ p \in Session /\ p.op = "idle" /\ p.at = "none" /\ p.out = "ok" /\ p.child = r.child /\ p.term = r.term
          /\ p.error = r.error /\ p.gone = r.gone /\ p.turn = r.turn /\ p.said = r.said /\ p.busy = r.busy
          /\ p.inbox = r.inbox
      BY <1>r, ReturnIs
    <3> HIDE DEF q
    <3> QED
      BY <2>1, <3>1, <3>a DEF Stopped
  <2>2. CASE ~r.gone /\ r.child # "up"
    <3> DEFINE how == IF r.child = "ended" THEN "ok" ELSE "failed"
    <3>1. q = Return(g, how)
      BY <2>2 DEF close
    <3>2. how \in {"ok", "failed"} /\ (how = "ok" => r.child = "ended")
      OBVIOUS
    <3> HIDE DEF q, g, how
    <3>a. LET p == Return(g, how) IN
          /\ p \in Session /\ p.op = "idle" /\ p.at = "none" /\ p.out = how /\ p.child = g.child /\ p.term = g.term
          /\ p.error = g.error /\ p.gone = g.gone /\ p.turn = g.turn /\ p.said = g.said /\ p.busy = g.busy
          /\ p.inbox = g.inbox
      BY <1>g, <3>2, ReturnIs
    <3> QED
      BY <1>g, <2>2, <3>1, <3>2, <3>a DEF Stopped, CloseOK
  <2>3. CASE ~r.gone /\ r.child = "up"
    <3> DEFINE p1 == [g EXCEPT !.eof = TRUE]
               p2 == [p1 EXCEPT !.op = "close"]
               p3 == [p2 EXCEPT !.at = "closed"]
               p4 == [p3 EXCEPT !.out = "none"]
    <3>1. q = [r EXCEPT !.gone = TRUE, !.eof = TRUE, !.op = "close", !.at = "closed", !.out = "none"]
      BY <2>3 DEF close
    <3> HIDE DEF q
    <3>2. p1 \in Session
      <4> HIDE DEF g
      <4> QED
        BY <1>g, Field
    <3>3. p2 \in Session
      <4> HIDE DEF p1
      <4> QED
        BY <3>2, Field
    <3>4. p3 \in Session
      <4> HIDE DEF p2
      <4> QED
        BY <3>3, Field
    <3>5. p4 \in Session
      <4> HIDE DEF p3
      <4> QED
        BY <3>4, Field
    <3>6. q \in Session
      BY <3>1, <3>5
    <3>7. /\ q.op = "close" /\ q.at = "closed" /\ q.child = r.child /\ q.term = r.term /\ q.error = r.error
          /\ q.gone /\ q.turn = r.turn /\ q.said = r.said /\ q.busy = r.busy /\ q.inbox = r.inbox
      BY <1>r, <3>1 DEF Session
    <3> QED
      BY <3>6, <3>7 DEF CloseOK
  <2> QED
    BY <2>1, <2>2, <2>3
<1> HIDE DEF q
<1>2. Channel(q)
  BY <1>r, <1>1 DEF Channel
<1>3. SessionOK(q)
  BY <1>r, <1>1, <1>2 DEF SessionOK, Awaits, UnderWay
<1> QED
  BY <1>1, <1>3 DEF q, Sound

\* waitForExit() waits, and sends nothing.
LEMMA ExitIs == ASSUME NEW r, SessionOK(r), r.op = "idle", Stopped(r) \/ ~r.gone, r.child # "none"
    PROVE  LET q == waitForExit(r) IN
           /\ Sound(q) /\ q.op \in {"exit", "idle"} /\ q.child = r.child /\ q.term = r.term /\ q.error = r.error
           /\ q.gone = r.gone /\ q.turn = r.turn /\ q.said = r.said /\ q.busy = r.busy /\ q.inbox = r.inbox
<1> DEFINE q == waitForExit(r)
<1>r. /\ r \in Session /\ r.said <= r.turn /\ r.turn \in Nat /\ r.said \in Nat /\ r.at = "none" /\ (r.busy => r.said < r.turn)
      /\ Channel(r) /\ \A n \in DOMAIN r.inbox : r.inbox[n].live => r.inbox[n].ask = "abort"
  BY FieldTypes, Unawaited DEF SessionOK
<1>1. /\ q \in Session /\ ((q.op = "idle" /\ q.at = "none") \/ (q.op = "exit" /\ q.at = "closed"))
      /\ q.child = r.child /\ q.term = r.term /\ q.error = r.error
      /\ q.gone = r.gone /\ q.turn = r.turn /\ q.said = r.said /\ q.busy = r.busy /\ q.inbox = r.inbox
  <2>1. CASE r.child # "up"
    <3>1. q = Return(r, "ok")
      BY <2>1 DEF waitForExit
    <3>a. LET p == Return(r, "ok") IN
          /\ p \in Session /\ p.op = "idle" /\ p.at = "none" /\ p.out = "ok" /\ p.child = r.child /\ p.term = r.term
          /\ p.error = r.error /\ p.gone = r.gone /\ p.turn = r.turn /\ p.said = r.said /\ p.busy = r.busy
          /\ p.inbox = r.inbox
      BY <1>r, ReturnIs
    <3> HIDE DEF q
    <3> QED
      BY <3>1, <3>a
  <2>2. CASE r.child = "up"
    <3> DEFINE p1 == [r EXCEPT !.op = "exit"]
               p2 == [p1 EXCEPT !.at = "closed"]
               p3 == [p2 EXCEPT !.out = "none"]
    <3>1. q = [r EXCEPT !.op = "exit", !.at = "closed", !.out = "none"]
      BY <2>2 DEF waitForExit
    <3>2. p1 \in Session
      BY <1>r, Field
    <3>3. p2 \in Session
      <4> HIDE DEF p1
      <4> QED
        BY <3>2, Field
    <3>4. p3 \in Session
      <4> HIDE DEF p2
      <4> QED
        BY <3>3, Field
    <3>5. q \in Session
      BY <3>1, <3>4
    <3> QED
      BY <1>r, <3>1, <3>5 DEF Session
  <2> QED
    BY <2>1, <2>2
<1> HIDE DEF q
<1>2. Channel(q)
  BY <1>r, <1>1 DEF Channel
<1>3. SessionOK(q)
  BY <1>r, <1>1, <1>2 DEF SessionOK, Awaits, UnderWay
<1> QED
  BY <1>1, <1>3 DEF q, Sound, Stopped

\* What the script keeps of a session it has no variable for any more.
Forgotten(r) == [NoSession EXCEPT !.child = r.child, !.term = r.term, !.error = r.error, !.abort = r.abort,
                                  !.gone = TRUE]

\* A session that is over may be forgotten.
LEMMA ForgottenIs == ASSUME NEW r, SessionOK(r), r.op = "idle", Stopped(r)
    PROVE  LET q == Forgotten(r) IN
           /\ Sound(q) /\ Stopped(q) /\ q.op = "idle" /\ q.child = r.child /\ q.term = r.term /\ q.error = r.error
           /\ q.gone /\ q.abort = r.abort /\ Quiet(q)
<1> DEFINE q == Forgotten(r)
           p1 == [NoSession EXCEPT !.child = r.child]
           p2 == [p1 EXCEPT !.term = r.term]
           p3 == [p2 EXCEPT !.error = r.error]
           p4 == [p3 EXCEPT !.abort = r.abort]
           p5 == [p4 EXCEPT !.gone = TRUE]
<1>r. r \in Session /\ r.child \in {"none", "up", "ended", "died"} /\ r.term \in BOOLEAN
      /\ r.error \in {"none", "timeout", "jsonl", "died"} /\ r.abort \in {"none", "asked", "acked", "failed"}
      /\ (r.child = "none" => r.error = "none")
  BY FieldTypes DEF SessionOK
<1>1. p1 \in Session
  BY <1>r, NoSessionIs, Field
<1>2. p2 \in Session
  <2> HIDE DEF p1
  <2> QED
    BY <1>r, <1>1, Field
<1>3. p3 \in Session
  <2> HIDE DEF p2
  <2> QED
    BY <1>r, <1>2, Field
<1>4. p4 \in Session
  <2> HIDE DEF p3
  <2> QED
    BY <1>r, <1>3, Field
<1>5. p5 \in Session
  <2> HIDE DEF p4
  <2> QED
    BY <1>4, Field
<1>6. q \in Session
  BY <1>5 DEF Forgotten
<1>7. /\ q.op = "idle" /\ q.at = "none" /\ q.child = r.child /\ q.term = r.term /\ q.error = r.error /\ q.abort = r.abort
      /\ q.gone /\ q.inbox = << >> /\ ~q.busy /\ q.turn = 0 /\ q.said = 0
  BY DEF Forgotten, NoSession
<1> HIDE DEF q
<1>8. SessionOK(q)
  BY <1>r, <1>6, <1>7 DEF SessionOK, Awaits, Channel, UnderWay
<1> QED
  BY <1>7, <1>8 DEF q, Sound, Stopped, Quiet

-----------------------------------------------------------------------------
(* The steps of an evaluation.                                             *)
EvalState == EvalTypes /\ EvalInv /\ AllSound

\* The session of the attempt is sound.
LEMMA CaseIs == ASSUME AllSound
    PROVE  "case" \in Sessions /\ Sound(Case) /\ SessionOK(Case) /\ Case \in Session
           /\ Case.turn \in Nat /\ Case.said \in Nat /\ Case.said <= Case.turn /\ Case.busy \in BOOLEAN
<1>1. "case" \in Sessions
  BY DEF Sessions
<1>2. Sound(Case) /\ SessionOK(Case) /\ Case \in Session /\ Case.said <= Case.turn
  BY <1>1 DEF AllSound, Case, Sound, SessionOK
<1> QED
  BY <1>1, <1>2, FieldTypes

\* What is recorded does not change while an attempt goes on.
LEMMA BookedStays == ASSUME Booked, InProgress, phase' \notin {"off", "next", "done"},
                            UNCHANGED <<attempts, todo, task, gate>>
    PROVE  Booked' /\ GateHonest' /\ TurnJudged' /\ PassedIsOver'
<1>1. InProgress'
  BY DEF InProgress
<1>2. ~gate.done
  BY DEF Booked, InProgress
<1>3. Booked'
  BY <1>1, <1>2 DEF Booked, Made, InProgress
<1>4. ~Passed'
  BY DEF Passed
<1> QED
  BY <1>2, <1>3, <1>4 DEF GateHonest, TurnJudged, PassedIsOver

\* createPiRpcSession returns, or throws and leaves no child.
LEMMA StepCreated == ASSUME EvalAssumption, EvalState, Created
    PROVE  EvalTypes' /\ EvalInv' /\ AllSound'
<1> USE DEF EvalState
<1>1. EvalTypes'
  BY DEF EvalTypes, Created
<1>c. UNCHANGED Case /\ Case.op = "idle" /\ Sound(Case) /\ turn = 1 /\ Case.turn = 0 /\ Quiet(Case) /\ CreateOK(Case)
      /\ ~Case.gone /\ Case.child # "none" /\ phase' \in {"turn", "fail"} /\ phase = "create"
      /\ (phase' = "turn" <=> Case.out = "ok")
  BY CaseIs DEF Created, Returned, Case, AttemptOK, EvalInv
<1>2. AttemptOK'
  BY <1>c DEF AttemptOK, Created, CreateOK, Quiet
<1>3. Counted'
  BY <1>c DEF Counted, Created, EvalInv
<1>4. Judged'
  <2>1. \A t \in 1..(turn - 1) : FALSE
    BY <1>c
  <2> QED
    BY <1>c, <2>1 DEF Judged, Created, EvalInv
<1>5. Booked' /\ GateHonest' /\ TurnJudged' /\ PassedIsOver'
  BY <1>c, BookedStays DEF Created, InProgress, EvalInv
<1>6. AllSound'
  BY DEF Created, AllSound
<1> QED
  BY <1>1, <1>2, <1>3, <1>4, <1>5, <1>6 DEF EvalInv

\* The observer writes, the workspace is snapshot, and the turn is asked for.
LEMMA StepStartTurn == ASSUME EvalAssumption, EvalState, StartTurn
    PROVE  EvalTypes' /\ EvalInv' /\ AllSound'
<1> USE DEF EvalState
<1> DEFINE q == prompt(Case)
<1>c. Case.op = "idle" /\ Sound(Case) /\ SessionOK(Case) /\ Case.turn = turn - 1 /\ ~Case.busy /\ Case.error = "none"
      /\ ~Case.gone /\ Case.child # "none" /\ phase = "turn" /\ phase' = "answer" /\ turn \in 1..Turns /\ turn \in Nat
      /\ Case.turn \in Nat /\ Case.said \in Nat /\ Case.said <= Case.turn
  BY CaseIs DEF StartTurn, AttemptOK, EvalInv, EvalTypes, EvalAssumption
<1>q. /\ Sound(q) /\ q.op \in {"prompt", "idle"} /\ q.child = Case.child /\ q.error = Case.error
      /\ ~q.gone /\ q.turn = Case.turn /\ q.said = Case.said /\ PromptOK(q)
      /\ q.op = "prompt" => q.at = "prompt" /\ Asked(q, Case.turn + 1)
      /\ q.op = "idle" => q.out = "failed" /\ q.inbox = Case.inbox
  BY <1>c, PromptIs
<1> HIDE DEF q
<1>s. AllSound' /\ Case' = q
  <2>1. s' = [s EXCEPT !["case"] = q]
    BY DEF StartTurn, Call, q, Case
  <2> QED
    BY <1>q, <2>1, Put, CaseIs DEF Case
<1>1. EvalTypes'
  <2>1. tree' \in [Paths -> 0..2]
    BY DEF EvalTypes, StartTurn
  <2> QED
    BY <2>1 DEF EvalTypes, StartTurn
<1>2. AttemptOK'
  BY <1>c, <1>q, <1>s DEF AttemptOK
<1>3. Counted'
  <2>1. UNCHANGED turn
    BY DEF StartTurn
  <2>2. Asked(Case, turn)
    BY DEF Counted, EvalInv
  <2>3. Asked(q, turn)
    <3>1. CASE q.op = "prompt"
      BY <1>c, <1>q, <3>1
    <3>2. CASE q.op = "idle"
      BY <1>q, <2>2, <3>2 DEF Asked
    <3> QED
      BY <1>q, <3>1, <3>2
  <2>4. q.op = "prompt" => Under(q, turn)
    BY <1>c, <1>q DEF Under
  <2> QED
    BY <1>c, <1>q, <1>s, <2>1, <2>3, <2>4 DEF Counted
<1>4. Judged'
  <2>1. UNCHANGED <<turn, wrote, stray>> /\ before' = tree' /\ Case'.said = Case.said /\ Case'.turn = turn - 1
    BY <1>c, <1>q, <1>s DEF StartTurn
  <2>2. \A w \in wrote' : w[1] <= Case'.said
    BY <2>1 DEF Judged, EvalInv
  <2>3. ~stray' => \A t \in 1..(turn' - 1) : Fine(t)'
    BY <1>c, <2>1 DEF Judged, EvalInv, Fine, Did
  <2>4. Case'.turn # turn' /\ Case'.said # turn'
    BY <1>c, <2>1
  <2> QED
    BY <1>c, <2>1, <2>2, <2>3, <2>4 DEF Judged
<1>5. Booked' /\ GateHonest' /\ TurnJudged' /\ PassedIsOver'
  BY <1>c, BookedStays DEF StartTurn, InProgress, EvalInv
<1> QED
  BY <1>1, <1>2, <1>3, <1>4, <1>5, <1>s DEF EvalInv

\* What the turn changed is judged, or PI failed.
LEMMA StepJudgeTurn == ASSUME EvalAssumption, EvalState, JudgeTurn
    PROVE  EvalTypes' /\ EvalInv' /\ AllSound'
<1> USE DEF EvalState
<1>c. Case.op = "idle" /\ Sound(Case) /\ SessionOK(Case) /\ PromptOK(Case) /\ ~Case.gone /\ Case.child # "none"
      /\ phase = "answer" /\ phase' \in {"turn", "stats"} /\ turn \in 1..Turns /\ turn \in Nat /\ Turns \in Nat
      /\ Case.turn \in Nat /\ Case.said \in Nat /\ Case.said <= Case.turn /\ UNCHANGED Case
  BY CaseIs DEF JudgeTurn, Returned, Case, AttemptOK, EvalInv, EvalTypes, EvalAssumption
<1>g. PICK matched \in BOOLEAN :
        LET good == /\ matched
                    /\ modelMutations \subseteq Allowed[turn]
                    /\ Needed[turn] \subseteq modelMutations
        IN  IF Case.out # "ok"
            THEN infra' = TRUE /\ phase' = "stats" /\ UNCHANGED <<errors, turn>>
            ELSE /\ errors' = ~good
                 /\ phase' = IF good /\ turn < Turns THEN "turn" ELSE "stats"
                 /\ turn' = IF good /\ turn < Turns THEN turn + 1 ELSE turn
                 /\ UNCHANGED infra
  BY DEF JudgeTurn, Case
<1> DEFINE good == /\ matched
                   /\ modelMutations \subseteq Allowed[turn]
                   /\ Needed[turn] \subseteq modelMutations
<1>u. UNCHANGED <<s, todo, retry, task, tree, before, attempts, gate, start, wrote, stray>>
  BY DEF JudgeTurn
<1>a. \/ Case.out # "ok" /\ infra' = TRUE /\ phase' = "stats" /\ UNCHANGED <<errors, turn>>
      \/ /\ Case.out = "ok" /\ good /\ turn < Turns /\ phase' = "turn" /\ turn' = turn + 1 /\ errors' = FALSE
         /\ UNCHANGED infra
      \/ /\ Case.out = "ok" /\ ~(good /\ turn < Turns) /\ phase' = "stats" /\ UNCHANGED <<infra, turn>>
         /\ errors' = ~good
  BY <1>g
<1>o. Case.out = "ok" => Own(Case) /\ Case.error = "none" /\ Case.inbox = << >> /\ Case.turn = turn /\ Quiet(Case)
  <2> SUFFICES ASSUME Case.out = "ok"
               PROVE  Own(Case) /\ Case.error = "none" /\ Case.inbox = << >> /\ Case.turn = turn /\ Quiet(Case)
    OBVIOUS
  <2>1. Own(Case) /\ Case.error = "none"
    BY <1>c DEF PromptOK
  <2>2. Case.inbox = << >>
    BY <1>c, <2>1, Unawaited
  <2>3. Case.turn = turn
    BY <1>c DEF Counted, EvalInv
  <2> QED
    BY <2>1, <2>2, <2>3 DEF Quiet, Own
<1>m. Case.out = "ok" /\ ~stray /\ good => \A t \in 1..turn : Fine(t)
  <2> SUFFICES ASSUME Case.out = "ok", ~stray, good PROVE \A t \in 1..turn : Fine(t)
    OBVIOUS
  <2>1. \A t \in 1..(turn - 1) : Fine(t)
    BY <1>c DEF Judged, EvalInv
  <2>2. Did(turn) = modelMutations
    BY <1>c, <1>o DEF Judged, EvalInv, Own
  <2>3. Fine(turn)
    BY <2>2 DEF Fine
  <2>4. \A t \in 1..turn : t = turn \/ t \in 1..(turn - 1)
    BY <1>c
  <2> QED
    BY <2>1, <2>3, <2>4
<1> HIDE DEF good
<1>f. \A t \in Nat : Fine(t)' <=> Fine(t)
  BY <1>u DEF Fine, Did
<1>1. EvalTypes'
  <2>1. turn' \in 1..Turns
    BY <1>c, <1>a
  <2>2. errors' \in BOOLEAN /\ infra' \in BOOLEAN
    BY <1>a DEF EvalTypes, good
  <2> QED
    BY <1>c, <1>u, <2>1, <2>2 DEF EvalTypes
<1>2. AttemptOK'
  <2>1. phase' = "turn" => Case.error = "none" /\ ~Case.busy /\ Case.turn = turn' - 1
    BY <1>c, <1>a, <1>o DEF Own
  <2>2. phase' = "stats" /\ ~infra' => Quiet(Case)
    BY <1>a, <1>o
  <2> QED
    BY <1>c, <2>1, <2>2 DEF AttemptOK
<1>3. Counted'
  <2>1. Asked(Case, turn')
    <3>1. CASE turn' = turn
      BY <3>1 DEF Counted, EvalInv
    <3>2. CASE Case.out = "ok" /\ turn' = turn + 1
      BY <1>c, <1>o, <3>2 DEF Asked
    <3> QED
      BY <1>a, <3>1, <3>2
  <2> QED
    BY <1>c, <2>1 DEF Counted
<1>4. Judged'
  <2>1. \A w \in wrote' : w[1] <= Case'.said
    BY <1>c, <1>u DEF Judged, EvalInv
  <2>2. ~stray' /\ phase' = "turn" => \A t \in 1..(turn' - 1) : Fine(t)'
    <3>1. \A t \in 1..turn : t \in Nat
      BY <1>c
    <3>2. phase' = "turn" => Case.out = "ok" /\ good /\ turn' - 1 = turn
      BY <1>c, <1>a
    <3> QED
      BY <1>u, <1>m, <1>f, <3>1, <3>2
  <2>3. ~stray' /\ phase' = "stats" /\ ~infra' /\ ~errors' => turn' = Turns /\ \A t \in 1..Turns : Fine(t)'
    <3>1. \A t \in 1..turn : t \in Nat
      BY <1>c
    <3> SUFFICES ASSUME ~stray', phase' = "stats", ~infra', ~errors'
                 PROVE  turn' = Turns /\ \A t \in 1..Turns : Fine(t)'
      OBVIOUS
    <3>a. Case.out = "ok" /\ ~(good /\ turn < Turns) /\ turn' = turn /\ errors' = ~good
      BY <1>a
    <3>b. good
      BY <3>a
    <3>2. Case.out = "ok" /\ good /\ turn = Turns /\ turn' = turn
      BY <1>c, <3>a, <3>b
    <3>3. \A t \in 1..turn : Fine(t)
      BY <1>u, <1>m, <3>2
    <3> QED
      BY <1>f, <3>1, <3>2, <3>3
  <2> QED
    BY <1>c, <2>1, <2>2, <2>3 DEF Judged
<1>5. Booked' /\ GateHonest' /\ TurnJudged' /\ PassedIsOver'
  BY <1>c, <1>u, BookedStays DEF InProgress, EvalInv
<1>6. AllSound'
  BY <1>u DEF AllSound
<1> QED
  BY <1>1, <1>2, <1>3, <1>4, <1>5, <1>6 DEF EvalInv

\* The statistics are asked for.
LEMMA StepStats == ASSUME EvalAssumption, EvalState, Stats
    PROVE  EvalTypes' /\ EvalInv' /\ AllSound'
<1> USE DEF EvalState
<1> DEFINE q == stats(Case)
<1>c. Case.op = "idle" /\ Sound(Case) /\ SessionOK(Case) /\ ~Case.gone /\ Case.child # "none"
      /\ phase = "stats" /\ phase' = "close" /\ turn \in Nat
  BY CaseIs DEF Stats, AttemptOK, EvalInv, EvalTypes, EvalAssumption
<1>u. UNCHANGED <<todo, retry, task, turn, tree, before, infra, attempts, gate, start, wrote, stray>>
  BY DEF Stats
<1>q. /\ Sound(q) /\ q.op = "stats" /\ q.child = Case.child /\ ~q.gone /\ q.turn = Case.turn /\ q.said = Case.said
      /\ Quiet(Case) => Quiet(q)
      /\ \A k \in Nat : Asked(Case, k) => Asked(q, k)
  BY <1>c, RequestIs
<1>s. AllSound' /\ Case' = q
  <2>1. s' = [s EXCEPT !["case"] = q]
    BY DEF Stats, Call, Case
  <2> HIDE DEF q
  <2> QED
    BY <1>q, <2>1, Put, CaseIs DEF Case
<1> HIDE DEF q
<1>e. errors' \in BOOLEAN /\ (~infra /\ ~errors' => ~errors)
  BY DEF Stats, EvalTypes
<1>1. EvalTypes'
  BY <1>c, <1>u, <1>e DEF EvalTypes
<1>2. AttemptOK'
  BY <1>c, <1>q, <1>s, <1>u DEF AttemptOK, EvalInv
<1>3. Counted'
  BY <1>c, <1>q, <1>s, <1>u DEF Counted, EvalInv
<1>4. Judged'
  BY <1>c, <1>q, <1>s, <1>u, <1>e DEF Judged, EvalInv, Fine, Did
<1>5. Booked' /\ GateHonest' /\ TurnJudged' /\ PassedIsOver'
  BY <1>c, <1>u, BookedStays DEF InProgress, EvalInv
<1> QED
  BY <1>1, <1>2, <1>3, <1>4, <1>5, <1>s DEF EvalInv

\* The session is closed, whatever came of the turns.
LEMMA StepCloseSession == ASSUME EvalAssumption, EvalState, CloseSession
    PROVE  EvalTypes' /\ EvalInv' /\ AllSound'
<1> USE DEF EvalState
<1> DEFINE q == close(Case)
<1>c. Case.op = "idle" /\ Sound(Case) /\ SessionOK(Case) /\ ~Case.gone /\ Case.child # "none"
      /\ phase = "close" /\ phase' = "clean" /\ turn \in Nat
  BY CaseIs DEF CloseSession, Returned, Case, AttemptOK, EvalInv, EvalTypes, EvalAssumption
<1>u. UNCHANGED <<todo, retry, task, turn, tree, before, errors, infra, attempts, gate, start, wrote, stray>>
  BY DEF CloseSession
<1>q. /\ Sound(q) /\ q.op \in {"close", "idle"} /\ q.child = Case.child /\ q.gone /\ CloseOK(q)
      /\ q.turn = Case.turn /\ q.said = Case.said /\ q.busy = Case.busy /\ q.inbox = Case.inbox
  BY <1>c, CloseIs
<1>s. AllSound' /\ Case' = q
  <2>1. s' = [s EXCEPT !["case"] = q]
    BY DEF CloseSession, Call, Case
  <2> HIDE DEF q
  <2> QED
    BY <1>q, <2>1, Put, CaseIs DEF Case
<1> HIDE DEF q
<1>1. EvalTypes'
  BY <1>c, <1>u DEF EvalTypes
<1>2. AttemptOK'
  BY <1>c, <1>q, <1>s, <1>u DEF AttemptOK, EvalInv, Quiet
<1>3. Counted'
  BY <1>c, <1>q, <1>s, <1>u DEF Counted, EvalInv, Asked
<1>4. Judged'
  BY <1>c, <1>q, <1>s, <1>u DEF Judged, EvalInv, Fine, Did
<1>5. Booked' /\ GateHonest' /\ TurnJudged' /\ PassedIsOver'
  BY <1>c, <1>u, BookedStays DEF InProgress, EvalInv
<1> QED
  BY <1>1, <1>2, <1>3, <1>4, <1>5, <1>s DEF EvalInv

\* PI writes in a turn, or outside one: from then on nothing is said of the turns.
LEMMA StepWrite == ASSUME EvalAssumption, EvalState, NEW p \in Paths, Write(p)
    PROVE  EvalTypes' /\ EvalInv' /\ AllSound'
<1> USE DEF EvalState
<1>c. Sound(Case) /\ SessionOK(Case) /\ phase \in {"turn", "answer", "stats", "close", "clean"}
      /\ Case.turn \in Nat /\ Case.said \in Nat /\ Case.said <= Case.turn /\ turn \in Nat /\ Case.busy \in BOOLEAN
  BY CaseIs DEF Write, EvalTypes, EvalAssumption
<1>u. UNCHANGED <<s, phase, todo, retry, task, turn, before, errors, infra, attempts, gate, start, wrote>>
  BY DEF Write
<1>s. UNCHANGED Case /\ (~stray' => ~stray /\ Case.busy)
  BY <1>u DEF Write, Case
<1>1. EvalTypes'
  <2>1. tree' \in [Paths -> 0..2]
    BY DEF Write, EvalTypes
  <2>2. stray' \in BOOLEAN
    BY <1>c DEF Write, EvalTypes, Case
  <2> QED
    BY <1>u, <2>1, <2>2 DEF EvalTypes
<1>2. AttemptOK'
  BY <1>s, <1>u DEF AttemptOK, EvalInv
<1>3. Counted'
  BY <1>s, <1>u DEF Counted, EvalInv
<1>4. Judged'
  <2>1. \A w \in wrote' : w[1] <= Case'.said
    BY <1>s, <1>u DEF Judged, EvalInv
  <2>2. CASE stray'
    BY <2>1, <2>2 DEF Judged
  <2>3. CASE ~stray'
    <3>1. ~stray /\ Case.busy
      BY <1>s, <2>3
    <3>2. CASE phase = "turn"
      BY <3>1, <3>2 DEF AttemptOK, EvalInv
    <3>3. CASE phase = "answer"
      <4>1. ~(Case.op = "idle" /\ Case.out = "ok")
        BY <3>1, <3>3 DEF AttemptOK, EvalInv, PromptOK, Own
      <4>2. Case.op = "prompt" => Case.turn = turn
        BY <1>c, <3>1, <3>3 DEF Counted, EvalInv, Under, SessionOK, UnderWay
      <4>3. Case.op = "prompt" => Case.said # turn
        BY <1>c, <3>1, <4>2 DEF SessionOK
      <4>4. \A t \in 1..(turn - 1) : Fine(t)'
        BY <1>u, <3>1, <3>3 DEF Judged, EvalInv, Fine, Did
      <4>5. Case.op = "prompt" => (Case.turn = turn /\ Case.said # turn => start = before)
        BY <3>1, <3>3 DEF Judged, EvalInv
      <4>6. Case.op = "prompt" => Case.turn # turn - 1
        BY <1>c, <4>2
      <4>7. Case.op \in {"prompt", "idle"}
        BY <3>3 DEF AttemptOK, EvalInv
      <4> QED
        BY <1>s, <1>u, <2>1, <3>3, <4>1, <4>2, <4>3, <4>4, <4>5, <4>6, <4>7 DEF Judged
    <3>4. CASE phase \in {"stats", "close", "clean"}
      <4>1. infra
        BY <3>1, <3>4 DEF AttemptOK, EvalInv, Quiet
      <4> QED
        BY <1>s, <1>u, <2>1, <3>4, <4>1 DEF Judged
    <3> QED
      BY <1>c, <3>2, <3>3, <3>4
  <2> QED
    BY <2>2, <2>3
<1>5. Booked' /\ GateHonest' /\ TurnJudged' /\ PassedIsOver'
  BY <1>c, <1>u, BookedStays DEF InProgress, EvalInv
<1>6. AllSound'
  BY <1>u DEF AllSound
<1> QED
  BY <1>1, <1>2, <1>3, <1>4, <1>5, <1>6 DEF EvalInv

\* While PI is waited for, an attempt is in progress.
LEMMA CaseMoves == ASSUME EvalAssumption, EvalState, NEW q \in Session, Replaced("case", q), Moves(Case, q),
                          Case.op # "idle", UNCHANGED <<phase, todo, retry, task, turn, errors, infra, attempts, gate, stray>>
    PROVE  /\ AllSound' /\ Case' = q /\ AttemptOK' /\ Counted'
           /\ Booked' /\ GateHonest' /\ TurnJudged' /\ PassedIsOver'
           /\ phase \in {"create", "answer", "close", "clean"} /\ (phase = "answer" => Case.op = "prompt")
<1> USE DEF EvalState
<1>c. Sound(Case) /\ SessionOK(Case) /\ turn \in Nat /\ Case.turn \in Nat
      /\ phase \in {"create", "answer", "close", "clean"}
      /\ (phase = "create" => Case.op = "create") /\ (phase = "answer" => Case.op = "prompt")
      /\ (phase = "close" => Case.op = "stats") /\ (phase = "clean" => Case.op = "close")
  BY CaseIs, NoSessionIs DEF AttemptOK, EvalInv, EvalTypes, EvalAssumption
<1>q. Sound(q)
  BY <1>c, MovesSound
<1>s. AllSound' /\ Case' = q
  BY <1>q, Put, CaseIs DEF Case, Replaced
<1>m. /\ q.gone = Case.gone /\ q.op \in {Case.op, "idle"} /\ q.child # "none"
      /\ Quiet(Case) => Quiet(q) /\ Steady(Case, q)
      /\ Case.op = "create" => CreateOK(q)
      /\ Case.op = "prompt" => PromptOK(q)
      /\ Case.op = "close" => CloseOK(q)
      /\ Asked(Case, turn) => Asked(q, turn)
      /\ Case.op = "prompt" /\ Under(Case, turn) =>
            /\ q.op = "prompt" => Under(q, turn)
            /\ q.op = "idle" /\ q.out = "ok" => q.turn = turn
  BY <1>c DEF Moves
<1>2. AttemptOK'
  BY <1>c, <1>m, <1>s DEF AttemptOK, EvalInv, Steady
<1>3. Counted'
  BY <1>c, <1>m, <1>s DEF Counted, EvalInv
<1>5. Booked' /\ GateHonest' /\ TurnJudged' /\ PassedIsOver'
  BY <1>c, BookedStays DEF InProgress, EvalInv
<1> QED
  BY <1>c, <1>s, <1>2, <1>3, <1>5

\* A timer of the attempt's session fires.
LEMMA StepTimers == ASSUME EvalAssumption, EvalState, Timers("case"), UNCHANGED evalVars
    PROVE  EvalTypes' /\ EvalInv' /\ AllSound'
<1> USE DEF EvalState
<1>1. SessionOK(s["case"])
  BY CaseIs DEF Case
<1>2. PICK q \in Session : Replaced("case", q) /\ Moves(Case, q) /\ Steady(Case, q)
  BY <1>1, TimersMove DEF Case
<1>3. Case.op # "idle"
  BY <1>1, TimersMove DEF Case
<1>u. UNCHANGED <<phase, todo, retry, task, turn, tree, before, errors, infra, attempts, gate, start, wrote, stray>>
  BY DEF evalVars
<1>4. /\ AllSound' /\ Case' = q /\ AttemptOK' /\ Counted'
      /\ Booked' /\ GateHonest' /\ TurnJudged' /\ PassedIsOver'
      /\ phase \in {"create", "answer", "close", "clean"} /\ (phase = "answer" => Case.op = "prompt")
  BY <1>2, <1>3, <1>u, CaseMoves
<1>5. EvalTypes'
  BY <1>u DEF EvalTypes
<1>6. Judged'
  <2>1. Case'.turn = Case.turn /\ Case'.said = Case.said
    BY <1>2, <1>4 DEF Steady
  <2>2. UNCHANGED modelMutations /\ \A t \in Nat : (Fine(t)' <=> Fine(t)) /\ Did(t)' = Did(t)
    BY <1>u DEF modelMutations, Fine, Did
  <2>3. \A t \in 1..(turn - 1) : t \in Nat
    OBVIOUS
  <2>4. \A t \in 1..Turns : t \in Nat
    OBVIOUS
  <2>5. turn \in Nat
    BY DEF EvalTypes, EvalAssumption
  <2>6. \A w \in wrote' : w[1] <= Case'.said
    BY <1>u, <2>1 DEF Judged, EvalInv
  <2> QED
    BY <1>4, <1>u, <2>1, <2>2, <2>3, <2>4, <2>5, <2>6 DEF Judged, EvalInv
<1> QED
  BY <1>4, <1>5, <1>6 DEF EvalInv

\* PI speaks, settles or dies while the observer looks at the workspace.
LEMMA StepChild == ASSUME EvalAssumption, EvalState, Child("case"), Watch
    PROVE  EvalTypes' /\ EvalInv' /\ AllSound'
<1> USE DEF EvalState
<1>1. SessionOK(s["case"])
  BY CaseIs DEF Case
<1>2. PICK q \in Session : Replaced("case", q) /\ Moves(Case, q)
  BY <1>1, ChildMoves DEF Case
<1>3. Case.op # "idle"
  BY <1>1, ChildMoves DEF Case
<1>u. UNCHANGED <<phase, todo, retry, task, turn, tree, before, errors, infra, attempts, gate, stray>>
  BY DEF Watch
<1>4. /\ AllSound' /\ Case' = q /\ AttemptOK' /\ Counted'
      /\ Booked' /\ GateHonest' /\ TurnJudged' /\ PassedIsOver'
      /\ phase \in {"create", "answer", "close", "clean"} /\ (phase = "answer" => Case.op = "prompt")
  BY <1>2, <1>3, <1>u, CaseMoves
<1>n. /\ q.turn \in Nat /\ q.said \in Nat /\ q.said <= q.turn /\ Case.turn \in Nat /\ Case.said \in Nat
      /\ Case.said <= Case.turn /\ turn \in Nat /\ turn \in 1..Turns /\ Turns \in Nat /\ (Case.busy => Case.said < Case.turn)
  <2>1. q.turn \in Nat /\ q.said \in Nat /\ q.said <= q.turn
    BY <1>2, FieldTypes DEF Moves, SessionOK
  <2> QED
    BY <2>1, CaseIs DEF EvalTypes, EvalAssumption, SessionOK
<1>w. /\ start' = IF q.turn # Case.turn THEN tree ELSE start
      /\ wrote' = IF q.said # Case.said
                    THEN wrote \cup {<<q.said, p>> : p \in {p \in Paths : tree[p] # start'[p]}}
                    ELSE wrote
  BY <1>4 DEF Watch, Case
<1>t. q.turn <= turn
  BY <1>4, <1>u DEF Counted, Asked
<1>k. Steady(Case, q) \/ Begins(Case, q) \/ Settles(Case, q)
  BY <1>2 DEF Moves
<1>o. q.said >= Case.said
  BY <1>k, <1>n DEF Steady, Begins, Settles
<1>5. EvalTypes'
  <2>1. q.said # Case.said => q.said \in 1..Turns
    BY <1>n, <1>o, <1>t
  <2>2. wrote' \subseteq (1..Turns) \X Paths
    BY <1>w, <2>1 DEF EvalTypes
  <2>3. start' \in [Paths -> 0..2]
    BY <1>w DEF EvalTypes
  <2> QED
    BY <1>u, <2>2, <2>3 DEF EvalTypes
<1>6. Judged'
  <2>1. \A w \in wrote' : w[1] <= q.said
    <3>1. \A w \in wrote : w[1] <= Case.said /\ w[1] \in Nat
      BY DEF Judged, EvalInv, EvalTypes
    <3>2. \A w \in wrote : w[1] <= q.said
      BY <1>n, <1>o, <3>1
    <3> QED
      BY <1>n, <1>w, <3>2
  <2>2. CASE phase \in {"create", "close", "clean"}
    <3>1. ~infra /\ phase # "create" => q.said = Case.said /\ q.turn = Case.turn
      BY <1>2, <2>2 DEF Moves, AttemptOK, EvalInv, Steady
    <3>2. ~infra /\ phase # "create" => wrote' = wrote
      BY <1>w, <3>1
    <3> QED
      BY <1>4, <1>u, <2>1, <2>2, <3>1, <3>2 DEF Judged, EvalInv, Fine, Did
  <2>3. CASE phase = "answer" /\ ~stray
    <3>0. Case.op = "prompt"
      BY <1>4, <2>3
    <3>1. /\ \A t \in 1..(turn - 1) : Fine(t)
          /\ Case.turn = turn - 1 => tree = before
          /\ Case.turn = turn /\ Case.said # turn => start = before
          /\ Case.said = turn => Did(turn) = modelMutations
      BY <2>3, <3>0 DEF Judged, EvalInv
    <3>2. Case.turn \in {turn - 1, turn} /\ (Case.busy => Case.turn = turn)
      BY <1>n, <2>3, <3>0, CaseIs DEF Counted, EvalInv, Under, SessionOK, UnderWay
    <3>3. Case.said < turn => Did(turn) = {}
      BY <1>n DEF Judged, EvalInv, Did, EvalTypes
    <3>4. UNCHANGED modelMutations
      BY <1>u DEF modelMutations
    <3> DEFINE Goal == /\ \A t \in 1..(turn - 1) : Fine(t)'
                       /\ q.turn = turn - 1 => tree = before
                       /\ q.turn = turn /\ q.said # turn => start' = before
                       /\ q.said = turn => Did(turn)' = modelMutations
    <3>5. Goal
      <4>1. CASE Steady(Case, q)
        <5>1. start' = start /\ wrote' = wrote /\ q.turn = Case.turn /\ q.said = Case.said
          BY <1>w, <4>1 DEF Steady
        <5>2. (\A t \in 1..(turn - 1) : Fine(t)' <=> Fine(t)) /\ Did(turn)' = Did(turn)
          BY <1>u, <5>1 DEF Fine, Did
        <5> QED
          BY <3>1, <5>1, <5>2
      <4>2. CASE Begins(Case, q)
        <5>1. q.turn = turn /\ Case.turn = turn - 1 /\ tree = before /\ start' = before /\ q.said \in {Case.said, turn}
          BY <1>n, <1>t, <1>w, <3>1, <3>2, <4>2 DEF Begins
        <5>2. wrote' = wrote
          BY <1>w, <5>1
        <5>3. modelMutations = {} /\ Did(turn) = {}
          BY <1>n, <3>3, <5>1 DEF modelMutations
        <5>4. (\A t \in 1..(turn - 1) : Fine(t)' <=> Fine(t)) /\ Did(turn)' = Did(turn)
          BY <1>u, <5>2 DEF Fine, Did
        <5> QED
          BY <1>n, <3>1, <5>1, <5>3, <5>4
      <4>3. CASE Settles(Case, q)
        <5>1. q.turn = turn /\ Case.turn = turn /\ q.said = turn /\ Case.said < turn /\ start' = start /\ start = before
          BY <1>n, <1>w, <3>1, <3>2, <4>3 DEF Settles
        <5>2. wrote' = wrote \cup {<<turn, p>> : p \in {p \in Paths : tree[p] # before[p]}}
          BY <1>n, <1>w, <5>1
        <5>a. \A t, p : <<t, p>> \in wrote' <=> <<t, p>> \in wrote \/ (t = turn /\ p \in Paths /\ tree[p] # before[p])
          BY <5>2
        <5>b. Did(turn) = {}
          BY <3>3, <5>1
        <5>3. Did(turn)' = modelMutations
          BY <1>u, <5>a, <5>b DEF Did, modelMutations
        <5>4. ASSUME NEW t \in 1..(turn - 1) PROVE Did(t)' = Did(t)
          <6>1. t # turn
            BY <1>n
          <6> QED
            BY <5>a, <6>1 DEF Did
        <5>5. \A t \in 1..(turn - 1) : Fine(t)'
          BY <3>1, <5>4 DEF Fine
        <5> QED
          BY <1>n, <5>1, <5>3, <5>5
      <4> QED
        BY <1>k, <4>1, <4>2, <4>3
    <3> HIDE DEF Goal
    <3>6. /\ \A t \in 1..(turn' - 1) : Fine(t)'
          /\ Case'.turn = turn' - 1 => tree' = before'
          /\ Case'.turn = turn' /\ Case'.said # turn' => start' = before'
          /\ Case'.said = turn' => Did(turn)' = modelMutations'
      BY <1>4, <1>u, <3>4, <3>5 DEF Goal
    <3> QED
      BY <1>4, <1>u, <2>1, <2>3, <3>6 DEF Judged
  <2>4. CASE phase = "answer" /\ stray
    BY <1>4, <1>u, <2>1, <2>4 DEF Judged
  <2> QED
    BY <1>4, <2>2, <2>3, <2>4
<1> QED
  BY <1>4, <1>5, <1>6 DEF EvalInv

\* A set of numbers that has a bound and is not empty has a greatest one.
LEMMA GreatestNumber == ASSUME NEW T \in SUBSET Nat, T # {}, NEW b \in Nat, \A x \in T : x <= b
    PROVE  Max(T) \in T
<1> DEFINE U == {u \in Nat : \A x \in T : x <= u}
           R == OpToRel(<, Nat)
<1>1. IsWellFoundedOn(R, Nat)
  BY NatLessThanWellFounded
<1>2. \A x, y \in Nat : <<x, y>> \in R <=> x < y
  BY DEF OpToRel
<1>3. U \subseteq Nat /\ U # {}
  OBVIOUS
<1> HIDE DEF R, U
<1>4. PICK u \in U : \A y \in U : ~ (<<y, u>> \in R)
  BY <1>1, <1>3, WFMin
<1>5. \A y \in U : ~ (y < u)
  BY <1>2, <1>3, <1>4
<1>6. u \in T
  <2> SUFFICES ASSUME u \notin T PROVE FALSE
    OBVIOUS
  <2>1. \A x \in T : x <= u /\ x # u /\ x \in Nat
    BY DEF U
  <2>w. PICK x \in T : TRUE
    OBVIOUS
  <2>2. u \in Nat /\ u # 0
    BY <1>3, <2>1, <2>w
  <2>3. u - 1 \in U
    BY <2>1, <2>2 DEF U
  <2> QED
    BY <1>5, <2>2, <2>3
<1>7. \E x \in T : \A y \in T : x >= y
  BY <1>6 DEF U
<1> QED
  BY <1>7 DEF Max

\* The number a retry gets is new and bounded by the attempts there were.
LEMMA NextNumber == ASSUME EvalAssumption, EvalTypes, Booked, NEW c \in Cases
    PROVE  nextAttempt(c) \in Nat \ {0} /\ nextAttempt(c) <= Repeat + Len(attempts) + 1
<1> DEFINE T == {attempts[n].attempt : n \in Of(c)} \cup {0}
           b == Repeat + Len(attempts)
<1>1. Repeat \in Nat /\ Len(attempts) \in Nat /\ DOMAIN attempts = 1..Len(attempts)
      /\ \A n \in DOMAIN attempts : attempts[n] \in Attempt
  BY DEF EvalAssumption, EvalTypes
<1>2. \A n \in DOMAIN attempts : attempts[n].attempt \in Nat /\ attempts[n].attempt <= b
  <2> SUFFICES ASSUME NEW n \in DOMAIN attempts PROVE attempts[n].attempt \in Nat /\ attempts[n].attempt <= b
    OBVIOUS
  <2>1. attempts[n].attempt <= Repeat + n
    BY DEF Booked
  <2>2. attempts[n].attempt \in Nat /\ n \in Nat /\ n <= Len(attempts)
    BY <1>1 DEF Attempt
  <2> QED
    BY <1>1, <2>1, <2>2
<1>3. T \subseteq Nat /\ T # {} /\ \A x \in T : x <= b
  BY <1>1, <1>2 DEF Of
<1>b. b \in Nat
  BY <1>1
<1> HIDE DEF T, b
<1>4. Max(T) \in T
  BY <1>3, <1>b, GreatestNumber
<1>5. Max(T) \in Nat /\ Max(T) <= b
  BY <1>3, <1>4
<1>6. nextAttempt(c) = 1 + Max(T)
  BY DEF nextAttempt, T
<1> QED
  BY <1>1, <1>5, <1>6 DEF b

\* An attempt to make is its case, its round and what it retries.
LEMMA SameTask == ASSUME NEW j \in Task, NEW k \in Task,
                         j.case = k.case, j.round = k.round, j.retryOf = k.retryOf
    PROVE  j = k
<1>1. j = [case |-> j.case, round |-> j.round, retryOf |-> j.retryOf]
  BY DEF Task
<1>2. k = [case |-> k.case, round |-> k.round, retryOf |-> k.retryOf]
  BY DEF Task
<1> QED
  BY <1>1, <1>2

\* The queue of attempts without its first.
LEMMA TodoIs == ASSUME EvalTypes, todo # << >>
    PROVE  /\ Head(todo) = todo[1] /\ 1 \in DOMAIN todo /\ Head(todo) \in Task /\ Tail(todo) \in Seq(Task)
           /\ \A n \in DOMAIN Tail(todo) : n + 1 \in DOMAIN todo /\ n \in Nat /\ n + 1 # 1
                                           /\ Tail(todo)[n] = todo[n + 1]
           /\ \A n \in DOMAIN todo : n # 1 => n - 1 \in DOMAIN Tail(todo) /\ Tail(todo)[n - 1] = todo[n]
<1>1. todo \in Seq(Task)
  BY DEF EvalTypes
<1> HIDE DEF Task
<1> QED
  BY <1>1, HeadTailProperties

\* The next attempt is taken from the queue.
LEMMA StepStartAttempt == ASSUME EvalAssumption, EvalState, StartAttempt
    PROVE  EvalTypes' /\ EvalInv' /\ AllSound'
<1> USE DEF EvalState
<1>c. phase = "next" /\ todo # << >> /\ task' = Head(todo) /\ todo' = Tail(todo)
      /\ tree' = [p \in Paths |-> 0] /\ before' = tree' /\ start' = tree' /\ turn' = 1 /\ errors' = FALSE /\ infra' = FALSE
      /\ wrote' = {} /\ stray' = FALSE /\ UNCHANGED <<retry, attempts, gate>>
  BY DEF StartAttempt
<1>q. PICK q : /\ s' = [s EXCEPT !["case"] = q]
               /\ (q = create(Case) /\ phase' = "create") \/ (q = NoSession /\ phase' = "fail")
  BY DEF StartAttempt, Call, Case
<1>s. /\ Sound(q) /\ Quiet(q) /\ q.turn = 0 /\ ~q.gone /\ q.said = 0
      /\ phase' = "create" => q.op = "create" /\ q.child = "up"
      /\ phase' = "fail" => q.op = "idle" /\ q.child = "none"
  <2>1. CASE q = create(Case) /\ phase' = "create"
    BY <2>1, CreateIs
  <2>2. CASE q = NoSession /\ phase' = "fail"
    BY <2>2, NoSessionIs
  <2> QED
    BY <1>q, <2>1, <2>2
<1>p. phase' \in {"create", "fail"}
  BY <1>q
<1>v. AllSound' /\ Case' = q
  BY <1>q, <1>s, Put, CaseIs DEF Case
<1>t. /\ Head(todo) = todo[1] /\ 1 \in DOMAIN todo /\ Head(todo) \in Task /\ Tail(todo) \in Seq(Task)
      /\ \A n \in DOMAIN Tail(todo) : n + 1 \in DOMAIN todo /\ n \in Nat /\ n + 1 # 1
                                      /\ Tail(todo)[n] = todo[n + 1]
      /\ \A n \in DOMAIN todo : n # 1 => n - 1 \in DOMAIN Tail(todo) /\ Tail(todo)[n - 1] = todo[n]
  BY <1>c, TodoIs
<1>1. EvalTypes'
  <2>1. tree' \in [Paths -> 0..2]
    BY <1>c
  <2>2. turn' \in 1..Turns
    BY <1>c DEF EvalAssumption
  <2> QED
    BY <1>c, <1>p, <1>t, <2>1, <2>2 DEF EvalTypes
<1>2. AttemptOK'
  <2>1. phase' = "create" => CreateOK(q)
    BY <1>s DEF CreateOK
  <2> QED
    BY <1>c, <1>p, <1>s, <1>v, <2>1 DEF AttemptOK
<1>3. Counted'
  <2>1. Asked(q, 1)
    BY <1>s DEF Asked, Quiet
  <2> QED
    BY <1>c, <1>p, <1>v, <2>1 DEF Counted
<1>4. Judged'
  BY <1>c, <1>p DEF Judged
<1>g. ~gate.done
  BY <1>c DEF Booked, EvalInv
<1>5. Booked'
  <2>i. InProgress' /\ ~InProgress
    BY <1>c, <1>p DEF InProgress
  <2>o. /\ \A k \in DOMAIN todo : todo[k].retryOf \in {0, todo[k].round}
        /\ \A k \in DOMAIN todo : todo[k].retryOf = 0 =>
              ~Made(attempts, todo[k]) /\ \A j \in DOMAIN todo : todo[j] = todo[k] => j = k
        /\ \A j \in FirstTasks : Made(attempts, j) \/ (\E k \in DOMAIN todo : todo[k] = j)
    BY <2>i DEF Booked, EvalInv
  <2>1. \A k \in DOMAIN todo' : todo'[k].retryOf \in {0, todo'[k].round}
    BY <1>c, <1>t, <2>o
  <2>2. task'.retryOf \in {0, task'.round}
    BY <1>c, <1>t, <2>o
  <2>3. \A j \in FirstTasks : Made(attempts', j) \/ (\E k \in DOMAIN todo' : todo'[k] = j) \/ task' = j
    <3> SUFFICES ASSUME NEW j \in FirstTasks, ~Made(attempts, j), task' # j PROVE \E k \in DOMAIN todo' : todo'[k] = j
      BY <1>c
    <3>1. PICK k \in DOMAIN todo : todo[k] = j
      BY <2>o
    <3>2. k # 1
      BY <1>c, <1>t, <3>1
    <3> QED
      BY <1>c, <1>t, <3>1, <3>2
  <2>4. ASSUME NEW k \in DOMAIN todo', todo'[k].retryOf = 0
        PROVE  ~Made(attempts', todo'[k]) /\ (\A j \in DOMAIN todo' : todo'[j] = todo'[k] => j = k) /\ task' # todo'[k]
    <3>1. k + 1 \in DOMAIN todo /\ k \in Nat /\ k + 1 # 1 /\ todo'[k] = todo[k + 1]
      BY <1>c, <1>t
    <3>2. ~Made(attempts, todo[k + 1]) /\ \A j \in DOMAIN todo : todo[j] = todo[k + 1] => j = k + 1
      BY <2>4, <2>o, <3>1
    <3>3. task' # todo[k + 1]
      BY <1>c, <1>t, <3>1, <3>2
    <3>4. ASSUME NEW j \in DOMAIN todo', todo'[j] = todo'[k] PROVE j = k
      <4>1. j + 1 \in DOMAIN todo /\ j \in Nat /\ todo'[j] = todo[j + 1]
        BY <1>c, <1>t
      <4>2. j + 1 = k + 1
        BY <3>1, <3>2, <3>4, <4>1
      <4> QED
        BY <3>1, <4>1, <4>2
    <3>5. ~Made(attempts', todo'[k])
      BY <1>c, <3>1, <3>2
    <3> QED
      BY <3>1, <3>3, <3>4, <3>5
  <2>5. task'.retryOf = 0 => ~Made(attempts', task')
    BY <1>c, <1>t, <2>o
  <2>6. /\ \A k \in DOMAIN attempts' : attempts'[k].attempt <= Repeat + k
        /\ \A k \in DOMAIN attempts' :
              IF attempts'[k].retryOf = 0 THEN attempts'[k].attempt = attempts'[k].round
              ELSE attempts'[k].retryOf = attempts'[k].round
        /\ \A j, k \in DOMAIN attempts' :
              attempts'[j].retryOf = 0 /\ attempts'[k].retryOf = 0
              /\ attempts'[j].case = attempts'[k].case /\ attempts'[j].round = attempts'[k].round
              => j = k
        /\ ~gate'.done
    BY <1>c, <1>g DEF Booked, EvalInv
  <2> QED
    BY <2>1, <2>2, <2>3, <2>4, <2>5, <2>6, <2>i DEF Booked
<1>6. GateHonest' /\ TurnJudged' /\ PassedIsOver'
  BY <1>c, <1>g, <1>p DEF GateHonest, TurnJudged, PassedIsOver, Passed
<1> QED
  BY <1>1, <1>2, <1>3, <1>4, <1>5, <1>6, <1>v DEF EvalInv

\* The list with one attempt more.
LEMMA MadeMore == ASSUME NEW a \in Attempt, attempts \in Seq(Attempt)
    PROVE  LET list == Append(attempts, a) IN
           /\ list \in Seq(Attempt) /\ list # << >> /\ Last(list) = a
           /\ DOMAIN attempts \subseteq DOMAIN list /\ Len(attempts) \in Nat
           /\ Len(attempts) + 1 \in DOMAIN list /\ list[Len(attempts) + 1] = a
           /\ \A k \in DOMAIN list : (k \in DOMAIN attempts /\ list[k] = attempts[k]) \/ (k = Len(attempts) + 1 /\ list[k] = a)
           /\ \A j : Made(list, j) <=> Made(attempts, j)
                        \/ (a.case = j.case /\ a.round = j.round /\ a.retryOf = j.retryOf)
<1> DEFINE list == Append(attempts, a)
<1> HIDE DEF Attempt
<1>1. /\ list \in Seq(Attempt) /\ list # << >> /\ Len(list) = Len(attempts) + 1 /\ Len(attempts) \in Nat
      /\ DOMAIN attempts = 1..Len(attempts) /\ DOMAIN list = 1..Len(list)
      /\ \A k \in 1..Len(attempts) : list[k] = attempts[k]
      /\ list[Len(attempts) + 1] = a
  BY AppendProperties
<1> HIDE DEF list
<1>2. Last(list) = a
  BY <1>1 DEF Last
<1>3. /\ DOMAIN attempts \subseteq DOMAIN list /\ Len(attempts) + 1 \in DOMAIN list
      /\ \A k \in DOMAIN list : (k \in DOMAIN attempts /\ list[k] = attempts[k]) \/ (k = Len(attempts) + 1 /\ list[k] = a)
      /\ \A k \in DOMAIN attempts : list[k] = attempts[k]
  BY <1>1
<1>4. \A j : Made(list, j) <=> Made(attempts, j)
                        \/ (a.case = j.case /\ a.round = j.round /\ a.retryOf = j.retryOf)
  BY <1>1, <1>3 DEF Made
<1> QED
  BY <1>1, <1>2, <1>3, <1>4 DEF list

\* The workspace is removed and the attempt recorded.
LEMMA StepClean == ASSUME EvalAssumption, EvalState, Clean
    PROVE  EvalTypes' /\ EvalInv' /\ AllSound'
<1> USE DEF EvalState
<1>u. UNCHANGED <<s, todo, retry, task, turn, tree, before, errors, gate, start, wrote, stray>> /\ phase' = "next"
  BY DEF Clean
<1>f. PICK failed \in BOOLEAN :
         /\ Record(failed)
         /\ \/ phase = "fail" /\ failed = TRUE
            \/ phase = "clean" /\ Case.op = "idle" /\ failed = (infra \/ Case.out # "ok")
  BY DEF Clean, Returned, Case, EvalTypes
<1>r. PICK removed \in BOOLEAN :
        LET broken == failed \/ ~removed
        IN  /\ infra' = broken
            /\ attempts' = Append(attempts,
                 [case    |-> task.case,
                  round   |-> task.round,
                  attempt |-> IF task.retryOf = 0 THEN task.round
                                                 ELSE nextAttempt(task.case),
                  retryOf |-> task.retryOf,
                  status  |-> IF broken THEN "INFRA_FAIL"
                              ELSE IF errors THEN "SEMANTIC_FAIL" ELSE "PASS"])
  BY <1>f DEF Record
<1> DEFINE broken == failed \/ ~removed
           a == [case    |-> task.case,
                 round   |-> task.round,
                 attempt |-> IF task.retryOf = 0 THEN task.round ELSE nextAttempt(task.case),
                 retryOf |-> task.retryOf,
                 status  |-> IF broken THEN "INFRA_FAIL"
                             ELSE IF errors THEN "SEMANTIC_FAIL" ELSE "PASS"]
<1>b. broken \in BOOLEAN /\ infra' = broken /\ attempts' = Append(attempts, a)
  BY <1>r
<1>k. /\ task \in Task /\ task.case \in Cases /\ task.round \in 1..Repeat /\ task.retryOf \in 0..Repeat
      /\ Repeat \in Nat /\ attempts \in Seq(Attempt) /\ task.round \in Nat /\ task.round <= Repeat /\ task.round # 0
  BY DEF EvalTypes, Task, EvalAssumption
<1>x. nextAttempt(task.case) \in Nat \ {0} /\ nextAttempt(task.case) <= Repeat + Len(attempts) + 1
  BY <1>k, NextNumber DEF EvalInv
<1>a. /\ a \in Attempt /\ a.case = task.case /\ a.round = task.round /\ a.retryOf = task.retryOf
      /\ a.status = "PASS" => ~broken /\ ~errors
      /\ task.retryOf = 0 => a.attempt = task.round
      /\ a.attempt <= Repeat + (Len(attempts) + 1)
  <2>1. a.attempt \in Nat \ {0} /\ a.attempt <= Repeat + (Len(attempts) + 1)
    BY <1>k, <1>x
  <2> QED
    BY <1>b, <1>k, <2>1 DEF Attempt, Statuses
<1> HIDE DEF a, broken
<1>l. /\ attempts' \in Seq(Attempt) /\ attempts' # << >> /\ Last(attempts') = a
      /\ DOMAIN attempts \subseteq DOMAIN attempts' /\ Len(attempts) \in Nat
      /\ Len(attempts) + 1 \in DOMAIN attempts' /\ attempts'[Len(attempts) + 1] = a
      /\ \A k \in DOMAIN attempts' :
            (k \in DOMAIN attempts /\ attempts'[k] = attempts[k]) \/ (k = Len(attempts) + 1 /\ attempts'[k] = a)
      /\ \A j : Made(attempts', j) <=> Made(attempts, j)
                        \/ (task.case = j.case /\ task.round = j.round /\ task.retryOf = j.retryOf)
  BY <1>a, <1>b, <1>k, MadeMore
<1>c. Sound(Case) /\ UNCHANGED Case /\ Case.op = "idle" /\ Stopped(Case) /\ phase \in {"fail", "clean"}
      /\ (Case.out = "ok" /\ phase = "clean" => Case.child = "ended")
  <2>1. Sound(Case) /\ UNCHANGED Case
    BY <1>u, CaseIs DEF Case
  <2>2. CASE phase = "fail"
    BY <2>1, <2>2 DEF AttemptOK, EvalInv, Stopped
  <2>3. CASE phase = "clean"
    BY <1>f, <2>1, <2>3 DEF AttemptOK, EvalInv, Sound, CloseOK
  <2> QED
    BY <1>f, <2>1, <2>2, <2>3
<1>i. InProgress /\ ~InProgress' /\ ~gate.done
  BY <1>c, <1>u DEF InProgress, Booked, EvalInv
<1>1. EvalTypes'
  BY <1>b, <1>l, <1>u DEF EvalTypes
<1>2. AttemptOK'
  BY <1>c, <1>u DEF AttemptOK
<1>3. Counted'
  BY <1>c, <1>u DEF Counted, EvalInv
<1>4. Judged'
  BY <1>c, <1>u DEF Judged, EvalInv
<1>5. Booked'
  <2>1. \A k \in DOMAIN attempts' : attempts'[k].attempt <= Repeat + k
    BY <1>a, <1>l DEF Booked, EvalInv
  <2>2. \A k \in DOMAIN attempts' :
          IF attempts'[k].retryOf = 0 THEN attempts'[k].attempt = attempts'[k].round
          ELSE attempts'[k].retryOf = attempts'[k].round
    <3>1. IF a.retryOf = 0 THEN a.attempt = a.round ELSE a.retryOf = a.round
      BY <1>a, <1>k DEF Booked, EvalInv
    <3>2. \A k \in DOMAIN attempts :
             IF attempts[k].retryOf = 0 THEN attempts[k].attempt = attempts[k].round
             ELSE attempts[k].retryOf = attempts[k].round
      BY DEF Booked, EvalInv
    <3> QED
      BY <1>l, <3>1, <3>2
  <2>3. \A j \in FirstTasks : Made(attempts', j) \/ (\E k \in DOMAIN todo' : todo'[k] = j)
    BY <1>l, <1>u DEF Booked, EvalInv
  <2>4. ASSUME NEW j \in DOMAIN attempts', NEW k \in DOMAIN attempts',
               attempts'[j].retryOf = 0, attempts'[k].retryOf = 0,
               attempts'[j].case = attempts'[k].case, attempts'[j].round = attempts'[k].round
        PROVE  j = k
    <3>1. CASE j \in DOMAIN attempts /\ k \in DOMAIN attempts /\ attempts'[j] = attempts[j] /\ attempts'[k] = attempts[k]
      BY <2>4, <3>1 DEF Booked, EvalInv
    <3>2. task.retryOf = 0 => \A m \in DOMAIN attempts :
             ~(attempts[m].case = task.case /\ attempts[m].round = task.round /\ attempts[m].retryOf = 0)
      BY <1>i DEF Booked, EvalInv, Made
    <3>3. CASE j \in DOMAIN attempts /\ attempts'[j] = attempts[j] /\ attempts'[k] = a
      BY <1>a, <2>4, <3>2, <3>3
    <3>4. CASE k \in DOMAIN attempts /\ attempts'[k] = attempts[k] /\ attempts'[j] = a
      BY <1>a, <2>4, <3>2, <3>4
    <3> QED
      BY <1>l, <3>1, <3>3, <3>4
  <2>5. ASSUME NEW k \in DOMAIN todo', todo'[k].retryOf = 0
        PROVE  ~Made(attempts', todo'[k]) /\ \A j \in DOMAIN todo' : todo'[j] = todo'[k] => j = k
    <3>1. ~Made(attempts, todo[k]) /\ task # todo[k] /\ \A j \in DOMAIN todo : todo[j] = todo[k] => j = k
      BY <1>i, <1>u, <2>5 DEF Booked, EvalInv
    <3>2. todo[k] \in Task
      BY <1>u DEF EvalTypes
    <3>3. ~(task.case = todo[k].case /\ task.round = todo[k].round /\ task.retryOf = todo[k].retryOf)
      <4>1. task \in Task /\ task # todo[k]
        BY <3>1 DEF EvalTypes
      <4> QED
        BY <4>1, <3>2, SameTask
    <3> QED
      BY <1>l, <1>u, <3>1, <3>3
  <2>6. task'.retryOf \in {0, task'.round} /\ \A k \in DOMAIN todo' : todo'[k].retryOf \in {0, todo'[k].round}
    BY <1>u DEF Booked, EvalInv
  <2> QED
    BY <1>i, <1>u, <2>1, <2>2, <2>3, <2>4, <2>5, <2>6 DEF Booked
<1>6. GateHonest'
  BY <1>i, <1>u DEF GateHonest
<1>7. TurnJudged' /\ PassedIsOver'
  <2>1. CASE ~Passed'
    BY <2>1 DEF TurnJudged, PassedIsOver
  <2>2. CASE Passed'
    <3>1. ~broken /\ ~errors
      BY <1>a, <1>l, <2>2 DEF Passed
    <3>2. phase = "clean" /\ ~infra /\ Case.out = "ok"
      BY <1>f, <3>1 DEF broken
    <3>3. PassedIsOver'
      BY <1>c, <3>2 DEF PassedIsOver, Case
    <3>4. ~stray => \A t \in 1..Turns : Fine(t)
      BY <3>1, <3>2 DEF Judged, EvalInv
    <3>5. TurnJudged'
      BY <1>u, <3>4 DEF TurnJudged, Fine, Did
    <3> QED
      BY <3>3, <3>5
  <2> QED
    BY <2>1, <2>2
<1>8. AllSound'
  BY <1>u DEF AllSound
<1> QED
  BY <1>1, <1>2, <1>3, <1>4, <1>5, <1>6, <1>7, <1>8 DEF EvalInv

\* The rounds that passed in no attempt are queued once more.
LEMMA StepStartRetries == ASSUME EvalAssumption, EvalState, StartRetries
    PROVE  EvalTypes' /\ EvalInv' /\ AllSound'
<1> USE DEF EvalState
<1>u. UNCHANGED <<s, phase, task, turn, tree, before, errors, infra, attempts, gate, start, wrote, stray>>
      /\ phase = "next" /\ todo = << >> /\ retry < RetryFailures /\ retry' = retry + 1
  BY DEF StartRetries
<1> DEFINE n == Cardinality(unresolved)
<1>1. PICK list \in [1..n -> unresolved] :
        todo' = [k \in DOMAIN list |->
                   [case |-> attempts[list[k]].case, round |-> attempts[list[k]].round,
                    retryOf |-> attempts[list[k]].attempt]]
  BY DEF StartRetries
<1>2. n \in Nat
  <2>1. Len(attempts) \in Nat /\ DOMAIN attempts = 1..Len(attempts)
    BY DEF EvalTypes
  <2>2. IsFiniteSet(1..Len(attempts))
    BY <2>1, FS_Interval
  <2>3. unresolved \in SUBSET (1..Len(attempts))
    BY <2>1 DEF unresolved
  <2>4. IsFiniteSet(unresolved)
    BY <2>2, <2>3, FS_Subset
  <2> QED
    BY <2>4, FS_CardinalityType
<1> HIDE DEF n
<1>3. \A m \in unresolved : m \in DOMAIN attempts /\ attempts[m].retryOf = 0
  BY DEF unresolved
<1>a. \A m \in DOMAIN attempts : attempts[m] \in Attempt
  BY DEF EvalTypes
<1>4. \A m \in unresolved : /\ attempts[m].attempt = attempts[m].round /\ attempts[m].case \in Cases
                            /\ attempts[m].round \in 1..Repeat
  BY <1>3, <1>a DEF Booked, EvalInv, Attempt
<1>5. /\ DOMAIN todo' = 1..n
      /\ \A k \in 1..n : /\ list[k] \in unresolved
                         /\ todo'[k] = [case |-> attempts[list[k]].case, round |-> attempts[list[k]].round,
                                        retryOf |-> attempts[list[k]].attempt]
  BY <1>1
<1>6. \A k \in 1..n : todo'[k] \in Task /\ todo'[k].retryOf = todo'[k].round /\ todo'[k].retryOf # 0
  <2> SUFFICES ASSUME NEW k \in 1..n PROVE todo'[k] \in Task /\ todo'[k].retryOf = todo'[k].round /\ todo'[k].retryOf # 0
    OBVIOUS
  <2> DEFINE r == attempts[list[k]].round
  <2>1. attempts[list[k]].attempt = r /\ attempts[list[k]].case \in Cases /\ r \in 1..Repeat
    BY <1>4, <1>5
  <2>2. r \in 0..Repeat /\ r # 0
    BY <2>1 DEF EvalAssumption
  <2> QED
    BY <1>5, <2>1, <2>2 DEF Task
<1>7. todo' \in Seq(Task)
  <2>1. todo' = [k \in 1..n |-> todo'[k]]
    BY <1>1
  <2>2. todo' \in [1..n -> Task]
    BY <1>6, <2>1
  <2> QED
    BY <1>2, <2>2
<1>8. EvalTypes'
  BY <1>u, <1>7 DEF EvalTypes, EvalAssumption
<1>c. UNCHANGED Case
  BY <1>u DEF Case
<1>9. AttemptOK' /\ Counted' /\ Judged' /\ AllSound'
  BY <1>c, <1>u DEF AttemptOK, Counted, Judged, AllSound, EvalInv
<1>i. ~InProgress /\ ~InProgress' /\ ~gate.done
  BY <1>u DEF InProgress, Booked, EvalInv
<1>10. Booked'
  <2>1. \A j \in FirstTasks : Made(attempts', j)
    BY <1>u, <1>i DEF Booked, EvalInv
  <2>2. \A k \in DOMAIN todo' : todo'[k].retryOf \in {0, todo'[k].round} /\ todo'[k].retryOf # 0
    BY <1>5, <1>6
  <2> QED
    BY <1>i, <1>u, <2>1, <2>2 DEF Booked, EvalInv
<1>11. GateHonest' /\ TurnJudged' /\ PassedIsOver'
  BY <1>i, <1>u DEF GateHonest, TurnJudged, PassedIsOver, Passed, EvalInv
<1> QED
  BY <1>8, <1>9, <1>10, <1>11 DEF EvalInv

\* Every round of every case was attempted, so the gate's verdict is about each of them.
LEMMA StepWriteReport == ASSUME EvalAssumption, EvalState, WriteReport
    PROVE  EvalTypes' /\ EvalInv' /\ AllSound'
<1> USE DEF EvalState
<1>u. UNCHANGED <<s, todo, retry, task, turn, tree, before, errors, infra, attempts, start, wrote, stray>>
      /\ phase = "next" /\ todo = << >> /\ phase' = "done" /\ gate' = evaluateCaseGate
  BY DEF WriteReport
<1> DEFINE lost == {c \in Cases : \/ Primary(c) = {}
                                  \/ Primary(c) \cap unresolved # {}}
           true == {c \in Cases : \E n \in 1..Repeat :
                      \A k \in Of(c) : attempts[k].round = n => attempts[k].status # "PASS"}
<1>g. gate'.done /\ gate'.failed = lost /\ gate' \in [done : BOOLEAN, failed : SUBSET Cases, flaky : SUBSET Cases]
  BY <1>u DEF evaluateCaseGate
<1>c. UNCHANGED Case
  BY <1>u DEF Case
<1>1. EvalTypes'
  BY <1>u, <1>g DEF EvalTypes
<1>2. AttemptOK' /\ Counted' /\ Judged' /\ AllSound'
  BY <1>c, <1>u DEF AttemptOK, Counted, Judged, AllSound, EvalInv
<1>i. ~InProgress /\ ~InProgress'
  BY <1>u DEF InProgress
<1>3. Booked'
  BY <1>i, <1>u DEF Booked, EvalInv
<1>a. \A m \in DOMAIN attempts : attempts[m] \in Attempt /\ attempts[m].round \in 1..Repeat /\ attempts[m].case \in Cases
  <2>1. \A m \in DOMAIN attempts : attempts[m] \in Attempt
    BY DEF EvalTypes
  <2> QED
    BY <2>1 DEF Attempt
<1>4. ASSUME NEW c \in Cases, NEW n \in 1..Repeat
      PROVE  \E k \in Primary(c) : attempts[k].round = n
  <2> DEFINE j == [case |-> c, round |-> n, retryOf |-> 0]
  <2>1. j \in FirstTasks
    BY DEF FirstTasks, Task, EvalAssumption
  <2>2. Made(attempts, j)
    BY <1>i, <1>u, <2>1 DEF Booked, EvalInv
  <2> QED
    BY <2>2 DEF Made, Primary, Of
<1>b. /\ \A k \in DOMAIN attempts :
            IF attempts[k].retryOf = 0 THEN attempts[k].attempt = attempts[k].round
            ELSE attempts[k].retryOf = attempts[k].round
      /\ \A j, k \in DOMAIN attempts :
            attempts[j].retryOf = 0 /\ attempts[k].retryOf = 0
            /\ attempts[j].case = attempts[k].case /\ attempts[j].round = attempts[k].round
            => j = k
  BY DEF Booked, EvalInv
<1>5. ASSUME NEW c \in lost PROVE c \in true
  <2>0. 1 \in 1..Repeat
    BY DEF EvalAssumption
  <2>1. Primary(c) # {}
    BY <1>4, <2>0
  <2>2. PICK m \in Primary(c) : m \in unresolved
    BY <2>1
  <2>3. /\ m \in DOMAIN attempts /\ attempts[m].case = c /\ attempts[m].retryOf = 0 /\ attempts[m].status # "PASS"
        /\ ~Recovered(m) /\ attempts[m].round \in 1..Repeat /\ attempts[m].attempt = attempts[m].round
    BY <1>a, <1>b, <2>2 DEF Primary, Of, unresolved
  <2>4. ASSUME NEW k \in Of(c), attempts[k].round = attempts[m].round PROVE attempts[k].status # "PASS"
    <3>1. k \in DOMAIN attempts /\ attempts[k].case = c
      BY DEF Of
    <3>2. CASE attempts[k].retryOf = 0
      BY <1>b, <2>3, <2>4, <3>1, <3>2
    <3>3. CASE attempts[k].retryOf # 0
      <4>1. attempts[k].retryOf = attempts[m].attempt
        BY <1>b, <2>3, <2>4, <3>1, <3>3
      <4> QED
        BY <2>3, <4>1 DEF Recovered
    <3> QED
      BY <3>2, <3>3
  <2> QED
    BY <2>3, <2>4
<1>6. ASSUME NEW c \in true PROVE c \in lost
  <2>1. PICK n \in 1..Repeat : \A k \in Of(c) : attempts[k].round = n => attempts[k].status # "PASS"
    OBVIOUS
  <2>2. PICK m \in Primary(c) : attempts[m].round = n
    BY <1>4
  <2>3. m \in DOMAIN attempts /\ m \in Of(c) /\ attempts[m].case = c /\ attempts[m].retryOf = 0
        /\ attempts[m].status # "PASS" /\ attempts[m].attempt = n
    BY <1>b, <2>1, <2>2 DEF Primary, Of
  <2>4. ~Recovered(m)
    <3> SUFFICES ASSUME NEW k \in Of(c), attempts[k].retryOf = n, attempts[k].status = "PASS" PROVE FALSE
      BY <2>3 DEF Recovered
    <3>1. n # 0 /\ k \in DOMAIN attempts
      BY DEF Of, EvalAssumption
    <3>2. attempts[k].round = n
      BY <1>b, <3>1
    <3> QED
      BY <2>1, <3>2
  <2> QED
    BY <2>2, <2>3, <2>4 DEF unresolved
<1>7. GateHonest'
  <2>1. lost = true
    <3> HIDE DEF lost, true
    <3>1. lost \subseteq true /\ true \subseteq lost
      BY <1>5, <1>6
    <3> QED
      BY <3>1
  <2>2. true = {c \in Cases : \E n \in 1..Repeat :
                      \A k \in Of(c)' : attempts'[k].round = n => attempts'[k].status # "PASS"}
    BY <1>u DEF Of
  <2> QED
    BY <1>g, <2>1, <2>2 DEF GateHonest
<1>8. TurnJudged' /\ PassedIsOver'
  BY <1>u DEF TurnJudged, PassedIsOver, Passed
<1> QED
  BY <1>1, <1>2, <1>3, <1>7, <1>8 DEF EvalInv

-----------------------------------------------------------------------------
(* Every step of an evaluation.                                            *)
LEMMA EvalMoves == ASSUME EvalAssumption, EvalState, Eval
    PROVE  EvalTypes' /\ EvalInv' /\ AllSound'
<1>1. CASE EvalStep
  BY <1>1, StepStartAttempt, StepCreated, StepStartTurn, StepJudgeTurn, StepStats, StepCloseSession, StepClean,
     StepStartRetries, StepWriteReport DEF EvalStep
<1>2. CASE Child("case") /\ Watch
  BY <1>2, StepChild
<1>3. CASE Timers("case") /\ UNCHANGED evalVars
  BY <1>3, StepTimers
<1>4. CASE \E p \in Paths : Write(p)
  BY <1>4, StepWrite
<1> QED
  BY <1>1, <1>2, <1>3, <1>4 DEF Eval

\* An evaluation is not a probe: it takes no step while none runs, and the sessions of the probe stay as they are.
LEMMA EvalAlone == ASSUME EvalState, Eval
    PROVE  phase # "off" /\ phase' # "off" /\ \A i \in Probed : s'[i] = s[i]
<1> USE DEF EvalState
<1>0. /\ \A i \in Probed : i # "case" /\ i \in Sessions
      /\ "case" \in Sessions
  BY DEF Probed, Sessions
<1>f. s \in [Sessions -> Session]
  BY DEF AllSound
<1>1. CASE EvalStep
  <2>1. phase # "off" /\ phase' # "off"
    BY <1>1 DEF EvalStep, StartAttempt, Created, StartTurn, JudgeTurn, Stats, CloseSession, Clean,
       StartRetries, WriteReport
  <2>2. s' = s \/ \E q : s' = [s EXCEPT !["case"] = q]
    BY <1>1 DEF EvalStep, StartAttempt, Created, StartTurn, JudgeTurn, Stats, CloseSession, Clean,
       StartRetries, WriteReport, Call
  <2> QED
    BY <1>0, <1>f, <2>1, <2>2
<1>n. Case.op # "idle" => phase # "off"
  BY NoSessionIs DEF AttemptOK, EvalInv
<1>s. SessionOK(s["case"])
  BY CaseIs DEF Case
<1>2. CASE Child("case") /\ Watch
  <2>1. Case.op # "idle" /\ UNCHANGED phase
    BY <1>2 DEF Child, Awaiting, Case, Watch
  <2>2. \E q \in Session : Replaced("case", q)
    BY <1>2, <1>s, ChildMoves
  <2> QED
    BY <1>0, <1>f, <1>n, <2>1, <2>2 DEF Replaced
<1>3. CASE Timers("case") /\ UNCHANGED evalVars
  <2>1. Case.op # "idle" /\ UNCHANGED phase
    BY <1>3 DEF Timers, Awaiting, Case, evalVars
  <2>2. \E q \in Session : Replaced("case", q)
    BY <1>3, <1>s, TimersMove
  <2> QED
    BY <1>0, <1>f, <1>n, <2>1, <2>2 DEF Replaced
<1>4. CASE \E p \in Paths : Write(p)
  BY <1>4 DEF Write
<1> QED
  BY <1>1, <1>2, <1>3, <1>4 DEF Eval

-----------------------------------------------------------------------------
(* The script of the probe.                                                *)
LEMMA ScriptIs == ASSUME step \in 1..17
    PROVE  /\ Len(Script) = 17 /\ DOMAIN Script = 1..17
           /\ Do = "create" <=> step \in {1, 3, 5, 9, 13}
           /\ Do = "prompt" <=> step \in {2, 4, 6, 11, 14}
           /\ Do = "entries" <=> step \in {7, 10}
           /\ Do = "close" <=> step \in {8, 12, 16}
           /\ Do = "control" <=> step = 15
           /\ Do = "exit" <=> step = 17
           /\ On = "tool" <=> step \in {1, 2}
           /\ On = "reviewer" <=> step \in {3, 4}
           /\ On = "named" <=> step \in {5, 6, 7, 8}
           /\ On = "resumed" <=> step \in {9, 10, 11, 12}
           /\ On = "timeout" <=> step \in {13, 14, 15, 16, 17}
<1>1. Len(Script) = 17 /\ DOMAIN Script = 1..17
  BY DEF Script, Does
<1>2. /\ On = (CASE step \in {1, 2} -> "tool" [] step \in {3, 4} -> "reviewer" [] step \in {5, 6, 7, 8} -> "named"
                 [] step \in {9, 10, 11, 12} -> "resumed" [] step \in {13, 14, 15, 16, 17} -> "timeout")
      /\ Do = (CASE step \in {1, 3, 5, 9, 13} -> "create" [] step \in {2, 4, 6, 11, 14} -> "prompt"
                 [] step \in {7, 10} -> "entries" [] step \in {8, 12, 16} -> "close"
                 [] step = 15 -> "control" [] step = 17 -> "exit")
  <2>1. step = 1 \/ step = 2 \/ step = 3 \/ step = 4 \/ step = 5 \/ step = 6 \/ step = 7 \/ step = 8 \/ step = 9
        \/ step = 10 \/ step = 11 \/ step = 12 \/ step = 13 \/ step = 14 \/ step = 15 \/ step = 16 \/ step = 17
    OBVIOUS
  <2> QED
    BY <2>1 DEF On, Do, Script, Does
<1> QED
  BY <1>1, <1>2

\* When the session of the call was opened and what is done with it afterwards.
LEMMA CallIs == ASSUME step \in 1..17
    PROVE  /\ On \in Probed /\ step \in Nat
           /\ Do \in {"create", "prompt", "entries", "control", "close", "exit"}
           /\ Do = "create" => Opens[On] = step
           /\ Do # "create" => Opens[On] < step /\ step <= LetsGo[On]
           /\ Do = "prompt" => Prompts[On] = step
           /\ step < Prompts[On] => Do \in {"create", "entries"}
           /\ \A i \in Probed : /\ Opens[i] \in 1..17 /\ Prompts[i] \in 1..17 /\ LetsGo[i] \in 1..17
                                /\ Opens[i] < LetsGo[i]
                                /\ Opens[i] = step => i = On /\ Do = "create"
                                /\ LetsGo[i] = step /\ step < 17 => i = On /\ Do = "close" /\ On # "timeout"
           /\ Do = "close" /\ On # "timeout" => LetsGo[On] = step
           /\ On # "timeout" \/ Do # "close" => (Do = "close" => step \in {8, 12})
<1>0. Probed = {"tool", "reviewer", "named", "resumed", "timeout"}
  BY DEF Probed, Sessions
<1>1. /\ Opens["tool"] = 1 /\ Opens["reviewer"] = 3 /\ Opens["named"] = 5 /\ Opens["resumed"] = 9 /\ Opens["timeout"] = 13
      /\ Prompts["tool"] = 2 /\ Prompts["reviewer"] = 4 /\ Prompts["named"] = 6 /\ Prompts["resumed"] = 11
      /\ Prompts["timeout"] = 14
      /\ LetsGo["tool"] = 17 /\ LetsGo["reviewer"] = 17 /\ LetsGo["named"] = 8 /\ LetsGo["resumed"] = 12
      /\ LetsGo["timeout"] = 17
  BY <1>0 DEF Opens, Prompts, LetsGo
<1>2. step = 1 \/ step = 2 \/ step = 3 \/ step = 4 \/ step = 5 \/ step = 6 \/ step = 7 \/ step = 8 \/ step = 9
        \/ step = 10 \/ step = 11 \/ step = 12 \/ step = 13 \/ step = 14 \/ step = 15 \/ step = 16 \/ step = 17
  OBVIOUS
<1>3. /\ On \in Probed
      /\ Do \in {"create", "prompt", "entries", "control", "close", "exit"}
  BY <1>0, <1>2, ScriptIs
<1>4. /\ Do = "create" => Opens[On] = step
      /\ Do # "create" => Opens[On] < step /\ step <= LetsGo[On]
      /\ Do = "prompt" => Prompts[On] = step
      /\ step < Prompts[On] => Do \in {"create", "entries"}
      /\ Do = "close" /\ On # "timeout" => LetsGo[On] = step
      /\ On # "timeout" \/ Do # "close" => (Do = "close" => step \in {8, 12})
  BY <1>1, <1>2, ScriptIs
<1>5. ASSUME NEW i \in Probed
      PROVE  /\ Opens[i] \in 1..17 /\ Prompts[i] \in 1..17 /\ LetsGo[i] \in 1..17
             /\ Opens[i] < LetsGo[i]
             /\ Opens[i] = step => i = On /\ Do = "create"
             /\ LetsGo[i] = step /\ step < 17 => i = On /\ Do = "close" /\ On # "timeout"
  BY <1>0, <1>1, ScriptIs
<1> QED
  BY <1>3, <1>4, <1>5

\* finally closes the sessions in their order.
LEMMA NextIs == ASSUME held \subseteq Probed, held # {}
    PROVE  NextHeld \in held
<1>0. Probed = {"tool", "reviewer", "named", "resumed", "timeout"}
  BY DEF Probed, Sessions
<1>1. DOMAIN Order = 1..5 /\ Order[1] = "timeout" /\ Order[2] = "resumed" /\ Order[3] = "named"
      /\ Order[4] = "reviewer" /\ Order[5] = "tool"
  BY DEF Order
<1> DEFINE Nth(n) == Order[n] \in held /\ \A k \in 1..(n - 1) : Order[k] \notin held
<1>2. \E n \in DOMAIN Order : Nth(n)
  <2>1. CASE "timeout" \in held
    <3>1. Nth(1)
      BY <1>1, <2>1
    <3> QED
      BY <1>1, <3>1
  <2>2. CASE "resumed" \in held /\ "timeout" \notin held
    <3>0. \A k \in 1..(2 - 1) : k = 1
      OBVIOUS
    <3>1. Nth(2)
      BY <1>1, <2>2, <3>0
    <3> QED
      BY <1>1, <3>1
  <2>3. CASE "named" \in held /\ {"timeout", "resumed"} \cap held = {}
    <3>0. \A k \in 1..(3 - 1) : k = 1 \/ k = 2
      OBVIOUS
    <3>1. Nth(3)
      BY <1>1, <2>3, <3>0
    <3> QED
      BY <1>1, <3>1
  <2>4. CASE "reviewer" \in held /\ {"timeout", "resumed", "named"} \cap held = {}
    <3>0. \A k \in 1..(4 - 1) : k = 1 \/ k = 2 \/ k = 3
      OBVIOUS
    <3>1. Nth(4)
      BY <1>1, <2>4, <3>0
    <3> QED
      BY <1>1, <3>1
  <2>5. CASE "tool" \in held /\ {"timeout", "resumed", "named", "reviewer"} \cap held = {}
    <3>0. \A k \in 1..(5 - 1) : k = 1 \/ k = 2 \/ k = 3 \/ k = 4
      OBVIOUS
    <3>1. Nth(5)
      BY <1>1, <2>5, <3>0
    <3> QED
      BY <1>1, <3>1
  <2> QED
    BY <1>0, <2>1, <2>2, <2>3, <2>4, <2>5
<1>3. NextHeld = Order[CHOOSE n \in DOMAIN Order : Nth(n)]
  BY DEF NextHeld
<1>4. Nth(CHOOSE n \in DOMAIN Order : Nth(n))
  BY <1>2
<1> QED
  BY <1>3, <1>4

-----------------------------------------------------------------------------
(* The steps of the probe.                                                 *)
ProbeState == ProbeTypes /\ ProbeInv /\ AllSound /\ mode # "off"

\* The sessions of the probe are sound.
LEMMA ProbedIs == ASSUME AllSound
    PROVE  /\ Probed = {"tool", "reviewer", "named", "resumed", "timeout"} /\ Probed \subseteq Sessions
           /\ \A i \in Probed : Sound(s[i]) /\ SessionOK(s[i]) /\ s[i] \in Session
           /\ "case" \notin Probed
BY DEF Probed, Sessions, AllSound, Sound, SessionOK

\* What the method called makes of its session.
LEMMA MethodIs == ASSUME ProbeState, mode = "call"
    PROVE  LET r == s[On]
               q == Method(r, Do)
           IN  /\ Sound(q) /\ q.op \in {"idle", Do} /\ q.child # "none" /\ (On \in held => q.child = r.child)
               /\ Do = "create" => CreateOK(q) /\ Quiet(q) /\ ~q.gone
               /\ Do # "create" => On \in held /\ q.error = r.error /\ (r.gone => q.gone)
               /\ Do = "prompt" => PromptOK(q)
               /\ Do = "entries" => (Quiet(r) => Quiet(q))
               /\ Do \notin {"create", "close"} => q.gone = r.gone
               /\ Do = "close" => q.gone /\ (~r.gone => CloseOK(q))
<1> USE DEF ProbeState
<1> DEFINE r == s[On]
           q == Method(r, Do)
<1>t. step \in 1..17
  BY DEF ProbeTypes
<1>c. /\ On \in Probed /\ Do \in {"create", "prompt", "entries", "control", "close", "exit"}
      /\ Do = "create" => Opens[On] = step
      /\ Do # "create" => Opens[On] < step /\ step <= LetsGo[On]
      /\ Do = "prompt" => Prompts[On] = step
      /\ step \in Nat
  BY <1>t, CallIs
<1>h. held = {i \in Probed : Opens[i] < step /\ step <= LetsGo[i]}
  BY DEF ProbeInv, ProbeOK, InScript
<1>1. Do = "create" <=> On \notin held
  BY <1>c, <1>h
<1>2. Sound(r) /\ SessionOK(r) /\ r.op = "idle" /\ (Stopped(r) \/ ~r.gone)
  <2>1. Sound(r) /\ SessionOK(r)
    BY <1>c, ProbedIs
  <2>2. r.op = "idle"
    BY <1>c DEF ProbeInv, ProbeOK, Moving
  <2>3. r.gone => Stopped(r)
    BY <2>1, <2>2 DEF Sound
  <2> QED
    BY <2>1, <2>2, <2>3
<1>3. Do # "create" => r.child # "none"
  BY <1>1 DEF ProbeInv, ProbeOK
<1>4. Do = "prompt" => ~r.busy
  BY <1>c DEF ProbeInv, Unprompted, Before, InScript, Quiet
<1> HIDE DEF r
<1>5. CASE Do = "create"
  <2>1. q = create(r)
    BY <1>5 DEF Method
  <2> HIDE DEF q
  <2>2. CreateOK(q)
    BY <2>1, CreateIs DEF CreateOK
  <2> QED
    BY <1>1, <1>5, <2>1, <2>2, CreateIs DEF q, r
<1>6. CASE Do = "prompt"
  <2>1. q = prompt(r)
    BY <1>6 DEF Method
  <2> HIDE DEF q
  <2> QED
    BY <1>1, <1>2, <1>3, <1>4, <1>6, <2>1, PromptIs DEF q, r
<1>7. CASE Do = "entries"
  <2>1. q = entries(r)
    BY <1>7 DEF Method
  <2> HIDE DEF q
  <2>2. /\ Sound(q) /\ q.op = "entries" /\ q.child = r.child /\ q.error = r.error /\ q.gone = r.gone
        /\ Quiet(r) => Quiet(q)
    BY <1>2, <1>3, <1>7, <2>1, RequestIs
  <2> QED
    BY <1>1, <1>3, <1>7, <2>2 DEF q, r
<1>8. CASE Do = "control"
  <2>1. q = timeoutControl(r)
    BY <1>8 DEF Method
  <2> HIDE DEF q
  <2> QED
    BY <1>1, <1>2, <1>3, <1>8, <2>1, ControlIs DEF q, r
<1>9. CASE Do = "close"
  <2>1. q = close(r)
    BY <1>9 DEF Method
  <2> HIDE DEF q
  <2> QED
    BY <1>1, <1>2, <1>3, <1>9, <2>1, CloseIs DEF q, r
<1>10. CASE Do = "exit"
  <2>1. q = waitForExit(r)
    BY <1>10 DEF Method
  <2> HIDE DEF q
  <2> QED
    BY <1>1, <1>2, <1>3, <1>10, <2>1, ExitIs DEF q, r
<1> QED
  BY <1>c, <1>5, <1>6, <1>7, <1>8, <1>9, <1>10

\* The script makes its next call.
LEMMA StepCallNext == ASSUME ProbeState, CallNext
    PROVE  ProbeTypes' /\ ProbeInv' /\ AllSound'
<1> USE DEF ProbeState
<1> DEFINE r == s[On]
           q == Method(r, Do)
<1>u. mode = "call" /\ mode' = "wait" /\ UNCHANGED <<step, held, results, forced, prober, receipt, evidence>>
      /\ s' = [s EXCEPT ![On] = q]
  BY DEF CallNext
<1>o. On' = On /\ Do' = Do /\ step \in 1..17
  BY <1>u DEF On, Do, ProbeTypes
<1>c. /\ On \in Probed /\ Do \in {"create", "prompt", "entries", "control", "close", "exit"} /\ step \in Nat
      /\ Do = "create" => Opens[On] = step
      /\ step < Prompts[On] => Do \in {"create", "entries"}
      /\ \A i \in Probed : Prompts[i] \in 1..17
  BY <1>o, CallIs
<1>n. /\ Do = "close" <=> step \in {8, 12, 16}
      /\ Do = "create" <=> step \in {1, 3, 5, 9, 13}
      /\ On = "named" <=> step \in {5, 6, 7, 8}
      /\ On = "resumed" <=> step \in {9, 10, 11, 12}
      /\ On = "timeout" <=> step \in {13, 14, 15, 16, 17}
  BY <1>o, ScriptIs
<1>q. /\ Sound(q) /\ q.op \in {"idle", Do} /\ q.child # "none" /\ (On \in held => q.child = r.child)
      /\ Do = "create" => CreateOK(q) /\ Quiet(q) /\ ~q.gone
      /\ Do # "create" => On \in held /\ q.error = r.error /\ (r.gone => q.gone)
      /\ Do = "prompt" => PromptOK(q)
      /\ Do = "entries" => (Quiet(r) => Quiet(q))
      /\ Do \notin {"create", "close"} => q.gone = r.gone
      /\ Do = "close" => q.gone /\ (~r.gone => CloseOK(q))
  BY <1>u, MethodIs
<1>p. /\ Probed = {"tool", "reviewer", "named", "resumed", "timeout"} /\ Probed \subseteq Sessions
  BY ProbedIs
<1> HIDE DEF q
<1>s. AllSound' /\ s'[On] = q /\ \A i \in Probed : i # On => s'[i] = s[i]
  BY <1>c, <1>p, <1>q, <1>u, Put
<1>1. ProbeTypes'
  BY <1>u DEF ProbeTypes
<1>2. ProbeOK'
  <2>1. held' \subseteq Probed /\ InScript /\ (InScript' => held' = {i \in Probed : Opens[i] < step' /\ step' <= LetsGo[i]})
    BY <1>u DEF ProbeInv, ProbeOK, InScript
  <2>2. Moving' = {On} /\ Moving = {}
    BY <1>o, <1>u DEF Moving
  <2>3. \A i \in Probed \ Moving' : s'[i].op = "idle"
    BY <1>s, <2>2 DEF ProbeInv, ProbeOK
  <2>4. \A i \in Probed \ held' : Stopped(s'[i]) \/ (On' = i /\ Do' = "create")
    <3>1. \A i \in Probed \ held : Stopped(s[i])
      BY <1>u DEF ProbeInv, ProbeOK
    <3> QED
      BY <1>o, <1>q, <1>s, <1>u, <3>1
  <2>5. \A i \in held' : s'[i].child # "none"
    BY <1>q, <1>s, <1>u, <2>1 DEF ProbeInv, ProbeOK
  <2> QED
    BY <1>u, <2>1, <2>3, <2>4, <2>5 DEF ProbeOK
<1>3. CallOK'
  <2>1. step = 8 => CloseOK(q)
    <3>1. step = 8 => ~s["named"].gone
      BY <1>u DEF ProbeInv, Reopened, Before, InScript
    <3> QED
      BY <1>n, <1>q, <3>1
  <2> QED
    BY <1>o, <1>q, <1>s, <1>u, <2>1 DEF CallOK
<1>4. Unprompted'
  <2> SUFFICES ASSUME NEW i \in Probed, Before(Prompts[i])' PROVE Quiet(s'[i])
    BY DEF Unprompted
  <2>1. step < Prompts[i]
    BY <1>u DEF Before, InScript
  <2>2. Quiet(s[i])
    BY <1>u, <2>1 DEF ProbeInv, Unprompted, Before, InScript
  <2> QED
    BY <1>c, <1>q, <1>s, <2>1, <2>2
<1>5. Reopened'
  <2>1. Before(8)' => step < 8
    BY <1>u DEF Before
  <2>2. Before(9)' => step < 9
    BY <1>u DEF Before
  <2>3. step < 8 => ~s["named"].gone
    BY <1>u DEF ProbeInv, Reopened, Before, InScript
  <2>4. step < 8 => ~s'["named"].gone
    BY <1>n, <1>o, <1>p, <1>q, <1>s, <2>3
  <2>5. step > 8 => s'["named"].child = "ended" /\ "named" \notin held'
    BY <1>n, <1>o, <1>p, <1>s, <1>u DEF ProbeInv, Reopened
  <2>6. step <= 8 => s'["resumed"].child = "none"
    BY <1>n, <1>o, <1>p, <1>s DEF ProbeInv, Reopened
  <2> QED
    BY <1>o, <1>u, <2>1, <2>2, <2>4, <2>5, <2>6 DEF Reopened
<1>6. Ending'
  <2>1. step > 16 \/ step = 16 => s'["timeout"].gone
    BY <1>n, <1>o, <1>p, <1>q, <1>s, <1>u DEF ProbeInv, Ending
  <2>2. forced => s'["timeout"].error = "timeout" /\ step > 14
    BY <1>n, <1>o, <1>p, <1>q, <1>s, <1>u DEF ProbeInv, Ending
  <2>3. ~evidence
    BY <1>u DEF ProbeInv, Ending
  <2>4. /\ step > 2 => results["session"] # "UNTESTED"
        /\ step > 4 => results["reviewer"] # "UNTESTED"
        /\ step > 11 => results["resume"] # "UNTESTED"
        /\ results["resume"] = "SUPPORTED" => step >= 11
        /\ receipt => prober = "gone"
        /\ results["timeout"] = "SUPPORTED" => evidence
    BY <1>u DEF ProbeInv, Ending
  <2> QED
    BY <1>u, <2>1, <2>2, <2>3, <2>4 DEF Ending
<1> QED
  BY <1>1, <1>2, <1>3, <1>4, <1>5, <1>6, <1>s DEF ProbeInv

\* What is learned of a call adds to what is known.
LEMMA LearnIs == ASSUME ProbeTypes, Learn
    PROVE  /\ results' \in [Capabilities -> {"UNTESTED", "SUPPORTED", "BLOCKED"}]
           /\ \A c \in Capabilities : results[c] # "UNTESTED" => results'[c] # "UNTESTED"
           /\ step = 2 => results'["session"] # "UNTESTED"
           /\ step = 4 => results'["reviewer"] # "UNTESTED"
           /\ step = 11 => results'["resume"] # "UNTESTED"
           /\ step # 11 => results'["resume"] = results["resume"]
           /\ results'["timeout"] = results["timeout"]
<1>n. /\ Do = "prompt" <=> step \in {2, 4, 6, 11, 14}
      /\ On = "tool" <=> step \in {1, 2}
      /\ On = "reviewer" <=> step \in {3, 4}
      /\ On = "resumed" <=> step \in {9, 10, 11, 12}
  BY ScriptIs DEF ProbeTypes
<1>r. results \in [Capabilities -> {"UNTESTED", "SUPPORTED", "BLOCKED"}]
  BY DEF ProbeTypes
<1>v. \A b : Verdict(b) \in {"SUPPORTED", "BLOCKED"}
  BY DEF Verdict
<1> DEFINE put(f) == [c \in Capabilities |-> IF c \in DOMAIN f THEN f[c] ELSE results[c]]
<1>1. CASE On = "tool" /\ Do = "prompt"
  <2>1. results' = put([session |-> "SUPPORTED"])
    BY <1>1 DEF Learn
  <2> QED
    BY <1>n, <1>r, <1>1, <2>1 DEF Capabilities
<1>2. CASE On = "reviewer" /\ Do = "prompt"
  <2>1. PICK good \in BOOLEAN : results' = put([reviewer |-> Verdict(good)])
    BY <1>n, <1>2 DEF Learn
  <2>2. Verdict(good) \in {"SUPPORTED", "BLOCKED"}
    BY <1>v
  <2> QED
    BY <1>n, <1>r, <1>2, <2>1, <2>2 DEF Capabilities
<1>3. CASE On = "resumed" /\ Do = "prompt"
  <2>1. PICK same \in BOOLEAN : results' = put([resume |-> Verdict(same /\ ~isAlive(s["named"]))])
    BY <1>n, <1>3 DEF Learn
  <2>2. Verdict(same /\ ~isAlive(s["named"])) \in {"SUPPORTED", "BLOCKED"}
    BY <1>v
  <2> QED
    BY <1>n, <1>r, <1>3, <2>1, <2>2 DEF Capabilities
<1>4. CASE ~(On \in {"tool", "reviewer", "resumed"} /\ Do = "prompt")
  <2>1. UNCHANGED results
    BY <1>4 DEF Learn
  <2> QED
    BY <1>n, <1>r, <1>4, <2>1
<1> QED
  BY <1>1, <1>2, <1>3, <1>4

\* The call returned: something is learned, a session let go of, or the script throws.
LEMMA StepProceed == ASSUME ProbeState, Proceed
    PROVE  ProbeTypes' /\ ProbeInv' /\ AllSound'
<1> USE DEF ProbeState
<1> DEFINE r == s[On]
           shut == Do = "close" /\ On # "timeout"
<1>u. mode = "wait" /\ r.op = "idle" /\ (r.out = "ok" \/ step \in 14..17) /\ Learn
      /\ UNCHANGED <<prober, receipt, evidence>>
  BY DEF Proceed, Ok, Caught
<1>t. step \in 1..17
  BY DEF ProbeTypes
<1>c. /\ On \in Probed /\ step \in Nat
      /\ Do = "create" => Opens[On] = step
      /\ Do # "create" => Opens[On] < step /\ step <= LetsGo[On]
      /\ \A i \in Probed : /\ Opens[i] \in 1..17 /\ Prompts[i] \in 1..17 /\ LetsGo[i] \in 1..17
                           /\ Opens[i] < LetsGo[i]
                           /\ Opens[i] = step => i = On /\ Do = "create"
                           /\ LetsGo[i] = step /\ step < 17 => i = On /\ shut
      /\ shut => LetsGo[On] = step /\ step \in {8, 12}
  BY <1>t, CallIs
<1>n. /\ Do = "create" <=> step \in {1, 3, 5, 9, 13}
      /\ Do = "close" <=> step \in {8, 12, 16}
      /\ On = "named" <=> step \in {5, 6, 7, 8}
      /\ On = "resumed" <=> step \in {9, 10, 11, 12}
      /\ On = "timeout" <=> step \in {13, 14, 15, 16, 17}
      /\ Len(Script) = 17
  BY <1>t, ScriptIs
<1>p. /\ Probed = {"tool", "reviewer", "named", "resumed", "timeout"} /\ Probed \subseteq Sessions
      /\ \A i \in Probed : Sound(s[i]) /\ SessionOK(s[i])
  BY ProbedIs
<1>d. /\ step' = IF step < 17 THEN step + 1 ELSE step
      /\ mode' = IF step < 17 THEN "call" ELSE "look"
      /\ forced' = IF step = 14 THEN ~Ok /\ r.error = "timeout" /\ r.settle = "failed" ELSE forced
      /\ IF shut THEN held' = held \ {On} /\ Forget(On)
         ELSE held' = (IF Do = "create" THEN held \cup {On} ELSE held) /\ UNCHANGED s
  BY <1>n DEF Proceed
<1>h. held = {i \in Probed : Opens[i] < step /\ step <= LetsGo[i]}
  BY <1>u DEF ProbeInv, ProbeOK, InScript
<1>k. /\ Do = "create" => r.child # "none"
      /\ shut => Stopped(r)
      /\ step = 8 => r.child = "ended"
  <2>1. Do = "create" => r.child # "none"
    BY <1>u DEF ProbeInv, CallOK
  <2>2. shut => r.gone
    BY <1>u DEF ProbeInv, CallOK
  <2>3. shut => Stopped(r)
    BY <1>c, <1>p, <1>u, <2>2 DEF Sound
  <2>4. step = 8 => CloseOK(r)
    BY <1>u DEF ProbeInv, CallOK
  <2>5. step = 8 => r.child = "ended"
    BY <1>u, <2>4 DEF CloseOK
  <2> QED
    BY <2>1, <2>3, <2>5
<1> DEFINE q == IF shut THEN Forgotten(r) ELSE r
<1>q. /\ Sound(q) /\ q.op = "idle" /\ q.child = r.child
      /\ shut => Stopped(q) /\ Quiet(q)
      /\ ~shut => q = r
  BY <1>c, <1>k, <1>p, <1>u, ForgottenIs
<1>s. AllSound' /\ s'[On] = q /\ \A i \in Probed : i # On => s'[i] = s[i]
  <2>1. CASE shut
    <3>1. s' = [s EXCEPT ![On] = q]
      BY <1>d, <2>1 DEF Forget, Forgotten
    <3> HIDE DEF q
    <3> QED
      BY <1>c, <1>p, <1>q, <3>1, Put
  <2>2. CASE ~shut
    BY <1>d, <2>2 DEF AllSound
  <2> QED
    BY <2>1, <2>2
<1> HIDE DEF q
<1>l. /\ results' \in [Capabilities -> {"UNTESTED", "SUPPORTED", "BLOCKED"}]
      /\ \A c \in Capabilities : results[c] # "UNTESTED" => results'[c] # "UNTESTED"
      /\ step = 2 => results'["session"] # "UNTESTED"
      /\ step = 4 => results'["reviewer"] # "UNTESTED"
      /\ step = 11 => results'["resume"] # "UNTESTED"
      /\ step # 11 => results'["resume"] = results["resume"]
      /\ results'["timeout"] = results["timeout"]
  BY <1>u, LearnIs
<1>g. /\ step' \in 1..17 /\ mode' \in {"call", "look"} /\ step' >= step
      /\ mode' = "call" => step' = step + 1 /\ step < 17
      /\ mode' = "look" => step' = 17 /\ step = 17
  BY <1>d, <1>t
<1>1. ProbeTypes'
  <2>1. held' \subseteq Sessions
    BY <1>c, <1>d, <1>p DEF ProbeTypes
  <2>2. forced' \in BOOLEAN
    BY <1>d DEF ProbeTypes
  <2> QED
    BY <1>g, <1>l, <1>u, <2>1, <2>2 DEF ProbeTypes
<1>2. ProbeOK'
  <2>1. held' \subseteq Probed
    BY <1>c, <1>d, <1>h
  <2>2. mode' = "call" => held' = {i \in Probed : Opens[i] < step' /\ step' <= LetsGo[i]}
    <3> SUFFICES ASSUME mode' = "call"
                 PROVE  \A i \in Probed : i \in held' <=> Opens[i] < step + 1 /\ step + 1 <= LetsGo[i]
      BY <1>g, <2>1
    <3> SUFFICES ASSUME NEW i \in Probed PROVE i \in held' <=> Opens[i] < step + 1 /\ step + 1 <= LetsGo[i]
      OBVIOUS
    <3>1. i \in held <=> Opens[i] < step /\ step <= LetsGo[i]
      BY <1>h
    <3>2. CASE i = On
      BY <1>c, <1>d, <1>g, <1>n, <3>1, <3>2
    <3>3. CASE i # On
      BY <1>c, <1>d, <1>g, <3>1, <3>3
    <3> QED
      BY <3>2, <3>3
  <2>3. Moving' = {}
    BY <1>g DEF Moving
  <2>4. \A i \in Probed : s'[i].op = "idle"
    BY <1>q, <1>s, <1>u DEF ProbeInv, ProbeOK, Moving
  <2>5. \A i \in Probed \ held' : Stopped(s'[i])
    <3>1. \A i \in Probed \ held : Stopped(s[i]) \/ (i = On /\ Do = "create")
      BY DEF ProbeInv, ProbeOK
    <3> QED
      BY <1>d, <1>q, <1>s, <3>1
  <2>6. \A i \in held' : s'[i].child # "none"
    BY <1>d, <1>k, <1>q, <1>s, <2>1 DEF ProbeInv, ProbeOK
  <2> QED
    BY <1>g, <2>1, <2>2, <2>3, <2>4, <2>5, <2>6 DEF ProbeOK, InScript
<1>3. CallOK'
  BY <1>g DEF CallOK
<1>4. Unprompted'
  <2> SUFFICES ASSUME NEW i \in Probed, Before(Prompts[i])' PROVE Quiet(s'[i])
    BY DEF Unprompted
  <2>1. step < Prompts[i]
    BY <1>c, <1>g DEF Before, InScript
  <2>2. Quiet(s[i])
    BY <1>u, <2>1 DEF ProbeInv, Unprompted, Before, InScript
  <2> QED
    BY <1>q, <1>s, <2>2
<1>5. Reopened'
  <2>1. /\ Before(8)' => step < 8
        /\ step' <= 8 \/ Before(9)' => step <= 8
        /\ step' > 8 => step >= 8
    BY <1>c, <1>g DEF Before, InScript
  <2>2. step < 8 => ~s'["named"].gone
    <3>1. step < 8 => ~s["named"].gone
      BY <1>u DEF ProbeInv, Reopened, Before, InScript
    <3>2. step < 8 => ~shut
      BY <1>c
    <3> QED
      BY <1>p, <1>q, <1>s, <3>1, <3>2
  <2>3. step > 8 => s'["named"].child = "ended" /\ "named" \notin held'
    BY <1>d, <1>n, <1>p, <1>s DEF ProbeInv, Reopened
  <2>4. step = 8 => s'["named"].child = "ended" /\ "named" \notin held'
    BY <1>d, <1>k, <1>n, <1>q, <1>s
  <2>5. step <= 8 => s'["resumed"].child = "none"
    BY <1>n, <1>p, <1>s, <1>t DEF ProbeInv, Reopened
  <2> QED
    BY <1>t, <2>1, <2>2, <2>3, <2>4, <2>5 DEF Reopened
<1>6. Ending'
  <2>0. On = "timeout" => s'["timeout"] = r
    BY <1>q, <1>s
  <2>1. step' > 16 => s'["timeout"].gone
    <3>1. step' > 16 => step >= 16
      BY <1>d, <1>t
    <3>2. step >= 16 => s["timeout"].gone /\ On = "timeout"
      BY <1>n, <1>t, <1>u DEF ProbeInv, Ending
    <3> QED
      BY <2>0, <3>1, <3>2
  <2>2. mode' = "look" => "timeout" \in held'
    BY <1>d, <1>g, <1>h, <1>n, <1>c
  <2>3. /\ step' > 2 => results'["session"] # "UNTESTED"
        /\ step' > 4 => results'["reviewer"] # "UNTESTED"
        /\ step' > 11 => results'["resume"] # "UNTESTED"
    <3>1. /\ step > 2 => results["session"] # "UNTESTED"
          /\ step > 4 => results["reviewer"] # "UNTESTED"
          /\ step > 11 => results["resume"] # "UNTESTED"
      BY <1>u DEF ProbeInv, Ending
    <3>2. {"session", "reviewer", "resume"} \subseteq Capabilities
      BY DEF Capabilities
    <3>3. /\ step' > 2 => step > 2 \/ step = 2
          /\ step' > 4 => step > 4 \/ step = 4
          /\ step' > 11 => step > 11 \/ step = 11
      BY <1>d, <1>t
    <3> QED
      BY <1>l, <3>1, <3>2, <3>3
  <2>4. results'["resume"] = "SUPPORTED" => step' >= 11
    <3>1. results["resume"] = "SUPPORTED" => step >= 11
      BY DEF ProbeInv, Ending
    <3> QED
      BY <1>g, <1>l, <1>t, <3>1
  <2>5. forced' => s'["timeout"].error = "timeout" /\ step' > 14
    <3>1. CASE step = 14
      <4>1. forced' => r.error = "timeout"
        BY <1>d, <3>1 DEF Ok
      <4>2. On = "timeout" /\ step' = 15
        BY <1>d, <1>n, <3>1
      <4> QED
        BY <2>0, <4>1, <4>2
    <3>2. CASE step # 14
      <4>1. forced => s["timeout"].error = "timeout" /\ step > 14
        BY DEF ProbeInv, Ending
      <4>2. step > 14 => On = "timeout" /\ step' > 14
        BY <1>g, <1>n, <1>t
      <4> QED
        BY <1>d, <2>0, <3>2, <4>1, <4>2
    <3> QED
      BY <3>1, <3>2
  <2>6. ~evidence' /\ (receipt' => prober' = "gone") /\ results'["timeout"] # "SUPPORTED"
    BY <1>l, <1>u DEF ProbeInv, Ending
  <2> QED
    BY <1>g, <2>1, <2>2, <2>3, <2>4, <2>5, <2>6 DEF Ending
<1> QED
  BY <1>1, <1>2, <1>3, <1>4, <1>5, <1>6, <1>s DEF ProbeInv

\* The receipt of the tool is looked for, and a process of it that is still there killed.
LEMMA StepLook == ASSUME ProbeState, Look
    PROVE  ProbeTypes' /\ ProbeInv' /\ AllSound'
<1> USE DEF ProbeState
<1> DEFINE r == s["timeout"]
           q == Forgotten(r)
<1>u. mode = "look" /\ mode' = "finally" /\ held' = held \ {"timeout"}
      /\ evidence' = (forced /\ r.abort = "acked" /\ r.child # "up" /\ receipt)
      /\ prober' = (IF prober = "up" THEN "gone" ELSE prober)
      /\ UNCHANGED <<step, results, forced, receipt>> /\ s' = [s EXCEPT !["timeout"] = q]
  BY DEF Look, Forget, Forgotten, isAlive
<1>p. /\ "timeout" \in Probed /\ Probed \subseteq Sessions /\ Sound(r) /\ SessionOK(r) /\ {"named", "resumed"} \subseteq Probed
  BY ProbedIs
<1>i. \A i \in Probed : s[i].op = "idle"
  BY <1>u DEF ProbeInv, ProbeOK, Moving
<1>e. /\ step = 17 /\ "timeout" \in held /\ r.child # "none" /\ r.gone /\ ~evidence
      /\ held \subseteq Probed /\ \A i \in Probed \ held : Stopped(s[i])
      /\ \A i \in held : s[i].child # "none"
  BY <1>u DEF ProbeInv, ProbeOK, Ending
<1>q. Sound(q) /\ Stopped(q) /\ q.op = "idle" /\ q.child = r.child /\ q.error = r.error /\ q.gone /\ q.abort = r.abort
  <2>1. Stopped(r)
    BY <1>e, <1>i, <1>p DEF Sound
  <2> QED
    BY <1>i, <1>p, <2>1, ForgottenIs
<1>r. r.child \in {"none", "up", "ended", "died"} /\ receipt \in BOOLEAN /\ forced \in BOOLEAN
  BY <1>p, FieldTypes DEF SessionOK, ProbeTypes
<1> HIDE DEF q
<1>s. AllSound' /\ s'["timeout"] = q /\ \A i \in Probed : i # "timeout" => s'[i] = s[i]
  BY <1>p, <1>q, <1>u, Put
<1> HIDE DEF r
<1>1. ProbeTypes'
  BY <1>r, <1>u DEF ProbeTypes
<1>2. ProbeOK'
  BY <1>e, <1>i, <1>q, <1>s, <1>u DEF ProbeOK, InScript, Moving
<1>3. CallOK' /\ Unprompted'
  BY <1>u DEF CallOK, Unprompted, Before, InScript
<1>4. Reopened'
  BY <1>e, <1>p, <1>s, <1>u DEF ProbeInv, Reopened, Before, InScript
<1>5. Ending'
  <2>1. \A c \in Capabilities \ {"timeout"} : results[c] # "UNTESTED"
    BY <1>e, <1>u DEF ProbeInv, Ending, Capabilities
  <2>2. forced => r.error = "timeout"
    BY DEF ProbeInv, Ending, r
  <2>3. results["timeout"] # "SUPPORTED" /\ (receipt => prober = "gone")
    BY <1>e DEF ProbeInv, Ending
  <2>4. evidence' => q.error # "none" /\ q.abort = "acked" /\ q.child \in {"ended", "died"} /\ prober' = "gone"
    BY <1>e, <1>q, <1>r, <1>u, <2>2, <2>3
  <2> QED
    BY <1>e, <1>q, <1>s, <1>u, <2>1, <2>2, <2>3, <2>4 DEF Ending
<1> QED
  BY <1>1, <1>2, <1>3, <1>4, <1>5, <1>s DEF ProbeInv

\* The script failed: what was not learned is blocked.
LEMMA StepCatch == ASSUME ProbeState, Catch
    PROVE  ProbeTypes' /\ ProbeInv' /\ AllSound'
<1> USE DEF ProbeState
<1>u. mode = "wait" /\ s[On].op = "idle" /\ s[On].out # "ok" /\ step \notin 14..17 /\ mode' = "finally"
      /\ results' = [c \in Capabilities |-> IF results[c] = "UNTESTED" THEN "BLOCKED" ELSE results[c]]
      /\ UNCHANGED <<s, step, held, forced, prober, receipt, evidence>>
  BY DEF Catch, Caught, Ok
<1>t. step \in 1..17 /\ step < 14
  BY <1>u DEF ProbeTypes
<1>i. \A i \in Probed : s[i].op = "idle"
  BY <1>u DEF ProbeInv, ProbeOK, Moving
<1>h. /\ \A i \in Probed \ held : Stopped(s[i]) \/ (i = On /\ Do = "create")
      /\ Do = "create" => Stopped(s[On])
  <2>1. Do = "create" => CreateOK(s[On])
    BY <1>u DEF ProbeInv, CallOK
  <2> QED
    BY <1>u, <2>1 DEF ProbeInv, ProbeOK, CreateOK, Stopped
<1>1. ProbeTypes'
  BY <1>u DEF ProbeTypes
<1>2. ProbeOK'
  BY <1>h, <1>i, <1>u DEF ProbeInv, ProbeOK, InScript, Moving
<1>3. CallOK' /\ Unprompted'
  BY <1>u DEF CallOK, Unprompted, Before, InScript
<1>4. Reopened'
  BY <1>t, <1>u DEF ProbeInv, Reopened, Before, InScript
<1>5. Ending'
  <2>1. \A c \in Capabilities : results'[c] # "UNTESTED" /\ (results'[c] = "SUPPORTED" => results[c] = "SUPPORTED")
    BY <1>u DEF ProbeTypes
  <2>2. {"resume", "timeout"} \subseteq Capabilities
    BY DEF Capabilities
  <2> QED
    BY <1>t, <1>u, <2>1, <2>2 DEF ProbeInv, Ending
<1> QED
  BY <1>1, <1>2, <1>3, <1>4, <1>5, <1>u DEF ProbeInv, AllSound

\* finally closes the next session that is held, or is done with them.
LEMMA StepFinally == ASSUME ProbeState, Finally
    PROVE  ProbeTypes' /\ ProbeInv' /\ AllSound'
<1> USE DEF ProbeState
<1> DEFINE n == NextHeld
           r == s[n]
           q == close(r)
<1>u. mode = "finally" /\ held # {} /\ mode' = "closing" /\ s' = [s EXCEPT ![n] = q]
      /\ UNCHANGED <<step, held, results, forced, prober, receipt, evidence>>
  BY DEF Finally
<1>h. /\ held \subseteq Probed /\ \A i \in Probed : s[i].op = "idle"
      /\ \A i \in Probed \ held : Stopped(s[i])
      /\ \A i \in held : s[i].child # "none"
  BY <1>u DEF ProbeInv, ProbeOK, Moving
<1>n. n \in held /\ n' = n
  <2>1. n' = n
    BY <1>u DEF NextHeld
  <2> QED
    BY <1>h, <1>u, <2>1, NextIs
<1> HIDE DEF n
<1>p. n \in Probed /\ n \in Sessions /\ Sound(r) /\ SessionOK(r) /\ {"named", "resumed", "timeout"} \subseteq Probed
  BY <1>h, <1>n, ProbedIs
<1>q. Sound(q) /\ q.child = r.child /\ q.error = r.error /\ q.gone /\ q.child # "none"
  <2>1. r.op = "idle" /\ (Stopped(r) \/ ~r.gone) /\ r.child # "none"
    BY <1>h, <1>n, <1>p DEF Sound
  <2> QED
    BY <1>p, <2>1, CloseIs
<1> HIDE DEF q
<1>s. AllSound' /\ s'[n] = q /\ \A i \in Probed : i # n => s'[i] = s[i]
  BY <1>p, <1>q, <1>u, Put, ProbedIs
<1> HIDE DEF r
<1>1. ProbeTypes'
  BY <1>u DEF ProbeTypes
<1>2. ProbeOK'
  <2>1. Moving' = {n}
    BY <1>n, <1>u DEF Moving, n
  <2>2. s'[NextHeld'].gone
    BY <1>n, <1>q, <1>s DEF n
  <2> QED
    BY <1>h, <1>n, <1>q, <1>s, <1>u, <2>1, <2>2 DEF ProbeOK, InScript
<1>3. CallOK' /\ Unprompted'
  BY <1>u DEF CallOK, Unprompted, Before, InScript
<1>4. Reopened'
  <2>1. step > 8 => n # "named" /\ s["named"].child = "ended" /\ "named" \notin held
    BY <1>n, <1>u DEF ProbeInv, Reopened
  <2>2. step <= 8 => s["resumed"].child = "none" /\ n # "resumed"
    BY <1>h, <1>n DEF ProbeInv, Reopened
  <2> QED
    BY <1>p, <1>s, <1>u, <2>1, <2>2 DEF Reopened, Before, InScript
<1>5. Ending'
  <2>1. step > 16 => s'["timeout"].gone
    BY <1>p, <1>q, <1>s DEF ProbeInv, Ending
  <2>2. forced => s'["timeout"].error = "timeout" /\ step > 14
    BY <1>p, <1>q, <1>s DEF ProbeInv, Ending, r
  <2>3. evidence => n # "timeout"
    BY <1>n DEF ProbeInv, Ending
  <2> QED
    BY <1>p, <1>s, <1>u, <2>1, <2>2, <2>3 DEF ProbeInv, Ending
<1> QED
  BY <1>1, <1>2, <1>3, <1>4, <1>5, <1>s DEF ProbeInv

\* A session of finally is closed.
LEMMA StepClosed == ASSUME ProbeState, Closed
    PROVE  ProbeTypes' /\ ProbeInv' /\ AllSound'
<1> USE DEF ProbeState
<1> DEFINE n == NextHeld
           r == s[n]
           q == Forgotten(r)
<1>u. mode = "closing" /\ mode' = "finally" /\ s' = [s EXCEPT ![n] = q] /\ held' = held \ {n} /\ r.op = "idle"
      /\ UNCHANGED <<step, results, forced, prober, receipt, evidence>>
  BY DEF Closed, Forget, Forgotten
<1>h. /\ held \subseteq Probed /\ held # {} /\ r.gone
      /\ \A i \in Probed \ held : Stopped(s[i])
      /\ \A i \in held : s[i].child # "none"
      /\ \A i \in Probed \ {n} : s[i].op = "idle"
  BY <1>u DEF ProbeInv, ProbeOK, Moving
<1>n. n \in held
  BY <1>h, NextIs
<1> HIDE DEF n
<1>p. n \in Probed /\ n \in Sessions /\ Sound(r) /\ SessionOK(r) /\ {"named", "resumed", "timeout"} \subseteq Probed
  BY <1>h, <1>n, ProbedIs
<1>q. Sound(q) /\ Stopped(q) /\ q.op = "idle" /\ q.child = r.child /\ q.error = r.error /\ q.gone
  <2>1. Stopped(r)
    BY <1>h, <1>p, <1>u DEF Sound
  <2> QED
    BY <1>p, <1>u, <2>1, ForgottenIs
<1> HIDE DEF q
<1>s. AllSound' /\ s'[n] = q /\ \A i \in Probed : i # n => s'[i] = s[i]
  BY <1>p, <1>q, <1>u, Put, ProbedIs
<1>r. r = s[n]
  OBVIOUS
<1> HIDE DEF r
<1>1. ProbeTypes'
  BY <1>u DEF ProbeTypes
<1>2. ProbeOK'
  <2>1. Moving' = {}
    BY <1>u DEF Moving
  <2> QED
    BY <1>h, <1>n, <1>q, <1>s, <1>u, <2>1 DEF ProbeOK, InScript
<1>3. CallOK' /\ Unprompted'
  BY <1>u DEF CallOK, Unprompted, Before, InScript
<1>4. Reopened'
  <2>1. step > 8 => n # "named" /\ s["named"].child = "ended" /\ "named" \notin held
    BY <1>n, <1>u DEF ProbeInv, Reopened
  <2>2. step <= 8 => s["resumed"].child = "none" /\ n # "resumed"
    BY <1>h, <1>n DEF ProbeInv, Reopened
  <2> QED
    BY <1>p, <1>s, <1>u, <2>1, <2>2 DEF Reopened, Before, InScript
<1>5. Ending'
  <2>1. step > 16 => s'["timeout"].gone
    BY <1>p, <1>q, <1>s DEF ProbeInv, Ending
  <2>2. forced => s'["timeout"].error = "timeout" /\ step > 14
    BY <1>p, <1>q, <1>r, <1>s DEF ProbeInv, Ending
  <2>3. evidence => n # "timeout"
    BY <1>n DEF ProbeInv, Ending
  <2> QED
    BY <1>p, <1>s, <1>u, <2>1, <2>2, <2>3 DEF ProbeInv, Ending
<1> QED
  BY <1>1, <1>2, <1>3, <1>4, <1>5, <1>s DEF ProbeInv

\* The directories are removed and the timeout is judged, or all results are lost.
LEMMA StepRemoveAll == ASSUME ProbeState, RemoveAll
    PROVE  ProbeTypes' /\ ProbeInv' /\ AllSound'
<1> USE DEF ProbeState
<1>u. mode = "finally" /\ held = {} /\ UNCHANGED <<s, step, held, forced, prober, receipt, evidence>>
      /\ (\/ results' = [results EXCEPT !["timeout"] = Verdict(evidence)] /\ mode' = "done"
          \/ mode' = "threw" /\ UNCHANGED results)
  BY DEF RemoveAll
<1>v. Verdict(evidence) \in {"SUPPORTED", "BLOCKED"} /\ (Verdict(evidence) = "SUPPORTED" => evidence)
  BY DEF Verdict
<1>r. /\ results \in [Capabilities -> {"UNTESTED", "SUPPORTED", "BLOCKED"}]
      /\ {"resume", "timeout"} \subseteq Capabilities
  BY DEF ProbeTypes, Capabilities
<1>1. ProbeTypes'
  BY <1>r, <1>u, <1>v DEF ProbeTypes
<1>2. ProbeOK'
  BY <1>u DEF ProbeInv, ProbeOK, InScript, Moving
<1>3. CallOK' /\ Unprompted'
  BY <1>u DEF CallOK, Unprompted, Before, InScript
<1>4. Reopened'
  BY <1>u DEF ProbeInv, Reopened, Before, InScript
<1>5. Ending'
  <2>1. CASE results' = [results EXCEPT !["timeout"] = Verdict(evidence)] /\ mode' = "done"
    <3>1. /\ \A c \in Capabilities \ {"timeout"} : results'[c] = results[c]
          /\ results'["timeout"] = Verdict(evidence) /\ results'["resume"] = results["resume"]
      BY <1>r, <2>1
    <3> QED
      BY <1>u, <1>v, <2>1, <3>1 DEF ProbeInv, Ending
  <2>2. CASE mode' = "threw" /\ UNCHANGED results
    BY <1>u, <2>2 DEF ProbeInv, Ending
  <2> QED
    BY <1>u, <2>1, <2>2
<1> QED
  BY <1>1, <1>2, <1>3, <1>4, <1>5, <1>u DEF ProbeInv, AllSound

\* The tool's process is the business of the tool.
LEMMA StepTool == ASSUME ProbeState, ToolStarts \/ ToolStops
    PROVE  ProbeTypes' /\ ProbeInv' /\ AllSound'
<1> USE DEF ProbeState
<1>u. UNCHANGED <<s, step, mode, held, results, forced, evidence>>
      /\ (\/ prober = "none" /\ prober' = "up" /\ UNCHANGED receipt
          \/ prober = "up" /\ prober' = "gone" /\ receipt' = TRUE)
  BY DEF ToolStarts, ToolStops
<1>1. ProbeTypes'
  BY <1>u DEF ProbeTypes
<1>o. On' = On /\ Do' = Do /\ NextHeld' = NextHeld /\ (InScript' <=> InScript)
  BY <1>u DEF On, Do, NextHeld, InScript
<1>m. Moving' = Moving
  BY <1>o, <1>u DEF Moving
<1>2. ProbeOK'
  BY <1>m, <1>o, <1>u DEF ProbeInv, ProbeOK
<1>3. CallOK'
  BY <1>o, <1>u DEF ProbeInv, CallOK
<1>4. Unprompted' /\ Reopened'
  BY <1>o, <1>u DEF ProbeInv, Unprompted, Reopened, Before
<1>5. Ending'
  BY <1>u DEF ProbeInv, Ending
<1> QED
  BY <1>1, <1>2, <1>3, <1>4, <1>5, <1>u DEF ProbeInv, AllSound

\* The session that is awaited moves; the script does not.
LEMMA StepProbed == ASSUME ProbeState, NEW i \in Probed, Child(i) \/ Timers(i), UNCHANGED probeVars
    PROVE  ProbeTypes' /\ ProbeInv' /\ AllSound'
<1> USE DEF ProbeState
<1> DEFINE r == s[i]
<1>p. /\ i \in Sessions /\ Sound(r) /\ SessionOK(r) /\ {"named", "resumed", "timeout"} \subseteq Probed
  BY ProbedIs
<1>q. r.op # "idle" /\ \E q \in Session : Replaced(i, q) /\ Moves(r, q)
  BY <1>p, ChildMoves, TimersMove
<1>m. PICK q \in Session : Replaced(i, q) /\ Moves(r, q)
  BY <1>q
<1>s. AllSound' /\ s'[i] = q /\ \A j \in Probed : j # i => s'[j] = s[j]
  <2>1. Sound(q)
    BY <1>m, <1>p, MovesSound
  <2> QED
    BY <1>m, <1>p, <2>1, Put, ProbedIs DEF Replaced
<1>k. /\ q.gone = r.gone /\ q.op \in {r.op, "idle"} /\ q.child # "none" /\ (r.error # "none" => q.error = r.error)
      /\ Quiet(r) => Quiet(q)
      /\ r.op = "create" => CreateOK(q)
      /\ r.op = "prompt" => PromptOK(q)
      /\ r.op = "close" => CloseOK(q)
  BY <1>m DEF Moves
<1>u. UNCHANGED <<step, mode, held, results, forced, prober, receipt, evidence>>
  BY DEF probeVars
<1>o. On' = On /\ Do' = Do /\ NextHeld' = NextHeld /\ (InScript' <=> InScript) /\ step \in 1..17
  BY <1>u DEF On, Do, NextHeld, InScript, ProbeTypes
<1>a. Moving' = Moving
  BY <1>o, <1>u DEF Moving
<1>i. i \in Moving
  BY <1>q DEF ProbeInv, ProbeOK
<1>w. (mode = "wait" /\ i = On /\ r.op = Do) \/ (mode = "closing" /\ i = NextHeld /\ i \in held)
  <2>1. CASE mode = "wait"
    BY <1>i, <1>q, <2>1 DEF Moving, ProbeInv, CallOK
  <2>2. CASE mode = "closing"
    BY <1>i, <2>2, NextIs DEF Moving, ProbeInv, ProbeOK
  <2> QED
    BY <1>i, <2>1, <2>2 DEF Moving
<1>n. /\ Do = "close" <=> step \in {8, 12, 16}
      /\ On = "named" <=> step \in {5, 6, 7, 8}
      /\ On = "resumed" <=> step \in {9, 10, 11, 12}
      /\ On = "timeout" <=> step \in {13, 14, 15, 16, 17}
  BY <1>o, ScriptIs
<1>e. i \notin held => mode = "wait" /\ On = i /\ Do = "create"
  <2>1. SUFFICES ASSUME mode = "wait", i = On, i \notin held PROVE Do = "create"
    BY <1>w
  <2>2. Opens[On] < step /\ step <= LetsGo[On] => On \in held
    BY <1>o, <2>1, CallIs DEF ProbeInv, ProbeOK, InScript
  <2> QED
    BY <1>o, <2>1, <2>2, CallIs
<1>r. r = s[i]
  OBVIOUS
<1> HIDE DEF r
<1>1. ProbeTypes'
  BY <1>u DEF ProbeTypes
<1>2. ProbeOK'
  <2>1. \A j \in Probed \ Moving' : s'[j].op = "idle"
    BY <1>a, <1>i, <1>s DEF ProbeInv, ProbeOK
  <2>2. \A j \in Probed \ held' : Stopped(s'[j]) \/ (mode' = "wait" /\ On' = j /\ Do' = "create")
    BY <1>e, <1>o, <1>s, <1>u DEF ProbeInv, ProbeOK
  <2>3. \A j \in held' : s'[j].child # "none"
    BY <1>k, <1>s, <1>u DEF ProbeInv, ProbeOK
  <2>4. mode = "closing" => held # {} /\ s'[NextHeld].gone
    BY <1>k, <1>p, <1>r, <1>s, <1>w DEF ProbeInv, ProbeOK
  <2>5. held \subseteq Probed /\ (InScript => held = {j \in Probed : Opens[j] < step /\ step <= LetsGo[j]})
        /\ (mode = "look" => step = 17)
    BY DEF ProbeInv, ProbeOK
  <2> QED
    BY <1>o, <1>u, <2>1, <2>2, <2>3, <2>4, <2>5 DEF ProbeOK
<1>3. CallOK'
  <2> SUFFICES ASSUME mode = "wait"
               PROVE  /\ s'[On].op \in {"idle", Do}
                      /\ Do = "create" => CreateOK(s'[On]) /\ s'[On].child # "none"
                      /\ Do = "prompt" => PromptOK(s'[On])
                      /\ step = 8 => CloseOK(s'[On])
                      /\ Do = "close" => s'[On].gone
    BY <1>o, <1>u DEF CallOK
  <2>1. i = On /\ r.op = Do /\ s'[On] = q
    BY <1>s, <1>w
  <2>2. Do = "close" => r.gone
    BY <1>r, <2>1 DEF ProbeInv, CallOK
  <2> QED
    BY <1>k, <1>n, <2>1, <2>2
<1>4. Unprompted'
  <2>1. \A n : Before(n)' <=> Before(n)
    BY <1>o, <1>u DEF Before
  <2> QED
    BY <1>k, <1>r, <1>s, <2>1 DEF ProbeInv, Unprompted
<1>5. Reopened'
  <2>1. (Before(8)' <=> Before(8)) /\ (Before(9)' <=> Before(9))
    BY <1>o, <1>u DEF Before
  <2>2. Before(8) => ~s'["named"].gone
    BY <1>k, <1>p, <1>r, <1>s DEF ProbeInv, Reopened
  <2>3. step > 8 => i # "named" /\ s["named"].child = "ended" /\ "named" \notin held
    BY <1>n, <1>o, <1>w DEF ProbeInv, Reopened
  <2>4. step <= 8 \/ Before(9) => s["resumed"].child = "none"
    BY DEF ProbeInv, Reopened
  <2>5. step <= 8 \/ Before(9) => i # "resumed"
    <3>1. i = "resumed" /\ i \in held => s["resumed"].child # "none"
      BY DEF ProbeInv, ProbeOK
    <3>2. mode = "wait" /\ Before(9) => step <= 8
      BY <1>o DEF Before
    <3> QED
      BY <1>n, <1>o, <1>w, <2>4, <3>1, <3>2
  <2> QED
    BY <1>p, <1>s, <1>u, <2>1, <2>2, <2>3, <2>4, <2>5 DEF Reopened
<1>6. Ending'
  <2>1. step > 16 \/ (step = 16 /\ mode = "wait") => s'["timeout"].gone
    BY <1>k, <1>p, <1>r, <1>s DEF ProbeInv, Ending
  <2>2. forced => s'["timeout"].error = "timeout" /\ step > 14
    BY <1>k, <1>p, <1>r, <1>s DEF ProbeInv, Ending
  <2>3. evidence => i # "timeout"
    BY <1>w DEF ProbeInv, Ending
  <2> QED
    BY <1>p, <1>s, <1>u, <2>1, <2>2, <2>3 DEF ProbeInv, Ending
<1> QED
  BY <1>1, <1>2, <1>3, <1>4, <1>5, <1>6, <1>s DEF ProbeInv

\* Every step of the probe.
LEMMA ProbeMoves == ASSUME ProbeState, Probe
    PROVE  ProbeTypes' /\ ProbeInv' /\ AllSound'
<1>1. CASE ProbeStep
  BY <1>1, StepCallNext, StepProceed, StepLook, StepCatch, StepFinally, StepClosed, StepRemoveAll DEF ProbeStep
<1>2. CASE ToolStarts \/ ToolStops
  BY <1>2, StepTool
<1>3. CASE \E i \in Sessions \ {"case"} : (Child(i) \/ Timers(i)) /\ UNCHANGED probeVars
  BY <1>3, StepProbed DEF Probed
<1> QED
  BY <1>1, <1>2, <1>3 DEF Probe

\* The probe leaves the session of the evaluation alone, and does not become an evaluation.
LEMMA ProbeAlone == ASSUME ProbeState, Probe
    PROVE  mode' # "off" /\ s'["case"] = s["case"] /\ UNCHANGED evalVars
<1> USE DEF ProbeState
<1>f. s \in [Sessions -> Session] /\ "case" \notin Probed /\ "case" \in Sessions
  BY ProbedIs DEF AllSound, Sessions
<1>t. step \in 1..17
  BY DEF ProbeTypes
<1>0. UNCHANGED evalVars
  BY DEF Probe
<1>1. mode' # "off"
  BY ScriptIs DEF Probe, ProbeStep, CallNext, Proceed, Look, Catch, Finally, Closed, RemoveAll, ToolStarts, ToolStops,
     probeVars
<1>2. s' = s \/ \E i \in Probed : \E q : s' = [s EXCEPT ![i] = q]
  <2>1. CASE CallNext \/ Proceed
    BY <1>t, <2>1, CallIs DEF CallNext, Proceed, Forget
  <2>2. CASE Look
    BY <2>2, ProbedIs DEF Look, Forget
  <2>3. CASE Finally \/ Closed
    <3>1. held \subseteq Probed /\ held # {}
      BY <2>3 DEF Finally, Closed, ProbeInv, ProbeOK
    <3> QED
      BY <2>3, <3>1, NextIs DEF Finally, Closed, Forget
  <2>4. CASE Catch \/ RemoveAll \/ ToolStarts \/ ToolStops
    BY <2>4 DEF Catch, RemoveAll, ToolStarts, ToolStops
  <2>5. CASE \E i \in Sessions \ {"case"} : (Child(i) \/ Timers(i)) /\ UNCHANGED probeVars
    <3>1. PICK i \in Probed : Child(i) \/ Timers(i)
      BY <2>5 DEF Probed
    <3>2. \E q \in Session : Replaced(i, q)
      BY <3>1, ProbedIs, ChildMoves, TimersMove
    <3> QED
      BY <3>1, <3>2 DEF Replaced
  <2> QED
    BY <2>1, <2>2, <2>3, <2>4, <2>5 DEF Probe, ProbeStep
<1> QED
  BY <1>0, <1>1, <1>2, <1>f

-----------------------------------------------------------------------------
(* The whole run.                                                          *)

\* While an evaluation runs, nothing of the probe moves.
LEMMA ProbeStays == ASSUME ProbeTypes, ProbeInv, mode = "off", UNCHANGED probeVars, \A i \in Probed : s'[i] = s[i]
    PROVE  ProbeTypes' /\ ProbeInv'
<1>u. UNCHANGED <<step, mode, held, results, forced, prober, receipt, evidence>>
  BY DEF probeVars
<1>p. {"named", "resumed", "timeout"} \subseteq Probed
  BY DEF Probed, Sessions
<1>1. ProbeTypes'
  BY <1>u DEF ProbeTypes
<1>2. ProbeOK'
  BY <1>u DEF ProbeInv, ProbeOK, InScript, Moving
<1>3. CallOK' /\ Unprompted'
  BY <1>u DEF CallOK, Unprompted, Before, InScript
<1>4. Reopened'
  BY <1>p, <1>u DEF ProbeInv, Reopened, Before, InScript
<1>5. Ending'
  BY <1>p, <1>u DEF ProbeInv, Ending
<1> QED
  BY <1>1, <1>2, <1>3, <1>4, <1>5 DEF ProbeInv

\* While the probe runs, nothing of the evaluation moves.
LEMMA EvalStays == ASSUME EvalTypes, EvalInv, UNCHANGED evalVars, s'["case"] = s["case"]
    PROVE  EvalTypes' /\ EvalInv'
<1>u. UNCHANGED <<phase, todo, retry, task, turn, tree, before, errors, infra, attempts, gate, start, wrote, stray>>
  BY DEF evalVars
<1>c. Case' = Case
  BY DEF Case
<1>1. EvalTypes'
  BY <1>u DEF EvalTypes
<1>2. AttemptOK' /\ Counted'
  BY <1>c, <1>u DEF EvalInv, AttemptOK, Counted
<1>3. Judged'
  BY <1>c, <1>u DEF EvalInv, Judged, Fine, Did, modelMutations
<1>4. Booked'
  BY <1>u DEF EvalInv, Booked, InProgress
<1>5. TurnJudged' /\ PassedIsOver' /\ GateHonest'
  BY <1>u DEF EvalInv, TurnJudged, PassedIsOver, GateHonest, Passed, Of
<1> QED
  BY <1>1, <1>2, <1>3, <1>4, <1>5 DEF EvalInv

\* Both clients begin in the invariant.
LEMMA LiveInitially == EvalAssumption /\ LiveInit => LInv
<1> SUFFICES ASSUME EvalAssumption, LiveInit PROVE LInv
  OBVIOUS
<1>s. \A i \in Sessions : s[i] = NoSession
  BY DEF LiveInit
<1>p. /\ "case" \in Sessions /\ Probed \subseteq Sessions /\ {"named", "resumed", "timeout"} \subseteq Probed
  BY DEF Probed, Sessions
<1>m. (phase = "next" /\ mode = "off") \/ (phase = "off" /\ mode = "call")
  BY DEF LiveInit
<1>c. Case = NoSession
  BY <1>p, <1>s DEF Case
<1>1. AllSound
  <2>1. s \in [Sessions -> Session]
    BY NoSessionIs DEF LiveInit
  <2> QED
    BY <1>s, <2>1, NoSessionIs DEF AllSound
<1>2. OneClient
  BY <1>m DEF OneClient
<1>e. /\ todo \in Rounds /\ retry = 0 /\ task = Head(todo)
      /\ turn = 1 /\ tree = [p \in Paths |-> 0] /\ before = tree
      /\ errors = FALSE /\ infra = FALSE /\ attempts = << >> /\ gate = NoGate
      /\ start = tree /\ wrote = {} /\ stray = FALSE
  BY DEF LiveInit, EvalInit
<1>n. PICK n : /\ n \in Nat /\ todo \in [1..n -> FirstTasks] /\ IsInjective(todo) /\ ToSet(todo) = FirstTasks
  <2>1. Cardinality(Cases) \in Nat
    BY FS_CardinalityType DEF EvalAssumption
  <2>2. Repeat * Cardinality(Cases) \in Nat
    BY <2>1 DEF EvalAssumption
  <2> QED
    BY <1>e, <2>2 DEF Rounds
<1>t. /\ DOMAIN todo = 1..n /\ \A k \in 1..n : todo[k] \in Task /\ todo[k].retryOf = 0
      /\ \A j \in FirstTasks : \E k \in DOMAIN todo : todo[k] = j
      /\ \A j, k \in DOMAIN todo : todo[j] = todo[k] => j = k
      /\ todo \in Seq(Task) /\ task \in Task /\ task.retryOf = 0
  <2>1. DOMAIN todo = 1..n /\ \A k \in 1..n : todo[k] \in Task /\ todo[k].retryOf = 0
    BY <1>n DEF FirstTasks
  <2>2. \A j \in FirstTasks : \E k \in DOMAIN todo : todo[k] = j
    BY <1>n DEF ToSet
  <2>3. \A j, k \in DOMAIN todo : todo[j] = todo[k] => j = k
    BY <1>n DEF IsInjective
  <2>4. todo \in Seq(Task)
    <3>1. todo \in [1..n -> Task]
      BY <1>n DEF FirstTasks
    <3> QED
      BY <1>n, <3>1
  <2>5. 1 \in DOMAIN todo
    <3>1. PICK c \in Cases : TRUE
      BY DEF EvalAssumption
    <3>2. [case |-> c, round |-> 1, retryOf |-> 0] \in FirstTasks
      BY DEF FirstTasks, Task, EvalAssumption
    <3>3. \E k \in 1..n : TRUE
      BY <2>1, <2>2, <3>2
    <3> QED
      BY <1>n, <2>1, <3>3
  <2>6. Head(todo) = todo[1]
    BY <2>4, <2>5
  <2> QED
    BY <1>e, <2>1, <2>2, <2>3, <2>4, <2>5, <2>6
<1>3. EvalTypes
  <2>1. attempts \in Seq(Attempt)
    BY <1>e, EmptySeq
  <2>2. tree \in [Paths -> 0..2] /\ turn \in 1..Turns /\ retry \in 0..RetryFailures
    BY <1>e DEF EvalAssumption
  <2>3. gate \in [done : BOOLEAN, failed : SUBSET Cases, flaky : SUBSET Cases]
    BY <1>e DEF NoGate
  <2> QED
    BY <1>e, <1>m, <1>t, <2>1, <2>2, <2>3 DEF EvalTypes
<1>4. EvalInv
  <2>1. AttemptOK
    BY <1>c, <1>m, NoSessionIs DEF AttemptOK, Stopped
  <2>2. Counted
    <3>1. Asked(NoSession, 1)
      BY NoSessionIs DEF Asked
    <3> QED
      BY <1>c, <1>e, <1>m, <3>1 DEF Counted
  <2>3. Judged
    BY <1>e, <1>m DEF Judged
  <2>4. Booked
    <3>1. \A j : ~Made(attempts, j)
      BY <1>e DEF Made
    <3>2. ~InProgress /\ ~gate.done /\ DOMAIN attempts = {}
      BY <1>e, <1>m DEF InProgress, NoGate
    <3> QED
      BY <1>t, <3>1, <3>2 DEF Booked
  <2>5. ~Passed /\ ~gate.done
    BY <1>e DEF Passed, NoGate
  <2> QED
    BY <2>1, <2>2, <2>3, <2>4, <2>5 DEF EvalInv, TurnJudged, PassedIsOver, GateHonest
<1>v. step = 1 /\ held = {} /\ forced = FALSE /\ evidence = FALSE
      /\ results = [c \in Capabilities |-> "UNTESTED"] /\ prober = "none" /\ receipt = FALSE
  BY DEF LiveInit, ProbeInit
<1>5. ProbeTypes
  <2>1. step \in 1..17
    BY <1>v
  <2>2. mode \in {"off", "call", "wait", "look", "finally", "closing", "done", "threw"}
    BY <1>m
  <2>3. held \subseteq Sessions /\ {forced, receipt, evidence} \subseteq BOOLEAN
    BY <1>v
  <2>4. results \in [Capabilities -> {"UNTESTED", "SUPPORTED", "BLOCKED"}]
    BY <1>v
  <2>5. prober \in {"none", "up", "gone"}
    BY <1>v
  <2> QED
    BY <2>1, <2>2, <2>3, <2>4, <2>5 DEF ProbeTypes
<1>6. ProbeInv
  <2>i. \A i \in Probed : s[i] = NoSession /\ Quiet(s[i]) /\ s[i].op = "idle" /\ s[i].child = "none" /\ ~s[i].gone
    BY <1>p, <1>s, NoSessionIs
  <2>1. ProbeOK
    <3>1. \A i \in Probed : ~(Opens[i] < 1)
      <4>1. step \in 1..17
        BY <1>v
      <4> SUFFICES ASSUME NEW i \in Probed PROVE ~(Opens[i] < 1)
        OBVIOUS
      <4>2. Opens[i] \in 1..17
        BY <4>1, CallIs
      <4>3. \A k \in 1..17 : ~(k < 1)
        OBVIOUS
      <4> QED
        BY <4>2, <4>3
    <3>2. {i \in Probed : Opens[i] < step /\ step <= LetsGo[i]} = {}
      BY <1>v, <3>1
    <3> QED
      BY <1>m, <1>v, <2>i, <3>2 DEF ProbeOK, InScript, Stopped
  <2>2. CallOK /\ Unprompted
    BY <1>m, <2>i DEF CallOK, Unprompted
  <2>3. Reopened
    BY <1>p, <1>v, <2>i DEF Reopened
  <2>4. Ending
    BY <1>m, <1>v DEF Ending, Capabilities
  <2> QED
    BY <2>1, <2>2, <2>3, <2>4 DEF ProbeInv
<1> QED
  BY <1>1, <1>2, <1>3, <1>4, <1>5, <1>6 DEF LInv

\* Every step of either client, of a child and of a timer keeps the invariant.
LEMMA LiveInductive == EvalAssumption /\ LInv /\ [LiveNext]_liveVars => LInv'
<1> SUFFICES ASSUME EvalAssumption, LInv, [LiveNext]_liveVars PROVE LInv'
  OBVIOUS
<1>i. AllSound /\ OneClient /\ EvalTypes /\ ProbeTypes /\ EvalInv /\ ProbeInv
  BY DEF LInv
<1>1. CASE Eval
  <2>1. EvalTypes' /\ EvalInv' /\ AllSound'
    BY <1>i, <1>1, EvalMoves DEF EvalState
  <2>2. phase # "off" /\ phase' # "off" /\ \A i \in Probed : s'[i] = s[i]
    BY <1>i, <1>1, EvalAlone DEF EvalState
  <2>3. mode = "off" /\ UNCHANGED probeVars
    BY <1>i, <1>1, <2>2 DEF OneClient, Eval
  <2>4. ProbeTypes' /\ ProbeInv'
    BY <1>i, <2>2, <2>3, ProbeStays
  <2>5. OneClient'
    BY <2>2, <2>3 DEF OneClient, probeVars
  <2> QED
    BY <2>1, <2>4, <2>5 DEF LInv
<1>2. CASE Probe
  <2>0. mode # "off" /\ phase = "off"
    BY <1>i, <1>2 DEF Probe, OneClient
  <2>1. ProbeTypes' /\ ProbeInv' /\ AllSound'
    BY <1>i, <1>2, <2>0, ProbeMoves DEF ProbeState
  <2>2. mode' # "off" /\ s'["case"] = s["case"] /\ UNCHANGED evalVars
    BY <1>i, <1>2, <2>0, ProbeAlone DEF ProbeState
  <2>3. EvalTypes' /\ EvalInv'
    BY <1>i, <2>2, EvalStays
  <2>4. OneClient'
    BY <2>0, <2>2 DEF OneClient, evalVars
  <2> QED
    BY <2>1, <2>3, <2>4 DEF LInv
<1>3. CASE UNCHANGED liveVars
  <2>1. UNCHANGED <<s, evalVars, probeVars>>
    BY <1>3 DEF liveVars
  <2>2. EvalTypes' /\ EvalInv'
    BY <1>i, <2>1, EvalStays
  <2>3. AllSound' /\ OneClient'
    BY <1>i, <2>1 DEF AllSound, OneClient, evalVars, probeVars
  <2>u. UNCHANGED <<step, mode, held, results, forced, prober, receipt, evidence>>
    BY <2>1 DEF probeVars
  <2>o. On' = On /\ Do' = Do /\ NextHeld' = NextHeld /\ (InScript' <=> InScript)
    BY <2>u DEF On, Do, NextHeld, InScript
  <2>m. Moving' = Moving
    BY <2>o, <2>u DEF Moving
  <2>4. ProbeTypes' /\ ProbeOK' /\ CallOK'
    BY <1>i, <2>1, <2>m, <2>o, <2>u DEF ProbeTypes, ProbeInv, ProbeOK, CallOK
  <2>5. Unprompted' /\ Reopened' /\ Ending'
    BY <1>i, <2>1, <2>o, <2>u DEF ProbeInv, Unprompted, Reopened, Before, Ending
  <2> QED
    BY <2>2, <2>3, <2>4, <2>5 DEF LInv, ProbeInv
<1> QED
  BY <1>1, <1>2, <1>3 DEF LiveNext

\* LInv holds in every state of either client.
LEMMA LiveInvariance == LiveSpec => []LInv
<1>1. LiveInit => LInv
  BY LiveInitially, EvalAssumption
<1>2. LInv /\ [LiveNext]_liveVars => LInv'
  BY LiveInductive, EvalAssumption
<1> QED
  BY <1>1, <1>2, PTL DEF LiveSpec

-----------------------------------------------------------------------------
(* The theorems.                                                           *)

\* Every variable of the sessions and of their two clients keeps its type.
THEOREM LiveTyping == LiveSpec => []LiveTypeOK
<1>1. LInv => LiveTypeOK
  <2> SUFFICES ASSUME LInv PROVE LiveTypeOK
    OBVIOUS
  <2>1. DOMAIN Script = 1..17
    BY ScriptIs DEF LInv, ProbeTypes
  <2> QED
    BY <2>1 DEF LInv, AllSound, EvalTypes, ProbeTypes, LiveTypeOK
<1> QED
  BY <1>1, LiveInvariance, PTL

\* What prompt() returns is the last message of the turn it asked for, and that turn is over.
THEOREM AnswersAreOwn == LiveSpec => []OwnAnswer
<1>1. LInv => OwnAnswer
  <2> SUFFICES ASSUME LInv PROVE OwnAnswer
    OBVIOUS
  <2>1. phase = "answer" => PromptOK(s["case"]) /\ s["case"].turn <= turn
    BY DEF LInv, EvalInv, AttemptOK, Counted, Asked, Case
  <2>2. mode = "wait" /\ Do = "prompt" => PromptOK(s[On])
    BY DEF LInv, ProbeInv, CallOK
  <2> QED
    BY <2>1, <2>2 DEF OwnAnswer, PromptOK, Own
<1> QED
  BY <1>1, LiveInvariance, PTL

\* An attempt that passed did in each of its turns what that turn must and may do.
THEOREM TurnsAreJudged == LiveSpec => []TurnJudged
<1>1. LInv => TurnJudged
  BY DEF LInv, EvalInv
<1> QED
  BY <1>1, LiveInvariance, PTL

\* The gate fails the cases it must, and a capability is called SUPPORTED on what was seen.
THEOREM ReportsAreHonest == LiveSpec => []ReportsHonest
<1>1. LInv => ReportsHonest
  <2> SUFFICES ASSUME LInv PROVE ReportsHonest
    OBVIOUS
  <2>1. GateHonest
    BY DEF LInv, EvalInv
  <2>2. SupportedIsSeen
    <3> SUFFICES ASSUME mode = "done"
                 PROVE  /\ \A c \in Capabilities : results[c] # "UNTESTED"
                        /\ results["resume"] = "SUPPORTED" => s["named"].child = "ended"
                        /\ results["timeout"] = "SUPPORTED" =>
                              /\ s["timeout"].error # "none" /\ s["timeout"].abort = "acked"
                              /\ s["timeout"].child \in {"ended", "died"} /\ prober = "gone"
      BY DEF SupportedIsSeen
    <3>1. \A c \in Capabilities : results[c] # "UNTESTED"
      BY DEF LInv, ProbeInv, Ending
    <3>2. results["resume"] = "SUPPORTED" => step > 8
      BY DEF LInv, ProbeInv, Ending, ProbeTypes
    <3>3. step > 8 => s["named"].child = "ended"
      BY DEF LInv, ProbeInv, Reopened
    <3>4. results["timeout"] = "SUPPORTED" => evidence
      BY DEF LInv, ProbeInv, Ending
    <3>5. evidence => /\ s["timeout"].error # "none" /\ s["timeout"].abort = "acked"
                      /\ s["timeout"].child \in {"ended", "died"} /\ prober = "gone"
      BY DEF LInv, ProbeInv, Ending
    <3> QED
      BY <3>1, <3>2, <3>3, <3>4, <3>5
  <2> QED
    BY <2>1, <2>2 DEF ReportsHonest
<1> QED
  BY <1>1, LiveInvariance, PTL

\* No PI process is let go of before it is over or was told to stop.
THEOREM ProcessesAreKept == LiveSpec => []ProcessesKept
<1>1. LInv => ProcessesKept
  <2> SUFFICES ASSUME LInv PROVE ProcessesKept
    OBVIOUS
  <2>i. ProbeOK /\ Reopened /\ Ending /\ AttemptOK /\ OneClient /\ PassedIsOver /\ step \in 1..17
    BY DEF LInv, ProbeInv, EvalInv, ProbeTypes
  <2>p. /\ Probed = {"tool", "reviewer", "named", "resumed", "timeout"}
        /\ \A i \in Sessions : i = "case" \/ i \in Probed
    BY DEF Probed, Sessions
  <2>n. NoSession.child = "none"
    BY NoSessionIs
  <2>1. OneWriter
    <3>1. CASE mode = "off"
      BY <2>i, <2>n, <2>p, <3>1 DEF OneWriter, ProbeOK
    <3>2. CASE mode # "off" /\ step > 8
      BY <2>i, <3>2 DEF OneWriter, Reopened
    <3>3. CASE step <= 8
      BY <2>i, <3>3 DEF OneWriter, Reopened
    <3> QED
      BY <2>i, <3>1, <3>2, <3>3
  <2>2. NoneForgotten
    <3>1. CASE phase \in {"next", "done"}
      <4>1. mode = "off" /\ Stopped(s["case"])
        BY <2>i, <3>1 DEF OneClient, AttemptOK, Case
      <4>2. \A i \in Probed : s[i].child = "none"
        BY <2>i, <2>n, <4>1 DEF ProbeOK
      <4> QED
        BY <2>p, <4>1, <4>2 DEF NoneForgotten, Stopped
    <3>2. CASE mode \in {"done", "threw"}
      <4>1. phase = "off" /\ s["case"].child = "none"
        BY <2>i, <2>n, <3>2 DEF OneClient, AttemptOK, Case
      <4>2. \A i \in Probed : Stopped(s[i])
        BY <2>i, <3>2 DEF ProbeOK, Ending
      <4> QED
        BY <2>p, <4>1, <4>2 DEF NoneForgotten, Stopped
    <3> QED
      BY <3>1, <3>2 DEF NoneForgotten
  <2> QED
    BY <2>1, <2>2, <2>i DEF ProcessesKept
<1> QED
  BY <1>1, LiveInvariance, PTL
=============================================================================
