------------------------- MODULE ReleaseHandoffProofs -------------------------
(***************************************************************************)
(* Theorems about ReleaseHandoff, for any number of overlapping commands,  *)
(* channels, approvals and directories, and whatever crashes, is edited or *)
(* is moved by other commands meanwhile.                                   *)
(***************************************************************************)
EXTENDS ReleaseHandoff, TLAPS

-----------------------------------------------------------------------------
(* The inductive invariant. *)

Approved(c) == <<"approved", c>> \in facts
SomeReady   == \E c \in Channel : <<"ready", c>> \in facts
InPlace(r)  == output[r.dir] = r.channel

\* What a running apply may rely on: what it took from its snapshots still
\* holds of the case, since facts, spent approvals and, unless people touch
\* it, the output are never taken back.
ReliesOn(r, where) ==
    /\ r.gate => Approved(r.channel)
    /\ r.existing => Approved(r.channel) /\ (edits = 0 => InPlace(r))
    /\ r.verdict = "READY" => SomeReady
    /\ where \in {"existing", "verify"} /\ ~r.pending =>
          approvals[<<r.channel, r.approval>>] = "consumed"
    /\ where \in {"materialize", "ready", "consume"} => Approved(r.channel)
    /\ where \in {"ready", "consume"} /\ edits = 0 => InPlace(r)
    /\ where = "consume" => SomeReady

Relies(p) == pc[p] # "idle" => ReliesOn(run[p], pc[p])

\* What holds of the case between commands.
Record ==
    /\ OutputApproved
    /\ ReadyHasOutput
    /\ SpentLast
    /\ StartIsPaid
    /\ checkpoint \in {"READY", "IN_PROGRESS"} => SomeReady
    /\ \A s \in asked : approvals[s] = "absent"

IInv == TypeOK /\ Record /\ (\A p \in Proc : Relies(p))

-----------------------------------------------------------------------------
(* Type correctness. *)

\* The processes' part of TypeOK.
ProcsOK ==
    /\ pc \in [Proc -> Where]
    /\ run \in [Proc -> Run \cup {NoRun}]
    /\ \A p \in Proc : run[p] = NoRun <=> pc[p] = "idle"
    /\ printed \subseteq Channel

LEMMA RunType ==
    ASSUME TypeOK, NEW p \in Proc, pc[p] # "idle"
    PROVE  /\ run[p] \in Run
           /\ StampOf(p) \in Stamp
<1>1. run[p] \in Run
  BY DEF TypeOK
<1> QED
  BY <1>1 DEF Run, StampOf, Stamp

LEMMA FreshType ==
    ASSUME NEW c \in Channel, NEW a \in Approval, NEW d \in Dir
    PROVE  Fresh(c, a, d) \in Run
BY DEF Fresh, Run, Verdict

LEMMA SnapshotType ==
    ASSUME TypeOK, NEW p \in Proc, pc[p] # "idle"
    PROVE  Snapshot(p) \in Run
<1>1. run[p] \in Run /\ checkpoint \in Verdict
  BY RunType DEF TypeOK
<1> DEFINE pending == approvals[StampOf(p)] = "pending"
           gate    == <<"approved", run[p].channel>> \in facts
<1>2. pending \in BOOLEAN /\ gate \in BOOLEAN
  OBVIOUS
<1>3. Snapshot(p) = [run[p] EXCEPT !.verdict = checkpoint, !.pending = pending, !.gate = gate]
  BY DEF Snapshot
<1> HIDE DEF pending, gate
<1> QED
  BY <1>1, <1>2, <1>3 DEF Run

LEMMA ContinueType ==
    ASSUME TypeOK, NEW p \in Proc, NEW w \in Where \ {"idle"}, NEW r \in Run,
           Continue(p, w, r)
    PROVE  ProcsOK'
BY HandoffAssumption DEF TypeOK, ProcsOK, Continue, Goto

LEMMA StopType ==
    ASSUME TypeOK, NEW p \in Proc, pc[p] # "idle", Throw(p) \/ Complete(p)
    PROVE  ProcsOK'
<1>1. run[p].channel \in Channel
  BY RunType DEF Run
<1> QED
  BY <1>1 DEF TypeOK, ProcsOK, Throw, Complete, Stop, Goto, Where

LEMMA ProceedType ==
    ASSUME TypeOK, NEW p \in Proc, pc[p] # "idle", NEW r \in Run, Proceed(p, r)
    PROVE  ProcsOK'
<1>1. CASE Continue(p, IF r.existing THEN "ready" ELSE "materialize", r)
  <2>1. (IF r.existing THEN "ready" ELSE "materialize") \in Where \ {"idle"}
    BY DEF Where
  <2> QED
    BY <1>1, <2>1, ContinueType
<1>2. CASE Throw(p)
  BY <1>2, StopType
<1> QED
  BY <1>1, <1>2 DEF Proceed

LEMMA FaultsType ==
    ASSUME TypeOK, Works \/ Fault
    PROVE  faults' \in 0..MaxFaults
BY HandoffAssumption DEF TypeOK, Works, Fault

\* The case's part of TypeOK.
CaseOK ==
    /\ checkpoint \in Verdict
    /\ facts \subseteq Fact
    /\ approvals \in [Stamp -> {"absent", "pending", "consumed"}]
    /\ output \in [Dir -> Channel \cup {"absent", "foreign"}]

LEMMA CaseKept ==
    ASSUME TypeOK, UNCHANGED <<case, output>>
    PROVE  CaseOK'
BY DEF TypeOK, CaseOK, case

LEMMA TransitionType ==
    ASSUME TypeOK, NEW p \in Proc, pc[p] # "idle", NEW from, NEW v \in Verdict,
           NEW f \in {"approved", "ready"}, NEW w \in Where \ {"idle"},
           Transition(p, from, v, f, w)
    PROVE  ProcsOK' /\ CaseOK' /\ faults' \in 0..MaxFaults
<1>1. run[p] \in Run /\ <<f, run[p].channel>> \in Fact
  BY RunType DEF Run, Fact
<1>2. CaseOK'
  BY <1>1 DEF Transition, TypeOK, CaseOK
<1>3. Continue(p, w, run[p]) \/ Throw(p)
  BY DEF Transition
<1>4. ProcsOK'
  BY <1>1, <1>3, ContinueType, StopType
<1>5. Works \/ Fault
  BY DEF Transition
<1> QED
  BY <1>2, <1>4, <1>5, FaultsType

\* A step of an apply leaves what is outside it well typed.
LEMMA ApplyType ==
    ASSUME TypeOK, ProcsOK', CaseOK', faults' \in 0..MaxFaults, UNCHANGED outside
    PROVE  TypeOK'
BY DEF TypeOK, ProcsOK, CaseOK, outside

LEMMA StepType ==
    ASSUME TypeOK, NEW p \in Proc, Step(p)
    PROVE  TypeOK'
<1> USE DEF At
<1>1. CASE Get(p)
  <2>1. pc[p] # "idle" /\ "existing" \in Where \ {"idle"}
    BY <1>1 DEF Get, Where
  <2>2. ProcsOK'
    BY <1>1, <2>1, SnapshotType, ContinueType, StopType DEF Get
  <2> QED
    BY <1>1, <2>2, CaseKept, FaultsType, ApplyType DEF Get
<1>2. CASE Existing(p)
  <2>1. pc[p] # "idle" /\ "verify" \in Where \ {"idle"}
    BY <1>2 DEF Existing, Where
  <2>2. [run[p] EXCEPT !.existing = (output[run[p].dir] = run[p].channel)] \in Run
    BY <2>1, RunType DEF Run
  <2>3. ProcsOK'
    BY <1>2, <2>1, <2>2, ContinueType, StopType DEF Existing
  <2> QED
    BY <1>2, <2>3, CaseKept, FaultsType, ApplyType DEF Existing
<1>3. CASE Verify(p)
  <2>1. pc[p] # "idle" /\ {"consume", "approve"} \subseteq Where \ {"idle"}
    BY <1>3 DEF Verify, Where
  <2>2. run[p] \in Run /\ [run[p] EXCEPT !.short = TRUE] \in Run
    BY <2>1, RunType DEF Run
  <2>3. ProcsOK'
    <3>1. \/ Throw(p) \/ Complete(p)
          \/ Continue(p, "consume", [run[p] EXCEPT !.short = TRUE])
          \/ Continue(p, "approve", run[p])
          \/ Proceed(p, run[p])
      BY <1>3 DEF Verify
    <3> QED
      BY <2>1, <2>2, <3>1, ContinueType, StopType, ProceedType
  <2>4. Works \/ Fault
    BY <1>3 DEF Verify
  <2> QED
    BY <1>3, <2>3, <2>4, CaseKept, FaultsType, ApplyType DEF Verify
<1>4. CASE Approve(p)
  <2>1. pc[p] # "idle" /\ "reread" \in Where \ {"idle"} /\ "APPROVED" \in Verdict
    BY <1>4 DEF Approve, Where, Verdict
  <2> QED
    BY <1>4, <2>1, TransitionType, ApplyType DEF Approve
<1>5. CASE Reread(p)
  <2>1. pc[p] # "idle"
    BY <1>5 DEF Reread
  <2>2. ProcsOK'
    BY <1>5, <2>1, SnapshotType, ProceedType, StopType DEF Reread
  <2>3. Works \/ Fault
    BY <1>5 DEF Reread
  <2> QED
    BY <1>5, <2>2, <2>3, CaseKept, FaultsType, ApplyType DEF Reread
<1>6. CASE Materialize(p)
  <2>1. pc[p] # "idle" /\ "ready" \in Where \ {"idle"}
    BY <1>6 DEF Materialize, Where
  <2>2. run[p] \in Run
    BY <2>1, RunType
  <2>3. ProcsOK'
    BY <1>6, <2>1, <2>2, ContinueType, StopType DEF Materialize
  <2>4. CaseOK'
    BY <1>6, <2>2 DEF Materialize, TypeOK, CaseOK, case, Run
  <2>5. Works \/ Fault
    BY <1>6 DEF Materialize
  <2> QED
    BY <1>6, <2>3, <2>4, <2>5, FaultsType, ApplyType DEF Materialize
<1>7. CASE Ready(p)
  <2>1. pc[p] # "idle" /\ "consume" \in Where \ {"idle"} /\ "READY" \in Verdict
    BY <1>7 DEF Ready, Where, Verdict
  <2> QED
    BY <1>7, <2>1, TransitionType, ApplyType DEF Ready
<1>8. CASE Consume(p)
  <2>1. pc[p] # "idle" /\ "final" \in Where \ {"idle"}
    BY <1>8 DEF Consume, Where
  <2>2. run[p] \in Run /\ StampOf(p) \in Stamp
    BY <2>1, RunType
  <2>3. ProcsOK'
    BY <1>8, <2>1, <2>2, ContinueType, StopType DEF Consume
  <2>4. CaseOK'
    BY <1>8, <2>2 DEF Consume, TypeOK, CaseOK
  <2>5. Works \/ Fault
    BY <1>8 DEF Consume
  <2> QED
    BY <1>8, <2>3, <2>4, <2>5, FaultsType, ApplyType DEF Consume
<1>9. CASE Final(p)
  <2>1. pc[p] # "idle"
    BY <1>9 DEF Final
  <2>2. ProcsOK'
    BY <1>9, <2>1, StopType DEF Final
  <2> QED
    BY <1>9, <2>2, CaseKept, FaultsType, ApplyType DEF Final
<1> QED
  BY <1>1, <1>2, <1>3, <1>4, <1>5, <1>6, <1>7, <1>8, <1>9 DEF Step

LEMMA NextType ==
    ASSUME TypeOK, [Next]_vars
    PROVE  TypeOK'
<1>1. ASSUME NEW p \in Proc, Start(p) PROVE TypeOK'
  <2>1. "get" \in Where \ {"idle"}
    BY DEF Where
  <2>2. ProcsOK'
    BY <1>1, <2>1, FreshType, ContinueType DEF Start, StartWith
  <2> QED
    BY <1>1, <2>2, CaseKept, FaultsType, ApplyType DEF Start, StartWith, At, Works
<1>2. ASSUME NEW p \in Proc, Step(p) PROVE TypeOK'
  BY <1>2, StepType
<1>3. ASSUME NEW p \in Proc, Crash(p) PROVE TypeOK'
  BY <1>3, StopType, CaseKept, FaultsType, ApplyType DEF Crash, At
<1>4. ASSUME NEW c \in Channel, NEW a \in Approval, Ask(c, a) \/ Add(c, a) \/ Expire(c, a)
      PROVE  TypeOK'
  <2>1. <<c, a>> \in Stamp
    BY DEF Stamp
  <2> QED
    BY <1>4, <2>1 DEF TypeOK, Ask, Add, Expire, case, procs
<1>5. CASE OtherCommand
  <2>1. checkpoint' \in Verdict
    BY <1>5, HandoffAssumption DEF OtherCommand, Move, Verdict
  <2> QED
    BY <1>5, <2>1 DEF TypeOK, OtherCommand, outside, procs
<1>6. CASE Edit
  <2>1. edits' \in 0..MaxEdits
    BY <1>6, HandoffAssumption DEF TypeOK, Edit
  <2>2. drift' \in BOOLEAN /\ output' \in [Dir -> Channel \cup {"absent", "foreign"}]
    <3>1. CASE UNCHANGED drift
      BY <1>6, <3>1 DEF TypeOK, Edit
    <3>2. CASE drift' = ~drift /\ UNCHANGED output
      BY <3>2 DEF TypeOK
    <3> QED
      BY <1>6, <3>1, <3>2 DEF Edit
  <2> QED
    BY <1>6, <2>1, <2>2 DEF TypeOK, Edit, case, procs
<1>7. CASE UNCHANGED vars
  BY <1>7 DEF TypeOK, vars, case, outside, procs
<1> QED
  BY <1>1, <1>2, <1>3, <1>4, <1>5, <1>6, <1>7 DEF Next

LEMMA InitType == Init => TypeOK
<1> SUFFICES ASSUME Init PROVE TypeOK
  OBVIOUS
<1>1. faults \in 0..MaxFaults /\ edits \in 0..MaxEdits
  BY HandoffAssumption DEF Init
<1>2. checkpoint \in Verdict /\ pc \in [Proc -> Where] /\ run \in [Proc -> Run \cup {NoRun}]
  BY DEF Init, Verdict, Where
<1>3. /\ facts \subseteq Fact /\ asked \subseteq Stamp /\ expired \subseteq Stamp
      /\ approvals \in [Stamp -> {"absent", "pending", "consumed"}]
      /\ output \in [Dir -> Channel \cup {"absent", "foreign"}]
      /\ drift \in BOOLEAN /\ printed \subseteq Channel
  BY DEF Init
<1>4. \A p \in Proc : run[p] = NoRun <=> pc[p] = "idle"
  BY DEF Init
<1> QED
  BY <1>1, <1>2, <1>3, <1>4 DEF TypeOK

\* Every variable keeps its type, whatever commands overlap.
THEOREM HandoffTyped == Spec => []TypeOK
BY InitType, NextType, PTL DEF Spec

-----------------------------------------------------------------------------
(* What is never taken back. *)

Grows ==
    /\ facts \subseteq facts'
    /\ \A s \in Stamp : approvals[s] = "consumed" => approvals'[s] = "consumed"
    /\ edits' = 0 =>
          edits = 0 /\ \A d \in Dir : output[d] \in Channel => output'[d] = output[d]

LEMMA StepGrows ==
    ASSUME TypeOK, NEW p \in Proc, Step(p)
    PROVE  Grows
<1>1. UNCHANGED edits
  BY DEF Step, Get, Existing, Verify, Approve, Reread, Materialize, Ready, Consume, Final,
         At, outside
<1>2. CASE Get(p) \/ Existing(p) \/ Verify(p) \/ Reread(p) \/ Final(p)
  BY <1>1, <1>2 DEF Get, Existing, Verify, Reread, Final, case, Grows
<1>3. CASE Approve(p) \/ Ready(p)
  BY <1>1, <1>3 DEF Approve, Ready, Transition, Grows
<1>4. CASE Materialize(p)
  <2>1. pc[p] # "idle"
    BY <1>4 DEF Materialize, At
  <2>2. run[p].dir \in Dir
    BY <2>1, RunType DEF Run
  <2>3. \A d \in Dir : output[d] \in Channel => output'[d] = output[d]
    BY <1>4, <2>2, HandoffAssumption DEF Materialize, TypeOK
  <2> QED
    BY <1>1, <1>4, <2>3 DEF Materialize, case, Grows
<1>5. CASE Consume(p)
  <2>1. pc[p] # "idle"
    BY <1>5 DEF Consume, At
  <2>2. StampOf(p) \in Stamp
    BY <2>1, RunType
  <2> QED
    BY <1>1, <1>5, <2>2 DEF Consume, TypeOK, Grows
<1> QED
  BY <1>2, <1>3, <1>4, <1>5 DEF Step

LEMMA NextGrows ==
    ASSUME TypeOK, Record, [Next]_vars
    PROVE  Grows
<1>1. ASSUME NEW p \in Proc, Start(p) \/ Crash(p) PROVE Grows
  BY <1>1 DEF Start, StartWith, Crash, At, case, outside, Grows
<1>2. ASSUME NEW p \in Proc, Step(p) PROVE Grows
  BY <1>2, StepGrows
<1>3. ASSUME NEW c \in Channel, NEW a \in Approval, Add(c, a) PROVE Grows
  <2>1. approvals[<<c, a>>] = "absent" /\ <<c, a>> \in Stamp
    BY <1>3 DEF Add, Record, Stamp
  <2> QED
    BY <1>3, <2>1 DEF Add, TypeOK, Grows
<1>4. ASSUME NEW c \in Channel, NEW a \in Approval, Ask(c, a) \/ Expire(c, a) PROVE Grows
  BY <1>4 DEF Ask, Expire, case, Grows
<1>5. CASE OtherCommand
  BY <1>5 DEF OtherCommand, outside, Grows
<1>6. CASE Edit
  <2>1. edits' # 0
    BY <1>6, HandoffAssumption DEF Edit, TypeOK
  <2> QED
    BY <1>6, <2>1 DEF Edit, case, Grows
<1>7. CASE UNCHANGED vars
  BY <1>7 DEF vars, case, outside, Grows
<1> QED
  BY <1>1, <1>2, <1>3, <1>4, <1>5, <1>6, <1>7 DEF Next

\* A process that does not move relies on what it relied on.
LEMMA ReliesKept ==
    ASSUME TypeOK, Grows, NEW q \in Proc, Relies(q), pc'[q] = pc[q], run'[q] = run[q]
    PROVE  Relies(q)'
<1> SUFFICES ASSUME pc[q] # "idle"
             PROVE  Relies(q)'
  BY DEF Relies
<1>1. run[q] \in Run /\ StampOf(q) \in Stamp /\ StampOf(q)' = StampOf(q)
  BY RunType DEF StampOf
<1>2. run[q].channel \in Channel /\ run[q].dir \in Dir
  BY <1>1 DEF Run
<1>3. Approved(run[q].channel) => Approved(run[q].channel)'
  BY DEF Grows, Approved
<1>4. SomeReady => SomeReady'
  BY DEF Grows, SomeReady
<1>5. edits' = 0 => edits = 0 /\ (InPlace(run[q]) => InPlace(run[q])')
  BY <1>2 DEF Grows, InPlace
<1>6. approvals[StampOf(q)] = "consumed" => approvals'[StampOf(q)'] = "consumed"
  BY <1>1 DEF Grows
<1> QED
  BY <1>3, <1>4, <1>5, <1>6 DEF Relies, ReliesOn, Approved, InPlace, SomeReady, StampOf

\* So does the record, in steps that write none of it.
LEMMA RecordKept ==
    ASSUME TypeOK, Record, Grows, UNCHANGED <<checkpoint, facts, approvals, asked, output, printed>>
    PROVE  Record'
BY DEF Record, Grows, OutputApproved, ReadyHasOutput, SpentLast, StartIsPaid, SomeReady

-----------------------------------------------------------------------------
(* Each step of an apply keeps the invariant. *)

LEMMA StopRelies ==
    ASSUME TypeOK, NEW p \in Proc, Throw(p) \/ Complete(p)
    PROVE  Relies(p)'
BY DEF TypeOK, Throw, Complete, Stop, Goto, Relies

LEMMA ContinueRelies ==
    ASSUME TypeOK, NEW p \in Proc, NEW w, NEW r, Continue(p, w, r), ReliesOn(r, w)'
    PROVE  Relies(p)'
<1>1. pc'[p] = w /\ run'[p] = r
  BY DEF TypeOK, Continue, Goto
<1> QED
  BY <1>1 DEF Relies, ReliesOn, Approved, InPlace, SomeReady

\* Reading the case afresh.
LEMMA SnapshotRelies ==
    ASSUME TypeOK, Record, NEW p \in Proc, pc[p] # "idle", NEW w,
           w \in {"existing", "verify"} /\ ~Snapshot(p).pending => approvals[StampOf(p)] = "consumed",
           run[p].existing => Approved(run[p].channel) /\ (edits = 0 => InPlace(run[p])),
           w \notin {"materialize", "ready", "consume"}
    PROVE  ReliesOn(Snapshot(p), w)
<1>1. run[p] \in Run
  BY RunType
<1>2. /\ Snapshot(p).channel = run[p].channel
      /\ Snapshot(p).approval = run[p].approval
      /\ Snapshot(p).dir = run[p].dir
      /\ Snapshot(p).existing = run[p].existing
      /\ Snapshot(p).verdict = checkpoint
      /\ Snapshot(p).gate = (<<"approved", run[p].channel>> \in facts)
  BY <1>1 DEF Snapshot, Run
<1> QED
  BY <1>2 DEF ReliesOn, Record, Approved, InPlace, StampOf

LEMMA ReliesOnKept ==
    ASSUME NEW r, NEW w, ReliesOn(r, w), UNCHANGED <<facts, approvals, output, edits>>
    PROVE  ReliesOn(r, w)'
BY DEF ReliesOn, Approved, InPlace, SomeReady

\* What a snapshot said stays true however the case grows.
LEMMA ReliesOnGrows ==
    ASSUME TypeOK, Grows, NEW r \in Run, NEW w, ReliesOn(r, w)
    PROVE  ReliesOn(r, w)'
<1>1. <<r.channel, r.approval>> \in Stamp /\ r.channel \in Channel /\ r.dir \in Dir
  BY DEF Run, Stamp
<1>2. Approved(r.channel) => Approved(r.channel)'
  BY DEF Grows, Approved
<1>3. SomeReady => SomeReady'
  BY DEF Grows, SomeReady
<1>4. edits' = 0 => edits = 0 /\ (InPlace(r) => InPlace(r)')
  BY <1>1 DEF Grows, InPlace
<1>5. approvals[<<r.channel, r.approval>>] = "consumed"
        => approvals'[<<r.channel, r.approval>>] = "consumed"
  BY <1>1 DEF Grows
<1> QED
  BY <1>2, <1>3, <1>4, <1>5 DEF ReliesOn, Approved, InPlace, SomeReady

LEMMA ProceedRelies ==
    ASSUME TypeOK, NEW p \in Proc, NEW r, Proceed(p, r), ReliesOn(r, "get")'
    PROVE  Relies(p)'
<1>1. CASE Throw(p)
  BY <1>1, StopRelies
<1>2. CASE r.gate /\ Continue(p, IF r.existing THEN "ready" ELSE "materialize", r)
  <2> DEFINE w == IF r.existing THEN "ready" ELSE "materialize"
  <2>1. ReliesOn(r, w)'
    BY <1>2 DEF ReliesOn
  <2> HIDE DEF w
  <2>2. Continue(p, w, r)
    BY <1>2 DEF w
  <2> QED
    BY <2>1, <2>2, ContinueRelies
<1> QED
  BY <1>1, <1>2 DEF Proceed

LEMMA GetKeeps ==
    ASSUME IInv, NEW p \in Proc, Get(p)
    PROVE  Record' /\ Relies(p)'
<1>1. TypeOK /\ Record /\ Relies(p) /\ Grows /\ pc[p] = "get"
  BY StepGrows DEF IInv, Step, Get, At
<1>2. Record'
  BY <1>1, RecordKept DEF Get, At, case, outside, Continue, Throw
<1>3. CASE Throw(p)
  BY <1>1, <1>3, <1>2, StopRelies
<1>4. CASE Usable(run[p].channel, run[p].approval) /\ Continue(p, "existing", Snapshot(p))
  <2>1. run[p] \in Run /\ StampOf(p) = <<run[p].channel, run[p].approval>>
    BY <1>1, RunType DEF StampOf
  <2>2. ~Snapshot(p).pending => approvals[StampOf(p)] = "consumed"
    BY <1>4, <2>1 DEF Snapshot, Usable, Run
  <2>3. PICK r : r = Snapshot(p)
    OBVIOUS
  <2>4. ReliesOn(r, "existing")
    BY <1>1, <2>2, <2>3, SnapshotRelies DEF Relies, ReliesOn
  <2>5. ReliesOn(r, "existing")'
    BY <2>4, ReliesOnKept DEF Get, At, case, outside
  <2> QED
    BY <1>1, <1>2, <1>4, <2>3, <2>5, ContinueRelies
<1> QED
  BY <1>2, <1>3, <1>4 DEF Get

LEMMA ExistingKeeps ==
    ASSUME IInv, NEW p \in Proc, Existing(p)
    PROVE  Record' /\ Relies(p)'
<1>1. TypeOK /\ Record /\ Relies(p) /\ Grows /\ pc[p] = "existing"
  BY StepGrows DEF IInv, Step, Existing, At
<1>2. Record'
  BY <1>1, RecordKept DEF Existing, At, case, outside, Continue, Throw
<1>3. CASE Throw(p)
  BY <1>1, <1>3, <1>2, StopRelies
<1>4. CASE ~Throw(p)
  <2>1. PICK r : r = [run[p] EXCEPT !.existing = (output[run[p].dir] = run[p].channel)]
    OBVIOUS
  <2>2. run[p] \in Run
    BY <1>1, RunType
  <2>3. ReliesOn(run[p], "existing")
    BY <1>1 DEF Relies
  <2>4. r.existing => Approved(run[p].channel) /\ InPlace(run[p])
    BY <1>1, <2>1, <2>2 DEF Record, OutputApproved, Approved, InPlace, Run
  <2>5. /\ r.channel = run[p].channel /\ r.approval = run[p].approval /\ r.dir = run[p].dir
        /\ r.gate = run[p].gate /\ r.verdict = run[p].verdict /\ r.pending = run[p].pending
    BY <2>1, <2>2 DEF Run
  <2>6. ReliesOn(r, "verify")
    BY <2>3, <2>4, <2>5 DEF ReliesOn, Approved, InPlace
  <2>7. ReliesOn(r, "verify")'
    BY <2>6, ReliesOnKept DEF Existing, At, case, outside
  <2>8. Continue(p, "verify", r)
    BY <1>4, <2>1 DEF Existing
  <2> QED
    BY <1>1, <1>2, <2>7, <2>8, ContinueRelies
<1> QED
  BY <1>3, <1>4

LEMMA VerifyKeeps ==
    ASSUME IInv, NEW p \in Proc, Verify(p)
    PROVE  Record' /\ Relies(p)'
<1>1. TypeOK /\ Record /\ Relies(p) /\ Grows /\ pc[p] = "verify"
  BY StepGrows DEF IInv, Step, Verify, At
<1>2. UNCHANGED <<checkpoint, facts, approvals, asked, edits, output>>
  BY DEF Verify, At, case, outside
<1>3. run[p] \in Run /\ ReliesOn(run[p], "verify")
  BY <1>1, RunType DEF Relies
<1>4. CASE Throw(p)
  BY <1>1, <1>2, <1>4, RecordKept, StopRelies DEF Throw
<1>5. CASE ~run[p].pending /\ Complete(p)
  <2>1. approvals[<<run[p].channel, run[p].approval>>] = "consumed"
    BY <1>3, <1>5 DEF ReliesOn
  <2>2. run[p].approval \in Approval
    BY <1>3 DEF Run
  <2>3. StartIsPaid'
    BY <1>1, <1>2, <1>5, <2>1, <2>2 DEF Record, StartIsPaid, Complete
  <2>4. Record'
    BY <1>1, <1>2, <2>3 DEF Record, OutputApproved, ReadyHasOutput, SpentLast, SomeReady
  <2> QED
    BY <1>1, <1>5, <2>4, StopRelies
<1> DEFINE onward == \/ /\ run[p].existing /\ run[p].verdict = "READY"
                        /\ Continue(p, "consume", [run[p] EXCEPT !.short = TRUE])
                     \/ Continue(p, "approve", run[p])
                     \/ Proceed(p, run[p])
<1>6. CASE onward
  <2>2. Record'
    BY <1>1, <1>2, <1>6, RecordKept DEF Continue, Proceed, Throw
  <2>3. PICK r : r = run[p]
    OBVIOUS
  <2>4. ReliesOn(r, "get") /\ ReliesOn(r, "approve")
    BY <1>3, <2>3 DEF ReliesOn
  <2>5. ReliesOn(r, "get")' /\ ReliesOn(r, "approve")'
    BY <1>2, <2>4, ReliesOnKept
  <2>6. CASE /\ run[p].existing /\ run[p].verdict = "READY"
             /\ Continue(p, "consume", [run[p] EXCEPT !.short = TRUE])
    <3>1. PICK s : s = [run[p] EXCEPT !.short = TRUE]
      OBVIOUS
    <3>2. /\ s.channel = r.channel /\ s.approval = r.approval /\ s.dir = r.dir
          /\ s.gate = r.gate /\ s.verdict = r.verdict /\ s.existing = r.existing
      BY <1>3, <2>3, <3>1 DEF Run
    <3>3. ReliesOn(s, "consume")
      BY <1>3, <2>3, <2>6, <3>2 DEF ReliesOn, Approved, InPlace
    <3>4. ReliesOn(s, "consume")'
      BY <1>2, <3>3, ReliesOnKept
    <3> QED
      BY <1>1, <2>2, <2>6, <3>1, <3>4, ContinueRelies
  <2>7. CASE Continue(p, "approve", run[p])
    BY <1>1, <2>2, <2>3, <2>5, <2>7, ContinueRelies
  <2>8. CASE Proceed(p, run[p])
    BY <1>1, <2>2, <2>3, <2>5, <2>8, ProceedRelies
  <2> QED
    BY <1>6, <2>6, <2>7, <2>8
<1>7. Throw(p) \/ (~run[p].pending /\ Complete(p)) \/ onward
  BY DEF Verify
<1> QED
  BY <1>4, <1>5, <1>6, <1>7

LEMMA ApproveKeeps ==
    ASSUME IInv, NEW p \in Proc, Approve(p)
    PROVE  Record' /\ Relies(p)'
<1>1. TypeOK /\ Record /\ Relies(p) /\ Grows /\ pc[p] = "approve"
  BY StepGrows DEF IInv, Step, Approve, At
<1>2. UNCHANGED <<approvals, asked, edits, output, printed>>
  BY DEF Approve, Transition, At, outside, Continue, Throw
<1>3. \/ UNCHANGED <<checkpoint, facts>>
      \/ checkpoint' = "APPROVED" /\ facts' = facts \cup {<<"approved", run[p].channel>>}
  BY DEF Approve, Transition
<1>4. SomeReady' <=> SomeReady
  BY <1>3 DEF SomeReady
<1>5. checkpoint' \in {"READY", "IN_PROGRESS"} => SomeReady'
  BY <1>1, <1>3, <1>4 DEF Record
<1>6. OutputApproved' /\ ReadyHasOutput' /\ SpentLast' /\ StartIsPaid'
  BY <1>1, <1>2, <1>4 DEF Record, Grows, OutputApproved, ReadyHasOutput, SpentLast, StartIsPaid, SomeReady
<1>7. Record'
  BY <1>1, <1>2, <1>5, <1>6 DEF Record
<1>8. CASE Throw(p)
  BY <1>1, <1>7, <1>8, StopRelies
<1>9. CASE Continue(p, "reread", run[p])
  <2>1. PICK r : r = run[p]
    OBVIOUS
  <2>2. r \in Run /\ ReliesOn(r, "reread")
    BY <1>1, <2>1, RunType DEF Relies, ReliesOn
  <2>3. ReliesOn(r, "reread")'
    BY <1>1, <2>2, ReliesOnGrows
  <2> QED
    BY <1>1, <1>7, <1>9, <2>1, <2>3, ContinueRelies
<1> QED
  BY <1>8, <1>9 DEF Approve, Transition

LEMMA RereadKeeps ==
    ASSUME IInv, NEW p \in Proc, Reread(p)
    PROVE  Record' /\ Relies(p)'
<1>1. TypeOK /\ Record /\ Relies(p) /\ Grows /\ pc[p] = "reread"
  BY StepGrows DEF IInv, Step, Reread, At
<1>2. Record'
  BY <1>1, RecordKept DEF Reread, At, case, outside, Continue, Throw, Proceed
<1>3. CASE Throw(p)
  BY <1>1, <1>2, <1>3, StopRelies
<1>4. CASE Proceed(p, Snapshot(p))
  <2>1. PICK r : r = Snapshot(p)
    OBVIOUS
  <2>2. ReliesOn(r, "get")
    BY <1>1, <2>1, SnapshotRelies DEF Relies, ReliesOn
  <2>3. ReliesOn(r, "get")'
    BY <2>2, ReliesOnKept DEF Reread, At, case, outside
  <2> QED
    BY <1>1, <1>2, <1>4, <2>1, <2>3, ProceedRelies
<1> QED
  BY <1>3, <1>4 DEF Reread

LEMMA MaterializeKeeps ==
    ASSUME IInv, NEW p \in Proc, Materialize(p)
    PROVE  Record' /\ Relies(p)'
<1>1. TypeOK /\ Record /\ Relies(p) /\ Grows /\ pc[p] = "materialize"
  BY StepGrows DEF IInv, Step, Materialize, At
<1>2. UNCHANGED <<checkpoint, facts, approvals, asked, edits, printed>>
  BY DEF Materialize, At, case, outside, Continue, Throw
<1>3. run[p] \in Run /\ ReliesOn(run[p], "materialize")
  BY <1>1, RunType DEF Relies
<1>4. \/ UNCHANGED output
      \/ output' = [output EXCEPT ![run[p].dir] = run[p].channel]
  BY DEF Materialize
<1>5. OutputApproved'
  BY <1>1, <1>2, <1>3, <1>4 DEF Record, OutputApproved, ReliesOn, Approved, TypeOK, Run
<1>6. ReadyHasOutput' /\ SpentLast'
  <2>1. \A s \in Stamp : s[1] \in Channel
    BY DEF Stamp
  <2> QED
    BY <1>1, <1>2, <2>1 DEF Record, Grows, ReadyHasOutput, SpentLast
<1>7. Record'
  BY <1>1, <1>2, <1>5, <1>6 DEF Record, StartIsPaid, SomeReady
<1>8. CASE Throw(p)
  BY <1>1, <1>7, <1>8, StopRelies
<1>9. CASE /\ output' = [output EXCEPT ![run[p].dir] = run[p].channel]
           /\ Continue(p, "ready", run[p])
  <2>1. PICK r : r = run[p]
    OBVIOUS
  <2>2. r \in Run /\ ReliesOn(r, "materialize")
    BY <1>3, <2>1
  <2>3. ReliesOn(r, "materialize")'
    BY <1>1, <2>2, ReliesOnGrows
  <2>4. InPlace(r)'
    BY <1>1, <1>9, <2>1, <2>2 DEF InPlace, TypeOK, Run
  <2>5. ReliesOn(r, "ready")'
    BY <2>3, <2>4 DEF ReliesOn
  <2> QED
    BY <1>1, <1>7, <1>9, <2>1, <2>5, ContinueRelies
<1> QED
  BY <1>8, <1>9 DEF Materialize

LEMMA ReadyKeeps ==
    ASSUME IInv, NEW p \in Proc, Ready(p)
    PROVE  Record' /\ Relies(p)'
<1>1. TypeOK /\ Record /\ Relies(p) /\ Grows /\ pc[p] = "ready"
  BY StepGrows DEF IInv, Step, Ready, At
<1>2. UNCHANGED <<approvals, asked, edits, output, printed>>
  BY DEF Ready, Transition, At, outside, Continue, Throw
<1>3. run[p] \in Run /\ ReliesOn(run[p], "ready")
  BY <1>1, RunType DEF Relies
<1>4. CASE UNCHANGED <<checkpoint, facts>> /\ Throw(p)
  BY <1>1, <1>2, <1>4, RecordKept, StopRelies
<1>5. CASE /\ checkpoint' = "READY"
           /\ facts' = facts \cup {<<"ready", run[p].channel>>}
           /\ Throw(p) \/ Continue(p, "consume", run[p])
  <2>1. SomeReady'
    BY <1>3, <1>5 DEF SomeReady, Run
  <2>2. edits' = 0 => output'[run[p].dir] = run[p].channel
    BY <1>2, <1>3 DEF ReliesOn, InPlace
  <2>3. ReadyHasOutput'
    BY <1>3, <2>2 DEF ReadyHasOutput, Run
  <2>4. OutputApproved' /\ SpentLast' /\ StartIsPaid'
    BY <1>1, <1>2, <2>1 DEF Record, Grows, OutputApproved, SpentLast, StartIsPaid, SomeReady
  <2>5. Record'
    BY <1>1, <1>2, <2>1, <2>3, <2>4 DEF Record
  <2>6. CASE Throw(p)
    BY <1>1, <2>5, <2>6, StopRelies
  <2>7. CASE Continue(p, "consume", run[p])
    <3>1. PICK r : r = run[p]
      OBVIOUS
    <3>2. ReliesOn(r, "ready")'
      BY <1>1, <1>3, <3>1, ReliesOnGrows
    <3>3. ReliesOn(r, "consume")'
      BY <2>1, <3>2 DEF ReliesOn
    <3> QED
      BY <1>1, <2>5, <2>7, <3>1, <3>3, ContinueRelies
  <2> QED
    BY <1>5, <2>6, <2>7
<1> QED
  BY <1>4, <1>5 DEF Ready, Transition

LEMMA ConsumeKeeps ==
    ASSUME IInv, NEW p \in Proc, Consume(p)
    PROVE  Record' /\ Relies(p)'
<1>1. TypeOK /\ Record /\ Relies(p) /\ Grows /\ pc[p] = "consume"
  BY StepGrows DEF IInv, Step, Consume, At
<1>2. UNCHANGED <<checkpoint, facts, asked, edits, output, printed>>
  BY DEF Consume, At, outside, Continue, Throw
<1>3. run[p] \in Run /\ StampOf(p) \in Stamp /\ ReliesOn(run[p], "consume")
  BY <1>1, RunType DEF Relies
<1>4. CASE UNCHANGED approvals /\ Throw(p)
  BY <1>1, <1>2, <1>4, RecordKept, StopRelies
<1>5. CASE /\ approvals[StampOf(p)] = "pending"
           /\ approvals' = [approvals EXCEPT ![StampOf(p)] = "consumed"]
           /\ Throw(p) \/ Continue(p, "final", run[p])
  <2>1. SpentLast'
    <3>1. SUFFICES ASSUME NEW s \in Stamp, approvals'[s] = "consumed"
                   PROVE  /\ <<"approved", s[1]>> \in facts
                          /\ SomeReady
                          /\ edits = 0 => \E d \in Dir : output[d] = s[1]
      BY <1>2 DEF SpentLast, SomeReady
    <3>2. CASE s = StampOf(p)
      <4>1. s[1] = run[p].channel /\ run[p].dir \in Dir
        BY <1>3, <3>2 DEF StampOf, Run
      <4> QED
        BY <1>3, <4>1 DEF ReliesOn, Approved, InPlace
    <3>3. CASE s # StampOf(p)
      <4>1. approvals[s] = "consumed"
        BY <1>1, <1>3, <1>5, <3>1, <3>3 DEF TypeOK
      <4> QED
        BY <1>1, <4>1 DEF Record, SpentLast, SomeReady
    <3> QED
      BY <3>2, <3>3
  <2>2. \A s \in asked : approvals'[s] = "absent"
    BY <1>1, <1>3, <1>5 DEF Record, TypeOK
  <2>3. StartIsPaid'
    <3>1. \A c \in Channel, a \in Approval : <<c, a>> \in Stamp
      BY DEF Stamp
    <3>2. printed \subseteq Channel
      BY <1>1 DEF TypeOK
    <3> QED
      BY <1>1, <1>2, <3>1, <3>2 DEF Record, Grows, StartIsPaid
  <2>4. Record'
    BY <1>1, <1>2, <2>1, <2>2, <2>3 DEF Record, OutputApproved, ReadyHasOutput, SomeReady
  <2>5. CASE Throw(p)
    BY <1>1, <2>4, <2>5, StopRelies
  <2>6. CASE Continue(p, "final", run[p])
    <3>1. PICK r : r = run[p]
      OBVIOUS
    <3>2. ReliesOn(r, "consume")'
      BY <1>1, <1>3, <3>1, ReliesOnGrows
    <3>3. ReliesOn(r, "final")'
      BY <3>2 DEF ReliesOn
    <3> QED
      BY <1>1, <2>4, <2>6, <3>1, <3>3, ContinueRelies
  <2> QED
    BY <1>5, <2>5, <2>6
<1> QED
  BY <1>4, <1>5 DEF Consume

LEMMA FinalKeeps ==
    ASSUME IInv, NEW p \in Proc, Final(p)
    PROVE  Record' /\ Relies(p)'
<1>1. TypeOK /\ Record /\ Grows /\ pc[p] = "final"
  BY StepGrows DEF IInv, Step, Final, At
<1>2. UNCHANGED <<checkpoint, facts, approvals, asked, edits, output>>
  BY DEF Final, At, case, outside
<1>3. CASE Throw(p)
  BY <1>1, <1>2, <1>3, RecordKept, StopRelies DEF Throw
<1>4. CASE approvals[StampOf(p)] = "consumed" /\ Complete(p)
  <2>1. run[p].approval \in Approval
    BY <1>1, RunType DEF Run
  <2>2. StartIsPaid'
    BY <1>1, <1>2, <1>4, <2>1 DEF Record, StartIsPaid, Complete, StampOf
  <2>3. Record'
    BY <1>1, <1>2, <2>2 DEF Record, OutputApproved, ReadyHasOutput, SpentLast, SomeReady
  <2> QED
    BY <1>1, <1>4, <2>3, StopRelies
<1> QED
  BY <1>3, <1>4 DEF Final

-----------------------------------------------------------------------------
(* The invariant. *)

\* A step of one apply leaves the others where they are.
LEMMA StepAlone ==
    ASSUME TypeOK, NEW p \in Proc, NEW q \in Proc \ {p}, Step(p)
    PROVE  pc'[q] = pc[q] /\ run'[q] = run[q]
<1>1. Throw(p) \/ Complete(p) \/ \E w, r : Continue(p, w, r)
  BY DEF Step, Get, Existing, Verify, Approve, Reread, Materialize, Ready, Consume, Final,
         Transition, Proceed
<1> QED
  BY <1>1 DEF TypeOK, Throw, Complete, Continue, Stop, Goto

LEMMA StepInv ==
    ASSUME IInv, NEW p \in Proc, Step(p)
    PROVE  IInv'
<1>1. TypeOK' /\ Grows
  BY StepType, StepGrows DEF IInv
<1>2. Record' /\ Relies(p)'
  BY GetKeeps, ExistingKeeps, VerifyKeeps, ApproveKeeps, RereadKeeps, MaterializeKeeps,
     ReadyKeeps, ConsumeKeeps, FinalKeeps DEF Step
<1>3. ASSUME NEW q \in Proc \ {p} PROVE Relies(q)'
  BY <1>1, <1>3, StepAlone, ReliesKept DEF IInv
<1> QED
  BY <1>1, <1>2, <1>3 DEF IInv

\* Steps that no apply takes.
LEMMA OthersInv ==
    ASSUME IInv, [Next]_vars, Record', UNCHANGED <<pc, run>>
    PROVE  IInv'
<1>1. TypeOK' /\ Grows
  BY NextType, NextGrows DEF IInv
<1>2. ASSUME NEW q \in Proc PROVE Relies(q)'
  BY <1>1, ReliesKept DEF IInv
<1> QED
  BY <1>1, <1>2 DEF IInv

LEMMA NextInv ==
    ASSUME IInv, [Next]_vars
    PROVE  IInv'
<1>1. TypeOK /\ Record /\ TypeOK' /\ Grows
  BY NextType, NextGrows DEF IInv
<1>2. ASSUME NEW p \in Proc, Step(p) PROVE IInv'
  BY <1>2, StepInv
<1>3. ASSUME NEW p \in Proc, Start(p) PROVE IInv'
  <2>1. PICK c \in Channel, a \in Approval, d \in Dir : StartWith(p, c, a, d)
    BY <1>3 DEF Start
  <2>2. UNCHANGED <<checkpoint, facts, approvals, asked, edits, output, printed>>
    BY <2>1 DEF StartWith, At, Continue, case, outside
  <2>3. Record'
    BY <1>1, <2>2, RecordKept
  <2>4. PICK r : r = Fresh(c, a, d)
    OBVIOUS
  <2>5. ReliesOn(r, "get")'
    BY <2>4 DEF ReliesOn, Fresh
  <2>6. Relies(p)'
    BY <1>1, <2>1, <2>4, <2>5, ContinueRelies DEF StartWith
  <2>7. ASSUME NEW q \in Proc \ {p} PROVE Relies(q)'
    <3>1. pc'[q] = pc[q] /\ run'[q] = run[q]
      BY <1>1, <2>1 DEF StartWith, Continue, Goto, TypeOK
    <3> QED
      BY <1>1, <3>1, ReliesKept DEF IInv
  <2> QED
    BY <1>1, <2>3, <2>6, <2>7 DEF IInv
<1>4. ASSUME NEW p \in Proc, Crash(p) PROVE IInv'
  <2>1. Record' /\ Relies(p)'
    BY <1>1, <1>4, RecordKept, StopRelies DEF Crash, At, Throw, case, outside
  <2>2. ASSUME NEW q \in Proc \ {p} PROVE Relies(q)'
    <3>1. pc'[q] = pc[q] /\ run'[q] = run[q]
      BY <1>1, <1>4 DEF Crash, Throw, Stop, Goto, TypeOK
    <3> QED
      BY <1>1, <3>1, ReliesKept DEF IInv
  <2> QED
    BY <1>1, <2>1, <2>2 DEF IInv
<1>5. ASSUME NEW c \in Channel, NEW a \in Approval, Ask(c, a) PROVE IInv'
  <2>1. Record'
    BY <1>1, <1>5 DEF Ask, Record, OutputApproved, ReadyHasOutput, SpentLast, StartIsPaid,
                      SomeReady, case, procs
  <2> QED
    BY <1>5, <2>1, OthersInv DEF Next, Ask, procs
<1>6. ASSUME NEW c \in Channel, NEW a \in Approval, Add(c, a) PROVE IInv'
  <2>1. <<c, a>> \in Stamp /\ approvals[<<c, a>>] = "absent"
    BY <1>1, <1>6 DEF Add, Record, Stamp
  <2>2. \A s \in Stamp : approvals'[s] = "consumed" => approvals[s] = "consumed"
    BY <1>1, <1>6 DEF Add, TypeOK
  <2>3. SpentLast'
    BY <1>1, <1>6, <2>2 DEF Add, Record, SpentLast, procs
  <2>4. StartIsPaid'
    <3>1. \A e \in Channel, b \in Approval : <<e, b>> \in Stamp
      BY DEF Stamp
    <3>2. printed \subseteq Channel /\ printed' = printed
      BY <1>1, <1>6 DEF TypeOK, Add, procs
    <3> QED
      BY <1>1, <3>1, <3>2 DEF Record, Grows, StartIsPaid
  <2>5. \A s \in asked' : approvals'[s] = "absent"
    BY <1>1, <1>6 DEF Add, Record, TypeOK
  <2>6. Record'
    BY <1>1, <1>6, <2>3, <2>4, <2>5 DEF Add, Record, OutputApproved, ReadyHasOutput, SomeReady, procs
  <2> QED
    BY <1>6, <2>6, OthersInv DEF Next, Add, procs
<1>7. ASSUME NEW c \in Channel, NEW a \in Approval, Expire(c, a) PROVE IInv'
  <2>1. Record'
    BY <1>1, <1>7, RecordKept DEF Expire, case, procs
  <2> QED
    BY <1>7, <2>1, OthersInv DEF Next, Expire, procs
<1>8. CASE OtherCommand
  <2>1. checkpoint' \in {"READY", "IN_PROGRESS"} => checkpoint = "READY"
    BY <1>8, HandoffAssumption DEF OtherCommand, Move
  <2>2. Record'
    BY <1>1, <1>8, <2>1 DEF OtherCommand, Record, OutputApproved, ReadyHasOutput, SpentLast,
                            StartIsPaid, SomeReady, outside, procs
  <2> QED
    BY <1>8, <2>2, OthersInv DEF Next, OtherCommand, procs
<1>9. CASE Edit
  <2>1. edits' # 0
    BY <1>1, <1>9, HandoffAssumption DEF Edit, TypeOK
  <2>2. \A d \in Dir : output'[d] \in Channel => output'[d] = output[d]
    BY <1>1, <1>9, HandoffAssumption DEF Edit, TypeOK
  <2>3. Record'
    BY <1>1, <1>9, <2>1, <2>2 DEF Edit, Record, OutputApproved, ReadyHasOutput, SpentLast,
                                  StartIsPaid, SomeReady, case, procs
  <2> QED
    BY <1>9, <2>3, OthersInv DEF Next, Edit, procs
<1>10. CASE UNCHANGED vars
  <2>1. Record'
    BY <1>1, <1>10, RecordKept DEF vars, case, outside, procs
  <2> QED
    BY <1>10, <2>1, OthersInv DEF vars, procs
<1> QED
  BY <1>2, <1>3, <1>4, <1>5, <1>6, <1>7, <1>8, <1>9, <1>10 DEF Next

LEMMA InitInv == Init => IInv
<1> SUFFICES ASSUME Init PROVE IInv
  OBVIOUS
<1>1. Record
  BY HandoffAssumption DEF Init, Record, OutputApproved, ReadyHasOutput, SpentLast, StartIsPaid
<1>2. \A p \in Proc : Relies(p)
  BY DEF Init, Relies
<1> QED
  BY <1>1, <1>2, InitType DEF IInv

LEMMA Invariant == Spec => []IInv
BY InitInv, NextInv, PTL DEF Spec

-----------------------------------------------------------------------------
(* Theorems. *)

\* Neither channel ever acts on the HANDOFF_APPROVED of the other, however
\* many applies of both overlap and whoever moves the case meanwhile.
THEOREM OnlyApprovedOutput == Spec => []OutputApproved
BY Invariant, PTL DEF IInv, Record

\* Once the case says that a release may start, a handoff lies complete in
\* some directory, unless people have touched the directories.
THEOREM ReadyIsBacked == Spec => []ReadyHasOutput
BY Invariant, PTL DEF IInv, Record

\* An approval is spent after everything it pays for, on every path through
\* the command, also when it is resumed with another approval.
THEOREM ApprovalSpentLast == Spec => []SpentLast
BY Invariant, PTL DEF IInv, Record

\* A start command is printed only for a handoff whose approval is spent.
THEOREM PrintedIsPaid == Spec => []StartIsPaid
BY Invariant, PTL DEF IInv, Record

-----------------------------------------------------------------------------
(* One apply at a time. *)

\* The hypothesis of what follows: one process runs the apply commands, one
\* after the other, and of the other commands that move a case only the start
\* of the executor comes in between.
Serial ==
    /\ \A p, q \in Proc : p = q
    /\ Moves \subseteq {<<"READY", "IN_PROGRESS">>}

\* What such an apply has seen of the case is still so, except that a ready
\* one may have been started: and of its channel's approvals no other is spent.
Follows(r, where) ==
    /\ where \notin {"idle", "get"} =>
          \A b \in Approval \ {r.approval} : approvals[<<r.channel, b>>] # "consumed"
    /\ where \in {"existing", "verify"} /\ r.verdict \in {"AWAITING", "APPROVED"} =>
          checkpoint = r.verdict
    /\ where = "approve" => checkpoint = "AWAITING"
    /\ where \in {"materialize", "ready"} => checkpoint = "APPROVED"

\* The case goes forward, so that it is approved for one channel only.
Straight ==
    /\ checkpoint = "AWAITING" => \A c \in Channel : ~Approved(c)
    /\ \A c, e \in Channel : Approved(c) /\ Approved(e) => c = e
    /\ \A c \in Channel : <<"ready", c>> \in facts => Approved(c)
    /\ OneSpent

SInv == Straight /\ \A p \in Proc : Follows(run[p], pc[p])

LEMMA ContinueFollows ==
    ASSUME TypeOK, NEW p \in Proc, NEW w, NEW r, Continue(p, w, r), Follows(r, w)'
    PROVE  Follows(run[p], pc[p])'
<1>1. pc'[p] = w /\ run'[p] = r
  BY DEF TypeOK, Continue, Goto
<1> QED
  BY <1>1 DEF Follows

LEMMA StopFollows ==
    ASSUME TypeOK, NEW p \in Proc, Throw(p) \/ Complete(p)
    PROVE  Follows(run[p], pc[p])'
<1>1. pc'[p] = "idle"
  BY DEF TypeOK, Throw, Complete, Stop, Goto
<1> QED
  BY <1>1 DEF Follows

\* On a snapshot that is up to date an apply goes on only where it may.
LEMMA ProceedFollows ==
    ASSUME TypeOK, NEW p \in Proc, NEW r, Proceed(p, r),
           UNCHANGED <<checkpoint, approvals>>,
           r.verdict = "APPROVED" => checkpoint = "APPROVED",
           \A b \in Approval \ {r.approval} : approvals[<<r.channel, b>>] # "consumed"
    PROVE  Follows(run[p], pc[p])'
<1>1. CASE Throw(p)
  BY <1>1, StopFollows
<1>2. CASE /\ r.verdict = "APPROVED"
           /\ Continue(p, IF r.existing THEN "ready" ELSE "materialize", r)
  <2>1. PICK w : w = IF r.existing THEN "ready" ELSE "materialize"
    OBVIOUS
  <2>2. Follows(r, w)'
    BY <1>2, <2>1 DEF Follows
  <2> QED
    BY <1>2, <2>1, <2>2, ContinueFollows
<1> QED
  BY <1>1, <1>2 DEF Proceed

\* Whatever writes nothing of the case and leaves the apply alone, or only
\* starts the executor of a ready release.
LEMMA OthersFollow ==
    ASSUME SInv, UNCHANGED <<facts, pc, run>>,
           checkpoint' = checkpoint \/ (checkpoint = "READY" /\ checkpoint' = "IN_PROGRESS"),
           \A s \in Stamp : approvals'[s] = "consumed" => approvals[s] = "consumed",
           TypeOK
    PROVE  SInv'
<1>1. Straight'
  BY DEF SInv, Straight, Approved, OneSpent
<1>2. ASSUME NEW p \in Proc PROVE Follows(run[p], pc[p])'
  <2>1. Follows(run[p], pc[p]) /\ UNCHANGED <<run[p], pc[p]>>
    BY DEF SInv
  <2>2. CASE pc[p] = "idle"
    BY <2>1, <2>2 DEF Follows
  <2>3. CASE pc[p] # "idle"
    <3>1. run[p].channel \in Channel
      BY <2>3, RunType DEF Run
    <3>2. \A b \in Approval : <<run[p].channel, b>> \in Stamp
      BY <3>1 DEF Stamp
    <3> QED
      BY <2>1, <3>2 DEF Follows
  <2> QED
    BY <2>2, <2>3
<1> QED
  BY <1>1, <1>2 DEF SInv

\* What is straight stays so while nothing of the case is written.
LEMMA StraightKept ==
    ASSUME Straight, UNCHANGED case PROVE Straight'
BY DEF Straight, case, Approved, OneSpent

\* One apply at a time: each of its steps follows the case it has seen.
LEMMA SerialStep ==
    ASSUME Serial, IInv, SInv, NEW p \in Proc, Step(p)
    PROVE  /\ Straight' /\ Follows(run[p], pc[p])'
           /\ checkpoint = "IN_PROGRESS" => checkpoint' = "IN_PROGRESS"
<1>1. TypeOK /\ Record /\ Relies(p) /\ Straight /\ Follows(run[p], pc[p])
  BY DEF IInv, SInv
<1>2. pc[p] # "idle"
  BY DEF Step, Get, Existing, Verify, Approve, Reread, Materialize, Ready, Consume, Final, At
<1>3. run[p] \in Run /\ StampOf(p) \in Stamp /\ run[p].channel \in Channel
      /\ run[p].approval \in Approval
  BY <1>1, <1>2, RunType DEF Run
<1>4. \A b \in Approval : <<run[p].channel, b>> \in Stamp
  BY <1>3 DEF Stamp
<1>5. CASE Get(p)
  <2>1. UNCHANGED case
    BY <1>5 DEF Get
  <2>2. CASE Throw(p)
    BY <1>1, <2>1, <2>2, StraightKept, StopFollows DEF case
  <2>3. CASE Usable(run[p].channel, run[p].approval) /\ Continue(p, "existing", Snapshot(p))
    <3>1. PICK r : r = Snapshot(p)
      OBVIOUS
    <3>2. /\ r.channel = run[p].channel /\ r.approval = run[p].approval
          /\ r.verdict = checkpoint
      BY <1>3, <3>1 DEF Snapshot, Run
    <3>3. Follows(r, "existing")'
      BY <2>1, <2>3, <3>2 DEF Follows, Usable, case
    <3> QED
      BY <1>1, <2>1, <2>3, <3>1, <3>3, StraightKept, ContinueFollows DEF case
  <2> QED
    BY <1>5, <2>2, <2>3 DEF Get
<1>6. CASE Existing(p)
  <2>1. UNCHANGED case /\ pc[p] = "existing"
    BY <1>6 DEF Existing, At
  <2>2. CASE Throw(p)
    BY <1>1, <2>1, <2>2, StraightKept, StopFollows DEF case
  <2>3. CASE Continue(p, "verify", [run[p] EXCEPT !.existing =
                                      (output[run[p].dir] = run[p].channel)])
    <3>1. PICK r : r = [run[p] EXCEPT !.existing = (output[run[p].dir] = run[p].channel)]
      OBVIOUS
    <3>2. /\ r.channel = run[p].channel /\ r.approval = run[p].approval
          /\ r.verdict = run[p].verdict
      BY <1>3, <3>1 DEF Run
    <3>3. Follows(r, "verify")'
      BY <1>1, <2>1, <3>2 DEF Follows, case
    <3> QED
      BY <1>1, <2>1, <2>3, <3>1, <3>3, StraightKept, ContinueFollows DEF case
  <2> QED
    BY <1>6, <2>2, <2>3 DEF Existing
<1>7. CASE Verify(p)
  <2>1. UNCHANGED case /\ pc[p] = "verify"
    BY <1>7 DEF Verify, At
  <2>2. CASE Throw(p) \/ Complete(p)
    BY <1>1, <2>1, <2>2, StraightKept, StopFollows DEF case
  <2>3. CASE Continue(p, "consume", [run[p] EXCEPT !.short = TRUE])
    <3>1. PICK r : r = [run[p] EXCEPT !.short = TRUE]
      OBVIOUS
    <3>2. r.channel = run[p].channel /\ r.approval = run[p].approval
      BY <1>3, <3>1 DEF Run
    <3>3. Follows(r, "consume")'
      BY <1>1, <2>1, <3>2 DEF Follows, case
    <3> QED
      BY <1>1, <2>1, <2>3, <3>1, <3>3, StraightKept, ContinueFollows DEF case
  <2>4. CASE run[p].verdict = "AWAITING" /\ Continue(p, "approve", run[p])
    <3>1. PICK r : r = run[p]
      OBVIOUS
    <3>2. Follows(r, "approve")'
      BY <1>1, <2>1, <2>4, <3>1 DEF Follows, case
    <3> QED
      BY <1>1, <2>1, <2>4, <3>1, <3>2, StraightKept, ContinueFollows DEF case
  <2>5. CASE Proceed(p, run[p])
    <3>1. PICK r : r = run[p]
      OBVIOUS
    <3>2. /\ r.verdict = "APPROVED" => checkpoint = "APPROVED"
          /\ \A b \in Approval \ {r.approval} : approvals[<<r.channel, b>>] # "consumed"
      BY <1>1, <2>1, <3>1 DEF Follows
    <3> QED
      BY <1>1, <2>1, <2>5, <3>1, <3>2, StraightKept, ProceedFollows DEF case
  <2> QED
    BY <1>7, <2>1, <2>2, <2>3, <2>4, <2>5 DEF Verify, case
<1>8. CASE Approve(p)
  <2>1. checkpoint = "AWAITING" /\ UNCHANGED approvals
    BY <1>1, <1>8 DEF Approve, At, Follows, Transition
  <2>2. \A c \in Channel : ~Approved(c)
    BY <1>1, <2>1 DEF Straight
  <2>3. Straight'
    <3>1. \/ UNCHANGED <<checkpoint, facts>>
          \/ checkpoint' = "APPROVED" /\ facts' = facts \cup {<<"approved", run[p].channel>>}
      BY <1>8 DEF Approve, Transition
    <3> QED
      BY <1>1, <2>1, <2>2, <3>1 DEF Straight, Approved, OneSpent
  <2>4. CASE Throw(p)
    BY <1>1, <2>1, <2>3, <2>4, StopFollows
  <2>5. CASE Continue(p, "reread", run[p])
    <3>1. PICK r : r = run[p]
      OBVIOUS
    <3>2. Follows(r, "reread")'
      BY <1>1, <1>8, <2>1, <3>1 DEF Follows, Approve, At
    <3> QED
      BY <1>1, <2>1, <2>3, <2>5, <3>1, <3>2, ContinueFollows
  <2> QED
    BY <1>8, <2>4, <2>5 DEF Approve, Transition
<1>9. CASE Reread(p)
  <2>1. UNCHANGED case /\ pc[p] = "reread"
    BY <1>9 DEF Reread, At
  <2>2. CASE Throw(p)
    BY <1>1, <2>1, <2>2, StraightKept, StopFollows DEF case
  <2>3. CASE Proceed(p, Snapshot(p))
    <3>1. PICK r : r = Snapshot(p)
      OBVIOUS
    <3>2. /\ r.channel = run[p].channel /\ r.approval = run[p].approval
          /\ r.verdict = checkpoint
      BY <1>3, <3>1 DEF Snapshot, Run
    <3>3. \A b \in Approval \ {r.approval} : approvals[<<r.channel, b>>] # "consumed"
      BY <1>1, <2>1, <3>2 DEF Follows
    <3> QED
      BY <1>1, <2>1, <2>3, <3>1, <3>2, <3>3, StraightKept, ProceedFollows DEF case
  <2> QED
    BY <1>9, <2>2, <2>3 DEF Reread
<1>10. CASE Materialize(p)
  <2>1. UNCHANGED case /\ pc[p] = "materialize"
    BY <1>10 DEF Materialize, At
  <2>2. CASE Throw(p)
    BY <1>1, <2>1, <2>2, StraightKept, StopFollows DEF case
  <2>3. CASE Continue(p, "ready", run[p])
    <3>1. PICK r : r = run[p]
      OBVIOUS
    <3>2. Follows(r, "ready")'
      BY <1>1, <2>1, <3>1 DEF Follows, case
    <3> QED
      BY <1>1, <2>1, <2>3, <3>1, <3>2, StraightKept, ContinueFollows DEF case
  <2> QED
    BY <1>10, <2>2, <2>3 DEF Materialize
<1>11. CASE Ready(p)
  <2>1. checkpoint = "APPROVED" /\ pc[p] = "ready" /\ UNCHANGED approvals
    BY <1>1, <1>11 DEF Ready, At, Follows, Transition
  <2>2. Approved(run[p].channel)
    BY <1>1, <2>1 DEF Relies, ReliesOn
  <2>3. Straight'
    <3>1. \/ UNCHANGED <<checkpoint, facts>>
          \/ checkpoint' = "READY" /\ facts' = facts \cup {<<"ready", run[p].channel>>}
      BY <1>11 DEF Ready, Transition
    <3> QED
      BY <1>1, <2>1, <2>2, <3>1 DEF Straight, Approved, OneSpent
  <2>4. CASE Throw(p)
    BY <1>1, <2>1, <2>3, <2>4, StopFollows
  <2>5. CASE Continue(p, "consume", run[p])
    <3>1. PICK r : r = run[p]
      OBVIOUS
    <3>2. Follows(r, "consume")'
      BY <1>1, <2>1, <3>1 DEF Follows
    <3> QED
      BY <1>1, <2>1, <2>3, <2>5, <3>1, <3>2, ContinueFollows
  <2> QED
    BY <1>11, <2>4, <2>5 DEF Ready, Transition
<1>12. CASE Consume(p)
  <2>1. pc[p] = "consume" /\ UNCHANGED <<checkpoint, facts>>
    BY <1>12 DEF Consume, At
  <2>2. Approved(run[p].channel)
    BY <1>1, <2>1 DEF Relies, ReliesOn
  <2>3. \/ UNCHANGED approvals
        \/ approvals' = [approvals EXCEPT ![StampOf(p)] = "consumed"]
    BY <1>12 DEF Consume
  <2>4. \A s \in Stamp : approvals[s] = "consumed" => s = StampOf(p)
    <3> SUFFICES ASSUME NEW s \in Stamp, approvals[s] = "consumed"
                 PROVE  s = StampOf(p)
      OBVIOUS
    <3>1. PICK c \in Channel, b \in Approval : s = <<c, b>>
      BY DEF Stamp
    <3>2. Approved(c)
      BY <1>1, <3>1 DEF Record, SpentLast, Approved
    <3>3. c = run[p].channel
      BY <1>1, <1>3, <2>2, <3>2 DEF Straight
    <3>4. b = run[p].approval
      BY <1>1, <2>1, <3>1, <3>3 DEF Follows
    <3> QED
      BY <3>1, <3>3, <3>4 DEF StampOf
  <2>5. OneSpent'
    BY <1>1, <2>3, <2>4 DEF OneSpent, TypeOK
  <2>6. Straight'
    BY <1>1, <2>1, <2>5 DEF Straight, Approved
  <2>7. CASE Throw(p)
    BY <1>1, <2>1, <2>6, <2>7, StopFollows
  <2>8. CASE Continue(p, "final", run[p])
    <3>1. PICK r : r = run[p]
      OBVIOUS
    <3>2. \A b \in Approval \ {r.approval} : approvals'[<<r.channel, b>>] # "consumed"
      <4> SUFFICES ASSUME NEW b \in Approval \ {r.approval},
                          approvals'[<<r.channel, b>>] = "consumed"
                   PROVE  FALSE
        OBVIOUS
      <4>1. <<r.channel, b>> \in Stamp /\ <<r.channel, b>> # StampOf(p)
        BY <1>4, <3>1 DEF StampOf
      <4>2. approvals[<<r.channel, b>>] = "consumed"
        BY <1>1, <2>3, <4>1 DEF TypeOK
      <4> QED
        BY <2>4, <4>1, <4>2
    <3>3. Follows(r, "final")'
      BY <3>2 DEF Follows
    <3> QED
      BY <1>1, <2>1, <2>6, <2>8, <3>1, <3>3, ContinueFollows
  <2> QED
    BY <1>12, <2>7, <2>8 DEF Consume
<1>13. CASE Final(p)
  <2>1. UNCHANGED case /\ (Throw(p) \/ Complete(p))
    BY <1>13 DEF Final
  <2> QED
    BY <1>1, <2>1, StraightKept, StopFollows DEF case
<1> QED
  BY <1>5, <1>6, <1>7, <1>8, <1>9, <1>10, <1>11, <1>12, <1>13 DEF Step

\* One apply at a time keeps the case straight, whatever else happens, and no
\* step throws an execution back that is under way.
LEMMA SerialNext ==
    ASSUME Serial, IInv, SInv, [Next]_vars
    PROVE  SInv' /\ (checkpoint = "IN_PROGRESS" => checkpoint' = "IN_PROGRESS")
<1>1. TypeOK /\ Record /\ Straight
  BY DEF IInv, SInv
<1>2. ASSUME NEW p \in Proc, Step(p)
      PROVE  SInv' /\ (checkpoint = "IN_PROGRESS" => checkpoint' = "IN_PROGRESS")
  <2>1. \A q \in Proc : q = p
    BY DEF Serial
  <2> QED
    BY <1>2, <2>1, SerialStep DEF SInv
<1>3. ASSUME NEW p \in Proc, Start(p) \/ Crash(p)
      PROVE  SInv' /\ UNCHANGED checkpoint
  <2>1. UNCHANGED case
    BY <1>3 DEF Start, StartWith, Crash
  <2>2. Follows(run[p], pc[p])'
    <3>1. CASE Crash(p)
      BY <1>1, <3>1, StopFollows DEF Crash
    <3>2. CASE Start(p)
      <4>1. PICK c \in Channel, a \in Approval, d \in Dir : StartWith(p, c, a, d)
        BY <3>2 DEF Start
      <4>2. PICK r : r = Fresh(c, a, d)
        OBVIOUS
      <4>3. Follows(r, "get")'
        BY DEF Follows
      <4> QED
        BY <1>1, <4>1, <4>2, <4>3, ContinueFollows DEF StartWith
    <3> QED
      BY <1>3, <3>1, <3>2
  <2>3. \A q \in Proc : q = p
    BY DEF Serial
  <2> QED
    BY <1>1, <2>1, <2>2, <2>3, StraightKept DEF SInv, case
<1>4. ASSUME NEW c \in Channel, NEW a \in Approval, Ask(c, a) \/ Add(c, a) \/ Expire(c, a)
      PROVE  SInv' /\ UNCHANGED checkpoint
  <2>1. UNCHANGED <<checkpoint, facts, pc, run>>
    BY <1>4 DEF Ask, Add, Expire, case, procs
  <2>2. \A s \in Stamp : approvals'[s] = "consumed" => approvals[s] = "consumed"
    BY <1>1, <1>4 DEF Ask, Add, Expire, case, TypeOK
  <2> QED
    BY <1>1, <2>1, <2>2, OthersFollow
<1>5. CASE OtherCommand
  <2>1. checkpoint = "READY" /\ checkpoint' = "IN_PROGRESS"
    BY <1>5 DEF OtherCommand, Serial
  <2> QED
    BY <1>1, <1>5, <2>1, OthersFollow DEF OtherCommand, procs
<1>6. CASE Edit \/ UNCHANGED vars
  <2>1. UNCHANGED <<case, pc, run>>
    BY <1>6 DEF Edit, vars, procs
  <2> QED
    BY <1>1, <2>1, OthersFollow DEF case
<1> QED
  BY <1>2, <1>3, <1>4, <1>5, <1>6 DEF Next

LEMMA SerialInit == Init => SInv
<1> SUFFICES ASSUME Init PROVE SInv
  OBVIOUS
<1>1. Straight
  BY DEF Init, Straight, Approved, OneSpent
<1>2. \A p \in Proc : Follows(run[p], pc[p])
  BY DEF Init, Follows
<1> QED
  BY <1>1, <1>2 DEF SInv

\* A plan is handed to one executor, by one approval, although each apply may
\* crash at any point and be repeated by the same channel or tried by another,
\* with any approval and any directory (execution-plan/apply.mjs, goal-handoff.mjs).
THEOREM HandedOnce ==
    ASSUME Serial
    PROVE  Spec => []OneHandoff
<1>1. Init => SInv
  BY SerialInit
<1>2. IInv /\ SInv /\ [Next]_vars => SInv'
  BY SerialNext
<1>3. IInv /\ SInv => OneHandoff
  <2> SUFFICES ASSUME IInv, SInv PROVE OneHandoff
    OBVIOUS
  <2>1. \A c \in Channel : Handed(c) => Approved(c)
    <3>1. ASSUME NEW c \in Channel, NEW a \in Approval, approvals[<<c, a>>] = "consumed"
          PROVE  Approved(c)
      <4>1. <<c, a>> \in Stamp
        BY DEF Stamp
      <4> QED
        BY <3>1, <4>1 DEF IInv, Record, SpentLast, Approved
    <3> QED
      BY <3>1 DEF Handed, SInv, Straight
  <2> QED
    BY <2>1 DEF OneHandoff, OneChannel, SInv, Straight
<1> QED
  BY <1>1, <1>2, <1>3, Invariant, PTL DEF Spec

\* A replay does not throw back an execution that is under way.
THEOREM NotThrownBack ==
    ASSUME Serial
    PROVE  Spec => NeverBack
<1>1. Init => SInv
  BY SerialInit
<1>2. IInv /\ SInv /\ [Next]_vars => SInv'
  BY SerialNext
<1>3. IInv /\ SInv /\ [Next]_vars =>
         [checkpoint = "IN_PROGRESS" => checkpoint' = "IN_PROGRESS"]_vars
  BY SerialNext
<1> QED
  BY <1>1, <1>2, <1>3, Invariant, PTL DEF Spec, NeverBack
=============================================================================
