-------------------------- MODULE DeliveryGateProofs --------------------------
(***************************************************************************)
(* Theorems about DeliveryGate, for any number of processes that run the   *)
(* command, pushes, faults and edits.                                      *)
(***************************************************************************)
EXTENDS DeliveryGate, TLAPS

-----------------------------------------------------------------------------
(* The inductive invariant. *)

Reading == {"repository", "rulesets", "effective", "await"}

\* What a process remembers at this place.  A plan needs a commit; a look that
\* comes before any write has written nothing; and a ruleset that was read as
\* desired still is, unless people touched the gate.
Fits(w, j) ==
    /\ CASE w = "idle"                          -> j = NoJob
         [] w \in {"write", "opened", "confirm"} -> j \in Draft
         [] OTHER                                -> j \in Job
    /\ w = "effective" => j.head \in 1..MaxPush
    /\ w \in Reading /\ j.round \in {"plan", "first"} => ~j.sent
    /\ w \in Reading /\ j.calm /\ j.ruleset = "desired" => Protected

JobsOK ==
    /\ pc \in [Proc -> Where]
    /\ job \in [Proc -> Job \cup Draft \cup {NoJob}]
    /\ \A p \in Proc : Fits(pc[p], job[p])

RestOK ==
    /\ head \in 0..MaxPush /\ published \in 0..head /\ base \in 0..MaxPush
    /\ passed \subseteq 1..MaxPush
    /\ file \in {"absent", "managed", "other", "torn"}
    /\ rulesets \in [Id -> Ruleset]
    /\ rival \in BOOLEAN
    /\ settings \subseteq Setting
    /\ draft \in Draft \cup {NoPlan}
    /\ plan \in Plan \cup {NoPlan}
    /\ flight \subseteq Request
    /\ result \in [Proc -> Ended]
    /\ faults \in 0..MaxFaults /\ edits \in 0..MaxEdits

IInv == RestOK /\ JobsOK /\ ReportsTrue /\ AutoMergeGuarded

LEMMA InvTyped == IInv => TypeOK
BY GateAssumption DEF IInv, RestOK, JobsOK, Fits, TypeOK

-----------------------------------------------------------------------------
(* What no step takes back, unless people touch the gate. *)

\* The bound on the faults of the environment.
LEMMA FaultsType ==
    ASSUME RestOK, Works \/ Fault
    PROVE  faults' \in 0..MaxFaults
BY GateAssumption DEF RestOK, Works, Fault

LEMMA NamedType == Named \subseteq Id
BY DEF Named

\* The tip, the settings and the rulesets are left alone.
LEMMA ProtectedKept ==
    ASSUME UNCHANGED rulesets
    PROVE  Protected <=> Protected'
BY DEF Protected

\* A write that lands only makes the gate stronger.
LEMMA LandStrengthens ==
    ASSUME RestOK, NEW r \in flight, Land(r)
    PROVE  /\ rulesets' \in [Id -> Ruleset] /\ settings' \subseteq Setting
           /\ Protected => Protected'
           /\ settings = Setting => settings' = Setting
<1>1. settings' \in {settings, Setting}
  BY DEF Land
<1>2. \/ rulesets' = rulesets
      \/ \E i \in Id : rulesets' = [rulesets EXCEPT ![i] = "desired"]
  <2>1. CASE r.kind = "ruleset" /\ r.id \in Named
    BY <2>1, NamedType DEF Land
  <2>2. CASE r.kind = "ruleset" /\ r.id \notin Named /\ r.id = 0 /\ Named # Id
    <3>1. PICK j \in Id : j = CHOOSE i \in Id \ Named : TRUE
      <4>1. \E i \in Id \ Named : TRUE
        BY <2>2, NamedType
      <4> QED
        BY <4>1
    <3> QED
      BY <2>2, <3>1 DEF Land
  <2> QED
    BY <2>1, <2>2 DEF Land
<1>3. rulesets' \in [Id -> Ruleset] /\ (Protected => Protected')
  BY <1>2 DEF RestOK, Ruleset, Content, Protected
<1> QED
  BY <1>1, <1>3 DEF RestOK

-----------------------------------------------------------------------------
(* The ways in which a process moves. *)

Keeps(p, w, j) ==
    pc' = [pc EXCEPT ![p] = w] /\ job' = [job EXCEPT ![p] = j] /\ UNCHANGED rulesets

LEMMA MoveFits ==
    ASSUME JobsOK, NEW p \in Proc, NEW w \in Where, NEW j, Fits(w, j), Keeps(p, w, j)
    PROVE  JobsOK'
<1>1. j \in Job \cup Draft \cup {NoJob}
  BY DEF Fits, Where
<1>2. Protected <=> Protected'
  BY ProtectedKept DEF Keeps
<1>3. ASSUME NEW q \in Proc PROVE Fits(pc[q], job[q])'
  <2>1. PICK v, i : v = pc'[q] /\ i = job'[q]
    OBVIOUS
  <2>2. CASE q = p
    <3>1. v = w /\ i = j
      BY <2>1, <2>2 DEF Keeps, JobsOK
    <3>2. Fits(v, i)
      BY <3>1
    <3> QED
      BY <1>2, <2>1, <3>2 DEF Fits
  <2>3. CASE q # p
    <3>1. v = pc[q] /\ i = job[q]
      BY <2>1, <2>3 DEF Keeps, JobsOK
    <3>2. Fits(v, i)
      BY <3>1 DEF JobsOK
    <3> QED
      BY <1>2, <2>1, <3>2 DEF Fits
  <2> QED
    BY <2>2, <2>3
<1> QED
  BY <1>1, <1>3 DEF JobsOK, Keeps

\* It goes on.
LEMMA RememberKeeps ==
    ASSUME IInv, NEW p \in Proc, NEW w \in Where, NEW j, Fits(w, j),
           Goto(p, w), Remember(p, j), UNCHANGED <<github, edits, base>>, Works \/ Fault,
           file' \in {"absent", "managed", "other", "torn"}
    PROVE  IInv'
<1>1. JobsOK'
  BY MoveFits DEF IInv, Keeps, Goto, Remember, github
<1>2. RestOK'
  BY FaultsType DEF IInv, RestOK, Remember, github
<1>3. Protected <=> Protected'
  BY ProtectedKept DEF github
<1> QED
  BY <1>1, <1>2, <1>3
  DEF IInv, ReportsTrue, CompleteIsGated, ConflictUntouched, AutoMergeGuarded, Remember, github

InForce == Protected /\ settings = Setting /\ ~rival

\* It ends, and says how.
LEMMA EndsKeeps ==
    ASSUME IInv, NEW p \in Proc, NEW status \in {"COMPLETE", "PARTIAL", "CONFLICT"},
           NEW sent \in BOOLEAN, NEW calm \in BOOLEAN,
           status = "COMPLETE" /\ calm => InForce, status = "CONFLICT" => ~sent,
           Ends(p, status, sent, calm), UNCHANGED <<github, edits, local>>, Works \/ Fault
    PROVE  IInv'
<1>1. JobsOK'
  <2>1. Fits("idle", NoJob)
    BY DEF Fits, Reading
  <2> QED
    BY <2>1, MoveFits DEF IInv, Keeps, Goto, Ends, github, Where
<1> DEFINE r == [status |-> status, sent |-> sent, calm |-> calm]
<1>2. r \in Ended /\ r.status = status /\ r.sent = sent /\ r.calm = calm
  BY DEF Ended
<1>3. result' = [result EXCEPT ![p] = r]
  BY DEF Ends
<1> HIDE DEF r
<1>4. RestOK'
  BY <1>2, <1>3, FaultsType DEF IInv, RestOK, Ends, github, local
<1>5. Protected <=> Protected'
  BY ProtectedKept DEF github
<1>6. \A q \in Proc : result'[q] = IF q = p THEN r ELSE result[q]
  BY <1>3 DEF IInv, RestOK
<1>7. CompleteIsGated'
  BY <1>2, <1>5, <1>6 DEF IInv, ReportsTrue, CompleteIsGated, github, InForce
<1>8. ConflictUntouched'
  BY <1>2, <1>6 DEF IInv, ReportsTrue, ConflictUntouched
<1>9. AutoMergeGuarded'
  BY <1>5 DEF IInv, AutoMergeGuarded, Ends
<1> QED
  BY <1>1, <1>4, <1>7, <1>8, <1>9 DEF IInv, ReportsTrue

\* It sends a write.
LEMMA SendKeeps ==
    ASSUME IInv, NEW p \in Proc, NEW kind \in {"ruleset", "settings"}, NEW j \in Job,
           j.calm /\ (kind = "settings" \/ j.ruleset = "desired") => Protected,
           Send(p, kind, j), UNCHANGED <<github, edits, local>>, Works \/ Fault
    PROVE  IInv'
<1> DEFINE s == [j EXCEPT !.sent = TRUE, !.round = kind]
           r == [from |-> p, kind |-> kind, id |-> j.id, calm |-> j.calm]
<1>1. /\ s \in Job /\ s.round = kind /\ s.ruleset = j.ruleset /\ s.calm = j.calm
      /\ r \in Request /\ r.kind = kind /\ r.calm = j.calm
  BY DEF Job, Request
<1>2. job' = [job EXCEPT ![p] = s] /\ flight' = flight \cup {r}
  BY DEF Send
<1> HIDE DEF s, r
<1>3. Fits("await", s)
  BY <1>1 DEF Fits, Reading
<1>4. JobsOK'
  BY <1>2, <1>3, MoveFits DEF IInv, Keeps, Goto, Send, github, Where
<1>5. RestOK'
  BY <1>1, <1>2, FaultsType DEF IInv, RestOK, Send, github, local
<1>6. Protected <=> Protected'
  BY ProtectedKept DEF github
<1>7. ReportsTrue'
  BY <1>6 DEF IInv, ReportsTrue, CompleteIsGated, ConflictUntouched, Send, github
<1>8. AutoMergeGuarded'
  BY <1>1, <1>2, <1>6 DEF IInv, AutoMergeGuarded
<1> QED
  BY <1>4, <1>5, <1>7, <1>8 DEF IInv

-----------------------------------------------------------------------------
(* The decisions of an apply. *)

\* What it has just read.
Seen(j) == /\ j \in Job
           /\ j.ready => InForce
           /\ j.calm /\ j.ruleset = "desired" => Protected

Calls == UNCHANGED <<github, edits, local>> /\ (Works \/ Fault)

LEMMA StopKeeps ==
    ASSUME IInv, NEW p \in Proc, NEW j, Seen(j), NEW status \in {"COMPLETE", "PARTIAL", "CONFLICT"},
           status = "COMPLETE" => j.ready, status = "CONFLICT" => ~j.sent,
           Stop(p, status, j), Calls
    PROVE  IInv'
<1>1. j.sent \in BOOLEAN /\ j.calm \in BOOLEAN /\ (status = "COMPLETE" => InForce)
  BY DEF Seen, Job
<1> QED
  BY <1>1, EndsKeeps DEF Stop, Calls

LEMMA FinishKeeps ==
    ASSUME IInv, NEW p \in Proc, NEW j, Seen(j), Finish(p, j), Calls
    PROVE  IInv'
<1> DEFINE status == IF j.ready THEN "COMPLETE" ELSE "PARTIAL"
<1>1. Stop(p, status, j)
  BY DEF Finish
<1>2. status \in {"COMPLETE", "PARTIAL"} /\ (status = "COMPLETE" => j.ready)
  BY DEF Seen, Job
<1> HIDE DEF status
<1> QED
  BY <1>1, <1>2, StopKeeps

LEMMA DecideSettingsKeeps ==
    ASSUME IInv, NEW p \in Proc, NEW j, Seen(j), j.ruleset = "desired", DecideSettings(p, j), Calls
    PROVE  IInv'
<1>1. CASE Finish(p, j)
  BY <1>1, FinishKeeps
<1>2. CASE Send(p, "settings", j)
  BY <1>2, SendKeeps DEF Seen, Calls
<1>3. CASE Stop(p, "PARTIAL", j)
  BY <1>3, StopKeeps
<1> QED
  BY <1>1, <1>2, <1>3 DEF DecideSettings

LEMMA DecideKeeps ==
    ASSUME IInv, NEW p \in Proc, NEW j, Seen(j), j.head \in 1..MaxPush,
           j.round \in {"plan", "first"} => ~j.sent, Decide(p, j), Calls
    PROVE  IInv'
<1>1. CASE /\ Goto(p, "idle")
           /\ plan' = [base |-> j.head, ruleset |-> j.ruleset, settings |-> j.settings]
           /\ job' = [job EXCEPT ![p] = NoJob]
           /\ UNCHANGED <<flight, result, draft>>
  <2>1. JobsOK'
    <3>1. Fits("idle", NoJob)
      BY DEF Fits, Reading
    <3> QED
      BY <1>1, <3>1, MoveFits DEF IInv, Keeps, Goto, Calls, github, Where
  <2>2. plan' \in Plan
    BY <1>1 DEF Seen, Job, Plan
  <2>3. RestOK'
    BY <1>1, <2>2, FaultsType DEF IInv, RestOK, Calls, github, local
  <2>4. Protected <=> Protected'
    BY ProtectedKept DEF Calls, github
  <2> QED
    BY <1>1, <2>1, <2>3, <2>4
    DEF IInv, ReportsTrue, CompleteIsGated, ConflictUntouched, AutoMergeGuarded, Calls, github
<1>2. CASE j.round = "first" /\ DecideRuleset(p, j)
  <2>1. CASE j.ruleset = "desired" /\ DecideSettings(p, j)
    BY <2>1, DecideSettingsKeeps
  <2>2. CASE Send(p, "ruleset", j)
    BY <2>2, SendKeeps DEF Seen, Calls
  <2>3. CASE Stop(p, "CONFLICT", j)
    BY <1>2, <2>3, StopKeeps
  <2> QED
    BY <1>2, <2>1, <2>2, <2>3 DEF DecideRuleset
<1>3. CASE j.round = "first" /\ Stop(p, "CONFLICT", j)
  BY <1>3, StopKeeps
<1>4. CASE j.round = "ruleset" /\ Confirmed(j) /\ DecideSettings(p, j)
  BY <1>4, DecideSettingsKeeps DEF Confirmed
<1>5. CASE Finish(p, j)
  BY <1>5, FinishKeeps
<1>6. CASE Stop(p, "PARTIAL", j)
  BY <1>6, StopKeeps
<1> QED
  BY <1>1, <1>2, <1>3, <1>4, <1>5, <1>6 DEF Decide

-----------------------------------------------------------------------------
(* The steps of a process. *)

LEMMA FileKeeps ==
    ASSUME IInv, NEW p \in Proc,
           PlanWorkflow(p) \/ ApplyWorkflow(p) \/ OpenFile(p) \/ WriteFile(p) \/ Confirm(p)
    PROVE  IInv'
<1>1. CASE PlanWorkflow(p)
  <2>1. draft' \in Draft
    BY <1>1 DEF PlanWorkflow, Inspectable, Draft, IInv, RestOK
  <2>2. RestOK'
    BY <1>1, <2>1 DEF IInv, RestOK, PlanWorkflow, At, Works, github, local
  <2>3. UNCHANGED <<pc, job, flight, result, rulesets, settings, rival>>
    BY <1>1 DEF PlanWorkflow, At, github
  <2> QED
    BY <2>2, <2>3 DEF IInv, JobsOK, Fits, Protected, ReportsTrue, CompleteIsGated,
                      ConflictUntouched, AutoMergeGuarded
<1>2. CASE ApplyWorkflow(p)
  <2>1. CASE Ends(p, "COMPLETE", FALSE, FALSE) \/ Ends(p, "CONFLICT", FALSE, FALSE)
    BY <1>2, <2>1, EndsKeeps DEF ApplyWorkflow, At
  <2>2. CASE Works /\ Goto(p, "write") /\ Remember(p, draft)
    <3>1. Fits("write", draft)
      BY <1>2 DEF ApplyWorkflow, Fits, Reading, IInv, RestOK
    <3>2. file' \in {"absent", "managed", "other", "torn"}
      BY <1>2 DEF ApplyWorkflow, local, IInv, RestOK
    <3> QED
      BY <1>2, <2>2, <3>1, <3>2, RememberKeeps DEF ApplyWorkflow, At, local, Where
  <2> QED
    BY <1>2, <2>1, <2>2 DEF ApplyWorkflow
<1>3. CASE OpenFile(p) \/ WriteFile(p)
  <2>1. pc[p] \in {"write", "opened"}
    BY <1>3 DEF OpenFile, WriteFile, At
  <2>2. PICK w \in {"opened", "confirm"} : Goto(p, w)
    BY <1>3 DEF OpenFile, WriteFile
  <2>3. Fits(w, job[p])
    BY <2>1 DEF IInv, JobsOK, Fits, Reading
  <2>4. file' \in {"absent", "managed", "other", "torn"}
    BY <1>3 DEF OpenFile, WriteFile, IInv, RestOK
  <2> QED
    BY <1>3, <2>2, <2>3, <2>4, RememberKeeps DEF OpenFile, WriteFile, At, Where
<1>4. CASE Confirm(p)
  BY <1>4, EndsKeeps DEF Confirm, At
<1> QED
  BY <1>1, <1>2, <1>3, <1>4

LEMMA StartKeeps ==
    ASSUME IInv, NEW p \in Proc, NEW round \in {"plan", "first", "ruleset", "settings"},
           NEW pl \in Plan \cup {NoPlan}, StartRound(p, round, pl), Calls
    PROVE  IInv'
<1> DEFINE sent == round \in {"ruleset", "settings"}
           j == [plan |-> pl, round |-> round, settings |-> {}, head |-> 0, id |-> 0,
                 ruleset |-> "absent", ready |-> FALSE, sent |-> sent, calm |-> TRUE]
<1>1. sent \in BOOLEAN /\ (round \in {"plan", "first"} => ~sent)
  OBVIOUS
<1>2. Goto(p, "repository") /\ Remember(p, j)
  BY DEF StartRound
<1> HIDE DEF sent
<1>3. j \in Job
  BY <1>1, GateAssumption DEF Job, Ruleset, Content
<1>4. j.sent = sent /\ j.round = round /\ j.ruleset = "absent"
  OBVIOUS
<1> HIDE DEF j
<1>5. Fits("repository", j)
  BY <1>1, <1>3, <1>4 DEF Fits
<1>6. file' = file /\ file \in {"absent", "managed", "other", "torn"}
  BY DEF Calls, local, IInv, RestOK
<1> QED
  BY <1>2, <1>5, <1>6, RememberKeeps DEF Calls, local, Where

LEMMA ReadFailsKeeps ==
    ASSUME IInv, NEW p \in Proc, pc[p] \in Reading, ReadFails(p), Calls
    PROVE  IInv'
<1>1. Fits(pc[p], job[p]) /\ job[p] \in Job
  BY DEF IInv, JobsOK, Fits, Reading
<1>2. CASE Goto(p, "idle") /\ Remember(p, NoJob)
  <2>1. Fits("idle", NoJob)
    BY DEF Fits, Reading
  <2>2. file' = file /\ file \in {"absent", "managed", "other", "torn"}
    BY DEF Calls, local, IInv, RestOK
  <2> QED
    BY <1>2, <2>1, <2>2, RememberKeeps DEF Calls, local, Where
<1>3. CASE Ends(p, IF job[p].round = "first" THEN "CONFLICT" ELSE "PARTIAL", job[p].sent, FALSE)
  <2> DEFINE status == IF job[p].round = "first" THEN "CONFLICT" ELSE "PARTIAL"
  <2>1. status \in {"CONFLICT", "PARTIAL"} /\ (status = "CONFLICT" => ~job[p].sent)
    BY <1>1 DEF Fits
  <2>2. job[p].sent \in BOOLEAN
    BY <1>1 DEF Job
  <2>3. Ends(p, status, job[p].sent, FALSE)
    BY <1>3
  <2> HIDE DEF status
  <2> QED
    BY <2>1, <2>2, <2>3, EndsKeeps DEF Calls
<1> QED
  BY <1>2, <1>3 DEF ReadFails

LEMMA ReadKeeps ==
    ASSUME IInv, NEW p \in Proc,
           ReadRepository(p) \/ ReadRulesets(p) \/ ReadEffective(p) \/ Answered(p)
    PROVE  IInv'
<1>a. PICK j : j = job[p]
  OBVIOUS
<1>0. /\ pc[p] \in Reading /\ Calls /\ Fits(pc[p], j) /\ j \in Job
      /\ file' = file /\ base' = base /\ file \in {"absent", "managed", "other", "torn"}
  <2>1. pc[p] \in Reading /\ Calls
    BY DEF ReadRepository, ReadRulesets, ReadEffective, Answered, At, Calls, Reading
  <2> QED
    BY <1>a, <2>1 DEF IInv, JobsOK, RestOK, Fits, Calls, local, Reading
<1>1. CASE ReadFails(p)
  BY <1>0, <1>1, ReadFailsKeeps
<1>2. CASE ReadRepository(p) /\ ~ReadFails(p)
  <2> DEFINE s == [j EXCEPT !.settings = settings, !.head = head]
  <2>1. /\ s \in Job /\ s.round = j.round /\ s.sent = j.sent /\ s.calm = j.calm
        /\ s.ruleset = j.ruleset
    BY <1>0 DEF Job, IInv, RestOK
  <2>2. Goto(p, "rulesets") /\ Remember(p, s)
    BY <1>a, <1>2 DEF ReadRepository
  <2> HIDE DEF s
  <2>3. Fits("rulesets", s)
    BY <1>0, <2>1 DEF Fits, Reading
  <2> QED
    BY <1>0, <2>2, <2>3, RememberKeeps DEF Calls, Where
<1>3. CASE ReadRulesets(p) /\ ~ReadFails(p)
  <2>1. j.head \in 1..MaxPush
    BY <1>a, <1>3 DEF ReadRulesets, IInv, RestOK
  <2>2. PICK one : one = CHOOSE i \in Named : TRUE
    OBVIOUS
  <2>3. PICK s : s = IF Named = {} THEN j ELSE [j EXCEPT !.id = one, !.ruleset = rulesets[one]]
    OBVIOUS
  <2>4. Named # {} => one \in Id /\ rulesets[one] \in Ruleset
    <3>1. Named # {} => one \in Named
      BY <2>2
    <3> QED
      BY <3>1, NamedType DEF IInv, RestOK
  <2>5. /\ s \in Job /\ s.round = j.round /\ s.sent = j.sent /\ s.calm = j.calm
        /\ s.head = j.head
        /\ s.ruleset = "desired" => j.ruleset = "desired" \/ Protected
    <3>1. CASE Named = {}
      BY <1>0, <2>3, <3>1
    <3>2. CASE Named # {}
      <4>1. s = [j EXCEPT !.id = one, !.ruleset = rulesets[one]]
        BY <2>3, <3>2
      <4>2. rulesets[one] = "desired" => Protected
        BY <2>4, <3>2 DEF Protected
      <4> QED
        BY <1>0, <2>4, <3>2, <4>1, <4>2 DEF Job
    <3> QED
      BY <3>1, <3>2
  <2>6. Fits("effective", s)
    BY <1>0, <2>1, <2>5 DEF Fits, Reading
  <2>7. Goto(p, "effective") /\ Remember(p, s)
    BY <1>a, <1>3, <2>2, <2>3 DEF ReadRulesets
  <2> QED
    BY <1>0, <2>6, <2>7, RememberKeeps DEF Calls, Where
<1>4. CASE ReadEffective(p) /\ ~ReadFails(p)
  <2>1. PICK s : s = [j EXCEPT !.ready = gateReady]
    OBVIOUS
  <2>2. Decide(p, s)
    BY <1>a, <1>4, <2>1 DEF ReadEffective
  <2>3. PICK ready \in BOOLEAN : ready = gateReady
    BY DEF gateReady
  <2>4. /\ s \in Job /\ s.ready = ready /\ s.round = j.round /\ s.sent = j.sent
        /\ s.calm = j.calm /\ s.ruleset = j.ruleset /\ s.head = j.head
    BY <1>0, <2>1, <2>3 DEF Job
  <2>5. Seen(s)
    BY <1>0, <2>3, <2>4 DEF Seen, Fits, gateReady, InForce, Protected
  <2>6. s.head \in 1..MaxPush /\ (s.round \in {"plan", "first"} => ~s.sent)
    BY <1>0, <1>4, <2>4 DEF Fits, ReadEffective, At
  <2> QED
    BY <1>0, <2>2, <2>5, <2>6, DecideKeeps
<1>5. CASE Answered(p)
  BY <1>a, <1>0, <1>5, StartKeeps DEF Answered, Job
<1> QED
  BY <1>1, <1>2, <1>3, <1>4, <1>5

LEMMA BeginKeeps ==
    ASSUME IInv, NEW p \in Proc, Begin(p) \/ Step(p) \/ Crash(p)
    PROVE  IInv'
<1>1. CASE StartPlan(p) \/ StartApply(p)
  BY <1>1, StartKeeps DEF StartPlan, StartApply, At, Calls, IInv, RestOK
<1>2. CASE Refuse(p)
  BY <1>2, EndsKeeps DEF Refuse, At
<1>3. CASE Crash(p)
  <2>1. Fits("idle", NoJob)
    BY DEF Fits, Reading
  <2>2. file' = file /\ file \in {"absent", "managed", "other", "torn"}
    BY <1>3 DEF Crash, local, IInv, RestOK
  <2> QED
    BY <1>3, <2>1, <2>2, RememberKeeps DEF Crash, local, Where
<1> QED
  BY <1>1, <1>2, <1>3, FileKeeps, ReadKeeps DEF Begin, Step

-----------------------------------------------------------------------------
(* GitHub and people. *)

\* A step that leaves the processes alone and only strengthens the gate.
LEMMA OutsideKeeps ==
    ASSUME IInv, RestOK', UNCHANGED <<pc, job, result, rival>>, flight' \subseteq flight,
           Protected => Protected', settings = Setting => settings' = Setting
    PROVE  IInv'
<1>1. JobsOK'
  BY DEF IInv, JobsOK, Fits
<1>2. ReportsTrue' /\ AutoMergeGuarded'
  BY DEF IInv, ReportsTrue, CompleteIsGated, ConflictUntouched, AutoMergeGuarded
<1> QED
  BY <1>1, <1>2 DEF IInv

LEMMA TouchedKeeps ==
    ASSUME IInv, Touched, rulesets' \in [Id -> Ruleset], settings' \subseteq Setting,
           rival' \in BOOLEAN
    PROVE  IInv'
<1>1. \A p \in Proc : /\ result'[p] \in Ended /\ ~result'[p].calm
                      /\ result'[p].status = result[p].status
                      /\ result'[p].sent = result[p].sent
  BY DEF Touched, IInv, RestOK, Ended
<1>2. \A r \in flight' : r \in Request /\ ~r.calm
  BY DEF Touched, IInv, RestOK, Request
<1>3. RestOK'
  <2>1. result' \in [Proc -> Ended]
    <3>1. PICK f : f = [p \in Proc |-> [result[p] EXCEPT !.calm = FALSE]]
      OBVIOUS
    <3>2. result' = f
      BY <3>1 DEF Touched
    <3> QED
      BY <1>1, <3>1, <3>2
  <2>2. edits' \in 0..MaxEdits
    BY GateAssumption DEF Touched, IInv, RestOK
  <2> QED
    BY <1>2, <2>1, <2>2 DEF Touched, IInv, RestOK, local
<1>4. JobsOK'
  <2>1. ASSUME NEW p \in Proc
        PROVE  /\ pc[p] \in Reading => job'[p] = [job[p] EXCEPT !.calm = FALSE]
               /\ pc[p] \notin Reading => job'[p] = job[p]
    BY DEF Touched, Reading
  <2>2. ASSUME NEW p \in Proc
        PROVE  /\ Fits(pc[p], job[p])'
               /\ job'[p] \in Job \cup Draft \cup {NoJob}
    <3>1. PICK j : j = job[p]
      OBVIOUS
    <3>2. Fits(pc[p], j) /\ pc' = pc
      BY <3>1 DEF IInv, JobsOK, Touched
    <3>3. CASE pc[p] \notin Reading
      BY <2>1, <3>1, <3>2, <3>3 DEF Fits, IInv, JobsOK, Reading
    <3>4. CASE pc[p] \in Reading
      <4>1. PICK s : s = [j EXCEPT !.calm = FALSE]
        OBVIOUS
      <4>2. j \in Job
        BY <3>2, <3>4 DEF Fits, Reading
      <4>3. /\ s \in Job /\ s.head = j.head /\ s.round = j.round /\ s.sent = j.sent /\ ~s.calm
        BY <4>1, <4>2 DEF Job
      <4>4. job'[p] = s
        BY <2>1, <3>1, <3>4, <4>1
      <4> QED
        BY <3>2, <3>4, <4>3, <4>4 DEF Fits, Reading
    <3> QED
      BY <3>3, <3>4
  <2>3. job' \in [Proc -> Job \cup Draft \cup {NoJob}]
    <3>1. PICK f : f = job'
      OBVIOUS
    <3>2. DOMAIN f = Proc /\ f = [p \in DOMAIN f |-> f[p]]
      BY <3>1 DEF Touched
    <3> QED
      BY <2>2, <3>1, <3>2
  <2> QED
    BY <2>2, <2>3 DEF Touched, IInv, JobsOK
<1>5. ReportsTrue' /\ AutoMergeGuarded'
  BY <1>1, <1>2 DEF IInv, ReportsTrue, CompleteIsGated, ConflictUntouched, AutoMergeGuarded
<1> QED
  BY <1>3, <1>4, <1>5 DEF IInv

LEMMA NextKeeps == IInv /\ [Next]_vars => IInv'
<1> SUFFICES ASSUME IInv, [Next]_vars PROVE IInv'
  OBVIOUS
<1>1. ASSUME NEW p \in Proc, Begin(p) \/ Step(p) \/ Crash(p) PROVE IInv'
  BY <1>1, BeginKeeps
<1>2. ASSUME NEW r \in flight, Land(r) PROVE IInv'
  <2>1. RestOK'
    BY <1>2, LandStrengthens DEF Land, IInv, RestOK, local
  <2> QED
    BY <1>2, <2>1, LandStrengthens, OutsideKeeps DEF Land, IInv
<1>3. ASSUME NEW r \in flight, Lose(r) PROVE IInv'
  <2>1. RestOK'
    BY <1>3, FaultsType DEF Lose, IInv, RestOK, local, github
  <2> QED
    BY <1>3, <2>1, ProtectedKept, OutsideKeeps DEF Lose, github
<1>4. CASE EditRuleset \/ EditSettings \/ EditRival
  <2>1. /\ rulesets' \in [Id -> Ruleset] /\ settings' \subseteq Setting /\ rival' \in BOOLEAN
    BY <1>4, NamedType DEF EditRuleset, EditSettings, EditRival, IInv, RestOK
  <2> QED
    BY <1>4, <2>1, TouchedKeeps DEF EditRuleset, EditSettings, EditRival
<1>5. CASE EditFile
  <2>1. RestOK'
    BY <1>5, GateAssumption DEF EditFile, IInv, RestOK, github
  <2> QED
    BY <1>5, <2>1, ProtectedKept, OutsideKeeps DEF EditFile, github
<1>6. CASE Push \/ CheckPasses
  <2>0. /\ MaxPush \in Nat /\ head \in 0..MaxPush /\ published \in 0..head
        /\ passed \subseteq 1..MaxPush
    BY GateAssumption DEF IInv, RestOK
  <2>1. /\ head' \in 0..MaxPush /\ published' \in 0..head' /\ passed' \subseteq 1..MaxPush
        /\ UNCHANGED <<rulesets, rival, settings, local, draft, plan, flight, result, faults, edits>>
    <3>1. CASE Push
      BY <2>0, <3>1 DEF Push
    <3>2. CASE CheckPasses
      <4>1. head \in 1..MaxPush
        BY <2>0, <3>2 DEF CheckPasses
      <4> QED
        BY <2>0, <3>2, <4>1 DEF CheckPasses
    <3> QED
      BY <1>6, <3>1, <3>2
  <2>2. RestOK'
    BY <2>1 DEF IInv, RestOK, local
  <2> QED
    BY <1>6, <2>2, ProtectedKept, OutsideKeeps DEF Push, CheckPasses
<1>7. CASE Pull
  <2>1. RestOK'
    BY <1>7 DEF Pull, IInv, RestOK, github
  <2> QED
    BY <1>7, <2>1, ProtectedKept, OutsideKeeps DEF Pull, github
<1>8. CASE UNCHANGED vars
  <2>1. RestOK'
    BY <1>8 DEF vars, github, local, IInv, RestOK
  <2> QED
    BY <1>8, <2>1, ProtectedKept, OutsideKeeps DEF vars, github
<1> QED
  BY <1>1, <1>2, <1>3, <1>4, <1>5, <1>6, <1>7, <1>8 DEF Next

LEMMA InitInv == Init => IInv
<1> SUFFICES ASSUME Init PROVE IInv
  OBVIOUS
<1>1. RestOK
  <2>1. rulesets \in [Id -> Ruleset] /\ result \in [Proc -> Ended] /\ settings \subseteq Setting
    BY DEF Init, Ruleset, Ended, Setting
  <2>2. /\ head \in 0..MaxPush /\ published \in 0..head /\ base \in 0..MaxPush
        /\ faults \in 0..MaxFaults /\ edits \in 0..MaxEdits
    BY GateAssumption DEF Init
  <2>3. rival \in BOOLEAN /\ passed = {} /\ flight = {} /\ draft = NoPlan /\ plan = NoPlan
    BY DEF Init
  <2>4. file \in {"absent", "managed", "other", "torn"}
    BY DEF Init
  <2> QED
    BY <2>1, <2>2, <2>3, <2>4 DEF RestOK
<1>2. JobsOK
  BY DEF Init, JobsOK, Fits, Reading, Where
<1> QED
  BY <1>1, <1>2 DEF Init, IInv, ReportsTrue, CompleteIsGated, ConflictUntouched, AutoMergeGuarded

LEMMA Invariant == Spec => []IInv
BY InitInv, NextKeeps, PTL DEF Spec

-----------------------------------------------------------------------------
(* The theorems. *)

\* Every variable keeps its type: a process remembers a draft while it handles
\* the workflow file and a job while it handles the settings of GitHub.
THEOREM Typing == Spec => []TypeOK
BY Invariant, InvTyped, PTL

\* COMPLETE is only reported of a gate that is in force, and CONFLICT only by an
\* apply that wrote nothing, whatever is lost, late or changed between the reads
\* that applyDeliveryGatePlan puts its verdict together from.
THEOREM ReportsAreTrue == Spec => []ReportsTrue
<1>1. IInv => ReportsTrue
  BY DEF IInv
<1> QED
  BY <1>1, Invariant, PTL

\* A write that enables auto-merge never travels without the ruleset in force,
\* unless people touched the gate after it was read.
THEOREM RulesetFirst == Spec => []AutoMergeGuarded
<1>1. IInv => AutoMergeGuarded
  BY DEF IInv
<1> QED
  BY <1>1, Invariant, PTL
=============================================================================
