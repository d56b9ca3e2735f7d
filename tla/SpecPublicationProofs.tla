------------------------ MODULE SpecPublicationProofs ------------------------
(***************************************************************************)
(* Theorems about SpecPublication, for any number of processes, approvals, *)
(* issues and faults.                                                      *)
(***************************************************************************)
EXTENDS SpecPublication, FiniteSetTheorems, TLAPS

-----------------------------------------------------------------------------
(* The inductive invariant. *)

(* Where a command has looked at the approvals that were consumed. *)
Looked == Applying \ {"resume", "authorize"}

(* What a command may rely on at each of its steps, whatever happened since *)
(* it read the Case and the tracker.                                        *)
Sound(r) ==
  /\ r.pc \in Places /\ r \in Run(r.pc)
  /\ ~overlapped /\ r.pc \in Looked => consumed \subseteq {r.approval}
  /\ ~late /\ ~overlapped /\ r.pc = "create" => issues = <<>>
  /\ r.pc = "accept" => spec # NoBinding \/ cleared
  /\ r.pc \in {"reread", "final", "consume"} => accepted
  /\ r.pc = "consume" => issues # <<>>

Busy(p) == run[p].pc \in Applying

RunsOK ==
  /\ run = [p \in Procs |-> run[p]]
  /\ \A p \in Procs : Sound(run[p])
  /\ ~overlapped => \A p, q \in Procs : Busy(p) /\ Busy(q) => p = q

CaseOK ==
  /\ evidence \subseteq Artifacts
  /\ given \in Seq(0 .. MaxTime) /\ Len(given) <= MaxApprovals
  /\ consumed \subseteq Approvals
  /\ accepted \in BOOLEAN /\ conflict \in BOOLEAN
  /\ overlapped \in BOOLEAN /\ late \in BOOLEAN /\ cleared \in BOOLEAN
  /\ spec # NoBinding => spec \in [issue : DOMAIN issues, rev : 0 .. MaxFaults,
                                 by : Approvals]
  /\ outcome \in {"none", "other"}
  /\ issues \in Seq([exact : BOOLEAN, rev : 0 .. MaxFaults])
  /\ \A i \in DOMAIN issues : issues[i].rev <= faults
  /\ posted \in Nat /\ Len(issues) + posted <= MaxIssues
  /\ clock \in 0 .. MaxTime /\ faults \in 0 .. MaxFaults

(* What the Case and the tracker say together. *)
Consistent ==
  /\ ~late => posted = 0
  /\ Len(issues) > 1 => late \/ overlapped
  /\ accepted /\ spec = NoBinding => cleared
  /\ consumed # {} => accepted /\ issues # <<>>
  /\ ~overlapped => \A a, b \in consumed : a = b

IInv == CaseOK /\ RunsOK /\ Consistent

(***************************************************************************)
(* Types.                                                                  *)
(***************************************************************************)
LEMMA PlacesType ==
  /\ Looked \subseteq Applying /\ Applying \subseteq Places
  /\ "idle" \in Places \ Applying /\ "record" \in Places \ Applying
  /\ "grant" \in Places \ Applying
BY DEF Looked, Applying, Places

LEMMA RunType ==
  ASSUME NEW pc \in Places, NEW r \in Run(pc)
  PROVE  r.pc = pc
BY DEF Run, Places, Applying

LEMMA InvTyped == IInv => TypeOK
<1> SUFFICES ASSUME IInv PROVE TypeOK
  OBVIOUS
<1>1. \A p \in Procs : run[p] \in UNION {Run(pc) : pc \in Places}
  BY DEF IInv, RunsOK, Sound
<1>2. run \in [Procs -> UNION {Run(pc) : pc \in Places}]
  <2>1. PICK S : S = UNION {Run(pc) : pc \in Places}
    OBVIOUS
  <2>2. run \in [Procs -> S]
    BY <1>1, <2>1 DEF IInv, RunsOK
  <2> QED
    BY <2>1, <2>2
<1> QED
  BY <1>2 DEF IInv, CaseOK, TypeOK

(***************************************************************************)
(* What a command relies on outlives the steps of the others.              *)
(***************************************************************************)
Grown ==
  /\ Approvals \subseteq Approvals' /\ DOMAIN issues \subseteq (DOMAIN issues)'
  /\ overlapped => overlapped'
  /\ late => late'
  /\ accepted => accepted'
  /\ spec # NoBinding \/ cleared => spec' # NoBinding \/ cleared'
  /\ issues # <<>> => issues' # <<>>

LEMMA RunsGrow ==
  ASSUME Grown, NEW pc \in Places, NEW r \in Run(pc)
  PROVE  r \in Run(pc)'
BY DEF Grown, Run

LEMMA SoundKept ==
  ASSUME Grown, NEW r, Sound(r), overlapped \in BOOLEAN, overlapped' \in BOOLEAN,
         late \in BOOLEAN, late' \in BOOLEAN,
         \/ r.pc \notin Applying
         \/ overlapped
         \/ consumed' = consumed /\ (late' \/ (issues = <<>> => issues' = <<>>))
  PROVE  Sound(r)'
<1>1. r.pc \in Places /\ r \in Run(r.pc)'
  BY RunsGrow DEF Sound
<1>2. ~overlapped' /\ r.pc \in Looked => consumed' \subseteq {r.approval}
  BY PlacesType DEF Sound, Grown
<1>3. ~late' /\ ~overlapped' /\ r.pc = "create" => issues' = <<>>
  BY DEF Sound, Grown, Applying
<1> QED
  BY <1>1, <1>2, <1>3 DEF Sound, Grown

(* A process that moves to r, beside the others. *)
LEMMA MoveKeeps ==
  ASSUME CaseOK, CaseOK', RunsOK, NEW p \in Procs, NEW r, Sound(r)',
         run' = [run EXCEPT ![p] = r], Grown, overlapped' = overlapped,
         r.pc \in Applying => Busy(p),
         \/ Busy(p) /\ ~overlapped
         \/ overlapped
         \/ consumed' = consumed /\ (late' \/ (issues = <<>> => issues' = <<>>))
  PROVE  RunsOK'
<1>1. \A q \in Procs : run'[q] = IF q = p THEN r ELSE run[q]
  BY DEF RunsOK
<1>2. ASSUME NEW q \in Procs, q # p PROVE Sound(run[q])'
  <2>1. PICK s : s = run[q] /\ s = run'[q]
    BY <1>1, <1>2
  <2>2. Sound(s)
    BY <2>1 DEF RunsOK
  <2>3. s.pc \notin Applying \/ overlapped
        \/ (consumed' = consumed /\ (late' \/ (issues = <<>> => issues' = <<>>)))
    BY <1>2, <2>1 DEF RunsOK, Busy
  <2>4. Sound(s)'
    BY <2>2, <2>3, SoundKept DEF CaseOK
  <2> QED
    BY <2>1, <2>4
<1>3. Sound(run[p])'
  <2>1. run'[p] = r
    BY <1>1
  <2> QED
    BY <2>1
<1>4. \A q \in Procs : Busy(q)' => Busy(q)
  BY <1>1 DEF Busy
<1>5. run' = [q \in Procs |-> run'[q]]
  BY DEF RunsOK
<1> QED
  BY <1>2, <1>3, <1>4, <1>5 DEF RunsOK

(* A step outside the processes. *)
LEMMA OutsideKeeps ==
  ASSUME CaseOK, CaseOK', RunsOK, Grown, UNCHANGED <<run, overlapped, consumed>>,
         late' \/ (issues = <<>> => issues' = <<>>)
  PROVE  RunsOK'
<1>1. ASSUME NEW q \in Procs PROVE Sound(run[q])'
  <2>1. PICK s : s = run[q] /\ s = run'[q]
    OBVIOUS
  <2>2. Sound(s)'
    BY <2>1, SoundKept DEF RunsOK, CaseOK
  <2> QED
    BY <2>1, <2>2
<1> QED
  BY <1>1 DEF RunsOK, Busy

(***************************************************************************)
(* The steps of a command.                                                 *)
(***************************************************************************)
LEMMA IdleSound == Idle.pc = "idle" /\ Sound(Idle)
BY DEF Idle, Sound, Run, Places, Applying, Looked

(* A step after which the Case and the tracker say what they said before.  *)
LEMMA QuietKeeps ==
  ASSUME IInv, CaseOK', NEW p \in Procs, NEW r, Sound(r), run' = [run EXCEPT ![p] = r],
         UNCHANGED <<given, consumed, accepted, spec, tracker, history>>,
         r.pc \in Applying => Busy(p)
  PROVE  IInv'
<1>1. Sound(r)'
  BY DEF Sound, Run, Approvals, tracker, history
<1>2. Grown
  BY DEF Grown, Approvals, tracker, history
<1>3. RunsOK'
  BY <1>1, <1>2, MoveKeeps DEF IInv, tracker, history
<1> QED
  BY <1>3 DEF IInv, Consistent, tracker, history

LEMMA EndsKeeps ==
  ASSUME IInv, CaseOK', NEW p \in Procs, Ends(p),
         UNCHANGED <<given, consumed, accepted, spec, tracker, history>>
  PROVE  IInv'
<1>1. Idle.pc \notin Applying
  BY IdleSound DEF Applying
<1> QED
  BY <1>1, IdleSound, QuietKeeps DEF Ends

LEMMA CaseKept ==
  ASSUME CaseOK, UNCHANGED <<case, tracker, clock, faults, history>>, conflict' \in BOOLEAN
  PROVE  CaseOK'
BY DEF CaseOK, Approvals, case, tracker, history

LEMMA FaultsType ==
  ASSUME CaseOK, Interfere
  PROVE  faults' \in 0 .. MaxFaults /\ faults' = faults + 1 /\ faults \in Nat
BY PublicationAssumption DEF CaseOK, Interfere

LEMMA StepSound ==
  ASSUME IInv, NEW p \in Procs
  PROVE  Sound(run[p]) /\ run[p].pc \in Places /\ run[p] \in Run(run[p].pc)
BY DEF IInv, RunsOK, Sound

LEMMA BuildKeeps ==
  ASSUME IInv, NEW p \in Procs, Build(p) \/ Record(p) \/ Approve(p) \/ Grant(p)
  PROVE  IInv'
<1>1. CASE Build(p)
  <2>1. Sound([pc |-> "record"]) /\ [pc |-> "record"].pc = "record"
    BY DEF Sound, Run, Places, Applying, Looked
  <2>2. CaseOK'
    BY <1>1, CaseKept DEF Build, IInv, CaseOK
  <2> QED
    BY <1>1, <2>1, <2>2, PlacesType, QuietKeeps DEF Build, case, history
<1>2. CASE Record(p)
  <2>1. CASE Ends(p) /\ UNCHANGED evidence
    <3>1. CaseOK'
      BY <1>2, <2>1, CaseKept DEF Record, IInv, CaseOK, case
    <3> QED
      BY <1>2, <2>1, <3>1, EndsKeeps DEF Record, history
  <2>2. CASE evidence # Artifacts /\ evidence' = evidence \cup {NextArtifact} /\ UNCHANGED run
    <3>1. evidence \subseteq Artifacts
      BY DEF IInv, CaseOK
    <3>2. \E a \in Artifacts \ evidence : \/ a = "context"
                                          \/ a = "draft" /\ "context" \in evidence
                                          \/ a = "plan" /\ {"context", "draft"} \subseteq evidence
      BY <2>2, <3>1 DEF Artifacts
    <3>3. NextArtifact \in Artifacts
      BY <3>2 DEF NextArtifact
    <3>4. CaseOK'
      BY <1>2, <2>2, <3>1, <3>3 DEF Record, IInv, CaseOK, Approvals, tracker, history
    <3>5. run' = [run EXCEPT ![p] = run[p]]
      BY <2>2 DEF IInv, RunsOK
    <3> QED
      BY <1>2, <3>4, <3>5, StepSound, QuietKeeps DEF Record, Busy
  <2> QED
    BY <1>2, <2>1, <2>2 DEF Record
<1>3. CASE Approve(p)
  <2> DEFINE r == [pc |-> "grant", now |-> clock]
  <2>1. Sound(r) /\ r.pc = "grant"
    BY DEF Sound, Run, Places, Applying, Looked, IInv, CaseOK
  <2>2. CaseOK'
    BY <1>3, CaseKept DEF Approve, IInv, CaseOK
  <2>3. run' = [run EXCEPT ![p] = r]
    BY <1>3 DEF Approve
  <2> HIDE DEF r
  <2> QED
    BY <1>3, <2>1, <2>2, <2>3, PlacesType, QuietKeeps DEF Approve, case, history
<1>4. CASE Grant(p)
  <2>1. run[p].now \in 0 .. MaxTime
    BY <1>4, StepSound DEF Grant, Run
  <2>2. CASE UNCHANGED given
    <3>1. CaseOK'
      BY <1>4, <2>2, CaseKept DEF Grant, IInv, CaseOK, case
    <3> QED
      BY <1>4, <2>2, <3>1, EndsKeeps DEF Grant, history
  <2>3. CASE Len(given) < MaxApprovals /\ given' = Append(given, run[p].now)
    <3>1. given \in Seq(0 .. MaxTime) /\ Len(given) \in Nat
      BY DEF IInv, CaseOK
    <3>2. /\ given' \in Seq(0 .. MaxTime) /\ Len(given') = Len(given) + 1
          /\ DOMAIN given = 1 .. Len(given) /\ DOMAIN given' = 1 .. Len(given')
      BY <2>1, <2>3, <3>1
    <3>3. Len(given') <= MaxApprovals /\ Approvals \subseteq Approvals'
      BY <2>3, <3>1, <3>2, PublicationAssumption DEF Approvals
    <3>4. CaseOK'
      BY <1>4, <3>2, <3>3 DEF Grant, IInv, CaseOK, tracker, history
    <3>5. Grown
      BY <1>4, <3>3 DEF Grant, Grown, tracker, history
    <3>6. Sound(Idle)'
      BY IdleSound, <3>5, SoundKept, PlacesType, <3>4 DEF IInv, CaseOK
    <3>7. Idle.pc \notin Applying
      BY IdleSound, PlacesType
    <3>8. RunsOK'
      BY <1>4, <3>4, <3>5, <3>6, <3>7, MoveKeeps DEF Grant, Ends, IInv, tracker, history
    <3> QED
      BY <1>4, <3>4, <3>8 DEF Grant, IInv, Consistent, tracker, history
  <2> QED
    BY <1>4, <2>2, <2>3 DEF Grant
<1> QED
  BY <1>1, <1>2, <1>3, <1>4

(* A command that only looks, and goes on with what it may rely on now. *)
LEMMA LookKeeps ==
  ASSUME IInv, NEW p \in Procs, NEW r, Sound(r), run' = [run EXCEPT ![p] = r],
         UNCHANGED <<case, tracker, clock, faults, history>>, conflict' \in BOOLEAN,
         r.pc \in Applying => Busy(p)
  PROVE  IInv'
BY CaseKept, QuietKeeps DEF IInv, case

LEMMA StopKeeps ==
  ASSUME IInv, NEW p \in Procs, Ends(p),
         UNCHANGED <<case, tracker, clock, faults, history>>, conflict' \in BOOLEAN
  PROVE  IInv'
BY CaseKept, EndsKeeps DEF IInv, case

LEMMA LaunchKeeps ==
  ASSUME IInv, NEW p \in Procs, NEW a \in Approvals, Launch(p, a)
  PROVE  IInv'
<1>1. PICK r : r = [pc |-> "resume", approval |-> a, now |-> clock]
  OBVIOUS
<1>2. run' = [run EXCEPT ![p] = r] /\ r.pc = "resume" /\ clock \in 0 .. MaxTime
  BY <1>1 DEF Launch, IInv, CaseOK
<1>3. Sound(r)
  BY <1>1, <1>2 DEF Sound, Run, Places, Applying, Looked
<1>4. CaseOK'
  BY DEF Launch, IInv, CaseOK, Approvals, case, tracker
<1>5. Grown
  BY DEF Launch, Grown, Approvals, case, tracker, IInv, CaseOK
<1>6. ASSUME NEW s, Sound(s) PROVE Sound(s)'
  BY <1>4, <1>5, <1>6, SoundKept DEF Launch, IInv, CaseOK, case, tracker
<1>7. \A q \in Procs : run'[q] = IF q = p THEN r ELSE run[q]
  BY <1>2 DEF IInv, RunsOK
<1>8. ASSUME NEW q \in Procs PROVE Sound(run[q])'
  <2>1. PICK s : s = run'[q]
    OBVIOUS
  <2>2. Sound(s)
    BY <1>3, <1>7, <2>1 DEF IInv, RunsOK
  <2> QED
    BY <1>6, <2>1, <2>2
<1>9. ~overlapped' => \A q \in Procs \ {p} : ~Busy(q)'
  BY <1>7 DEF Launch, Busy, IInv, CaseOK
<1>10. RunsOK'
  BY <1>2, <1>8, <1>9 DEF IInv, RunsOK
<1> QED
  BY <1>4, <1>10 DEF Launch, IInv, Consistent, case, tracker, CaseOK

LEMMA AuthorizeKeeps ==
  ASSUME IInv, NEW p \in Procs, Resume(p) \/ Authorize(p)
  PROVE  IInv'
<1>a. PICK r : r = run[p]
  OBVIOUS
<1>0. /\ Busy(p) /\ UNCHANGED <<case, tracker, conflict, clock, faults, history>>
      /\ Sound(r) /\ r \in Run(r.pc) /\ r.pc \in {"resume", "authorize"} /\ conflict' \in BOOLEAN
  BY <1>a, StepSound DEF Resume, Authorize, Busy, Applying, IInv, CaseOK
<1>1. r \in [pc : {r.pc}, approval : Approvals, now : 0 .. MaxTime]
  BY <1>0 DEF Run
<1>2. CASE Ends(p)
  BY <1>0, <1>2, StopKeeps
<1>3. CASE Resume(p) /\ Goes(p, "authorize")
  <2>1. PICK s : s = [r EXCEPT !.pc = "authorize"]
    OBVIOUS
  <2>2. s \in [pc : {"authorize"}, approval : Approvals, now : 0 .. MaxTime]
    BY <1>1, <2>1
  <2>3. Sound(s) /\ s.pc = "authorize"
    BY <2>2 DEF Sound, Run, Places, Applying, Looked
  <2>4. run' = [run EXCEPT ![p] = s]
    BY <1>a, <1>3, <2>1 DEF Goes
  <2> QED
    BY <1>0, <2>3, <2>4, LookKeeps
<1>4. CASE /\ Authorize(p) /\ Authorized(r.approval, r.now)
           /\ run' = [run EXCEPT ![p] = [pc |-> "find", approval |-> r.approval,
                                         pending |-> ~accepted]]
  <2>1. PICK s : s = [pc |-> "find", approval |-> r.approval, pending |-> ~accepted]
    OBVIOUS
  <2>2. s \in [pc : {"find"}, approval : Approvals, pending : BOOLEAN]
    BY <1>1, <2>1
  <2>3. consumed \subseteq {r.approval}
    BY <1>4 DEF Authorized, Competing, IInv, CaseOK
  <2>4. s.pc = "find" /\ s.approval = r.approval
    BY <2>1
  <2>5. Sound(s)
    BY <2>2, <2>3, <2>4 DEF Sound, Run, Places, Applying, Looked
  <2> QED
    BY <1>0, <1>4, <2>1, <2>4, <2>5, LookKeeps
<1> QED
  BY <1>a, <1>2, <1>3, <1>4 DEF Resume, Authorize

(* From here on the command has looked. *)
LEMMA GoesSound ==
  ASSUME IInv, NEW p \in Procs, run[p].pc \in Looked, NEW s, s.approval = run[p].approval,
         s.pc \in Looked, s \in Run(s.pc),
         ~late /\ ~overlapped /\ s.pc = "create" => issues = <<>>,
         s.pc = "accept" => spec # NoBinding \/ cleared,
         s.pc \in {"reread", "final", "consume"} => accepted,
         s.pc = "consume" => issues # <<>>
  PROVE  Sound(s) /\ Busy(p)
<1>1. Sound(run[p])
  BY StepSound
<1>2. run[p].pc \in Applying /\ s.pc \in Places
  BY PlacesType
<1> QED
  BY <1>1, <1>2 DEF Sound, Busy

LEMMA OneIssue ==
  ASSUME CaseOK, Cardinality(DOMAIN issues) = 1
  PROVE  1 \in DOMAIN issues
<1>1. Len(issues) \in Nat /\ DOMAIN issues = 1 .. Len(issues)
  BY DEF CaseOK
<1>2. PICK n \in Nat : n = Len(issues)
  BY <1>1
<1>3. Cardinality(1 .. n) = IF 1 > n THEN 0 ELSE n - 1 + 1
  BY FS_Interval
<1> QED
  BY <1>1, <1>2, <1>3

LEMMA IssueType ==
  ASSUME CaseOK, NEW i \in DOMAIN issues
  PROVE  issues[i] \in [exact : BOOLEAN, rev : 0 .. MaxFaults]
<1>1. PICK S : S = [exact : BOOLEAN, rev : 0 .. MaxFaults]
  OBVIOUS
<1>2. issues \in Seq(S)
  BY <1>1 DEF CaseOK
<1>3. issues[i] \in S
  BY <1>2
<1> QED
  BY <1>1, <1>3

LEMMA LookingKeeps ==
  ASSUME IInv, NEW p \in Procs,
         Find(p) \/ Read(p) \/ Look(p) \/ Reread(p) \/ Final(p)
  PROVE  IInv'
<1>a. PICK r : r = run[p]
  OBVIOUS
<1>0. /\ r.pc \in {"find", "read", "look", "reread", "final"} /\ run[p].pc \in Looked
      /\ UNCHANGED <<case, tracker, clock, faults, history>> /\ conflict' \in BOOLEAN
      /\ Sound(r) /\ r \in Run(r.pc) /\ CaseOK
  BY <1>a, StepSound DEF Find, Read, Look, Reread, Final, Looked, Applying, IInv, CaseOK
<1>1. CASE Ends(p)
  BY <1>0, <1>1, StopKeeps
<1>2. CASE Find(p) /\ ~Ends(p)
  <2>0. r \in [pc : {"find"}, approval : Approvals, pending : BOOLEAN]
    BY <1>0, <1>a, <1>2 DEF Find, Run
  <2>1. CASE /\ Cardinality(Found) = 1
             /\ run' = [run EXCEPT ![p] = [pc |-> "read", approval |-> r.approval,
                                           pending |-> r.pending, issue |-> 1]]
    <3>1. PICK s : s = [pc |-> "read", approval |-> r.approval, pending |-> r.pending,
                        issue |-> 1]
      OBVIOUS
    <3>2. s \in Run("read") /\ s.pc = "read" /\ s.approval = r.approval
      BY <1>0, <2>0, <2>1, <3>1, OneIssue DEF Run, Found
    <3>3. Sound(s) /\ Busy(p)
      BY <1>a, <1>0, <3>2, GoesSound DEF Looked, Applying
    <3> QED
      BY <1>0, <2>1, <3>1, <3>3, LookKeeps
  <2>2. CASE Found = {} /\ Goes(p, "create")
    <3>1. PICK s : s = [r EXCEPT !.pc = "create"]
      OBVIOUS
    <3>2. s \in Run("create") /\ s.pc = "create" /\ s.approval = r.approval
      BY <2>0, <3>1 DEF Run
    <3>3. issues = <<>>
      BY <1>0, <2>2 DEF Found, CaseOK
    <3>4. Sound(s) /\ Busy(p)
      BY <1>a, <1>0, <3>2, <3>3, GoesSound DEF Looked, Applying
    <3> QED
      BY <1>a, <1>0, <2>2, <3>1, <3>4, LookKeeps DEF Goes
  <2> QED
    BY <1>a, <1>2, <2>1, <2>2 DEF Find
<1>3. CASE Read(p) /\ ~Ends(p)
  <2>0. r \in [pc : {"read"}, approval : Approvals, pending : BOOLEAN, issue : DOMAIN issues]
    BY <1>0, <1>a, <1>3 DEF Read, Run
  <2>1. PICK s : s = [pc |-> "look", approval |-> r.approval, pending |-> r.pending,
                      issue |-> r.issue, rev |-> issues[r.issue].rev]
    OBVIOUS
  <2>2. issues[r.issue].rev \in 0 .. MaxFaults
    BY <1>0, <2>0, IssueType
  <2>3. s \in Run("look") /\ s.pc = "look" /\ s.approval = r.approval
    BY <2>0, <2>1, <2>2 DEF Run
  <2>4. Sound(s) /\ Busy(p)
    BY <1>a, <1>0, <2>3, GoesSound DEF Looked, Applying
  <2>5. run' = [run EXCEPT ![p] = s]
    BY <1>a, <1>3, <2>1 DEF Read
  <2> QED
    BY <1>0, <2>4, <2>5, LookKeeps
<1>4. CASE Look(p) /\ ~Ends(p)
  <2>0. r \in [pc : {"look"}, approval : Approvals, pending : BOOLEAN, issue : DOMAIN issues,
               rev : 0 .. MaxFaults]
    BY <1>0, <1>a, <1>4 DEF Look, Run
  <2>1. PICK pc \in {"bind", "accept"} : Goes(p, pc) /\ (pc = "accept" => spec # NoBinding)
    BY <1>4 DEF Look
  <2>2. PICK s : s = [r EXCEPT !.pc = pc]
    OBVIOUS
  <2>3. s \in Run(pc) /\ s.pc = pc /\ s.approval = r.approval
    BY <2>0, <2>2 DEF Run
  <2>4. Sound(s) /\ Busy(p)
    BY <1>a, <1>0, <2>1, <2>3, GoesSound DEF Looked, Applying
  <2> QED
    BY <1>a, <1>0, <2>1, <2>2, <2>4, LookKeeps DEF Goes
<1>5. CASE Reread(p) /\ ~Ends(p)
  <2>0. r \in [pc : {"reread"}, approval : Approvals, pending : BOOLEAN, issue : DOMAIN issues,
               rev : 0 .. MaxFaults]
    BY <1>0, <1>a, <1>5 DEF Reread, Run
  <2>1. PICK s : s = [pc |-> "final", approval |-> r.approval, issue |-> r.issue,
                      owes |-> r.approval \notin consumed]
    OBVIOUS
  <2>2. s \in Run("final") /\ s.pc = "final" /\ s.approval = r.approval
    BY <2>0, <2>1 DEF Run
  <2>3. Sound(s) /\ Busy(p)
    BY <1>a, <1>0, <1>5, <2>2, GoesSound DEF Reread, Looked, Applying
  <2>4. run' = [run EXCEPT ![p] = s]
    BY <1>a, <1>5, <2>1 DEF Reread
  <2> QED
    BY <1>0, <2>3, <2>4, LookKeeps
<1>6. CASE Final(p) /\ ~Ends(p)
  <2>0. r \in [pc : {"final"}, approval : Approvals, issue : DOMAIN issues, owes : BOOLEAN]
    BY <1>0, <1>a, <1>6 DEF Final, Run
  <2>1. PICK s : s = [pc |-> "consume", approval |-> r.approval]
    OBVIOUS
  <2>2. s \in Run("consume") /\ s.pc = "consume" /\ s.approval = r.approval
    BY <2>0, <2>1 DEF Run
  <2>3. accepted /\ issues # <<>>
    BY <1>0, <1>a, <1>6, <2>0 DEF Sound, Final, CaseOK
  <2>4. Sound(s) /\ Busy(p)
    BY <1>a, <1>0, <2>2, <2>3, GoesSound DEF Looked, Applying
  <2>5. run' = [run EXCEPT ![p] = s]
    BY <1>a, <1>6, <2>1 DEF Final
  <2> QED
    BY <1>0, <2>4, <2>5, LookKeeps
<1> QED
  BY <1>1, <1>2, <1>3, <1>4, <1>5, <1>6

LEMMA PostedType ==
  ASSUME CaseOK
  PROVE  /\ Posted \in Seq([exact : BOOLEAN, rev : 0 .. MaxFaults])
         /\ Len(Posted) = Len(issues) + 1 /\ Posted # <<>>
         /\ DOMAIN issues \subseteq DOMAIN Posted /\ Len(Posted) \in DOMAIN Posted
         /\ \A i \in DOMAIN Posted : Posted[i].rev <= faults
<1>1. PICK S : S = [exact : BOOLEAN, rev : 0 .. MaxFaults]
  OBVIOUS
<1>2. PICK new \in S : new = [exact |-> TRUE, rev |-> 0]
  <2>1. 0 \in 0 .. MaxFaults
    BY PublicationAssumption
  <2>2. [exact |-> TRUE, rev |-> 0] \in S
    BY <1>1, <2>1
  <2> QED
    BY <2>2
<1>3. issues \in Seq(S) /\ Posted = Append(issues, new)
  BY <1>1, <1>2 DEF CaseOK, Posted
<1>4. /\ Posted \in Seq(S) /\ Len(Posted) = Len(issues) + 1
      /\ DOMAIN issues \subseteq DOMAIN Posted /\ Len(Posted) \in DOMAIN Posted
      /\ \A i \in DOMAIN issues : Posted[i] = issues[i]
      /\ Posted[Len(Posted)] = new
      /\ \A i \in DOMAIN Posted : i \in DOMAIN issues \/ i = Len(Posted)
      /\ Len(issues) \in Nat
  BY <1>3
<1>5. Posted # <<>>
  BY <1>4
<1>6. new.rev = 0 /\ faults \in Nat
  BY <1>2 DEF CaseOK
<1>7. ASSUME NEW i \in DOMAIN Posted PROVE Posted[i].rev <= faults
  <2>1. CASE i \in DOMAIN issues
    BY <1>4, <2>1 DEF CaseOK
  <2>2. CASE i = Len(Posted)
    BY <1>4, <1>6, <2>2
  <2> QED
    BY <1>4, <2>1, <2>2
<1> QED
  BY <1>1, <1>4, <1>5, <1>7

LEMMA CreateKeeps ==
  ASSUME IInv, NEW p \in Procs, Create(p)
  PROVE  IInv'
<1>a. PICK r : r = run[p]
  OBVIOUS
<1>0. /\ r.pc = "create" /\ Busy(p) /\ Sound(r) /\ Len(issues) + posted < MaxIssues
      /\ r \in [pc : {"create"}, approval : Approvals, pending : BOOLEAN] /\ CaseOK
      /\ UNCHANGED <<case, conflict, clock, overlapped, cleared>>
  BY <1>a, StepSound DEF Create, Busy, Applying, Run, IInv
<1>1. CASE /\ issues' = Posted /\ UNCHANGED <<posted, faults, late>>
           /\ run' = [run EXCEPT ![p] = [pc |-> "read", approval |-> r.approval,
                                         pending |-> r.pending, issue |-> Len(Posted)]]
  <2>1. PICK s : s = [pc |-> "read", approval |-> r.approval, pending |-> r.pending,
                      issue |-> Len(Posted)]
    OBVIOUS
  <2>2. /\ issues' \in Seq([exact : BOOLEAN, rev : 0 .. MaxFaults])
        /\ Len(issues') = Len(issues) + 1 /\ issues' # <<>>
        /\ DOMAIN issues \subseteq DOMAIN issues' /\ Len(Posted) \in DOMAIN issues'
        /\ \A i \in DOMAIN issues' : issues'[i].rev <= faults
    BY <1>0, <1>1, PostedType
  <2>3. CaseOK'
    <3>1. Len(issues') + posted' <= MaxIssues
      BY <1>0, <1>1, <2>2, PublicationAssumption DEF CaseOK
    <3> QED
      BY <1>0, <1>1, <2>2, <3>1 DEF CaseOK, Approvals, case
  <2>4. Grown
    BY <1>0, <1>1, <2>2 DEF Grown, Approvals, case
  <2>5. Sound(s)'
    <3>1. s \in [pc : {"read"}, approval : Approvals', pending : BOOLEAN, issue : DOMAIN issues']
      BY <1>0, <2>1, <2>2, <2>4 DEF Grown
    <3>2. s.pc = "read" /\ s.approval = r.approval /\ "read" \in Looked /\ "create" \in Looked
      BY <2>1 DEF Looked, Applying
    <3>3. ~overlapped' => consumed' \subseteq {r.approval}
      BY <1>0, <3>2 DEF Sound, case
    <3>4. s \in Run("read")' /\ "read" \in Places
      BY <3>1 DEF Run, Places, Applying
    <3> QED
      BY <3>2, <3>3, <3>4 DEF Sound
  <2>6. s.pc = "read" /\ run' = [run EXCEPT ![p] = s]
    BY <1>1, <2>1
  <2>7. RunsOK'
    BY <1>0, <2>3, <2>4, <2>5, <2>6, MoveKeeps DEF IInv, CaseOK
  <2>8. Len(issues') > 1 => late \/ overlapped
    BY <1>0, <2>2 DEF Sound
  <2> QED
    BY <1>0, <1>1, <2>2, <2>3, <2>7, <2>8 DEF IInv, Consistent, case
<1>2. CASE Interfere /\ posted' = posted + 1 /\ late' = TRUE /\ Ends(p) /\ UNCHANGED issues
  <2>1. CaseOK'
    <3>1. posted' \in Nat /\ Len(issues') + posted' <= MaxIssues
      BY <1>0, <1>2, PublicationAssumption DEF CaseOK
    <3>2. \A i \in DOMAIN issues : issues[i].rev <= faults'
      BY <1>0, <1>2, IssueType, FaultsType DEF CaseOK
    <3> QED
      BY <1>0, <1>2, <3>1, <3>2, FaultsType DEF CaseOK, Approvals, case
  <2>2. Grown
    BY <1>0, <1>2 DEF Grown, Approvals, case
  <2>3. Sound(Idle)' /\ Idle.pc \notin Applying
    BY <1>0, <2>1, <2>2, IdleSound, PlacesType, SoundKept DEF CaseOK
  <2>4. RunsOK'
    BY <1>0, <1>2, <2>1, <2>2, <2>3, MoveKeeps DEF IInv, CaseOK, Ends
  <2> QED
    BY <1>0, <1>2, <2>1, <2>4 DEF IInv, Consistent, case
<1> QED
  BY <1>a, <1>1, <1>2 DEF Create

LEMMA BindingType ==
  ASSUME IInv, NEW p \in Procs, run[p].pc \in {"look", "bind", "accept", "reread"}
  PROVE  /\ Binding(p) \in [issue : DOMAIN issues, rev : 0 .. MaxFaults, by : Approvals]
         /\ Binding(p) # NoBinding
<1>1. run[p] \in [pc : {run[p].pc}, approval : Approvals, pending : BOOLEAN,
                  issue : DOMAIN issues, rev : 0 .. MaxFaults]
  BY StepSound DEF Run
<1>2. Binding(p) \in [issue : DOMAIN issues, rev : 0 .. MaxFaults, by : Approvals]
  BY <1>1 DEF Binding
<1>3. DOMAIN issues \subseteq Nat /\ Approvals \subseteq Nat /\ 0 .. MaxFaults \subseteq Nat
  BY DEF IInv, CaseOK, Approvals
<1>4. Binding(p) \in [issue : Nat, rev : Nat, by : Nat]
  BY <1>2, <1>3
<1> QED
  BY <1>2, <1>4, PublicationAssumption

LEMMA BindKeeps ==
  ASSUME IInv, NEW p \in Procs, Bind(p) \/ Accept(p)
  PROVE  IInv'
<1>a. PICK r : r = run[p]
  OBVIOUS
<1>0. /\ r.pc \in {"bind", "accept"} /\ run[p].pc \in Looked /\ Busy(p) /\ Sound(r) /\ CaseOK
      /\ r \in [pc : {r.pc}, approval : Approvals, pending : BOOLEAN, issue : DOMAIN issues,
               rev : 0 .. MaxFaults]
      /\ UNCHANGED <<evidence, given, consumed, outcome, tracker, conflict, clock, faults, history>>
  BY <1>a, StepSound DEF Bind, Accept, Looked, Busy, Applying, Run, IInv
<1>1. CASE Ends(p) /\ UNCHANGED <<accepted, spec>>
  BY <1>0, <1>1, StopKeeps DEF case, CaseOK
<1>2. CASE Bind(p) /\ spec' = Binding(p) /\ Goes(p, "accept")
  <2>1. PICK s : s = [r EXCEPT !.pc = "accept"]
    OBVIOUS
  <2>2. s \in Run("accept") /\ s.pc = "accept" /\ s.approval = r.approval
    BY <1>0, <2>1 DEF Run
  <2>3. /\ spec' # NoBinding /\ accepted' = accepted
        /\ spec' \in [issue : DOMAIN issues, rev : 0 .. MaxFaults, by : Approvals]
    BY <1>a, <1>0, <1>2, BindingType DEF Bind
  <2>4. CaseOK'
    BY <1>0, <2>3 DEF CaseOK, Approvals, tracker, history
  <2>5. Grown
    BY <1>0, <2>3 DEF Grown, Approvals, tracker, history
  <2>6. Sound(s)'
    <3>1. s \in Run("accept")' /\ "accept" \in Places
      BY <2>2, <2>5, RunsGrow DEF Places, Applying
    <3>2. ~overlapped => consumed \subseteq {r.approval}
      BY <1>a, <1>0 DEF Sound
    <3> QED
      BY <1>0, <2>2, <2>3, <3>1, <3>2 DEF Sound, history
  <2>7. RunsOK'
    BY <1>a, <1>0, <1>2, <2>1, <2>4, <2>5, <2>6, MoveKeeps DEF Goes, IInv, tracker, history
  <2> QED
    BY <1>0, <2>3, <2>4, <2>7 DEF IInv, Consistent, tracker, history
<1>3. CASE Accept(p) /\ accepted' = TRUE /\ Goes(p, "reread")
  <2>1. PICK s : s = [r EXCEPT !.pc = "reread"]
    OBVIOUS
  <2>2. s \in Run("reread") /\ s.pc = "reread" /\ s.approval = r.approval
    BY <1>0, <2>1 DEF Run
  <2>3. spec' = spec /\ (spec # NoBinding \/ cleared)
    BY <1>a, <1>0, <1>3 DEF Accept, Sound
  <2>4. CaseOK'
    BY <1>0, <1>3, <2>3 DEF CaseOK, Approvals, tracker, history
  <2>5. Grown
    BY <1>0, <1>3, <2>3 DEF Grown, Approvals, tracker, history
  <2>6. Sound(s)'
    <3>1. s \in Run("reread")' /\ "reread" \in Places
      BY <2>2, <2>5, RunsGrow DEF Places, Applying
    <3>2. ~overlapped => consumed \subseteq {r.approval}
      BY <1>a, <1>0 DEF Sound
    <3> QED
      BY <1>0, <1>3, <2>2, <2>3, <3>1, <3>2 DEF Sound, history
  <2>7. RunsOK'
    BY <1>a, <1>0, <1>3, <2>1, <2>4, <2>5, <2>6, MoveKeeps DEF Goes, IInv, tracker, history
  <2> QED
    BY <1>0, <1>3, <2>3, <2>4, <2>7 DEF IInv, Consistent, tracker, history
<1> QED
  BY <1>1, <1>2, <1>3 DEF Bind, Accept

LEMMA ConsumeKeeps ==
  ASSUME IInv, NEW p \in Procs, Consume(p)
  PROVE  IInv'
<1>a. PICK r : r = run[p]
  OBVIOUS
<1>0. /\ r.pc = "consume" /\ "consume" \in Looked /\ Busy(p) /\ Sound(r) /\ CaseOK
      /\ r \in [pc : {"consume"}, approval : Approvals]
      /\ UNCHANGED <<evidence, given, accepted, spec, outcome, tracker, conflict, clock, faults,
                     history>>
      /\ consumed' = consumed \cup {r.approval} /\ Ends(p)
  BY <1>a, StepSound DEF Consume, Looked, Busy, Applying, Run, IInv
<1>1. CaseOK'
  BY <1>0 DEF CaseOK, Approvals, tracker, history
<1>2. Grown
  BY <1>0 DEF Grown, Approvals, tracker, history
<1>3. Sound(Idle)' /\ Idle.pc \notin Applying
  BY <1>0, <1>1, <1>2, IdleSound, PlacesType, SoundKept DEF CaseOK
<1>4. RunsOK'
  BY <1>0, <1>1, <1>2, <1>3, MoveKeeps DEF IInv, CaseOK, Ends, history
<1>5. accepted /\ issues # <<>> /\ (~overlapped => consumed \subseteq {r.approval})
  BY <1>0 DEF Sound
<1> QED
  BY <1>0, <1>1, <1>4, <1>5 DEF IInv, Consistent, tracker, history

LEMMA CrashKeeps ==
  ASSUME IInv, NEW p \in Procs, Crash(p)
  PROVE  IInv'
<1>1. CaseOK /\ UNCHANGED <<case, tracker, conflict, clock, history>> /\ Ends(p)
  BY DEF Crash, IInv
<1>2. \A i \in DOMAIN issues : issues[i].rev <= faults'
  BY <1>1, IssueType, FaultsType DEF CaseOK, Crash
<1>3. CaseOK'
  BY <1>1, <1>2, FaultsType DEF CaseOK, Crash, Approvals, case, tracker, history
<1> QED
  BY <1>1, <1>3, EndsKeeps DEF case

(***************************************************************************)
(* The tracker, people and the clock.                                      *)
(***************************************************************************)

(* An issue is changed in place. *)
LEMMA ChangeKeeps ==
  ASSUME IInv, NEW i \in DOMAIN issues, NEW new \in [exact : BOOLEAN, rev : 0 .. MaxFaults],
         issues' = [issues EXCEPT ![i] = new], new.rev <= faults',
         UNCHANGED <<case, posted, run, conflict, clock, history>>,
         Interfere \/ UNCHANGED faults
  PROVE  IInv'
<1>1. PICK S : S = [exact : BOOLEAN, rev : 0 .. MaxFaults]
  OBVIOUS
<1>2. issues \in Seq(S) /\ new \in S /\ CaseOK
  BY <1>1 DEF IInv, CaseOK
<1>3. /\ issues' \in Seq(S) /\ Len(issues') = Len(issues) /\ DOMAIN issues' = DOMAIN issues
      /\ \A j \in DOMAIN issues : issues'[j] = IF j = i THEN new ELSE issues[j]
      /\ issues # <<>> /\ issues' # <<>>
  BY <1>2
<1>4. faults' \in 0 .. MaxFaults /\ faults <= faults' /\ faults \in Nat
  BY <1>2, FaultsType DEF CaseOK
<1>5. ASSUME NEW j \in DOMAIN issues PROVE issues'[j].rev <= faults'
  <2>1. issues[j].rev <= faults /\ issues[j].rev \in 0 .. MaxFaults
    BY <1>2, IssueType DEF CaseOK
  <2> QED
    BY <1>3, <1>4, <2>1
<1>6. CaseOK'
  <2>1. issues' \in Seq([exact : BOOLEAN, rev : 0 .. MaxFaults])
    BY <1>1, <1>3
  <2> QED
    BY <1>2, <1>3, <1>4, <1>5, <2>1 DEF CaseOK, Approvals, case, history
<1>7. Grown
  BY <1>3 DEF Grown, Approvals, case, history
<1>8. RunsOK'
  BY <1>2, <1>3, <1>6, <1>7, OutsideKeeps DEF IInv, case, history
<1> QED
  BY <1>3, <1>6, <1>8 DEF IInv, Consistent, case, history

LEMMA PeopleKeep ==
  ASSUME IInv, NEW i \in DOMAIN issues, Touch(i) \/ Edit(i) \/ Restore(i)
  PROVE  IInv'
<1>1. /\ issues[i] \in [exact : BOOLEAN, rev : 0 .. MaxFaults] /\ issues[i].rev <= faults
      /\ faults \in Nat
  BY IssueType DEF IInv, CaseOK
<1>2. CASE Touch(i)
  <2>1. PICK new : new = [issues[i] EXCEPT !.rev = @ + 1]
    OBVIOUS
  <2>2. faults' \in 0 .. MaxFaults /\ faults' = faults + 1
    BY <1>2, FaultsType DEF Touch, IInv
  <2>3. new \in [exact : BOOLEAN, rev : 0 .. MaxFaults] /\ new.rev <= faults'
    BY <1>1, <2>1, <2>2, PublicationAssumption
  <2> QED
    BY <1>2, <2>1, <2>3, ChangeKeeps DEF Touch
<1>3. CASE Edit(i) \/ Restore(i)
  <2>1. PICK b \in BOOLEAN : issues' = [issues EXCEPT ![i].exact = b]
    BY <1>3 DEF Edit, Restore
  <2>2. PICK new : new = [issues[i] EXCEPT !.exact = b]
    OBVIOUS
  <2>3. faults <= faults' /\ faults' \in Nat
    BY <1>1, <1>3, FaultsType DEF Edit, Restore, IInv
  <2>4. new \in [exact : BOOLEAN, rev : 0 .. MaxFaults] /\ new.rev <= faults'
    BY <1>1, <2>2, <2>3
  <2> QED
    BY <1>3, <2>1, <2>2, <2>4, ChangeKeeps DEF Edit, Restore
<1> QED
  BY <1>2, <1>3

LEMMA ArriveKeeps ==
  ASSUME IInv, Arrive
  PROVE  IInv'
<1>1. late /\ late' = late /\ CaseOK
  BY DEF Arrive, IInv, Consistent, CaseOK, history
<1>2. /\ issues' \in Seq([exact : BOOLEAN, rev : 0 .. MaxFaults])
      /\ Len(issues') = Len(issues) + 1 /\ issues' # <<>>
      /\ DOMAIN issues \subseteq DOMAIN issues'
      /\ \A i \in DOMAIN issues' : issues'[i].rev <= faults
  BY <1>1, PostedType DEF Arrive
<1>3. CaseOK'
  <2>1. posted' \in Nat /\ Len(issues') + posted' <= MaxIssues
    BY <1>1, <1>2, PublicationAssumption DEF CaseOK, Arrive
  <2> QED
    BY <1>1, <1>2, <2>1 DEF CaseOK, Arrive, Approvals, case, history
<1>4. Grown
  BY <1>2 DEF Arrive, Grown, Approvals, case, history
<1>5. RunsOK'
  BY <1>1, <1>3, <1>4, OutsideKeeps DEF Arrive, IInv, case, history
<1> QED
  BY <1>1, <1>2, <1>3, <1>5 DEF Arrive, IInv, Consistent, case, history

LEMMA RestKeeps ==
  ASSUME IInv, Ingest \/ ClearSpec \/ ClearOutcome \/ Tick \/ UNCHANGED vars
  PROVE  IInv'
<1>1. CASE Ingest \/ ClearOutcome \/ Tick \/ UNCHANGED vars
  <2>1. UNCHANGED <<evidence, given, consumed, accepted, spec, tracker, run, conflict, history>>
    BY <1>1 DEF Ingest, ClearOutcome, Tick, vars, case
  <2>2. /\ outcome' \in {"none", "other"} /\ clock' \in 0 .. MaxTime
        /\ faults' \in 0 .. MaxFaults /\ faults <= faults' /\ faults \in Nat
    BY <1>1, FaultsType, PublicationAssumption
    DEF Ingest, ClearOutcome, Tick, vars, case, IInv, CaseOK
  <2>3. \A i \in DOMAIN issues : issues[i].rev <= faults'
    BY <2>2, IssueType DEF IInv, CaseOK
  <2>4. CaseOK'
    BY <2>1, <2>2, <2>3 DEF IInv, CaseOK, Approvals, tracker, history
  <2>5. Grown
    BY <2>1 DEF Grown, Approvals, tracker, history
  <2>6. RunsOK'
    BY <2>1, <2>4, <2>5, OutsideKeeps DEF IInv, tracker, history
  <2> QED
    BY <2>1, <2>4, <2>6 DEF IInv, Consistent, tracker, history
<1>2. CASE ClearSpec
  <2>1. CaseOK'
    BY <1>2 DEF ClearSpec, IInv, CaseOK, Approvals, tracker
  <2>2. Grown
    BY <1>2 DEF ClearSpec, Grown, Approvals, tracker
  <2>3. RunsOK'
    BY <1>2, <2>1, <2>2, OutsideKeeps DEF ClearSpec, IInv, tracker
  <2> QED
    BY <1>2, <2>1, <2>3 DEF ClearSpec, IInv, Consistent, tracker
<1> QED
  BY <1>1, <1>2

(***************************************************************************)
(* The invariant and the theorems.                                         *)
(***************************************************************************)
LEMMA NextKeeps == IInv /\ [Next]_vars => IInv'
<1> SUFFICES ASSUME IInv, [Next]_vars PROVE IInv'
  OBVIOUS
<1>1. ASSUME NEW p \in Procs, Continue(p) PROVE IInv'
  BY <1>1, BuildKeeps, AuthorizeKeeps, LookingKeeps, CreateKeeps, BindKeeps, ConsumeKeeps
  DEF Continue
<1>2. ASSUME NEW p \in Procs, Build(p) \/ Approve(p) \/ Crash(p) PROVE IInv'
  BY <1>2, BuildKeeps, CrashKeeps
<1>3. ASSUME NEW p \in Procs, NEW a \in Approvals, Launch(p, a) PROVE IInv'
  BY <1>3, LaunchKeeps
<1>4. ASSUME NEW i \in DOMAIN issues, Touch(i) \/ Edit(i) \/ Restore(i) PROVE IInv'
  BY <1>4, PeopleKeep
<1> QED
  BY <1>1, <1>2, <1>3, <1>4, RestKeeps, ArriveKeeps DEF Next

LEMMA InitInv == Init => IInv
<1> SUFFICES ASSUME Init PROVE IInv
  OBVIOUS
<1>1. CaseOK
  <2>1. /\ given \in Seq(0 .. MaxTime) /\ issues \in Seq([exact : BOOLEAN, rev : 0 .. MaxFaults])
        /\ Len(given) = 0 /\ Len(issues) = 0 /\ DOMAIN issues = {} /\ consumed = {}
    BY DEF Init
  <2>2. Len(given) <= MaxApprovals /\ Len(issues) + posted <= MaxIssues
    BY <2>1, PublicationAssumption DEF Init
  <2>3. clock \in 0 .. MaxTime /\ faults \in 0 .. MaxFaults
    BY PublicationAssumption DEF Init
  <2> QED
    BY <2>1, <2>2, <2>3 DEF Init, CaseOK
<1>2. \A p \in Procs : run[p] = Idle
  BY DEF Init
<1>3. RunsOK
  BY <1>2, IdleSound, PlacesType DEF Init, RunsOK, Busy
<1> QED
  BY <1>1, <1>3 DEF Init, IInv, Consistent

LEMMA Invariant == Spec => []IInv
BY InitInv, NextKeeps, PTL DEF Spec

(* Every variable keeps its type, and a command has at each of its steps   *)
(* the variables that its code has there.                                  *)
THEOREM Typing == Spec => []TypeOK
BY Invariant, InvTyped, PTL

(* One release gets one parent issue, however often apply is killed or     *)
(* repeated and by whichever approval: only a request that arrives late or *)
(* a run beside another makes a second (apply of to-spec's publisher).     *)
THEOREM OneParentIssue == Spec => []OneParent
<1>1. IInv => OneParent
  BY DEF IInv, Consistent, OneParent
<1> QED
  BY <1>1, Invariant, PTL

(* A Case is accepted only when it is bound, and spends its approval only  *)
(* when it is accepted, and one approval, though each of these is a store  *)
(* write of its own and each may be the last of the run.                   *)
THEOREM PublishedInOrder == Spec => []InOrder
<1>1. ASSUME IInv PROVE InOrder
  <2>1. AcceptedIsBound
    BY <1>1 DEF IInv, Consistent, AcceptedIsBound
  <2>2. ASSUME ~overlapped PROVE Cardinality(consumed) \in {0, 1}
    <3>1. CASE consumed = {}
      BY <3>1, FS_EmptySet
    <3>2. CASE consumed # {}
      <4>1. PICK a : a \in consumed
        BY <3>2
      <4>2. consumed = {a}
        BY <1>1, <2>2, <4>1 DEF IInv, Consistent
      <4>3. Cardinality({a}) = 1
        BY FS_Singleton
      <4> QED
        BY <4>2, <4>3
    <3> QED
      BY <3>1, <3>2
  <2>3. SpentLast
    BY <1>1, <2>2 DEF IInv, Consistent, SpentLast
  <2> QED
    BY <2>1, <2>3 DEF InOrder
<1> QED
  BY <1>1, Invariant, PTL
=============================================================================
