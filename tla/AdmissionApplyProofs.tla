------------------------ MODULE AdmissionApplyProofs ------------------------
(***************************************************************************)
(* Theorems about AdmissionApply, for any number of concurrent applies,    *)
(* tickets and approvals, and whatever crashes, fails, lands late or is    *)
(* edited meanwhile.                                                       *)
(***************************************************************************)
EXTENDS AdmissionApply, TLAPS

-----------------------------------------------------------------------------
(* The inductive invariant. *)

\* An operation of the Plan shows on the tracker.
Shows(k) == IF OpAt(k).kind = "comment"
            THEN comments[OpAt(k).ticket] > 0
            ELSE labels[OpAt(k).ticket] = {"after"}

\* Where an apply has no copy of the transaction yet.
Unbegun == {"idle", "ensure", "create"}

\* Where it works on operation k, and before it works on any.
Operating == {"issue", "claims", "comment", "look", "delete", "relook", "add",
              "readback", "record"}
Preparing == {"ensure", "create", "initial", "approval", "authorize", "applying"}
Labelling == {"look", "delete", "relook", "add"}

\* A copy is never ahead of the transaction of the case.
Copied(r) ==
    /\ txn # NoTxn
    /\ txn.approval = r.approval
    /\ r.txn.approval = r.approval
    /\ Rank[r.txn.state] <= Rank[txn.state]
    /\ r.txn.done \subseteq txn.done

\* What an apply at this place may rely on, whatever the others did since it
\* last looked.
ReliesOn(r, where) ==
    /\ r.txn # NoTxn => Copied(r)
    /\ where \notin Unbegun => r.txn # NoTxn
    /\ where \in Preparing => r.k = 1
    /\ where = "comment" => OpAt(r.k).kind = "comment"
    /\ where \in Labelling => OpAt(r.k).kind = "labels"
    /\ where = "consume" => r.txn.state = "EXTERNAL_COMPLETE"
    /\ where \in {"handoff", "transition"} =>
          r.txn.state = "COMMITTED" /\ approvals[r.approval] = "consumed"
    /\ edits = 0 =>
          /\ where \in Operating /\ r.k = LastOp => \A j \in 1..(LastOp - 1) : Shows(j)
          /\ where = "record" => Shows(r.k)
          /\ where = "external" => \A j \in 1..LastOp : Shows(j)
          /\ where \in {"relook", "add"} => "before" \notin labels[OpAt(r.k).ticket]

Relies(p) == ReliesOn(run[p], pc[p])

\* Without people, a ticket has the label it had, none, or the one it gets.
LabelsOK ==
    edits = 0 => \A t \in Ticket : labels[t] \in {{"before"}, {}, {"after"}}

Told == TransactionTrue /\ ActivationLast /\ LabelsOK

IInv == TypeOK /\ Told /\ \A p \in Proc : Relies(p)

\* What no step takes back.
TxnGrows ==
    txn # NoTxn =>
        /\ txn' # NoTxn
        /\ txn'.approval = txn.approval
        /\ Rank[txn.state] <= Rank[txn'.state]
        /\ txn.done \subseteq txn'.done

Grows ==
    /\ TxnGrows
    /\ \A a \in Approval : approvals[a] = "consumed" => approvals'[a] = "consumed"
    /\ edits' = 0 =>
          /\ edits = 0
          /\ \A t \in Ticket :
                /\ comments[t] > 0 => comments'[t] > 0
                /\ labels[t] = {"after"} => labels'[t] = {"after"}
                /\ "before" \notin labels[t] => "before" \notin labels'[t]

-----------------------------------------------------------------------------
(* The operations of a Plan. *)

LEMMA TicketsType ==
    /\ Len(Tickets) \in Nat \ {0}
    /\ LastOp \in Nat \ {0, 1}
    /\ \A i \in 1..Len(Tickets) : Tickets[i] \in Ticket
    /\ Parent \in Ticket
BY AdmissionAssumption DEF LastOp, Parent, Ticket

LEMMA OpType ==
    ASSUME NEW k \in 1..LastOp
    PROVE  /\ OpAt(k) \in Op
           /\ (k + 1) \div 2 \in 1..Len(Tickets)
<1>1. (k + 1) \div 2 \in 1..Len(Tickets)
  BY TicketsType DEF LastOp
<1> QED
  BY <1>1, TicketsType DEF OpAt, Op

\* Each ticket has a comment and a label.
LEMMA OpsOfTicket ==
    ASSUME NEW i \in 1..Len(Tickets)
    PROVE  /\ 2 * i - 1 \in 1..LastOp /\ 2 * i \in 1..LastOp
           /\ OpAt(2 * i - 1).ticket = Tickets[i] /\ OpAt(2 * i - 1).kind = "comment"
           /\ OpAt(2 * i).ticket = Tickets[i] /\ OpAt(2 * i).kind = "labels"
<1>1. 2 * i - 1 \in 1..LastOp /\ 2 * i \in 1..LastOp
  BY TicketsType DEF LastOp
<1>2. ((2 * i - 1) + 1) \div 2 = i /\ (2 * i + 1) \div 2 = i
  BY TicketsType
<1>3. (2 * i - 1) % 2 = 1 /\ (2 * i) % 2 = 0
  BY TicketsType
<1> QED
  BY <1>1, <1>2, <1>3 DEF OpAt

\* The parent's label comes last, and nothing else of it does.
LEMMA LastIsParent ==
    ASSUME NEW k \in 1..LastOp, OpAt(k).kind = "labels", OpAt(k).ticket = Parent
    PROVE  k = LastOp
<1> DEFINE i == (k + 1) \div 2
<1>1. i = Len(Tickets)
  <2>1. i \in 1..Len(Tickets) /\ Len(Tickets) \in 1..Len(Tickets)
    BY OpType, TicketsType
  <2>2. Tickets[i] = Tickets[Len(Tickets)]
    BY DEF OpAt, Parent
  <2> HIDE DEF i
  <2> QED
    BY <2>1, <2>2, AdmissionAssumption
<1>2. k % 2 = 0
  BY DEF OpAt
<1> QED
  BY <1>1, <1>2, TicketsType DEF LastOp

-----------------------------------------------------------------------------
(* Type correctness. *)

Holding(p) == pc[p] \notin Unbegun => run[p].txn # NoTxn

\* The processes' part of TypeOK, and the rest of it.
ProcsOK == pc \in [Proc -> Where] /\ run \in [Proc -> Run]

RestOK ==
    /\ comments \in [Ticket -> 0..MaxComments]
    /\ labels \in [Ticket -> SUBSET Label]
    /\ drift \subseteq Ticket
    /\ late \subseteq Ticket
    /\ claimed \in BOOLEAN
    /\ txn \in Txn \cup {NoTxn}
    /\ approvals \in [Approval -> {"absent", "pending", "consumed"}]
    /\ expired \subseteq Approval
    /\ checkpoint \in {"EARLIER", "AWAITING", "HANDOFF_READY", "IN_PROGRESS"}
    /\ faults \in 0..MaxFaults
    /\ edits \in 0..MaxEdits

LEMMA TypeParts == TypeOK <=> ProcsOK /\ RestOK
BY DEF TypeOK, ProcsOK, RestOK

LEMMA FreshType ==
    ASSUME NEW a \in Approval
    PROVE  Fresh(a) \in Run
BY TicketsType DEF Fresh, Run, Result

LEMMA RunType ==
    ASSUME TypeOK, NEW p \in Proc
    PROVE  /\ run[p] \in Run
           /\ run[p].approval \in Approval
           /\ run[p].k \in 1..LastOp
           /\ run[p].txn # NoTxn => run[p].txn \in Txn
           /\ OpAt(run[p].k) \in Op
           /\ OpAt(run[p].k).ticket \in Ticket
BY OpType DEF TypeOK, Run, Op

LEMMA FaultsType ==
    ASSUME TypeOK, Works \/ Fault
    PROVE  faults' \in 0..MaxFaults
BY AdmissionAssumption DEF TypeOK, Works, Fault

\* The control goes to where, with r for its local variables.
Becomes(p, where, r) == pc' = [pc EXCEPT ![p] = where] /\ run' = [run EXCEPT ![p] = r]

LEMMA BecomesType ==
    ASSUME TypeOK, NEW p \in Proc, NEW w \in Where, NEW r \in Run, Becomes(p, w, r)
    PROVE  ProcsOK'
BY DEF TypeOK, ProcsOK, Becomes

\* What is left of an apply that has ended.
Left(p, result) == [Fresh(run[p].approval) EXCEPT !.result = result]

LEMMA EndType ==
    ASSUME TypeOK, NEW p \in Proc, NEW result \in Result, End(p, result)
    PROVE  Becomes(p, "idle", Left(p, result)) /\ ProcsOK'
<1>1. Left(p, result) \in Run
  BY RunType, FreshType DEF Left, Run
<1>2. Becomes(p, "idle", Left(p, result))
  BY DEF End, Goto, Becomes, Left, TypeOK
<1> QED
  BY <1>1, <1>2, BecomesType DEF Where

LEMMA GotoType ==
    ASSUME TypeOK, NEW p \in Proc, NEW w \in Where, Goto(p, w), UNCHANGED run
    PROVE  Becomes(p, w, run[p]) /\ ProcsOK'
<1>1. Becomes(p, w, run[p])
  BY DEF Goto, Becomes, TypeOK
<1> QED
  BY <1>1, RunType, BecomesType

LEMMA PlacesType ==
    /\ \A k : Then(k) \in Where
    /\ \A state : Finish(state) \in Where /\ Resume(state) \in Where
    /\ \A k \in 1..LastOp : NextK(k) \in 1..LastOp
BY TicketsType DEF Then, Finish, Resume, NextK, Where

\* A copy that was written, and the operation that follows.
Wrote(p, new, k) == [run[p] EXCEPT !.txn = new, !.k = k]

New(p, state, done) == [state |-> state, approval |-> run[p].approval, done |-> done]

LEMMA AdvanceCases ==
    ASSUME TypeOK, NEW p \in Proc, NEW state \in State, NEW done \in SUBSET (1..LastOp),
           NEW k \in 1..LastOp, NEW next \in Where, NEW otherwise \in Result,
           Advance(p, state, done, k, next, otherwise)
    PROVE  /\ New(p, state, done) \in Txn
           /\ \/ /\ Legal(state, done)
                 /\ txn' = New(p, state, done)
                 /\ Becomes(p, next, Wrote(p, New(p, state, done), k))
              \/ /\ Becomes(p, "idle", Left(p, otherwise))
                 /\ \/ txn' = txn
                    \/ Legal(state, done) /\ txn' = New(p, state, done)
           /\ ProcsOK'
           /\ faults' \in 0..MaxFaults
<1> DEFINE new == New(p, state, done)
<1>1. new \in Txn /\ Wrote(p, new, k) \in Run
  BY RunType DEF New, Txn, Wrote, Run
<1>2. CASE Legal(state, done) /\ Works /\ txn' = new /\ Goto(p, next)
           /\ run' = [run EXCEPT ![p].txn = new, ![p].k = k]
  <2>1. Becomes(p, next, Wrote(p, new, k))
    BY <1>2 DEF Becomes, Goto, Wrote, TypeOK
  <2> QED
    BY <1>1, <1>2, <2>1, BecomesType, FaultsType
<1>3. CASE (Works \/ Fault) /\ End(p, otherwise)
           /\ (txn' = txn \/ (Legal(state, done) /\ txn' = new))
  BY <1>1, <1>3, EndType, FaultsType
<1> QED
  BY <1>2, <1>3 DEF Advance, New

LEMMA AdvanceType ==
    ASSUME TypeOK, NEW p \in Proc, NEW state \in State, NEW done \in SUBSET (1..LastOp),
           NEW k \in 1..LastOp, NEW next \in Where, NEW otherwise \in Result,
           Advance(p, state, done, k, next, otherwise), UNCHANGED outside
    PROVE  TypeOK'
<1>1. ProcsOK' /\ faults' \in 0..MaxFaults /\ txn' \in Txn \cup {NoTxn}
  BY AdvanceCases DEF TypeOK
<1> QED
  BY <1>1 DEF TypeOK, ProcsOK, Advance, outside, tracker

\* The steps that change neither the tracker nor the case.
LEMMA ReadType ==
    ASSUME TypeOK, NEW p \in Proc, NEW result \in Result, NEW w \in Where, NEW r \in Run,
           UNCHANGED <<tracker, case, outside>>, Works \/ Fault,
           End(p, result) \/ Becomes(p, w, r)
    PROVE  TypeOK'
<1>1. ProcsOK' /\ faults' \in 0..MaxFaults
  BY EndType, BecomesType, FaultsType
<1> QED
  BY <1>1 DEF TypeOK, ProcsOK, tracker, case, outside

LEMMA StepType ==
    ASSUME TypeOK, NEW p \in Proc, Holding(p), Step(p)
    PROVE  TypeOK'
<1> DEFINE op == OpAt(run[p].k)
<1>1. op.ticket \in Ticket /\ run[p] \in Run
  BY RunType
<1>2. pc[p] \notin Unbegun => run[p].txn.done \in SUBSET (1..LastOp)
  BY RunType DEF Holding, Txn
<1>3. (IF run[p].wrote THEN "PARTIAL" ELSE "CONFLICT") \in Result
  BY DEF Result
<1>4. CASE EnsureTransaction(p)
  <2>1. CASE End(p, "CONFLICT")
    BY <1>1, <1>4, <2>1, ReadType DEF EnsureTransaction, At, Result, Where
  <2>2. CASE Goto(p, "create") /\ UNCHANGED run /\ Works
    BY <1>1, <1>4, <2>2, ReadType, GotoType DEF EnsureTransaction, At, Result, Where
  <2>3. CASE txn # NoTxn /\ Works /\ run' = [run EXCEPT ![p].txn = txn] /\ Goto(p, "initial")
    <3>1. [run[p] EXCEPT !.txn = txn] \in Run
      BY <1>1 DEF Run, TypeOK
    <3>2. Becomes(p, "initial", [run[p] EXCEPT !.txn = txn])
      BY <2>3 DEF Becomes, Goto, TypeOK
    <3> QED
      BY <1>4, <2>3, <3>1, <3>2, ReadType DEF EnsureTransaction, At, Result, Where
  <2> QED
    BY <1>4, <2>1, <2>2, <2>3 DEF EnsureTransaction
<1>5. CASE CreateTransaction(p)
  BY <1>5, TicketsType, AdvanceType DEF CreateTransaction, At, State, Where, Result
<1>6. CASE InitialRead(p)
  BY <1>1, <1>6, ReadType, GotoType DEF InitialRead, At, Result, Where
<1>7. CASE ReadApproval(p)
  <2> DEFINE used == approvals[run[p].approval] = "consumed"
  <2>1. CASE (Works \/ Fault) /\ End(p, "CONFLICT")
    BY <1>1, <1>7, <2>1, ReadType DEF ReadApproval, At, Result, Where
  <2>2. CASE /\ Works
             /\ run' = [run EXCEPT ![p].used = used]
             /\ Goto(p, Resume(run[p].txn.state))
    <3>1. used \in BOOLEAN
      OBVIOUS
    <3> HIDE DEF used
    <3>2. [run[p] EXCEPT !.used = used] \in Run
      BY <1>1, <3>1 DEF Run
    <3>3. Becomes(p, Resume(run[p].txn.state), [run[p] EXCEPT !.used = used])
      BY <2>2 DEF Becomes, Goto, TypeOK
    <3> QED
      BY <1>7, <2>2, <3>2, <3>3, ReadType, PlacesType DEF ReadApproval, At, Result
  <2> QED
    BY <1>7, <2>1, <2>2 DEF ReadApproval
<1>8. CASE Authorize(p)
  BY <1>2, <1>8, TicketsType, AdvanceType DEF Authorize, At, State, Where, Result, Unbegun
<1>9. CASE Applying(p)
  BY <1>2, <1>9, TicketsType, AdvanceType DEF Applying, At, State, Where, Result, Unbegun
<1>10. CASE PreActivate(p)
  BY <1>1, <1>3, <1>10, ReadType, GotoType DEF PreActivate, EndRead, At, Result, Where
<1>11. CASE ReadIssue(p)
  <2>1. CASE (Works \/ Fault) /\ (EndRead(p) \/ End(p, "CONFLICT"))
    BY <1>1, <1>3, <1>11, <2>1, ReadType DEF ReadIssue, EndRead, At, Result, Where
  <2>2. CASE Works /\ (Goto(p, "record") \/ Goto(p, "claims")) /\ UNCHANGED run
    BY <1>1, <1>11, <2>2, ReadType, GotoType DEF ReadIssue, At, Result, Where
  <2>3. CASE /\ Works
             /\ run' = [run EXCEPT ![p].k = NextK(@)]
             /\ Goto(p, Then(run[p].k))
    <3>1. [run[p] EXCEPT !.k = NextK(@)] \in Run
      BY <1>1, PlacesType, RunType DEF Run
    <3>2. Becomes(p, Then(run[p].k), [run[p] EXCEPT !.k = NextK(@)])
      BY <2>3 DEF Becomes, Goto, TypeOK
    <3> QED
      BY <1>11, <2>3, <3>1, <3>2, ReadType, PlacesType DEF ReadIssue, At, Result
  <2> QED
    BY <1>11, <2>1, <2>2, <2>3 DEF ReadIssue
<1>12. CASE ReadClaims(p)
  BY <1>1, <1>3, <1>12, ReadType, GotoType DEF ReadClaims, EndRead, At, Result, Where
<1>13. CASE PostComment(p)
  <2>1. ProcsOK' /\ faults' \in 0..MaxFaults
    BY <1>13, GotoType, FaultsType DEF PostComment, Where
  <2>2. comments' \in [Ticket -> 0..MaxComments] /\ late' \subseteq Ticket
    BY <1>1, <1>13 DEF PostComment, AddComment, TypeOK, MaxComments
  <2> QED
    BY <1>13, <2>1, <2>2 DEF PostComment, At, outside, case, TypeOK, ProcsOK
<1>14. CASE LookLabels(p)
  <2>1. PICK w \in Where : Goto(p, w) /\ UNCHANGED run
    BY <1>14 DEF LookLabels, Where
  <2> QED
    BY <1>1, <1>14, <2>1, ReadType, GotoType DEF LookLabels, At, Result
<1>15. CASE DeleteLabel(p)
  <2>1. ProcsOK' /\ faults' \in 0..MaxFaults
    BY <1>15, GotoType, FaultsType DEF DeleteLabel, Where
  <2>2. labels' \in [Ticket -> SUBSET Label]
    BY <1>1, <1>15 DEF DeleteLabel, TypeOK
  <2> QED
    BY <1>15, <2>1, <2>2 DEF DeleteLabel, At, outside, case, TypeOK, ProcsOK
<1>16. CASE RelookLabels(p)
  BY <1>1, <1>16, ReadType, GotoType DEF RelookLabels, At, Result, Where
<1>17. CASE AddLabel(p)
  <2>1. ProcsOK' /\ faults' \in 0..MaxFaults
    BY <1>17, GotoType, FaultsType DEF AddLabel, Where
  <2>2. labels' \in [Ticket -> SUBSET Label]
    BY <1>1, <1>17 DEF AddLabel, TypeOK, Label
  <2> QED
    BY <1>17, <2>1, <2>2 DEF AddLabel, At, outside, case, TypeOK, ProcsOK
<1>18. CASE ReadBack(p)
  <2>1. CASE (Works \/ Fault) /\ (End(p, "PARTIAL") \/ End(p, "CONFLICT"))
    BY <1>1, <1>18, <2>1, ReadType DEF ReadBack, At, Result, Where
  <2>2. CASE Works /\ run' = [run EXCEPT ![p].wrote = TRUE] /\ Goto(p, "record")
    <3>1. [run[p] EXCEPT !.wrote = TRUE] \in Run
      BY <1>1 DEF Run
    <3>2. Becomes(p, "record", [run[p] EXCEPT !.wrote = TRUE])
      BY <2>2 DEF Becomes, Goto, TypeOK
    <3> QED
      BY <1>18, <2>2, <3>1, <3>2, ReadType DEF ReadBack, At, Result, Where
  <2> QED
    BY <1>18, <2>1, <2>2 DEF ReadBack
<1>19. CASE Record(p)
  <2> DEFINE k == run[p].k  done == run[p].txn.done
  <2>1. CASE Advance(p, "APPLYING", done \cup {k}, NextK(k), Then(k), "PARTIAL")
    <3>1. done \cup {k} \in SUBSET (1..LastOp) /\ NextK(k) \in 1..LastOp /\ Then(k) \in Where
      BY <1>2, <1>19, RunType, PlacesType DEF Record, At, Unbegun
    <3> HIDE DEF k, done
    <3> QED
      BY <1>19, <2>1, <3>1, AdvanceType DEF Record, At, State, Result
  <2>2. CASE Works /\ End(p, "PARTIAL") /\ UNCHANGED <<tracker, case>>
    BY <1>1, <1>19, <2>2, ReadType DEF Record, At, Result, Where
  <2> QED
    BY <1>19, <2>1, <2>2 DEF Record
<1>20. CASE FinalRead(p)
  BY <1>1, <1>3, <1>20, ReadType, GotoType, PlacesType DEF FinalRead, EndRead, At, Result, Where
<1>21. CASE ExternalComplete(p)
  BY <1>21, TicketsType, AdvanceType DEF ExternalComplete, At, State, Where, Result
<1>22. CASE Consume(p)
  <2>1. ProcsOK' /\ faults' \in 0..MaxFaults
    BY <1>22, GotoType, EndType, FaultsType DEF Consume, Where, Result
  <2>2. approvals' \in [Approval -> {"absent", "pending", "consumed"}]
    BY <1>22 DEF Consume, TypeOK
  <2> QED
    BY <1>22, <2>1, <2>2 DEF Consume, At, outside, tracker, TypeOK, ProcsOK
<1>23. CASE Consumed(p)
  BY <1>2, <1>23, TicketsType, AdvanceType DEF Consumed, At, State, Where, Result, Unbegun
<1>24. CASE Commit(p)
  BY <1>2, <1>24, TicketsType, AdvanceType DEF Commit, At, State, Where, Result, Unbegun
<1>25. CASE PostConditions(p)
  BY <1>1, <1>25, ReadType, GotoType DEF PostConditions, At, Result, Where
<1>26. CASE Handoff(p)
  BY <1>1, <1>26, ReadType, GotoType DEF Handoff, At, Result, Where
<1>27. CASE Transition(p)
  <2>1. ProcsOK' /\ faults' \in 0..MaxFaults
    BY <1>27, EndType, FaultsType DEF Transition, Result
  <2>2. checkpoint' \in {checkpoint, "HANDOFF_READY"}
    BY <1>27 DEF Transition
  <2> QED
    BY <1>27, <2>1, <2>2 DEF Transition, At, outside, tracker, TypeOK, ProcsOK
<1> HIDE DEF op
<1> QED
  BY <1>4, <1>5, <1>6, <1>7, <1>8, <1>9, <1>10, <1>11, <1>12, <1>13, <1>14, <1>15, <1>16,
     <1>17, <1>18, <1>19, <1>20, <1>21, <1>22, <1>23, <1>24, <1>25, <1>26, <1>27 DEF Step

LEMMA NextType ==
    ASSUME TypeOK, \A p \in Proc : Holding(p), [Next]_vars
    PROVE  TypeOK'
<1>1. ASSUME NEW p \in Proc, Start(p) PROVE TypeOK'
  <2>1. PICK a \in Approval : StartWith(p, a)
    BY <1>1 DEF Start
  <2>2. Becomes(p, "ensure", Fresh(a))
    BY <2>1 DEF StartWith, Becomes, Goto
  <2>3. ProcsOK'
    BY <2>2, FreshType, BecomesType DEF Where
  <2> QED
    BY <2>1, <2>3 DEF StartWith, At, outside, tracker, case, TypeOK, ProcsOK
<1>2. ASSUME NEW p \in Proc, Step(p) PROVE TypeOK'
  BY <1>2, StepType
<1>3. ASSUME NEW p \in Proc, Crash(p) PROVE TypeOK'
  <2>1. ProcsOK' /\ faults' \in 0..MaxFaults
    BY <1>3, EndType, FaultsType DEF Crash, Result
  <2> QED
    BY <1>3, <2>1 DEF Crash, At, outside, tracker, case, TypeOK, ProcsOK
<1>4. ASSUME NEW a \in Approval, Approve(a) \/ Expire(a) PROVE TypeOK'
  BY <1>4 DEF Approve, Expire, outside, tracker, TypeOK
<1>5. ASSUME NEW t \in Ticket, Land(t) PROVE TypeOK'
  BY <1>5 DEF Land, AddComment, MaxComments, outside, case, TypeOK
<1>6. ASSUME NEW t \in Ticket, Edit(t) PROVE TypeOK'
  BY <1>6, AdmissionAssumption DEF Edit, MaxComments, case, TypeOK
<1>7. CASE Claim
  BY <1>7 DEF Claim, tracker, case, TypeOK
<1>8. CASE OtherCommand
  BY <1>8 DEF OtherCommand, tracker, outside, TypeOK
<1>9. CASE UNCHANGED vars
  BY <1>9 DEF vars, tracker, case, outside, TypeOK
<1> QED
  BY <1>1, <1>2, <1>3, <1>4, <1>5, <1>6, <1>7, <1>8, <1>9 DEF Next

LEMMA InitType == Init => TypeOK
<1> SUFFICES ASSUME Init PROVE TypeOK
  OBVIOUS
<1>1. \A a \in Approval : Fresh(a) \in Run
  BY FreshType
<1>2. run \in [Proc -> Run]
  <2>1. PICK S : S = {Fresh(a) : a \in Approval}
    OBVIOUS
  <2>2. S \subseteq Run
    BY <1>1, <2>1
  <2>3. run \in [Proc -> S]
    BY <2>1 DEF Init
  <2> QED
    BY <2>2, <2>3
<1>3. ProcsOK
  BY <1>2 DEF Init, ProcsOK, Where
<1>4. faults \in 0..MaxFaults /\ edits \in 0..MaxEdits
  BY AdmissionAssumption DEF Init
<1>5. labels \in [Ticket -> SUBSET Label] /\ comments \in [Ticket -> 0..MaxComments]
  BY DEF Init, Label, MaxComments
<1>6. approvals \in [Approval -> {"absent", "pending", "consumed"}]
  BY DEF Init
<1> QED
  BY <1>3, <1>4, <1>5, <1>6 DEF Init, TypeOK, ProcsOK

-----------------------------------------------------------------------------
(* What one apply relies on outlives the steps of the others. *)

LEMMA RankType == \A s \in State : Rank[s] \in 1..6
BY DEF Rank, State

LEMMA ShowsKept ==
    ASSUME TypeOK, Grows, edits' = 0, NEW k \in 1..LastOp, Shows(k)
    PROVE  Shows(k)'
BY OpType DEF Grows, Shows, Op

LEMMA CopiedKept ==
    ASSUME TypeOK, TypeOK', TxnGrows, NEW r \in Run, r.txn # NoTxn, Copied(r)
    PROVE  Copied(r)'
<1>1. r.txn \in Txn /\ txn \in Txn /\ txn' \in Txn
  BY DEF Copied, TxnGrows, TypeOK, Run
<1>2. Rank[r.txn.state] \in Int /\ Rank[txn.state] \in Int /\ Rank[txn'.state] \in Int
  BY <1>1, RankType DEF Txn
<1> QED
  BY <1>2 DEF Copied, TxnGrows

LEMMA ReliesKept ==
    ASSUME TypeOK, TypeOK', Grows, NEW r \in Run, NEW w \in Where, ReliesOn(r, w)
    PROVE  ReliesOn(r, w)'
<1>1. r.txn # NoTxn => Copied(r)'
  BY CopiedKept DEF ReliesOn, Grows
<1>2. w \in {"handoff", "transition"} => approvals'[r.approval] = "consumed"
  BY DEF ReliesOn, Grows, Run
<1>3. ASSUME edits' = 0
      PROVE  /\ edits = 0
             /\ \A k \in 1..LastOp : Shows(k) => Shows(k)'
             /\ \A t \in Ticket : "before" \notin labels[t] => "before" \notin labels'[t]
  BY <1>3, ShowsKept DEF Grows
<1>4. r.k \in 1..LastOp /\ OpAt(r.k).ticket \in Ticket /\ 1..(LastOp - 1) \subseteq 1..LastOp
  BY OpType, TicketsType DEF Run, Op
<1> QED
  BY <1>1, <1>2, <1>3, <1>4 DEF ReliesOn

\* The steps that leave the tracker and the case alone.
LEMMA NothingGrows ==
    ASSUME TypeOK, UNCHANGED <<tracker, case>>, edits' = 0 => edits = 0
    PROVE  Grows
<1>1. txn # NoTxn => Rank[txn.state] <= Rank[txn.state]
  BY RankType DEF TypeOK, Txn
<1> QED
  BY <1>1 DEF Grows, TxnGrows, tracker, case

LEMMA NothingTold ==
    ASSUME Told, UNCHANGED <<tracker, case>>, edits' = 0 => edits = 0
    PROVE  Told'
BY DEF Told, TransactionTrue, RecordedIsDone, SpentWhenExternal, HandoffMeansCommitted,
       ActivationLast, LabelsOK, tracker, case

LEMMA EndRelies ==
    ASSUME TypeOK, NEW p \in Proc, NEW result \in Result, End(p, result)
    PROVE  Relies(p)'
<1>1. pc'[p] = "idle" /\ run'[p] = Left(p, result)
  BY EndType DEF Becomes, TypeOK
<1>2. Left(p, result).txn = NoTxn
  BY DEF Left, Fresh
<1> QED
  BY <1>1, <1>2 DEF Relies, ReliesOn, Unbegun, Preparing, Labelling, Operating

LEMMA BecomesRelies ==
    ASSUME TypeOK, NEW p \in Proc, NEW r, NEW w, Becomes(p, w, r), ReliesOn(r, w)'
    PROVE  Relies(p)'
<1>1. pc'[p] = w /\ run'[p] = r
  BY DEF Becomes, TypeOK
<1> QED
  BY <1>1 DEF Relies

\* A step that only reads goes on with what it may rely on now.
LEMMA ReadKeeps ==
    ASSUME TypeOK, TypeOK', Told, NEW p \in Proc, NEW result \in Result, NEW w \in Where,
           NEW r \in Run, UNCHANGED <<tracker, case, outside>>,
           End(p, result) \/ (Becomes(p, w, r) /\ ReliesOn(r, w))
    PROVE  Grows /\ Told' /\ Relies(p)'
<1>1. edits' = edits
  BY DEF outside
<1>2. Grows /\ Told'
  BY <1>1, NothingGrows, NothingTold
<1> QED
  BY <1>2, EndRelies, BecomesRelies, ReliesKept

-----------------------------------------------------------------------------
(* Writing the transaction. *)

LEMMA SuccessorsType ==
    ASSUME NEW s \in State, NEW t \in Successors[s]
    PROVE  /\ t \in State \ {"PLANNED"}
           /\ Rank[s] <= Rank[t]
           /\ s # "COMMITTED"
           /\ s \in {"EXTERNAL_COMPLETE", "APPROVAL_CONSUMED"} =>
                 t \in {"APPROVAL_CONSUMED", "COMMITTED"}
BY DEF State, Successors, Rank

\* What is written to the case follows what is there.
LEMMA LegalGrows ==
    ASSUME TypeOK, NEW p \in Proc, Relies(p), NEW state \in State,
           NEW done \in SUBSET (1..LastOp), state = "PLANNED" \/ run[p].txn # NoTxn,
           Legal(state, done), txn' = New(p, state, done)
    PROVE  /\ TxnGrows
           /\ txn' # NoTxn /\ txn'.approval = run[p].approval
           /\ txn = NoTxn \/ txn.state # "COMMITTED"
           /\ txn = NoTxn \/ txn.approval = run[p].approval
           /\ txn # NoTxn /\ txn.state \in {"EXTERNAL_COMPLETE", "APPROVAL_CONSUMED"} =>
                 state \in {"APPROVAL_CONSUMED", "COMMITTED"}
<1>1. txn' # NoTxn /\ txn'.state = state /\ txn'.approval = run[p].approval /\ txn'.done = done
  <2>1. New(p, state, done) \in Txn
    BY RunType DEF New, Txn
  <2> QED
    BY <2>1, AdmissionAssumption DEF New
<1>2. CASE txn = NoTxn
  BY <1>1, <1>2 DEF TxnGrows
<1>3. CASE txn # NoTxn
  <2>1. txn.state \in State /\ state \in Successors[txn.state] /\ txn.done \subseteq done
    BY <1>3 DEF Legal, TypeOK, Txn
  <2>2. run[p].txn # NoTxn
    BY <2>1, SuccessorsType
  <2>3. txn.approval = run[p].approval
    BY <2>2 DEF Relies, ReliesOn, Copied
  <2> QED
    BY <1>1, <1>3, <2>1, <2>3, SuccessorsType DEF TxnGrows
<1> QED
  BY <1>2, <1>3

\* The places at which an advance goes on.
Onward == {"initial", "applying", "issue", "preact", "final", "consume", "commit", "post"}

LEMMA AdvanceKeeps ==
    ASSUME TypeOK, TypeOK', Told, NEW p \in Proc, Relies(p), NEW state \in State,
           NEW done \in SUBSET (1..LastOp), NEW k \in 1..LastOp, NEW next \in Onward,
           NEW otherwise \in Result,
           state = "PLANNED" \/ run[p].txn # NoTxn,
           edits = 0 => \A j \in done : Shows(j),
           next \in Preparing => k = 1,
           next = "issue" => k # LastOp,
           next = "consume" => state = "EXTERNAL_COMPLETE",
           Advance(p, state, done, k, next, otherwise), UNCHANGED outside
    PROVE  Grows /\ Told' /\ Relies(p)'
<1> DEFINE new == New(p, state, done)
<1>1. edits' = edits /\ UNCHANGED <<tracker, approvals, expired, checkpoint>>
  BY DEF outside, Advance
<1>2. next \in Where
  BY DEF Onward, Where
<1>3. \/ /\ Legal(state, done)
         /\ txn' = new
         /\ Becomes(p, next, Wrote(p, new, k))
      \/ /\ Becomes(p, "idle", Left(p, otherwise))
         /\ \/ txn' = txn
            \/ Legal(state, done) /\ txn' = new
  BY <1>2, AdvanceCases
<1>4. CASE txn' = txn /\ Becomes(p, "idle", Left(p, otherwise))
  <2>1. Grows /\ Told'
    BY <1>1, <1>4, NothingGrows, NothingTold DEF case
  <2>2. Left(p, otherwise).txn = NoTxn
    BY DEF Left, Fresh
  <2>3. pc'[p] = "idle" /\ run'[p] = Left(p, otherwise)
    BY <1>4 DEF Becomes, TypeOK
  <2>4. Relies(p)'
    BY <2>2, <2>3 DEF Relies, ReliesOn, Unbegun, Preparing, Labelling, Operating
  <2> QED
    BY <2>1, <2>4
<1>5. CASE Legal(state, done) /\ txn' = new
  <2>1. TxnGrows /\ txn' # NoTxn /\ txn'.approval = run[p].approval
    BY <1>5, LegalGrows
  <2>2. Grows
    BY <1>1, <2>1 DEF Grows, tracker
  <2>3. txn'.state = state /\ txn'.done = done
    BY <1>5 DEF New
  <2>4. RecordedIsDone'
    BY <1>1, <2>3 DEF RecordedIsDone, Shows, tracker
  <2>5. SpentWhenExternal'
    <3>1. ASSUME NEW a \in Approval, approvals'[a] = "consumed"
          PROVE  /\ txn'.approval = a
                 /\ txn'.state \in {"EXTERNAL_COMPLETE", "APPROVAL_CONSUMED", "COMMITTED"}
      <4>1. /\ txn # NoTxn /\ txn.approval = a
            /\ txn.state \in {"EXTERNAL_COMPLETE", "APPROVAL_CONSUMED", "COMMITTED"}
        BY <1>1, <3>1 DEF Told, TransactionTrue, SpentWhenExternal
      <4> QED
        BY <1>5, <2>1, <2>3, <4>1, LegalGrows DEF TxnGrows
    <3> QED
      BY <2>1, <3>1 DEF SpentWhenExternal
  <2>6. HandoffMeansCommitted'
    <3>1. checkpoint \notin {"HANDOFF_READY", "IN_PROGRESS"}
      BY <1>5, LegalGrows DEF Told, TransactionTrue, HandoffMeansCommitted
    <3> QED
      BY <1>1, <3>1 DEF HandoffMeansCommitted
  <2>7. (ActivationLast /\ LabelsOK)'
    BY <1>1 DEF Told, ActivationLast, LabelsOK, tracker
  <2>8. Relies(p)'
    <3>1. CASE Becomes(p, "idle", Left(p, otherwise))
      <4>1. pc'[p] = "idle" /\ run'[p] = Left(p, otherwise) /\ Left(p, otherwise).txn = NoTxn
        BY <3>1 DEF Becomes, TypeOK, Left, Fresh
      <4> QED
        BY <4>1 DEF Relies, ReliesOn, Unbegun, Preparing, Labelling, Operating
    <3>2. CASE Becomes(p, next, Wrote(p, new, k))
      <4>1. /\ pc'[p] = next /\ run'[p] = Wrote(p, new, k)
            /\ run[p] \in Run /\ new \in Txn
        BY <3>2, RunType DEF Becomes, TypeOK, New, Txn
      <4>2. /\ run'[p].txn = new /\ run'[p].k = k /\ run'[p].approval = run[p].approval
            /\ new.state = state
        BY <4>1 DEF Wrote, Run, New
      <4>3. txn' = run'[p].txn /\ new # NoTxn
        BY <1>5, <4>2, <2>1
      <4>4. Copied(run[p])'
        BY <2>1, <2>3, <4>2, <4>3, RankType DEF Copied
      <4> QED
        BY <4>1, <4>2, <4>3, <4>4
        DEF Relies, ReliesOn, Onward, Preparing, Labelling, Operating
    <3> QED
      BY <1>3, <3>1, <3>2, <1>5
  <2> QED
    BY <2>2, <2>4, <2>5, <2>6, <2>7 , <2>8 DEF Told, TransactionTrue
<1> QED
  BY <1>3, <1>4, <1>5

-----------------------------------------------------------------------------
(* The steps of one apply. *)

LEMMA EndKeeps ==
    ASSUME TypeOK, TypeOK', Told, NEW p \in Proc, NEW result \in Result,
           UNCHANGED <<tracker, case, outside>>, End(p, result)
    PROVE  Grows /\ Told' /\ Relies(p)'
BY ReadKeeps, RunType DEF Where

LEMMA EndReadKeeps ==
    ASSUME TypeOK, TypeOK', Told, NEW p \in Proc, UNCHANGED <<tracker, case, outside>>,
           EndRead(p)
    PROVE  Grows /\ Told' /\ Relies(p)'
BY EndKeeps DEF EndRead, Result

LEMMA GotoKeeps ==
    ASSUME TypeOK, TypeOK', Told, NEW p \in Proc, NEW w \in Where,
           UNCHANGED <<tracker, case, outside>>, Goto(p, w), UNCHANGED run,
           ReliesOn(run[p], w)
    PROVE  Grows /\ Told' /\ Relies(p)'
<1>1. Becomes(p, w, run[p]) /\ run[p] \in Run
  BY GotoType, RunType
<1> QED
  BY <1>1, ReadKeeps DEF Result

LEMMA PreparingKeeps ==
    ASSUME TypeOK, TypeOK', Told, NEW p \in Proc, Relies(p),
           \/ EnsureTransaction(p) \/ CreateTransaction(p) \/ InitialRead(p)
           \/ ReadApproval(p) \/ Authorize(p) \/ Applying(p)
    PROVE  Grows /\ Told' /\ Relies(p)'
<1> DEFINE r == run[p]
<1>0. ReliesOn(r, pc[p]) /\ r \in Run /\ (r.txn # NoTxn => r.txn \in Txn)
  BY RunType DEF Relies
<1> HIDE DEF r
<1>1. CASE EnsureTransaction(p)
  <2>1. CASE End(p, "CONFLICT")
    BY <1>1, <2>1, EndKeeps DEF EnsureTransaction, At, Result
  <2>2. CASE Goto(p, "create") /\ UNCHANGED run
    <3>1. ReliesOn(r, "create")
      BY <1>0, <1>1 DEF EnsureTransaction, At, ReliesOn, Unbegun, Preparing, Operating, Labelling
    <3> QED
      BY <1>1, <2>2, <3>1, GotoKeeps DEF EnsureTransaction, At, Where, r
  <2>3. CASE /\ txn # NoTxn /\ txn.approval = run[p].approval
             /\ run' = [run EXCEPT ![p].txn = txn] /\ Goto(p, "initial")
    <3> DEFINE s == [r EXCEPT !.txn = txn]
    <3>1. s \in Run /\ s.txn = txn /\ s.k = r.k /\ s.approval = r.approval
      BY <1>0 DEF Run, TypeOK
    <3>2. Becomes(p, "initial", s)
      BY <2>3 DEF Becomes, Goto, TypeOK, r
    <3> HIDE DEF s
    <3>3. Copied(s)
      BY <2>3, <3>1, RankType DEF Copied, TypeOK, Txn, r
    <3>4. r.k = 1
      BY <1>0, <1>1 DEF EnsureTransaction, At, ReliesOn, Preparing
    <3>5. ReliesOn(s, "initial")
      BY <2>3, <3>1, <3>3, <3>4 DEF ReliesOn, Unbegun, Preparing, Operating, Labelling
    <3> QED
      BY <1>1, <3>1, <3>2, <3>5, ReadKeeps DEF EnsureTransaction, At, Where, Result
  <2> QED
    BY <1>1, <2>1, <2>2, <2>3 DEF EnsureTransaction
<1>2. CASE CreateTransaction(p)
  BY <1>2, AdvanceKeeps, TicketsType
  DEF CreateTransaction, At, Onward, Preparing, State, Result
<1>3. CASE InitialRead(p)
  <2>1. CASE End(p, "CONFLICT")
    BY <1>3, <2>1, EndKeeps DEF InitialRead, At, Result
  <2>2. CASE Goto(p, "approval") /\ UNCHANGED run
    <3>1. ReliesOn(r, "approval")
      BY <1>0, <1>3 DEF InitialRead, At, ReliesOn, Unbegun, Preparing, Operating, Labelling
    <3> QED
      BY <1>3, <2>2, <3>1, GotoKeeps DEF InitialRead, At, Where, r
  <2> QED
    BY <1>3, <2>1, <2>2 DEF InitialRead
<1>4. CASE ReadApproval(p)
  <2> DEFINE used == approvals[run[p].approval] = "consumed"
  <2>1. CASE End(p, "CONFLICT")
    BY <1>4, <2>1, EndKeeps DEF ReadApproval, At, Result
  <2>2. CASE run' = [run EXCEPT ![p].used = used] /\ Goto(p, Resume(run[p].txn.state))
    <3> DEFINE s == [r EXCEPT !.used = used]  w == Resume(r.txn.state)
    <3>1. used \in BOOLEAN /\ r.txn # NoTxn /\ r.k = 1
      BY <1>0, <1>4 DEF ReadApproval, At, ReliesOn, Unbegun, Preparing
    <3> HIDE DEF used
    <3>2. s \in Run /\ s.txn = r.txn /\ s.k = r.k /\ s.approval = r.approval
      BY <1>0, <3>1 DEF Run
    <3>3. Becomes(p, w, s)
      BY <2>2 DEF Becomes, Goto, TypeOK, r
    <3>4. w \in Where /\ w \in {"authorize", "applying", "issue", "final"}
      BY DEF Resume, Where
    <3> HIDE DEF s, w
    <3>5. Copied(s)
      BY <1>0, <3>1, <3>2 DEF ReliesOn, Copied
    <3>6. 1 # LastOp
      BY TicketsType
    <3>7. ReliesOn(s, w)
      BY <3>1, <3>2, <3>4, <3>5, <3>6 DEF ReliesOn, Unbegun, Preparing, Operating, Labelling
    <3> QED
      BY <1>4, <3>2, <3>3, <3>4, <3>7, ReadKeeps DEF ReadApproval, At, Result
  <2> QED
    BY <1>4, <2>1, <2>2 DEF ReadApproval
<1>5. ASSUME Authorize(p) \/ Applying(p)
      PROVE  /\ r.txn # NoTxn /\ r.txn.done \in SUBSET (1..LastOp)
             /\ edits = 0 => \A j \in r.txn.done : Shows(j)
  <2>1. r.txn # NoTxn /\ r.txn.done \in SUBSET (1..LastOp)
    BY <1>0, <1>5 DEF Authorize, Applying, At, ReliesOn, Unbegun, Txn
  <2>2. txn # NoTxn /\ r.txn.done \subseteq txn.done
    BY <1>0, <2>1 DEF ReliesOn, Copied
  <2> QED
    BY <2>1, <2>2 DEF Told, TransactionTrue, RecordedIsDone, Shows
<1>6. CASE Authorize(p)
  BY <1>5, <1>6, AdvanceKeeps, TicketsType DEF Authorize, At, Onward, State, Result, r
<1>7. CASE Applying(p)
  <2>1. 1 # LastOp /\ 1 \in 1..LastOp
    BY TicketsType
  <2> QED
    BY <1>5, <1>7, <2>1, AdvanceKeeps DEF Applying, At, Onward, Preparing, State, Result, r
<1> QED
  BY <1>1, <1>2, <1>3, <1>4, <1>6, <1>7

LEMMA AfterShows ==
    ASSUME NEW k \in 1..LastOp, Status(OpAt(k)) = "after"
    PROVE  Shows(k)
BY DEF Status, Shows

\* A write to the tracker leaves what the case records true, if it takes
\* nothing back.
LEMMA TrackerTold ==
    ASSUME TypeOK, TransactionTrue, Grows, UNCHANGED case, UNCHANGED outside
    PROVE  TransactionTrue'
<1>1. /\ UNCHANGED <<txn, approvals, expired, checkpoint>> /\ edits' = edits
      /\ txn # NoTxn => txn.done \subseteq 1..LastOp
  BY DEF case, outside, TypeOK, Txn
<1>2. (SpentWhenExternal /\ HandoffMeansCommitted)'
  BY <1>1 DEF TransactionTrue, SpentWhenExternal, HandoffMeansCommitted
<1>3. ASSUME edits' = 0, txn' # NoTxn, NEW k \in txn'.done PROVE Shows(k)'
  <2>1. k \in 1..LastOp /\ Shows(k)
    BY <1>1, <1>3 DEF TransactionTrue, RecordedIsDone, Shows
  <2> QED
    BY <1>3, <2>1, ShowsKept
<1> QED
  BY <1>2, <1>3 DEF TransactionTrue, RecordedIsDone, Shows

\* Once the last operation is reached, all before it can be seen.
LEMMA AllShow ==
    ASSUME TypeOK, \A j \in 1..(LastOp - 1) : Shows(j)
    PROVE  /\ \A t \in Ticket : comments[t] > 0
           /\ \A t \in Ticket \ {Parent} : labels[t] = {"after"}
<1>1. ASSUME NEW t \in Ticket
      PROVE  comments[t] > 0 /\ (t # Parent => labels[t] = {"after"})
  <2>1. PICK i \in 1..Len(Tickets) : t = Tickets[i]
    BY DEF Ticket
  <2>2. 2 * i - 1 \in 1..(LastOp - 1)
    BY TicketsType DEF LastOp
  <2>3. t # Parent => 2 * i \in 1..(LastOp - 1)
    BY <2>1, TicketsType DEF LastOp, Parent
  <2>4. OpAt(2 * i - 1).ticket = t /\ OpAt(2 * i - 1).kind = "comment"
    BY <2>1, OpsOfTicket
  <2>5. OpAt(2 * i).ticket = t /\ OpAt(2 * i).kind = "labels"
    BY <2>1, OpsOfTicket
  <2>6. comments[t] > 0
    BY <2>2, <2>4 DEF Shows
  <2>7. t # Parent => labels[t] = {"after"}
    BY <2>3, <2>5 DEF Shows
  <2> QED
    BY <2>6, <2>7
<1> QED
  BY <1>1

LEMMA ReadingKeeps ==
    ASSUME TypeOK, TypeOK', Told, NEW p \in Proc, Relies(p),
           \/ PreActivate(p) \/ ReadIssue(p) \/ ReadClaims(p)
           \/ LookLabels(p) \/ RelookLabels(p) \/ ReadBack(p)
    PROVE  Grows /\ Told' /\ Relies(p)'
<1> DEFINE r == run[p]  t == OpAt(r.k).ticket
<1>0. /\ ReliesOn(r, pc[p]) /\ r \in Run /\ r.k \in 1..LastOp
      /\ OpAt(r.k).kind \in {"comment", "labels"} /\ t \in Ticket
      /\ UNCHANGED <<tracker, case, outside>>
  BY RunType DEF Relies, Op, PreActivate, ReadIssue, ReadClaims, LookLabels, RelookLabels,
                 ReadBack, At
<1> HIDE DEF r
<1>1. ASSUME pc[p] \in Operating \cup {"preact"}
      PROVE  r.txn # NoTxn /\ Copied(r)
  BY <1>0, <1>1 DEF ReliesOn, Unbegun, Operating
<1>2. ASSUME pc[p] \in Operating, NEW w \in {"issue", "claims", "readback"}
      PROVE  ReliesOn(r, w)
  BY <1>0, <1>1, <1>2 DEF ReliesOn, Unbegun, Preparing, Operating, Labelling
<1>3. CASE PreActivate(p)
  <2>1. CASE EndRead(p) \/ End(p, "CONFLICT")
    BY <1>0, <2>1, EndKeeps, EndReadKeeps DEF Result
  <2>2. CASE AllAfter(LastOp - 1) /\ Goto(p, "issue") /\ UNCHANGED run
    <3>1. \A j \in 1..(LastOp - 1) : Shows(j)
      BY <2>2, AfterShows, TicketsType DEF AllAfter
    <3>2. ReliesOn(r, "issue")
      BY <1>1, <1>3, <3>1
      DEF PreActivate, At, ReliesOn, Unbegun, Preparing, Operating, Labelling
    <3> QED
      BY <1>0, <2>2, <3>2, GotoKeeps DEF Where, r
  <2> QED
    BY <1>3, <2>1, <2>2 DEF PreActivate
<1>4. CASE ReadIssue(p)
  <2>0. pc[p] = "issue" /\ pc[p] \in Operating
    BY <1>4 DEF ReadIssue, At, Operating
  <2>1. CASE EndRead(p) \/ End(p, "CONFLICT")
    BY <1>0, <2>1, EndKeeps, EndReadKeeps DEF Result
  <2>2. CASE /\ Status(OpAt(r.k)) = "after"
             /\ run' = [run EXCEPT ![p].k = NextK(@)]
             /\ Goto(p, Then(r.k))
    <3> DEFINE s == [r EXCEPT !.k = NextK(@)]  w == Then(r.k)
    <3>1. s \in Run /\ s.txn = r.txn /\ s.k = NextK(r.k) /\ s.approval = r.approval
      BY <1>0, PlacesType DEF Run
    <3>2. Becomes(p, w, s)
      BY <2>2 DEF Becomes, Goto, TypeOK, r
    <3>3. w \in {"final", "preact", "issue"} /\ (w = "issue" => NextK(r.k) # LastOp)
      BY DEF Then, NextK
    <3> HIDE DEF s, w
    <3>4. Copied(s)
      BY <1>1, <2>0, <3>1 DEF Copied
    <3>5. ReliesOn(s, w)
      BY <1>1, <2>0, <3>1, <3>3, <3>4 DEF ReliesOn, Unbegun, Preparing, Operating, Labelling
    <3> QED
      BY <1>0, <3>1, <3>2, <3>3, <3>5, ReadKeeps DEF Where, Result
  <2>3. CASE Status(OpAt(r.k)) = "after" /\ Goto(p, "record") /\ UNCHANGED run
    <3>1. Shows(r.k)
      BY <1>0, <2>3, AfterShows
    <3>2. ReliesOn(r, "record")
      BY <1>0, <1>1, <2>0, <3>1 DEF ReliesOn, Unbegun, Preparing, Operating, Labelling
    <3> QED
      BY <1>0, <2>3, <3>2, GotoKeeps DEF Where, r
  <2>4. CASE Goto(p, "claims") /\ UNCHANGED run
    BY <1>0, <1>2, <2>0, <2>4, GotoKeeps DEF Where, r
  <2> QED
    BY <1>4, <2>1, <2>2, <2>3, <2>4 DEF ReadIssue, r
<1>5. CASE ReadClaims(p)
  <2>1. CASE EndRead(p) \/ End(p, "CONFLICT")
    BY <1>0, <2>1, EndKeeps, EndReadKeeps DEF Result
  <2>2. CASE /\ Goto(p, IF OpAt(r.k).kind = "comment" THEN "comment" ELSE "look")
             /\ UNCHANGED run
    <3> DEFINE w == IF OpAt(r.k).kind = "comment" THEN "comment" ELSE "look"
    <3>1. w \in Where /\ ReliesOn(r, w)
      BY <1>0, <1>1, <1>5
      DEF ReadClaims, At, ReliesOn, Unbegun, Preparing, Operating, Labelling, Where
    <3> QED
      BY <1>0, <2>2, <3>1, GotoKeeps DEF r
  <2> QED
    BY <1>5, <2>1, <2>2 DEF ReadClaims, r
<1>6. CASE LookLabels(p)
  <2>0. pc[p] = "look" /\ pc[p] \in Operating /\ UNCHANGED run
    BY <1>6 DEF LookLabels, At, Operating
  <2>1. CASE Goto(p, "readback")
    BY <1>0, <1>2, <2>0, <2>1, GotoKeeps DEF Where, r
  <2>2. CASE Goto(p, "delete") \/ ("before" \notin labels[t] /\ Goto(p, "relook"))
    <3>1. PICK w \in {"delete", "relook"} :
            Goto(p, w) /\ (w = "relook" => "before" \notin labels[t])
      BY <2>2
    <3>2. ReliesOn(r, w)
      BY <1>0, <1>1, <2>0, <3>1 DEF ReliesOn, Unbegun, Preparing, Operating, Labelling
    <3> QED
      BY <1>0, <2>0, <3>1, <3>2, GotoKeeps DEF Where, r
  <2> QED
    BY <1>6, <2>1, <2>2 DEF LookLabels, r
<1>7. CASE RelookLabels(p)
  <2>0. pc[p] = "relook" /\ pc[p] \in Operating /\ UNCHANGED run
    BY <1>7 DEF RelookLabels, At, Operating
  <2>1. CASE Goto(p, "readback")
    BY <1>0, <1>2, <2>0, <2>1, GotoKeeps DEF Where, r
  <2>2. CASE Goto(p, "add")
    <3>1. ReliesOn(r, "add")
      BY <1>0, <1>1, <2>0 DEF ReliesOn, Unbegun, Preparing, Operating, Labelling
    <3> QED
      BY <1>0, <2>0, <2>2, <3>1, GotoKeeps DEF Where, r
  <2> QED
    BY <1>7, <2>1, <2>2 DEF RelookLabels, r
<1>8. CASE ReadBack(p)
  <2>0. pc[p] = "readback" /\ pc[p] \in Operating
    BY <1>8 DEF ReadBack, At, Operating
  <2>1. CASE End(p, "PARTIAL") \/ End(p, "CONFLICT")
    BY <1>0, <2>1, EndKeeps DEF Result
  <2>2. CASE /\ Status(OpAt(r.k)) = "after"
             /\ run' = [run EXCEPT ![p].wrote = TRUE] /\ Goto(p, "record")
    <3> DEFINE s == [r EXCEPT !.wrote = TRUE]
    <3>1. s \in Run /\ s.txn = r.txn /\ s.k = r.k /\ s.approval = r.approval
      BY <1>0 DEF Run
    <3>2. Becomes(p, "record", s)
      BY <2>2 DEF Becomes, Goto, TypeOK, r
    <3> HIDE DEF s
    <3>3. Shows(r.k) /\ Copied(s)
      BY <1>0, <1>1, <2>0, <2>2, <3>1, AfterShows DEF Copied
    <3>4. ReliesOn(s, "record")
      BY <1>0, <1>1, <2>0, <3>1, <3>3 DEF ReliesOn, Unbegun, Preparing, Operating, Labelling
    <3> QED
      BY <1>0, <3>1, <3>2, <3>4, ReadKeeps DEF Where, Result
  <2> QED
    BY <1>8, <2>1, <2>2 DEF ReadBack, r
<1> QED
  BY <1>3, <1>4, <1>5, <1>6, <1>7, <1>8

LEMMA WritingKeeps ==
    ASSUME TypeOK, TypeOK', Told, NEW p \in Proc, Relies(p),
           PostComment(p) \/ DeleteLabel(p) \/ AddLabel(p)
    PROVE  Grows /\ Told' /\ Relies(p)'
<1>a. PICK r : r = run[p]
  OBVIOUS
<1>b. PICK t : t = OpAt(r.k).ticket
  OBVIOUS
<1>0. /\ ReliesOn(r, pc[p]) /\ r \in Run /\ r.k \in 1..LastOp /\ t \in Ticket
      /\ r.txn # NoTxn /\ Copied(r)
      /\ pc[p] \in Operating /\ pc'[p] \in {"readback", "relook"} /\ run' = run
      /\ pc'[p] = "relook" => "before" \notin labels'[t] /\ OpAt(r.k).kind = "labels"
      /\ edits' = edits /\ UNCHANGED <<case, outside, drift>>
  <2>1. /\ r \in Run /\ r.k \in 1..LastOp /\ t \in Ticket
        /\ UNCHANGED <<case, outside, drift>> /\ run' = run /\ edits' = edits
    BY <1>a, <1>b, RunType DEF PostComment, DeleteLabel, AddLabel, At, outside
  <2>2. pc[p] \in {"comment", "delete", "add"}
    BY DEF PostComment, DeleteLabel, AddLabel, At
  <2>3. /\ pc'[p] \in {"readback", "relook"}
        /\ pc'[p] = "relook" => "before" \notin labels'[t] /\ pc[p] = "delete"
    BY <1>a, <1>b, <2>1 DEF PostComment, DeleteLabel, AddLabel, At, Goto, TypeOK
  <2>4. ReliesOn(r, pc[p])
    BY <1>a DEF Relies
  <2>5. r.txn # NoTxn /\ Copied(r) /\ pc[p] \in Operating
    BY <2>2, <2>4 DEF ReliesOn, Unbegun, Operating
  <2>6. pc[p] = "delete" => OpAt(r.k).kind = "labels"
    BY <2>4 DEF ReliesOn, Labelling
  <2> QED
    BY <2>1, <2>3, <2>4, <2>5, <2>6
<1>1. Grows /\ LabelsOK' /\ ActivationLast'
  <2>1. TxnGrows /\ \A a \in Approval : approvals[a] = "consumed" => approvals'[a] = "consumed"
    BY <1>0, RankType DEF TxnGrows, TypeOK, Txn, case
  <2>2. CASE PostComment(p)
    <3>1. labels' = labels /\ \A u \in Ticket : comments[u] > 0 => comments'[u] > 0
      BY <1>a, <1>b, <1>0, <2>2 DEF PostComment, AddComment, TypeOK, MaxComments
    <3> QED
      BY <1>0, <2>1, <3>1 DEF Grows, LabelsOK, ActivationLast, Told
  <2>3. CASE DeleteLabel(p)
    <3>1. comments' = comments /\ labels' \in {labels, [labels EXCEPT ![t] = @ \ {"before"}]}
      BY <1>a, <1>b, <2>3 DEF DeleteLabel
    <3>2. \A u \in Ticket : labels'[u] \in {labels[u], labels[u] \ {"before"}}
      BY <1>0, <3>1 DEF TypeOK
    <3>3. \A u \in Ticket :
            /\ labels[u] = {"after"} => labels'[u] = {"after"}
            /\ "before" \notin labels[u] => "before" \notin labels'[u]
            /\ "after" \in labels'[u] => "after" \in labels[u]
            /\ labels[u] \in {{"before"}, {}, {"after"}} =>
                  labels'[u] \in {{"before"}, {}, {"after"}}
      BY <3>2
    <3> QED
      BY <1>0, <2>1, <3>1, <3>3, TicketsType DEF Grows, LabelsOK, ActivationLast, Told
  <2>4. CASE AddLabel(p)
    <3>1. comments' = comments /\ labels' \in {labels, [labels EXCEPT ![t] = @ \cup {"after"}]}
      BY <1>a, <1>b, <2>4 DEF AddLabel
    <3>2. \A u \in Ticket :
            labels'[u] = labels[u] \/ (u = t /\ labels'[u] = labels[u] \cup {"after"})
      BY <1>0, <3>1 DEF TypeOK
    <3>3. edits = 0 => "before" \notin labels[t]
      BY <1>b, <1>0, <2>4 DEF AddLabel, At, ReliesOn
    <3>4. edits = 0 => labels[t] \in {{}, {"after"}}
      BY <1>0, <3>3 DEF Told, LabelsOK
    <3>5. \A u \in Ticket :
            /\ labels[u] = {"after"} => labels'[u] = {"after"}
            /\ "before" \notin labels[u] => "before" \notin labels'[u]
      BY <3>2
    <3>6. LabelsOK'
      BY <1>0, <3>2, <3>4 DEF Told, LabelsOK
    <3>7. ASSUME edits = 0, "after" \in labels'[Parent]
          PROVE  /\ \A u \in Ticket : comments[u] > 0
                 /\ \A u \in Ticket \ {Parent} : labels[u] = {"after"}
      <4>1. CASE "after" \in labels[Parent]
        BY <3>7, <4>1 DEF Told, ActivationLast
      <4>2. CASE "after" \notin labels[Parent]
        <5>1. t = Parent /\ OpAt(r.k).kind = "labels"
          BY <1>0, <2>4, <3>2, <3>7, <4>2, TicketsType DEF AddLabel, At, ReliesOn, Labelling
        <5>2. r.k = LastOp
          BY <1>b, <1>0, <5>1, LastIsParent
        <5> QED
          BY <1>0, <3>7, <5>2, AllShow DEF ReliesOn
      <4> QED
        BY <4>1, <4>2
    <3>8. ActivationLast'
      BY <1>0, <3>1, <3>5, <3>7 DEF ActivationLast
    <3> QED
      BY <1>0, <2>1, <3>1, <3>5, <3>6, <3>8 DEF Grows
  <2> QED
    BY <2>2, <2>3, <2>4
<1>2. Told'
  BY <1>0, <1>1, TrackerTold DEF Told
<1>3. Copied(r)'
  BY <1>0, CopiedKept, <1>1 DEF Grows
<1>4. edits' = 0 /\ r.k = LastOp => \A j \in 1..(LastOp - 1) : Shows(j)'
  <2>1. 1..(LastOp - 1) \subseteq 1..LastOp
    BY TicketsType
  <2> QED
    BY <1>0, <1>1, <2>1, ShowsKept DEF ReliesOn
<1>5. run'[p] = r
  BY <1>a, <1>0
<1>6. Relies(p)'
  BY <1>b, <1>0, <1>3, <1>4, <1>5 DEF Relies, ReliesOn, Unbegun, Preparing, Operating, Labelling
<1> QED
  BY <1>1, <1>2, <1>6

LEMMA FinishingKeeps ==
    ASSUME TypeOK, TypeOK', Told, NEW p \in Proc, Relies(p),
           \/ Record(p) \/ FinalRead(p) \/ ExternalComplete(p) \/ Consumed(p) \/ Commit(p)
           \/ PostConditions(p) \/ Handoff(p)
    PROVE  Grows /\ Told' /\ Relies(p)'
<1>a. PICK r : r = run[p]
  OBVIOUS
<1>0. /\ ReliesOn(r, pc[p]) /\ r \in Run /\ r.k \in 1..LastOp
      /\ pc[p] \in {"record", "final", "external", "consumed", "commit", "post", "handoff"}
  BY <1>a, RunType DEF Relies, Record, FinalRead, ExternalComplete, Consumed, Commit,
                       PostConditions, Handoff, At
<1>1. r.txn # NoTxn /\ Copied(r) /\ r.txn.done \in SUBSET (1..LastOp)
  BY <1>0 DEF ReliesOn, Unbegun, Run, Txn
<1>2. edits = 0 => \A j \in r.txn.done : Shows(j)
  BY <1>1 DEF Copied, Told, TransactionTrue, RecordedIsDone, Shows
<1>3. CASE Record(p)
  <2>1. CASE Advance(p, "APPLYING", r.txn.done \cup {r.k}, NextK(r.k), Then(r.k), "PARTIAL")
    <3>1. /\ r.txn.done \cup {r.k} \in SUBSET (1..LastOp)
          /\ NextK(r.k) \in 1..LastOp
          /\ Then(r.k) \in Onward /\ Then(r.k) \notin Preparing /\ Then(r.k) # "consume"
          /\ Then(r.k) = "issue" => NextK(r.k) # LastOp
      BY <1>0, <1>1, PlacesType DEF Then, NextK, Onward, Preparing
    <3>2. edits = 0 => \A j \in r.txn.done \cup {r.k} : Shows(j)
      BY <1>0, <1>2, <1>3 DEF Record, At, ReliesOn
    <3> QED
      BY <1>a, <1>1, <1>3, <2>1, <3>1, <3>2, AdvanceKeeps DEF Record, At, State, Result
  <2>2. CASE End(p, "PARTIAL") /\ UNCHANGED <<tracker, case>>
    BY <1>3, <2>2, EndKeeps DEF Record, At, Result
  <2> QED
    BY <1>a, <1>3, <2>1, <2>2 DEF Record
<1>4. CASE FinalRead(p)
  <2>1. CASE EndRead(p) \/ End(p, "CONFLICT")
    BY <1>4, <2>1, EndKeeps, EndReadKeeps DEF FinalRead, At, Result
  <2>2. CASE AllAfter(LastOp) /\ Goto(p, Finish(r.txn.state)) /\ UNCHANGED run
    <3>1. \A j \in 1..LastOp : Shows(j)
      BY <2>2, AfterShows DEF AllAfter
    <3>2. PICK w \in {"external", "consume", "commit", "post"} :
            w = Finish(r.txn.state) /\ (w = "consume" => r.txn.state = "EXTERNAL_COMPLETE")
      BY DEF Finish
    <3>3. ReliesOn(r, w)
      BY <1>1, <3>1, <3>2 DEF ReliesOn, Unbegun, Preparing, Operating, Labelling
    <3> QED
      BY <1>a, <1>4, <2>2, <3>2, <3>3, GotoKeeps DEF FinalRead, At, Where
  <2> QED
    BY <1>a, <1>4, <2>1, <2>2 DEF FinalRead
<1>5. CASE ExternalComplete(p)
  <2>1. edits = 0 => \A j \in 1..LastOp : Shows(j)
    BY <1>0, <1>5 DEF ExternalComplete, At, ReliesOn
  <2> QED
    BY <1>a, <1>1, <1>5, <2>1, AdvanceKeeps, TicketsType
    DEF ExternalComplete, At, Onward, Preparing, State, Result
<1>6. CASE Consumed(p)
  BY <1>a, <1>1, <1>2, <1>6, AdvanceKeeps, TicketsType
  DEF Consumed, At, Onward, Preparing, State, Result
<1>7. CASE Commit(p)
  BY <1>a, <1>1, <1>2, <1>7, AdvanceKeeps, TicketsType
  DEF Commit, At, Onward, Preparing, State, Result
<1>8. CASE PostConditions(p)
  <2>1. CASE End(p, "CONFLICT")
    BY <1>8, <2>1, EndKeeps DEF PostConditions, At, Result
  <2>2. CASE /\ approvals[r.approval] = "consumed" /\ r.txn.state = "COMMITTED"
             /\ Goto(p, "handoff") /\ UNCHANGED run
    <3>1. ReliesOn(r, "handoff")
      BY <1>1, <2>2 DEF ReliesOn, Unbegun, Preparing, Operating, Labelling
    <3> QED
      BY <1>a, <1>8, <2>2, <3>1, GotoKeeps DEF PostConditions, At, Where
  <2> QED
    BY <1>a, <1>8, <2>1, <2>2 DEF PostConditions
<1>9. CASE Handoff(p)
  <2>1. CASE End(p, "CONFLICT") \/ End(p, "COMPLETE")
    BY <1>9, <2>1, EndKeeps DEF Handoff, At, Result
  <2>2. CASE Goto(p, "transition") /\ UNCHANGED run
    <3>1. ReliesOn(r, "transition")
      BY <1>0, <1>1, <1>9 DEF Handoff, At, ReliesOn, Unbegun, Preparing, Operating, Labelling
    <3> QED
      BY <1>a, <1>9, <2>2, <3>1, GotoKeeps DEF Handoff, At, Where
  <2> QED
    BY <1>9, <2>1, <2>2 DEF Handoff
<1> QED
  BY <1>3, <1>4, <1>5, <1>6, <1>7, <1>8, <1>9

LEMMA CommittingKeeps ==
    ASSUME TypeOK, TypeOK', Told, NEW p \in Proc, Relies(p), Consume(p) \/ Transition(p)
    PROVE  Grows /\ Told' /\ Relies(p)'
<1>a. PICK r : r = run[p]
  OBVIOUS
<1>0. /\ ReliesOn(r, pc[p]) /\ r \in Run /\ pc[p] \in {"consume", "transition"}
      /\ UNCHANGED <<tracker, txn, outside>> /\ edits' = edits
  BY <1>a, RunType DEF Relies, Consume, Transition, At, outside
<1>1. r.txn # NoTxn /\ Copied(r)
  BY <1>0 DEF ReliesOn, Unbegun
<1>2. r.txn \in Txn /\ txn \in Txn /\ txn # NoTxn /\ txn.approval = r.approval
  BY <1>0, <1>1 DEF Copied, Run, TypeOK
<1>3. \A a \in Approval : approvals[a] = "consumed" => approvals'[a] = "consumed"
  BY DEF Consume, Transition, TypeOK
<1>4. Grows
  BY <1>0, <1>2, <1>3, RankType DEF Grows, TxnGrows, Txn, tracker
<1>5. (RecordedIsDone /\ ActivationLast /\ LabelsOK)'
  BY <1>0 DEF Told, TransactionTrue, RecordedIsDone, ActivationLast, LabelsOK, tracker
<1>6. CASE Consume(p)
  <2>1. txn.state \in {"EXTERNAL_COMPLETE", "APPROVAL_CONSUMED", "COMMITTED"}
    <3>1. r.txn.state = "EXTERNAL_COMPLETE"
      BY <1>0, <1>6 DEF Consume, At, ReliesOn
    <3>2. Rank["EXTERNAL_COMPLETE"] <= Rank[txn.state] /\ txn.state \in State
      BY <1>1, <1>2, <3>1 DEF Copied, Txn
    <3> QED
      BY <3>2 DEF Rank, State
  <2>2. \A a \in Approval : approvals'[a] = "consumed" => approvals[a] = "consumed" \/ a = r.approval
    BY <1>a, <1>6 DEF Consume, TypeOK
  <2>3. SpentWhenExternal'
    BY <1>0, <1>2, <2>1, <2>2 DEF Told, TransactionTrue, SpentWhenExternal
  <2>4. HandoffMeansCommitted'
    <3>1. checkpoint' = checkpoint /\ txn' = txn /\ txn.approval \in Approval
      BY <1>2, <1>6 DEF Consume, Txn
    <3> QED
      BY <1>3, <3>1 DEF Told, TransactionTrue, HandoffMeansCommitted
  <2>5. Relies(p)'
    <3>1. CASE End(p, "PARTIAL")
      BY <3>1, EndRelies DEF Result
    <3>2. CASE Goto(p, "consumed") /\ UNCHANGED run
      <4>1. run'[p] = r /\ pc'[p] = "consumed"
        BY <1>a, <3>2 DEF Goto, TypeOK
      <4>2. Copied(r)'
        BY <1>0, <1>1, CopiedKept, <1>4 DEF Grows
      <4> QED
        BY <1>1, <4>1, <4>2 DEF Relies, ReliesOn, Unbegun, Preparing, Operating, Labelling
    <3> QED
      BY <1>6, <3>1, <3>2 DEF Consume
  <2> QED
    BY <1>4, <1>5, <2>3, <2>4, <2>5 DEF Told, TransactionTrue
<1>7. CASE Transition(p)
  <2>1. txn.state = "COMMITTED" /\ approvals[txn.approval] = "consumed"
    <3>1. r.txn.state = "COMMITTED" /\ approvals[r.approval] = "consumed"
      BY <1>0, <1>7 DEF Transition, At, ReliesOn
    <3>2. Rank["COMMITTED"] <= Rank[txn.state] /\ txn.state \in State
      BY <1>1, <1>2, <3>1 DEF Copied, Txn
    <3>3. txn.state = "COMMITTED"
      BY <3>2 DEF Rank, State
    <3> QED
      BY <1>2, <3>1, <3>3
  <2>2. approvals' = approvals
    BY <1>7 DEF Transition
  <2>3. (SpentWhenExternal /\ HandoffMeansCommitted)'
    BY <1>0, <1>2, <2>1, <2>2 DEF Told, TransactionTrue, SpentWhenExternal, HandoffMeansCommitted
  <2>4. Relies(p)'
    BY <1>7, EndRelies DEF Transition, Result
  <2> QED
    BY <1>4, <1>5, <2>3, <2>4 DEF Told, TransactionTrue
<1> QED
  BY <1>6, <1>7

LEMMA StepKeeps ==
    ASSUME TypeOK, TypeOK', Told, NEW p \in Proc, Relies(p), Step(p)
    PROVE  Grows /\ Told' /\ Relies(p)'
BY PreparingKeeps, ReadingKeeps, WritingKeeps, FinishingKeeps, CommittingKeeps DEF Step

-----------------------------------------------------------------------------
(* The invariant. *)

\* An apply moves itself only.
LEMMA StepAlone ==
    ASSUME TypeOK, NEW p \in Proc, Start(p) \/ Step(p) \/ Crash(p),
           NEW q \in Proc, q # p
    PROVE  pc'[q] = pc[q] /\ run'[q] = run[q]
<1>1. CASE Start(p) \/ Crash(p)
  BY <1>1 DEF Start, StartWith, Crash, End, Goto, TypeOK
<1>2. CASE Step(p)
  <2>1. CASE \/ EnsureTransaction(p) \/ InitialRead(p) \/ ReadApproval(p)
             \/ PreActivate(p) \/ ReadIssue(p) \/ ReadClaims(p)
    BY <2>1 DEF EnsureTransaction, InitialRead, ReadApproval, PreActivate, ReadIssue,
                ReadClaims, EndRead, End, Goto, TypeOK
  <2>2. CASE \/ PostComment(p) \/ LookLabels(p) \/ DeleteLabel(p) \/ RelookLabels(p)
             \/ AddLabel(p) \/ ReadBack(p) \/ FinalRead(p) \/ PostConditions(p)
             \/ Handoff(p) \/ Transition(p) \/ Consume(p)
    BY <2>2 DEF PostComment, LookLabels, DeleteLabel, RelookLabels, AddLabel, ReadBack,
                FinalRead, PostConditions, Handoff, Transition, Consume, EndRead, End, Goto,
                TypeOK
  <2>3. CASE \/ CreateTransaction(p) \/ Authorize(p) \/ Applying(p) \/ Record(p)
             \/ ExternalComplete(p) \/ Consumed(p) \/ Commit(p)
    BY <2>3 DEF CreateTransaction, Authorize, Applying, Record, ExternalComplete, Consumed,
                Commit, Advance, End, Goto, TypeOK
  <2> QED
    BY <1>2, <2>1, <2>2, <2>3 DEF Step
<1> QED
  BY <1>1, <1>2

\* What everybody relies on outlives a step that grows what they rely on.
LEMMA OthersRely ==
    ASSUME TypeOK, TypeOK', Grows, NEW q \in Proc, Relies(q), pc'[q] = pc[q], run'[q] = run[q]
    PROVE  Relies(q)'
<1>a. PICK r \in Run : r = run[q]
  BY RunType
<1>b. PICK w \in Where : w = pc[q]
  BY DEF TypeOK
<1>1. ReliesOn(r, w)'
  BY <1>a, <1>b, ReliesKept DEF Relies
<1> QED
  BY <1>a, <1>b, <1>1 DEF Relies

LEMMA RelyHolding ==
    ASSUME NEW p \in Proc, Relies(p)
    PROVE  Holding(p)
BY DEF Relies, ReliesOn, Holding

\* A step outside the applies.
LEMMA OutsideKeeps ==
    ASSUME TypeOK, TypeOK', Told,
           \/ \E a \in Approval : Approve(a) \/ Expire(a)
           \/ \E t \in Ticket : Land(t) \/ Edit(t)
           \/ Claim \/ OtherCommand \/ UNCHANGED vars
    PROVE  Grows /\ Told' /\ UNCHANGED <<pc, run>>
<1>1. txn # NoTxn => Rank[txn.state] <= Rank[txn.state]
  BY RankType DEF TypeOK, Txn
<1>2. CASE Claim \/ UNCHANGED vars
  <2>1. UNCHANGED <<tracker, case, edits, pc, run>>
    BY <1>2 DEF Claim, vars, outside
  <2> QED
    BY <2>1, NothingGrows, NothingTold
<1>3. ASSUME NEW a \in Approval, Approve(a) PROVE Grows /\ Told' /\ UNCHANGED <<pc, run>>
  <2>1. /\ UNCHANGED <<tracker, txn, checkpoint, edits, pc, run>>
        /\ \A b \in Approval : approvals[b] = "consumed" <=> approvals'[b] = "consumed"
    BY <1>3 DEF Approve, outside, TypeOK
  <2>2. Grows
    BY <1>1, <2>1 DEF Grows, TxnGrows, tracker
  <2>3. txn # NoTxn => txn.approval \in Approval
    BY DEF TypeOK, Txn
  <2> QED
    BY <2>1, <2>2, <2>3 DEF Told, TransactionTrue, RecordedIsDone, SpentWhenExternal,
                       HandoffMeansCommitted, ActivationLast, LabelsOK, tracker
<1>4. ASSUME NEW a \in Approval, Expire(a) PROVE Grows /\ Told' /\ UNCHANGED <<pc, run>>
  BY <1>1, <1>4 DEF Expire, outside, tracker, Grows, TxnGrows, Told, TransactionTrue,
                    RecordedIsDone, SpentWhenExternal, HandoffMeansCommitted, ActivationLast,
                    LabelsOK
<1>5. ASSUME NEW t \in Ticket, Land(t) PROVE Grows /\ Told' /\ UNCHANGED <<pc, run>>
  <2>1. /\ UNCHANGED <<labels, case, outside, edits, pc, run>>
        /\ \A u \in Ticket : comments[u] > 0 => comments'[u] > 0
    BY <1>5 DEF Land, AddComment, MaxComments, outside, TypeOK
  <2>2. Grows
    BY <1>1, <2>1 DEF Grows, TxnGrows, case
  <2> QED
    BY <2>1, <2>2, TrackerTold DEF Told, ActivationLast, LabelsOK
<1>6. ASSUME NEW t \in Ticket, Edit(t) PROVE Grows /\ Told' /\ UNCHANGED <<pc, run>>
  <2>1. UNCHANGED <<case, pc, run>> /\ edits' # 0
    BY <1>6 DEF Edit, TypeOK
  <2>2. Grows
    BY <1>1, <2>1 DEF Grows, TxnGrows, case
  <2> QED
    BY <2>1, <2>2 DEF Told, TransactionTrue, RecordedIsDone, SpentWhenExternal,
                      HandoffMeansCommitted, ActivationLast, LabelsOK, case
<1>7. CASE OtherCommand
  <2>1. /\ UNCHANGED <<tracker, txn, approvals, edits, pc, run>>
        /\ checkpoint' \in {"HANDOFF_READY", "IN_PROGRESS"} =>
              checkpoint \in {"HANDOFF_READY", "IN_PROGRESS"}
    BY <1>7 DEF OtherCommand, outside, TypeOK
  <2> QED
    BY <1>1, <2>1 DEF Grows, TxnGrows, Told, TransactionTrue, RecordedIsDone,
                SpentWhenExternal, HandoffMeansCommitted, ActivationLast, LabelsOK, tracker
<1> QED
  BY <1>2, <1>3, <1>4, <1>5, <1>6, <1>7

LEMMA NextKeeps ==
    ASSUME IInv, [Next]_vars
    PROVE  Grows /\ IInv'
<1>1. TypeOK /\ Told /\ \A q \in Proc : Relies(q) /\ Holding(q)
  BY RelyHolding DEF IInv
<1>2. TypeOK'
  BY <1>1, NextType
<1>3. ASSUME NEW p \in Proc, Start(p) PROVE Grows /\ Told' /\ Relies(p)'
  <2>1. PICK a \in Approval : StartWith(p, a)
    BY <1>3 DEF Start
  <2>2. Becomes(p, "ensure", Fresh(a))
    BY <2>1 DEF StartWith, Becomes, Goto
  <2>3. ReliesOn(Fresh(a), "ensure")
    BY DEF Fresh, ReliesOn, Unbegun, Preparing, Operating, Labelling
  <2> QED
    BY <1>1, <1>2, <2>1, <2>2, <2>3, FreshType, ReadKeeps DEF StartWith, At, Where, Result
<1>4. ASSUME NEW p \in Proc, Step(p) PROVE Grows /\ Told' /\ Relies(p)'
  BY <1>1, <1>2, <1>4, StepKeeps
<1>5. ASSUME NEW p \in Proc, Crash(p) PROVE Grows /\ Told' /\ Relies(p)'
  BY <1>1, <1>2, <1>5, EndKeeps DEF Crash, At, Result
<1>6. ASSUME NEW p \in Proc, Start(p) \/ Step(p) \/ Crash(p) PROVE Grows /\ IInv'
  <2>1. Grows /\ Told' /\ Relies(p)'
    BY <1>3, <1>4, <1>5, <1>6
  <2>2. ASSUME NEW q \in Proc, q # p PROVE Relies(q)'
    BY <1>1, <1>2, <1>6, <2>1, <2>2, StepAlone, OthersRely
  <2> QED
    BY <1>2, <2>1, <2>2 DEF IInv
<1>7. CASE \/ \E a \in Approval : Approve(a) \/ Expire(a)
           \/ \E t \in Ticket : Land(t) \/ Edit(t)
           \/ Claim \/ OtherCommand \/ UNCHANGED vars
  <2>1. Grows /\ Told' /\ UNCHANGED <<pc, run>>
    BY <1>1, <1>2, <1>7, OutsideKeeps
  <2>2. \A q \in Proc : Relies(q)'
    BY <1>1, <1>2, <2>1, OthersRely
  <2> QED
    BY <1>2, <2>1, <2>2 DEF IInv
<1> QED
  BY <1>6, <1>7 DEF Next

LEMMA InitInv == Init => IInv
<1> SUFFICES ASSUME Init PROVE IInv
  OBVIOUS
<1>1. TypeOK
  BY InitType
<1>2. Told
  BY TicketsType DEF Init, Told, TransactionTrue, RecordedIsDone, SpentWhenExternal,
                     HandoffMeansCommitted, ActivationLast, LabelsOK
<1>3. ASSUME NEW p \in Proc PROVE Relies(p)
  <2>1. PICK a \in Approval : run[p] = Fresh(a)
    BY DEF Init
  <2>2. pc[p] = "idle" /\ run[p].txn = NoTxn
    BY <2>1 DEF Init, Fresh
  <2> QED
    BY <2>2 DEF Relies, ReliesOn, Unbegun, Preparing, Operating, Labelling
<1> QED
  BY <1>1, <1>2, <1>3 DEF IInv

LEMMA Invariant == Spec => []IInv
<1>1. IInv /\ [Next]_vars => IInv'
  BY NextKeeps
<1> QED
  BY <1>1, InitInv, PTL DEF Spec

-----------------------------------------------------------------------------
(* The theorems. *)

\* Every variable keeps its type, whatever the applies, the operators and the
\* people at the tracker do.
THEOREM Typing == Spec => []TypeOK
<1>1. IInv => TypeOK
  BY DEF IInv
<1> QED
  BY <1>1, Invariant, PTL

\* The case tells the truth about the tracker: what it lists as done is done,
\* an approval is spent only on writes that were all read back, and the handoff
\* is reached through a committed transaction only (advanceTransaction,
\* consumeApproval and the final transition of applyAdmissionPlan).
THEOREM CaseTellsTheTruth == Spec => []TransactionTrue
<1>1. IInv => TransactionTrue
  BY DEF IInv, Told
<1> QED
  BY <1>1, Invariant, PTL

\* The parent is activated last, however many applies race, crash and resume:
\* every child has its comment and its label before (the order of finalizePlan
\* and the read before the parent's operations).
THEOREM ParentIsLast == Spec => []ActivationLast
<1>1. IInv => ActivationLast
  BY DEF IInv, Told
<1> QED
  BY <1>1, Invariant, PTL

\* No apply, whichever stale copy it writes, sets the transaction back or loses
\* an operation that another has recorded (advanceTransaction and the reducer's
\* ADMISSION_TRANSACTION_CHANGED).
THEOREM NoWayBack == Spec => TransactionMonotone
<1>1. IInv /\ [Next]_vars => [TxnGrows]_vars
  BY NextKeeps DEF Grows
<1>2. [TxnGrows]_vars =>
        [txn # NoTxn =>
          /\ txn' # NoTxn
          /\ txn'.approval = txn.approval
          /\ Rank[txn.state] <= Rank[txn'.state]
          /\ txn.done \subseteq txn'.done]_vars
  BY DEF TxnGrows
<1> QED
  BY <1>1, <1>2, Invariant, PTL DEF Spec, TransactionMonotone

-----------------------------------------------------------------------------
(* One command at a time, and no POST that takes effect after it failed. *)

Alone == (\A p, q \in Proc : p = q) /\ ~LateWrites

\* A comment is about to be posted only on a ticket that has none.
AloneInv ==
    /\ late = {}
    /\ OneComment
    /\ \A p \in Proc :
          pc[p] \in {"claims", "comment"} /\ OpAt(run[p].k).kind = "comment" =>
             comments[OpAt(run[p].k).ticket] = 0

LEMMA AloneStep ==
    ASSUME Alone, IInv, AloneInv, [Next]_vars
    PROVE  AloneInv'
<1>1. TypeOK /\ \A p \in Proc : Relies(p)
  BY DEF IInv
<1>2. CASE UNCHANGED <<comments, late, pc, run>>
  BY <1>2 DEF AloneInv, OneComment
<1>3. ASSUME NEW p \in Proc, UNCHANGED <<comments, late>>,
             \/ pc'[p] \notin {"claims", "comment"}
             \/ OpAt(run'[p].k).kind # "comment"
             \/ comments[OpAt(run'[p].k).ticket] = 0
      PROVE  AloneInv'
  BY <1>3 DEF AloneInv, OneComment, Alone
<1>4. ASSUME NEW p \in Proc, Step(p) PROVE AloneInv'
  <2>a. PICK r : r = run[p]
    OBVIOUS
  <2>1. CASE PostComment(p)
    <3>1. PICK t : t = OpAt(r.k).ticket
      OBVIOUS
    <3>2. t \in Ticket /\ comments[t] = 0
      BY <1>1, <2>a, <2>1, <3>1, RunType DEF PostComment, At, AloneInv, Relies, ReliesOn
    <3>3. /\ late' = late /\ pc' = [pc EXCEPT ![p] = "readback"]
          /\ comments' = comments \/ AddComment(t)
      BY <2>a, <2>1, <3>1 DEF PostComment, Goto, Alone
    <3>4. OneComment'
      BY <1>1, <3>2, <3>3 DEF AddComment, AloneInv, OneComment, TypeOK, MaxComments
    <3>5. pc'[p] = "readback"
      BY <1>1, <3>3 DEF TypeOK
    <3> QED
      BY <3>3, <3>4, <3>5 DEF AloneInv, Alone
  <2>2. CASE ReadIssue(p)
    <3>1. CASE EndRead(p) \/ End(p, "CONFLICT")
      <4>1. pc'[p] = "idle"
        BY <1>1, <3>1 DEF EndRead, End, Goto, TypeOK
      <4> QED
        BY <1>3, <2>2, <4>1 DEF ReadIssue, tracker
    <3>2. CASE Goto(p, Then(r.k)) \/ Goto(p, "record")
      <4>1. pc'[p] \notin {"claims", "comment"}
        BY <1>1, <3>2 DEF Goto, TypeOK, Then
      <4> QED
        BY <1>3, <2>2, <4>1 DEF ReadIssue, tracker
    <3>3. CASE Status(OpAt(r.k)) \in {"before", "partial"} /\ UNCHANGED run
      <4>1. OpAt(r.k).kind = "comment" => comments[OpAt(r.k).ticket] = 0
        BY <3>3 DEF Status
      <4> QED
        BY <1>3, <2>a, <2>2, <3>3, <4>1 DEF ReadIssue, tracker
    <3> QED
      BY <2>a, <2>2, <3>1, <3>2, <3>3 DEF ReadIssue
  <2>3. CASE ReadClaims(p)
    <3>1. CASE EndRead(p) \/ End(p, "CONFLICT")
      <4>1. pc'[p] = "idle"
        BY <1>1, <3>1 DEF EndRead, End, Goto, TypeOK
      <4> QED
        BY <1>3, <2>3, <4>1 DEF ReadClaims, tracker
    <3>2. CASE UNCHANGED run
      BY <1>3, <2>3, <3>2 DEF ReadClaims, At, AloneInv, tracker
    <3> QED
      BY <2>3, <3>1, <3>2 DEF ReadClaims
  <2>4. CASE \/ EnsureTransaction(p) \/ InitialRead(p) \/ ReadApproval(p) \/ PreActivate(p)
             \/ LookLabels(p) \/ DeleteLabel(p) \/ RelookLabels(p)
             \/ AddLabel(p) \/ ReadBack(p)
    <3>1. UNCHANGED <<comments, late>> /\ pc'[p] \notin {"claims", "comment"}
      BY <1>1, <2>4 DEF EnsureTransaction, InitialRead, ReadApproval, PreActivate, LookLabels,
           DeleteLabel, RelookLabels, AddLabel, ReadBack, EndRead, End, Goto, TypeOK, Resume,
           tracker
    <3> QED
      BY <1>3, <3>1
  <2>5. CASE \/ FinalRead(p) \/ Consume(p) \/ PostConditions(p) \/ Handoff(p) \/ Transition(p)
    <3>1. UNCHANGED <<comments, late>> /\ pc'[p] \notin {"claims", "comment"}
      BY <1>1, <2>5 DEF FinalRead, Finish, Consume, PostConditions, Handoff, Transition,
           EndRead, End, Goto, TypeOK, tracker
    <3> QED
      BY <1>3, <3>1
  <2>6. CASE \/ CreateTransaction(p) \/ Authorize(p) \/ Applying(p) \/ Record(p)
             \/ ExternalComplete(p) \/ Consumed(p) \/ Commit(p)
    <3>1. UNCHANGED <<comments, late>> /\ pc'[p] \notin {"claims", "comment"}
      BY <1>1, <2>6 DEF CreateTransaction, Authorize, Applying, Record, ExternalComplete,
           Consumed, Commit, Advance, End, Goto, TypeOK, Then, tracker
    <3> QED
      BY <1>3, <3>1
  <2> QED
    BY <1>4, <2>1, <2>2, <2>3, <2>4, <2>5, <2>6 DEF Step
<1>5. ASSUME NEW p \in Proc, Start(p) \/ Crash(p) PROVE AloneInv'
  <2>1. UNCHANGED <<comments, late>> /\ pc'[p] \in {"ensure", "idle"}
    BY <1>1, <1>5 DEF Start, StartWith, Crash, End, Goto, TypeOK, tracker
  <2> QED
    BY <1>3, <2>1
<1>6. ASSUME NEW t \in Ticket, Land(t) \/ Edit(t) PROVE AloneInv'
  <2>1. Edit(t)
    BY <1>6 DEF Land, AloneInv
  <2>2. UNCHANGED <<late, pc, run>> /\ comments' \in {comments, [comments EXCEPT ![t] = 0]}
    BY <2>1 DEF Edit
  <2>3. \A u \in Ticket : comments'[u] \in {0, comments[u]}
    BY <1>1, <2>2 DEF TypeOK
  <2>4. \A p \in Proc : OpAt(run[p].k).ticket \in Ticket
    BY <1>1, RunType
  <2> QED
    BY <2>2, <2>3, <2>4 DEF AloneInv, OneComment
<1> QED
  BY <1>2, <1>4, <1>5, <1>6
  DEF Next, Approve, Expire, Claim, OtherCommand, tracker, case, outside, vars

\* However often the apply crashes, fails and is repeated, no ticket gets its
\* comment twice, as long as one command runs at a time and GitHub does not
\* execute a POST after it has failed (the marker that addComment is guarded by).
THEOREM CommentsOnce ==
    ASSUME Alone
    PROVE  Spec => []OneComment
<1>1. Init => AloneInv
  BY DEF Init, AloneInv, OneComment
<1>2. IInv /\ AloneInv /\ [Next]_vars => AloneInv'
  BY AloneStep
<1>3. AloneInv => OneComment
  BY DEF AloneInv
<1> QED
  BY <1>1, <1>2, <1>3, Invariant, PTL DEF Spec
=============================================================================
