----------------------- MODULE PlanningCaseStoreProofs -----------------------
(***************************************************************************)
(* Theorems about PlanningCaseStore, for every set of processes and every  *)
(* choice of the labels at which processes crash and file operations fail. *)
(***************************************************************************)
EXTENDS PlanningCaseStore, TLAPS

-----------------------------------------------------------------------------
(* Type correctness.                                                       *)

LEMMA BlankType == Blank \in Call
BY DEF Blank, Call, Op, Event, NoEvent

LEMMA LastIdType == ASSUME NEW l \in Seq(Event) PROVE LastId(l) \in Nat
<1>1. CASE l = <<>>
  BY <1>1 DEF LastId
<1>2. CASE l # <<>>
  <2>1. Len(l) \in 1..Len(l)
    BY <1>2
  <2>2. l[Len(l)] \in Event
    BY <2>1
  <2> QED
    BY <1>2, <2>2 DEF LastId, Event
<1> QED
  BY <1>1, <1>2

LEMMA InitType == Init => TypeOK
BY BlankType DEF Init, TypeOK, Label, HoldLabel, CommitLabel

\* The building blocks of the actions keep their part of the state well typed.
LEMMA GotoType ==
    ASSUME TypeOK, NEW p \in Proc, NEW l \in Label, Goto(p, l)
    PROVE  pc' \in [Proc -> Label]
BY DEF TypeOK, Goto

LEMMA FinishType ==
    ASSUME TypeOK, NEW p \in Proc, Finish(p)
    PROVE  pc' \in [Proc -> Label] /\ call' \in [Proc -> Call]
BY BlankType DEF TypeOK, Finish, Goto, Label

LEMMA ThrowType ==
    ASSUME TypeOK, NEW p \in Proc, Throw(p)
    PROVE  pc' \in [Proc -> Label] /\ call' \in [Proc -> Call]
BY DEF TypeOK, Throw, Goto, Label, HoldLabel

LEMMA TempFileType ==
    ASSUME TypeOK, NEW p \in Proc, NEW kind \in Kind
    PROVE  TempFile(p, kind) \in Temp
BY DEF TypeOK, TempFile, Temp, Call, Event

LEMMA RenameType ==
    ASSUME TypeOK, NEW p \in Proc, NEW kind \in Kind, Rename(p, kind)
    PROVE  /\ snap' \in Nat /\ pending' \subseteq Event /\ done' \subseteq Event
           /\ tmp' \subseteq Temp
           /\ UNCHANGED <<dir, lock, log, made>>
BY DEF TypeOK, Rename, Call, Event, Kind

LEMMA CreateTempType ==
    ASSUME TypeOK, NEW p \in Proc, NEW l, NEW kind \in Kind, NEW n \in Label,
           CreateTemp(p, l, kind, n)
    PROVE  TypeOK'
<1>1. tmp' \subseteq Temp
  BY TempFileType DEF CreateTemp, WriteTemp, TypeOK
<1>2. pc' \in [Proc -> Label]
  BY GotoType DEF CreateTemp
<1> QED
  BY <1>1, <1>2 DEF CreateTemp, TypeOK

LEMMA RenameTempType ==
    ASSUME TypeOK, NEW p \in Proc, NEW l, NEW kind \in Kind, NEW n \in Label,
           RenameTemp(p, l, kind, n)
    PROVE  TypeOK'
<1>1. CASE Rename(p, kind) /\ Goto(p, n) /\ UNCHANGED call
  <2>1. pc' \in [Proc -> Label]
    BY <1>1, GotoType
  <2> QED
    BY <1>1, <2>1, RenameType DEF TypeOK
<1>2. CASE RenameLost(p, kind)
  BY <1>2, ThrowType DEF RenameLost, TypeOK, disk
<1> QED
  BY <1>1, <1>2 DEF RenameTemp

LEMMA StepType == ASSUME TypeOK, [Next]_vars PROVE TypeOK'
<1> USE DEF TypeOK
<1>1. ASSUME NEW p \in Proc, StartCreate(p) PROVE TypeOK'
  <2>1. pc' \in [Proc -> Label]
    BY <1>1, GotoType DEF StartCreate, Label
  <2> QED
    BY <1>1, <2>1 DEF StartCreate, Call, Op
<1>2. ASSUME NEW p \in Proc, Populate(p) PROVE TypeOK'
  <2>1. pc' \in [Proc -> Label]
    BY <1>2, GotoType DEF Populate, Label
  <2>2. Draw(1, 0) \in Event
    BY DEF Draw, Event
  <2>3. call' \in [Proc -> Call]
    BY <1>2, <2>2 DEF Populate, Call
  <2> QED
    BY <1>2, <2>1, <2>3 DEF Populate
<1>3. ASSUME NEW p \in Proc, StartMutate(p) PROVE TypeOK'
  <2>1. pc' \in [Proc -> Label]
    BY <1>3, GotoType DEF StartMutate, Label
  <2> QED
    BY <1>3, <2>1 DEF StartMutate, Call, Op, disk
<1>4. ASSUME NEW p \in Proc, StartRecover(p) PROVE TypeOK'
  <2>1. pc' \in [Proc -> Label]
    BY <1>4, GotoType DEF StartRecover, Label, ScanLabel
  <2> QED
    BY <1>4, <2>1 DEF StartRecover, Call, Op, disk
<1>5. ASSUME NEW p \in Proc, Acquire(p) PROVE TypeOK'
  <2>1. CASE Finish(p) /\ UNCHANGED lock
    BY <1>5, <2>1, FinishType DEF Acquire
  <2>2. CASE /\ lock' = [owner |-> p, written |-> FALSE, old |-> FALSE]
             /\ Goto(p, "write_lock")
             /\ UNCHANGED call
    <3>1. pc' \in [Proc -> Label]
      BY <2>2, GotoType DEF Label, HoldLabel
    <3> QED
      BY <1>5, <2>2, <3>1 DEF Acquire, Lock
  <2> QED
    BY <1>5, <2>1, <2>2 DEF Acquire
<1>6. ASSUME NEW p \in Proc, WriteLock(p) PROVE TypeOK'
  <2>1. CASE Finish(p) /\ UNCHANGED lock
    BY <1>6, <2>1, FinishType DEF WriteLock
  <2>2. CASE ~(Finish(p) /\ UNCHANGED lock)
    <3>1. lock' \in Lock
      BY <1>6, <2>2 DEF WriteLock, Lock
    <3>2. \E l \in Label : Goto(p, l)
      <4>1. "intent_tmp" \in Label /\ "roll" \in Label /\ "read" \in Label
        BY DEF Label, HoldLabel, CommitLabel
      <4> QED
        BY <1>6, <2>2, <4>1 DEF WriteLock
    <3>3. pc' \in [Proc -> Label]
      BY <3>2, GotoType
    <3> QED
      BY <1>6, <2>2, <3>1, <3>3 DEF WriteLock
  <2> QED
    BY <1>6, <2>1, <2>2 DEF WriteLock
<1>7. ASSUME NEW p \in Proc, Release(p) PROVE TypeOK'
  BY <1>7, FinishType DEF Release
<1>8. ASSUME NEW p \in Proc, Read(p) PROVE TypeOK'
  <2>1. CASE Throw(p) /\ UNCHANGED made
    BY <1>8, <2>1, ThrowType DEF Read
  <2>2. CASE /\ made' = made + 1
             /\ call' = [call EXCEPT ![p].ev = Draw(Len(log) + 1, LastId(log))]
             /\ Goto(p, "intent_tmp")
    <3>1. pc' \in [Proc -> Label]
      BY <2>2, GotoType DEF Label, HoldLabel, CommitLabel
    <3>2. LastId(log) \in Nat
      BY LastIdType
    <3>3. Draw(Len(log) + 1, LastId(log)) \in Event
      BY <3>2 DEF Draw, Event
    <3>4. call' \in [Proc -> Call]
      BY <2>2, <3>3 DEF Call
    <3> QED
      BY <1>8, <2>2, <3>1, <3>4 DEF Read
  <2> QED
    BY <1>8, <2>1, <2>2 DEF Read
<1>9. ASSUME NEW p \in Proc, IntentTmp(p) \/ SnapTmp(p) \/ CommitTmp(p) \/ RebuildTmp(p)
      PROVE TypeOK'
  <2>1. {"intent_mv", "snap_mv", "commit_mv", "reb_mv"} \subseteq Label
    BY DEF Label, HoldLabel, CommitLabel
  <2> QED
    BY <1>9, <2>1, CreateTempType DEF IntentTmp, SnapTmp, CommitTmp, RebuildTmp, Kind
<1>10. ASSUME NEW p \in Proc, IntentMv(p) \/ SnapMv(p) \/ RebuildMv(p) PROVE TypeOK'
  <2>1. {"append", "commit_tmp", "sweep"} \subseteq Label
    BY DEF Label, HoldLabel, CommitLabel
  <2> QED
    BY <1>10, <2>1, RenameTempType DEF IntentMv, SnapMv, RebuildMv, Kind
<1>11. ASSUME NEW p \in Proc, AppendEvent(p) PROVE TypeOK'
  <2>1. pc' \in [Proc -> Label]
    BY <1>11, GotoType DEF AppendEvent, Label, HoldLabel, CommitLabel
  <2>2. log' \in Seq(Event)
    BY <1>11 DEF AppendEvent, Call
  <2> QED
    BY <1>11, <2>1, <2>2 DEF AppendEvent
<1>12. ASSUME NEW p \in Proc, CommitMv(p) PROVE TypeOK'
  <2>1. CASE RenameLost(p, "commit")
    BY <2>1, ThrowType DEF RenameLost, disk
  <2>2. CASE /\ Rename(p, "commit")
             /\ call' = [call EXCEPT ![p].todo = @ \ {call[p].ev}]
             /\ Goto(p, IF call[p].op = "recover" THEN "roll" ELSE "release")
    <3>1. pc' \in [Proc -> Label]
      BY <2>2, GotoType DEF Label, HoldLabel
    <3>2. call' \in [Proc -> Call]
      BY <2>2 DEF Call
    <3> QED
      BY <2>2, <3>1, <3>2, RenameType DEF Kind
  <2> QED
    BY <1>12, <2>1, <2>2 DEF CommitMv
<1>13. ASSUME NEW p \in Proc, RecPending(p) PROVE TypeOK'
  <2>1. CASE Finish(p)
    BY <1>13, <2>1, FinishType DEF RecPending, disk
  <2>2. CASE ~Finish(p)
    <3>1. \E l \in Label : Goto(p, l)
      BY <1>13, <2>2 DEF RecPending, Proceed, Label, ScanLabel
    <3>2. pc' \in [Proc -> Label]
      BY <3>1, GotoType
    <3>3. call' \in [Proc -> Call]
      BY <1>13, <2>2 DEF RecPending, Call
    <3> QED
      BY <1>13, <3>2, <3>3 DEF RecPending, disk
  <2> QED
    BY <2>1, <2>2
<1>14. ASSUME NEW p \in Proc, RecSnap(p) PROVE TypeOK'
  <2>1. \E l \in Label : Goto(p, l)
    BY <1>14 DEF RecSnap, Proceed, Label, ScanLabel
  <2>2. pc' \in [Proc -> Label]
    BY <2>1, GotoType
  <2>3. call' \in [Proc -> Call]
    <3>1. CASE snap = 0
      BY <1>14, <3>1, BlankType DEF RecSnap
    <3>2. CASE snap # 0
      BY <1>14, <3>2 DEF RecSnap, Call
    <3> QED
      BY <3>1, <3>2
  <2> QED
    BY <1>14, <2>2, <2>3 DEF RecSnap, disk
<1>15. ASSUME NEW p \in Proc, RecEvents(p) PROVE TypeOK'
  <2>1. \E l \in Label : Goto(p, l)
    BY <1>15 DEF RecEvents, Proceed, Label, ScanLabel
  <2>2. pc' \in [Proc -> Label]
    BY <2>1, GotoType
  <2>3. LastId(log) \in Nat
    BY LastIdType
  <2>4. call' \in [Proc -> Call]
    BY <1>15, <2>3, BlankType DEF RecEvents, Call
  <2> QED
    BY <1>15, <2>2, <2>4 DEF RecEvents, disk
<1>16. ASSUME NEW p \in Proc, RecUnlink(p) PROVE TypeOK'
  <2>1. pc' \in [Proc -> Label] /\ call' \in [Proc -> Call]
    BY <1>16, FinishType, GotoType DEF RecUnlink, Label
  <2> QED
    BY <1>16, <2>1 DEF RecUnlink
<1>17. ASSUME NEW p \in Proc, Roll(p) PROVE TypeOK'
  <2>1. CASE \E e \in call[p].todo : RollForward(p, e)
    <3>1. PICK e \in call[p].todo : RollForward(p, e)
      BY <2>1
    <3>2. e \in Event
      BY DEF Call
    <3>3. CASE Throw(p)
      BY <1>17, <3>3, ThrowType DEF Roll, disk
    <3>4. CASE ~Throw(p)
      <4>1. \E l \in Label : Goto(p, l)
        BY <3>1, <3>4 DEF RollForward, Label, HoldLabel, CommitLabel
      <4>2. pc' \in [Proc -> Label]
        BY <4>1, GotoType
      <4>3. call' \in [Proc -> Call]
        BY <3>1, <3>2, <3>4 DEF RollForward, Call
      <4> QED
        BY <1>17, <4>2, <4>3 DEF Roll, disk
    <3> QED
      BY <3>3, <3>4
  <2>2. CASE /\ Goto(p, IF call[p].cand # 0 THEN "reb_tmp" ELSE "sweep")
             /\ UNCHANGED call
    <3>1. pc' \in [Proc -> Label]
      BY <2>2, GotoType DEF Label, HoldLabel
    <3> QED
      BY <1>17, <2>2, <3>1 DEF Roll, disk
  <2> QED
    BY <1>17, <2>1, <2>2 DEF Roll
<1>18. ASSUME NEW p \in Proc, Sweep(p) PROVE TypeOK'
  <2>1. pc' \in [Proc -> Label]
    BY <1>18, GotoType DEF Sweep, Label, HoldLabel
  <2> QED
    BY <1>18, <2>1 DEF Sweep
<1>19. ASSUME NEW p \in Proc, Crash(p) PROVE TypeOK'
  <2>1. pc' \in [Proc -> Label]
    BY <1>19, GotoType DEF Crash, Label
  <2> QED
    BY <1>19, <2>1, BlankType DEF Crash, disk
<1>20. ASSUME NEW p \in Proc, IOError(p) PROVE TypeOK'
  <2>1. CASE Finish(p) /\ UNCHANGED disk
    BY <2>1, FinishType DEF disk
  <2>2. CASE Throw(p) /\ UNCHANGED disk
    BY <2>2, ThrowType DEF disk
  <2>3. CASE /\ Throw(p)
             /\ \E line \in {call[p].ev, NoEvent} : log' = Append(log, line)
             /\ UNCHANGED <<dir, lock, snap, pending, done, tmp, made>>
    <3>1. NoEvent \in Event /\ call[p].ev \in Event
      BY DEF NoEvent, Event, Call
    <3>2. log' \in Seq(Event)
      BY <2>3, <3>1
    <3> QED
      BY <2>3, <3>2, ThrowType
  <2>4. CASE /\ Throw(p)
             /\ \E kind \in Kind : WriteTemp(p, kind)
             /\ UNCHANGED <<dir, lock, log, snap, pending, done, made>>
    <3>1. tmp' \subseteq Temp
      BY <2>4, TempFileType DEF WriteTemp
    <3> QED
      BY <2>4, <3>1, ThrowType
  <2>5. CASE Throw(p) /\ \E kind \in Kind : Rename(p, kind)
    BY <2>5, ThrowType, RenameType
  <2> QED
    BY <1>20, <2>1, <2>2, <2>3, <2>4, <2>5 DEF IOError
<1>21. ASSUME LockAges PROVE TypeOK'
  BY <1>21 DEF LockAges, Lock
<1>22. ASSUME UNCHANGED vars PROVE TypeOK'
  BY <1>22 DEF vars, disk
<1> QED
  BY <1>1, <1>2, <1>3, <1>4, <1>5, <1>6, <1>7, <1>8, <1>9, <1>10, <1>11, <1>12, <1>13,
     <1>14, <1>15, <1>16, <1>17, <1>18, <1>19, <1>20, <1>21, <1>22 DEF Next, Step

\* Every reachable state is well typed: in particular no label, lock or
\* temporary file outside the ones the code can produce ever appears.
THEOREM TypeCorrect == Spec => []TypeOK
<1>1. Init => TypeOK
  BY InitType
<1>2. TypeOK /\ [Next]_vars => TypeOK'
  BY StepType
<1> QED
  BY <1>1, <1>2, PTL DEF Spec

-----------------------------------------------------------------------------
(* The lock.  MutualExclusion alone is not inductive: it needs to know who *)
(* owns the lock file, that only one recover runs, and that a recover      *)
(* which judged the lock stale is still right when it unlinks it.          *)

LockInv ==
    /\ \A p \in Proc : Holds(p) => lock # NoLock /\ lock.owner = p
    /\ \A p, q \in Proc : Recovering(p) /\ Recovering(q) => p = q
    /\ \A p \in Proc : pc[p] \in ScanLabel => call[p].op = "recover"
    /\ \A p \in Proc : pc[p] = "rec_unlink" => call[p].had
    /\ \A p \in Proc : pc[p] \in ScanLabel /\ call[p].had => Stale

LEMMA InitLock == Init => LockInv
BY DEF Init, LockInv, Holds, Recovering, Busy, HoldLabel, CommitLabel, ScanLabel

\* A step of the lock's owner that keeps the lock.
LEMMA HoldMove ==
    ASSUME TypeOK, LockInv, NEW p \in Proc, NEW l \in HoldLabel,
           pc[p] \in HoldLabel, Goto(p, l), UNCHANGED lock,
           \A q \in Proc : call'[q].op = call[q].op /\ call'[q].had = call[q].had
    PROVE  LockInv'
<1> USE DEF LockInv
<1>1. \A q \in Proc : pc'[q] = IF q = p THEN l ELSE pc[q]
  BY DEF Goto, TypeOK
<1>2. pc[p] \notin {"idle", "dead"} /\ l \notin {"idle", "dead"}
  BY DEF HoldLabel, CommitLabel
<1>3. \A q \in Proc : Recovering(q)' <=> Recovering(q)
  BY <1>1, <1>2 DEF Recovering, Busy
<1>4. \A q \in Proc : Holds(q)' <=> Holds(q)
  BY <1>1 DEF Holds
<1>5. l \notin ScanLabel
  BY DEF ScanLabel, HoldLabel, CommitLabel
<1>6. Stale' <=> Stale
  <2>1. CASE lock = NoLock
    BY <2>1 DEF Stale
  <2>2. CASE lock # NoLock
    BY <2>2, <1>1, <1>2 DEF Stale, Alive, TypeOK, Lock
  <2> QED
    BY <2>1, <2>2
<1>7. pc'[p] = l /\ \A q \in Proc : q # p => pc'[q] = pc[q]
  BY <1>1
<1>8. "rec_unlink" \in ScanLabel
  BY DEF ScanLabel
<1> QED
  BY <1>3, <1>4, <1>5, <1>6, <1>7, <1>8

\* A step of a process that holds no lock and takes none.
LEMMA FreeMove ==
    ASSUME TypeOK, LockInv, NEW p \in Proc, NEW l \in Label \ HoldLabel,
           Alive(p), Goto(p, l), UNCHANGED lock,
           \A q \in Proc \ {p} : call'[q] = call[q],
           l \in ScanLabel => call'[p].op = "recover",
           l = "rec_unlink" => call'[p].had,
           l \in ScanLabel /\ call'[p].had => Stale,
           Recovering(p)' => \A q \in Proc \ {p} : ~Recovering(q)
    PROVE  LockInv'
<1> USE DEF LockInv
<1>1. \A q \in Proc : pc'[q] = IF q = p THEN l ELSE pc[q]
  BY DEF Goto, TypeOK
<1>2. \A q \in Proc \ {p} : Recovering(q)' <=> Recovering(q)
  BY <1>1 DEF Recovering, Busy
<1>3. \A q \in Proc : Holds(q)' => Holds(q)
  BY <1>1 DEF Holds
<1>4. Stale => Stale'
  BY <1>1 DEF Stale, Alive, TypeOK, Lock
<1> QED
  BY <1>1, <1>2, <1>3, <1>4

\* finally: the command is over and holds no lock.
LEMMA FinishFree ==
    ASSUME TypeOK, LockInv, NEW p \in Proc, Alive(p), Finish(p), UNCHANGED lock
    PROVE  LockInv'
<1>1. "idle" \in Label \ HoldLabel /\ "idle" \notin ScanLabel
  BY DEF Label, HoldLabel, CommitLabel, ScanLabel
<1>2. pc'[p] = "idle"
  BY DEF Finish, Goto, TypeOK
<1>3. ~Recovering(p)'
  BY <1>2 DEF Recovering, Busy
<1>4. \A q \in Proc \ {p} : call'[q] = call[q]
  BY DEF Finish, TypeOK
<1> QED
  BY <1>1, <1>3, <1>4, FreeMove DEF Finish, ScanLabel

\* A recover that is still deciding keeps deciding, acquires, or gives up.
LEMMA ScanMove ==
    ASSUME TypeOK, LockInv, NEW p \in Proc, NEW l \in ScanLabel \cup {"acquire", "idle"},
           pc[p] \in ScanLabel, Goto(p, l), UNCHANGED lock,
           \A q \in Proc \ {p} : call'[q] = call[q],
           l # "idle" => call'[p].op = "recover" /\ call'[p].had = call[p].had,
           l = "rec_unlink" => call[p].had
    PROVE  LockInv'
<1>1. l \in Label \ HoldLabel
  BY DEF Label, HoldLabel, CommitLabel, ScanLabel
<1>2. Alive(p) /\ Recovering(p)
  BY DEF Alive, Recovering, Busy, LockInv, ScanLabel
<1>3. \A q \in Proc \ {p} : ~Recovering(q)
  BY <1>2 DEF LockInv
<1>4. l \in ScanLabel => l # "idle"
  BY DEF ScanLabel
<1>5. l \in ScanLabel /\ call'[p].had => Stale
  BY <1>4 DEF LockInv
<1>6. "rec_unlink" # "idle"
  OBVIOUS
<1> QED
  BY <1>1, <1>2, <1>3, <1>4, <1>5, <1>6, FreeMove

LEMMA StepLock ==
    ASSUME RecoverMode # "any", TypeOK, LockInv, [Next]_vars
    PROVE  LockInv'
<1>0. "idle" \notin HoldLabel /\ "dead" \notin HoldLabel /\ "acquire" \notin HoldLabel
      /\ "populate" \notin HoldLabel /\ "idle" \notin ScanLabel /\ "dead" \notin ScanLabel
      /\ "acquire" \notin ScanLabel /\ "populate" \notin ScanLabel
      /\ ScanLabel \cap HoldLabel = {}
  BY DEF HoldLabel, CommitLabel, ScanLabel
<1>1. ASSUME NEW p \in Proc, StartCreate(p) PROVE LockInv'
  <2>1. ~Recovering(p)'
    BY <1>1 DEF StartCreate, Recovering, TypeOK, Call
  <2>2. \A q \in Proc \ {p} : call'[q] = call[q]
    BY <1>1 DEF StartCreate, TypeOK
  <2>3. "populate" \in Label
    BY DEF Label
  <2> QED
    BY <1>0, <1>1, <2>1, <2>2, <2>3, FreeMove DEF StartCreate, Alive
<1>2. ASSUME NEW p \in Proc, Populate(p) PROVE LockInv'
  <2>1. Recovering(p)' => Recovering(p)
    BY <1>2 DEF Populate, Recovering, Busy, TypeOK, Call
  <2>2. \A q \in Proc \ {p} : call'[q] = call[q]
    BY <1>2 DEF Populate, TypeOK
  <2>3. Recovering(p)' => \A q \in Proc \ {p} : ~Recovering(q)
    BY <2>1 DEF LockInv
  <2>4. "acquire" \in Label \ HoldLabel /\ Alive(p)
    BY <1>0, <1>2 DEF Label, Populate, Alive
  <2>5. "acquire" # "rec_unlink" /\ Goto(p, "acquire") /\ UNCHANGED lock
    BY <1>2 DEF Populate
  <2> QED
    BY <1>0, <2>2, <2>3, <2>4, <2>5, FreeMove
<1>3. ASSUME NEW p \in Proc, StartMutate(p) PROVE LockInv'
  <2>1. ~Recovering(p)'
    BY <1>3 DEF StartMutate, Recovering, TypeOK, Call
  <2>2. \A q \in Proc \ {p} : call'[q] = call[q]
    BY <1>3 DEF StartMutate, TypeOK
  <2>3. "acquire" \in Label \ HoldLabel /\ Alive(p)
    BY <1>0, <1>3 DEF Label, StartMutate, Alive
  <2>4. "acquire" # "rec_unlink" /\ Goto(p, "acquire") /\ UNCHANGED lock
    BY <1>3 DEF StartMutate, disk
  <2> QED
    BY <1>0, <2>1, <2>2, <2>3, <2>4, FreeMove
<1>4. ASSUME NEW p \in Proc, StartRecover(p) PROVE LockInv'
  <2>1. \A q \in Proc \ {p} : ~Recovering(q)
    BY <1>4 DEF StartRecover, MayRecover
  <2>2. \A q \in Proc \ {p} : call'[q] = call[q]
    BY <1>4 DEF StartRecover, TypeOK
  <2>3. call'[p].op = "recover" /\ call'[p].had = (lock # NoLock)
    BY <1>4 DEF StartRecover, TypeOK, Call
  <2>4. call'[p].had => Stale
    BY <1>4, <2>3 DEF StartRecover
  <2>5. "rec_pending" \in Label \ HoldLabel /\ "rec_pending" # "rec_unlink" /\ Alive(p)
    BY <1>4 DEF StartRecover, Label, ScanLabel, HoldLabel, CommitLabel, Alive
  <2>6. Goto(p, "rec_pending") /\ UNCHANGED lock
    BY <1>4 DEF StartRecover, disk
  <2> QED
    BY <2>1, <2>2, <2>3, <2>4, <2>5, <2>6, FreeMove
<1>5. ASSUME NEW p \in Proc, Acquire(p) PROVE LockInv'
  <2>1. CASE Finish(p) /\ UNCHANGED lock
    BY <1>5, <2>1, FinishFree DEF Acquire, Alive
  <2>2. CASE /\ lock = NoLock
             /\ lock' = [owner |-> p, written |-> FALSE, old |-> FALSE]
             /\ Goto(p, "write_lock")
             /\ UNCHANGED call
    <3>1. pc'[p] = "write_lock" /\ \A q \in Proc \ {p} : pc'[q] = pc[q]
      BY <2>2 DEF Goto, TypeOK
    <3>2. lock' # NoLock /\ lock'.owner = p
      <4>1. lock' \in Lock
        BY <2>2 DEF Lock
      <4> QED
        BY <2>2, <4>1, ConstantsAssumption
    <3>3. \A q \in Proc : ~Holds(q)
      BY <2>2 DEF LockInv
    <3>4. \A q \in Proc : Recovering(q)' <=> Recovering(q)
      BY <1>5, <2>2, <3>1 DEF Acquire, Recovering, Busy
    <3>5. \A q \in Proc : ~(pc[q] \in ScanLabel /\ call[q].had)
      BY <2>2 DEF LockInv, Stale
    <3>6. "write_lock" \notin ScanLabel /\ "rec_unlink" \in ScanLabel
      BY DEF ScanLabel
    <3> QED
      BY <2>2, <3>1, <3>2, <3>3, <3>4, <3>5, <3>6 DEF LockInv, Holds
  <2> QED
    BY <1>5, <2>1, <2>2 DEF Acquire
<1>6. ASSUME NEW p \in Proc, WriteLock(p) PROVE LockInv'
  <2>1. Holds(p) /\ Alive(p) /\ lock # NoLock /\ lock.owner = p
    BY <1>6 DEF WriteLock, Holds, HoldLabel, LockInv, Alive
  <2>2. lock' = [lock EXCEPT !.written = TRUE] /\ UNCHANGED call
    BY <1>6, <2>1 DEF WriteLock
  <2>3. PICK l \in HoldLabel \ {"write_lock"} : Goto(p, l)
    <3>1. {"intent_tmp", "roll", "read"} \subseteq HoldLabel \ {"write_lock"}
      BY DEF HoldLabel, CommitLabel
    <3> QED
      BY <1>6, <2>1, <3>1 DEF WriteLock
  <2>4. pc'[p] = l /\ \A q \in Proc \ {p} : pc'[q] = pc[q]
    BY <2>3 DEF Goto, TypeOK
  <2>5. lock' # NoLock /\ lock'.owner = p
    BY <2>1, <2>2, ConstantsAssumption DEF TypeOK, Lock
  <2>6. ~Stale
    BY <2>1 DEF Stale
  <2>7. \A q \in Proc : Recovering(q)' <=> Recovering(q)
    BY <1>0, <1>6, <2>2, <2>4 DEF WriteLock, Recovering, Busy
  <2>8. \A q \in Proc \ {p} : ~Holds(q)
    BY <2>1 DEF LockInv
  <2>9. "rec_unlink" \in ScanLabel /\ l \notin ScanLabel
    BY <1>0 DEF ScanLabel
  <2> QED
    BY <2>2, <2>4, <2>5, <2>6, <2>7, <2>8, <2>9 DEF LockInv, Holds
<1>7. ASSUME NEW p \in Proc, Release(p) PROVE LockInv'
  <2>1. Holds(p) /\ lock # NoLock /\ lock.owner = p /\ lock' = NoLock
    BY <1>7 DEF Release, Holds, HoldLabel, LockInv
  <2>2. pc'[p] = "idle" /\ \A q \in Proc \ {p} : pc'[q] = pc[q]
    BY <1>7 DEF Release, Finish, Goto, TypeOK
  <2>3. \A q \in Proc \ {p} : call'[q] = call[q]
    BY <1>7 DEF Release, Finish, TypeOK
  <2>4. \A q \in Proc : Recovering(q)' => Recovering(q)
    BY <2>2, <2>3 DEF Recovering, Busy
  <2>5. \A q \in Proc \ {p} : ~Holds(q)
    BY <2>1 DEF LockInv
  <2>6. ~Stale
    BY <1>7, <2>1 DEF Stale, Alive, Release
  <2>7. "rec_unlink" \in ScanLabel
    BY DEF ScanLabel
  <2> QED
    BY <1>0, <2>1, <2>2, <2>3, <2>4, <2>5, <2>6, <2>7 DEF LockInv, Holds
<1>8. ASSUME NEW p \in Proc, RecUnlink(p) PROVE LockInv'
  <2>1. Stale /\ Recovering(p) /\ \A q \in Proc \ {p} : ~Recovering(q)
    BY <1>8 DEF RecUnlink, LockInv, ScanLabel, Recovering, Busy
  <2>2. Goto(p, "acquire") /\ UNCHANGED call /\ lock' = NoLock
    BY <1>8, <2>1 DEF RecUnlink, Stale
  <2>3. pc'[p] = "acquire" /\ \A q \in Proc \ {p} : pc'[q] = pc[q]
    BY <2>2 DEF Goto, TypeOK
  <2>4. \A q \in Proc : ~Holds(q)
    BY <1>0, <2>1 DEF LockInv, Stale, Alive, Holds
  <2>5. \A q \in Proc : Recovering(q)' <=> Recovering(q)
    BY <1>8, <2>2, <2>3 DEF RecUnlink, Recovering, Busy
  <2>6. \A q \in Proc \ {p} : pc[q] \notin ScanLabel
    BY <1>0, <2>1 DEF LockInv, Recovering, Busy
  <2>7. "rec_unlink" \in ScanLabel
    BY DEF ScanLabel
  <2> QED
    BY <1>0, <2>2, <2>3, <2>4, <2>5, <2>6, <2>7 DEF LockInv, Holds
<1>9. ASSUME LockAges PROVE LockInv'
  <2>1. lock' # NoLock /\ lock'.owner = lock.owner /\ lock'.old /\ UNCHANGED <<pc, call>>
    BY <1>9, ConstantsAssumption DEF LockAges, TypeOK, Lock
  <2>2. Stale => Stale'
    BY <2>1 DEF Stale, Alive
  <2> QED
    BY <1>9, <2>1, <2>2 DEF LockInv, LockAges, Holds, Recovering, Busy
<1>10. ASSUME NEW p \in Proc, NEW l \in HoldLabel, pc[p] \in HoldLabel, Goto(p, l),
              UNCHANGED lock, UNCHANGED call PROVE LockInv'
  BY <1>10, HoldMove
<1>11. ASSUME NEW p \in Proc, pc[p] \in HoldLabel, Throw(p), UNCHANGED lock PROVE LockInv'
  BY <1>11, HoldMove DEF Throw, HoldLabel
<1>12. ASSUME NEW p \in Proc, Read(p) PROVE LockInv'
  <2>1. pc[p] \in HoldLabel /\ UNCHANGED lock /\ "intent_tmp" \in HoldLabel
    BY <1>12 DEF Read, HoldLabel, CommitLabel
  <2>2. CASE Throw(p)
    BY <2>1, <2>2, <1>11
  <2>3. CASE ~Throw(p)
    <3>1. \A q \in Proc : call'[q].op = call[q].op /\ call'[q].had = call[q].had
      BY <1>12, <2>3 DEF Read, TypeOK, Call
    <3> QED
      BY <1>12, <2>1, <2>3, <3>1, HoldMove DEF Read
  <2> QED
    BY <2>2, <2>3
<1>13. ASSUME NEW p \in Proc, \/ IntentTmp(p) \/ SnapTmp(p) \/ CommitTmp(p) \/ RebuildTmp(p)
                              \/ AppendEvent(p) \/ Sweep(p)
       PROVE LockInv'
  <2>1. pc[p] \in HoldLabel /\ UNCHANGED <<lock, call>>
    BY <1>13 DEF IntentTmp, SnapTmp, CommitTmp, RebuildTmp, AppendEvent, Sweep, CreateTemp,
                 HoldLabel, CommitLabel
  <2>2. \E l \in HoldLabel : Goto(p, l)
    BY <1>13 DEF IntentTmp, SnapTmp, CommitTmp, RebuildTmp, AppendEvent, Sweep, CreateTemp,
                 HoldLabel, CommitLabel
  <2> QED
    BY <2>1, <2>2, <1>10
<1>14. ASSUME NEW p \in Proc, IntentMv(p) \/ SnapMv(p) \/ RebuildMv(p) PROVE LockInv'
  <2>1. pc[p] \in HoldLabel /\ UNCHANGED lock
    BY <1>14 DEF IntentMv, SnapMv, RebuildMv, RenameTemp, Rename, RenameLost, disk,
                 HoldLabel, CommitLabel
  <2>2. Throw(p) \/ (UNCHANGED call /\ \E l \in HoldLabel : Goto(p, l))
    BY <1>14 DEF IntentMv, SnapMv, RebuildMv, RenameTemp, RenameLost, HoldLabel, CommitLabel
  <2> QED
    BY <2>1, <2>2, <1>10, <1>11
<1>15. ASSUME NEW p \in Proc, CommitMv(p) PROVE LockInv'
  <2>1. pc[p] \in HoldLabel /\ UNCHANGED lock /\ {"roll", "release"} \subseteq HoldLabel
    BY <1>15 DEF CommitMv, Rename, RenameLost, disk, HoldLabel, CommitLabel
  <2>2. CASE Throw(p)
    BY <2>1, <2>2, <1>11
  <2>3. CASE ~Throw(p)
    <3>1. \A q \in Proc : call'[q].op = call[q].op /\ call'[q].had = call[q].had
      BY <1>15, <2>3 DEF CommitMv, RenameLost, TypeOK, Call
    <3>2. \E l \in HoldLabel : Goto(p, l)
      BY <1>15, <2>1, <2>3 DEF CommitMv, RenameLost
    <3> QED
      BY <2>1, <3>1, <3>2, HoldMove
  <2> QED
    BY <2>2, <2>3
<1>16. ASSUME NEW p \in Proc, Roll(p) PROVE LockInv'
  <2>1. pc[p] \in HoldLabel /\ UNCHANGED lock
    BY <1>16 DEF Roll, disk, HoldLabel
  <2>2. CASE Throw(p)
    BY <2>1, <2>2, <1>11
  <2>3. CASE ~Throw(p)
    <3>1. \A q \in Proc : call'[q].op = call[q].op /\ call'[q].had = call[q].had
      <4>1. CASE UNCHANGED call
        BY <4>1
      <4>2. CASE \E e \in call[p].todo : call' = [call EXCEPT ![p].ev = e]
        BY <4>2 DEF TypeOK, Call
      <4> QED
        BY <1>16, <2>3, <4>1, <4>2 DEF Roll, RollForward
    <3>2. \E l \in HoldLabel : Goto(p, l)
      <4>1. {"append", "snap_tmp", "reb_tmp", "sweep"} \subseteq HoldLabel
        BY DEF HoldLabel, CommitLabel
      <4> QED
        BY <1>16, <2>3, <4>1 DEF Roll, RollForward
    <3> QED
      BY <2>1, <3>1, <3>2, HoldMove
  <2> QED
    BY <2>2, <2>3
<1>17. ASSUME NEW p \in Proc, RecPending(p) \/ RecSnap(p) \/ RecEvents(p) PROVE LockInv'
  <2>1. pc[p] \in ScanLabel /\ Alive(p) /\ UNCHANGED lock
    BY <1>17 DEF RecPending, RecSnap, RecEvents, ScanLabel, Alive, disk
  <2>2. call[p].op = "recover"
    BY <2>1 DEF LockInv
  <2>3. CASE Finish(p)
    BY <2>1, <2>3, FinishFree
  <2>4. CASE ~Finish(p)
    <3>1. \A q \in Proc \ {p} : call'[q] = call[q]
      BY <1>17, <2>4 DEF RecPending, RecSnap, RecEvents, TypeOK
    <3>2. PICK l \in ScanLabel \cup {"acquire", "idle"} :
             Goto(p, l) /\ (l = "rec_unlink" => call[p].had) /\ (l = "idle" => ~call[p].had)
      BY <1>17, <2>4 DEF RecPending, RecSnap, RecEvents, Proceed, ScanLabel
    <3>3. l # "idle" => call'[p].op = "recover" /\ call'[p].had = call[p].had
      <4>1. CASE RecPending(p)
        BY <2>2, <2>4, <4>1 DEF RecPending, TypeOK, Call
      <4>2. CASE RecSnap(p)
        BY <2>2, <2>4, <3>2, <4>2 DEF RecSnap, Proceed, Finish, Goto, TypeOK, Call
      <4>3. CASE RecEvents(p)
        BY <2>2, <2>4, <3>2, <4>3 DEF RecEvents, Proceed, Finish, Goto, TypeOK, Call
      <4> QED
        BY <1>17, <4>1, <4>2, <4>3
    <3> QED
      BY <2>1, <3>1, <3>2, <3>3, ScanMove
  <2> QED
    BY <2>3, <2>4
<1>18. ASSUME NEW p \in Proc, Crash(p) PROVE LockInv'
  <2>1. pc[p] # "dead"
    BY <1>18, ConstantsAssumption DEF Crash
  <2>2. ~Recovering(p)' /\ \A q \in Proc \ {p} : call'[q] = call[q]
    BY <1>18 DEF Crash, Goto, Recovering, Busy, TypeOK
  <2>3. "dead" \in Label /\ "dead" # "rec_unlink"
    BY DEF Label
  <2> QED
    BY <1>0, <1>18, <2>1, <2>2, <2>3, FreeMove DEF Crash, Alive, disk
<1>19. ASSUME NEW p \in Proc, IOError(p) PROVE LockInv'
  <2>1. UNCHANGED lock
    BY <1>19 DEF IOError, disk, Rename
  <2>2. pc[p] \in HoldLabel
    BY <1>19, ConstantsAssumption DEF IOError, HoldLabel, CommitLabel
  <2>3. Finish(p) \/ Throw(p)
    BY <1>19 DEF IOError
  <2> QED
    BY <1>0, <1>11, <2>1, <2>2, <2>3, FinishFree DEF Alive
<1>20. ASSUME UNCHANGED vars PROVE LockInv'
  BY <1>20 DEF vars, disk, LockInv, Holds, Recovering, Busy, Stale, Alive
<1> QED
  BY <1>1, <1>2, <1>3, <1>4, <1>5, <1>6, <1>7, <1>8, <1>9, <1>12, <1>13, <1>14, <1>15,
     <1>16, <1>17, <1>18, <1>19, <1>20 DEF Next, Step

\* As long as two recovers never overlap, withLock is exclusive: whatever
\* crashes and failing file operations do, at most one process is between the
\* creation of its lock file and its releaseLock.
THEOREM Exclusive ==
    ASSUME RecoverMode # "any"
    PROVE  Spec => []MutualExclusion
<1>1. Init => TypeOK /\ LockInv
  BY InitType, InitLock
<1>2. TypeOK /\ LockInv /\ [Next]_vars => TypeOK' /\ LockInv'
  BY StepType, StepLock
<1>3. LockInv => MutualExclusion
  BY DEF LockInv, MutualExclusion
<1> QED
  BY <1>1, <1>2, <1>3, PTL DEF Spec

\* ... and recover unlinks a lock file only while its owner is dead and the
\* file is old: the judgement made before the unlink still holds.
THEOREM LockRemoval ==
    ASSUME RecoverMode # "any"
    PROVE  Spec => LockRemovedByRight
<1> DEFINE Right == \/ pc[lock.owner] = "release" /\ pc'[lock.owner] = "idle"
                    \/ lock.old /\ ~Alive(lock.owner)
<1>1. TypeOK /\ LockInv /\ [Next]_vars => (lock # NoLock /\ lock' = NoLock => Right)
  <2> SUFFICES ASSUME TypeOK, LockInv, [Next]_vars, lock # NoLock, lock' = NoLock
               PROVE  Right
    OBVIOUS
  <2>1. PICK p \in Proc : Release(p) \/ RecUnlink(p)
    <3>1. ASSUME NEW p \in Proc, WriteLock(p) PROVE FALSE
      <4>1. lock' \in Lock
        BY <3>1 DEF WriteLock, TypeOK, Lock
      <4> QED
        BY <4>1, ConstantsAssumption
    <3>2. ASSUME NEW p \in Proc, Acquire(p) PROVE FALSE
      BY <3>2 DEF Acquire
    <3>3. ASSUME LockAges PROVE FALSE
      <4>1. lock' \in Lock
        BY <3>3 DEF LockAges, TypeOK, Lock
      <4> QED
        BY <4>1, ConstantsAssumption
    <3>4. ASSUME NEW p \in Proc,
                 \/ StartCreate(p) \/ Populate(p) \/ StartMutate(p) \/ StartRecover(p)
                 \/ Read(p) \/ IntentTmp(p) \/ IntentMv(p) \/ AppendEvent(p)
                 \/ SnapTmp(p) \/ SnapMv(p) \/ CommitTmp(p) \/ CommitMv(p)
                 \/ RecPending(p) \/ RecSnap(p) \/ RecEvents(p)
                 \/ Roll(p) \/ RebuildTmp(p) \/ RebuildMv(p) \/ Sweep(p)
                 \/ Crash(p) \/ IOError(p)
          PROVE  UNCHANGED lock
      BY <3>4 DEF StartCreate, Populate, StartMutate, StartRecover, Read, IntentTmp,
                  IntentMv, AppendEvent, SnapTmp, SnapMv, CommitTmp, CommitMv, RecPending,
                  RecSnap, RecEvents, Roll, RebuildTmp, RebuildMv, Sweep, Crash, IOError,
                  CreateTemp, RenameTemp, Rename, RenameLost, disk
    <3> QED
      BY <3>1, <3>2, <3>3, <3>4 DEF Next, Step, vars, disk
  <2>2. CASE Release(p)
    <3>1. lock.owner = p
      BY <2>2 DEF Release, LockInv, Holds, HoldLabel
    <3> QED
      BY <2>2, <3>1 DEF Release, Finish, Goto, TypeOK
  <2>3. CASE RecUnlink(p)
    BY <2>3 DEF RecUnlink, LockInv, ScanLabel, Stale
  <2> QED
    BY <2>1, <2>2, <2>3
<1>2. TypeOK /\ LockInv /\ [Next]_vars => [lock # NoLock /\ lock' = NoLock => Right]_vars
  BY <1>1
<1>3. Init => TypeOK /\ LockInv
  BY InitType, InitLock
<1>4. TypeOK /\ LockInv /\ [Next]_vars => TypeOK' /\ LockInv'
  BY StepType, StepLock
<1> QED
  BY <1>2, <1>3, <1>4, PTL DEF Spec, LockRemovedByRight

-----------------------------------------------------------------------------
(* The event log.  That events form one chain is not inductive either: an  *)
(* event on its way to the log, in memory or in a transaction file, must   *)
(* still fit where it will be appended.                                    *)

\* The event e has its place in the log or right after it.
Placed(e) ==
    /\ e.prev < e.id
    /\ e.id <= made
    /\ e.seq \in 1..(Len(log) + 1)
    /\ e.prev = IF e.seq = 1 THEN 0 ELSE log[e.seq - 1].id

\* The event e is the one that comes next.
Follows(e) ==
    /\ ChainOK(log)
    /\ e.prev = LastId(log)
    /\ e.seq = Len(log) + 1
    /\ e.prev < e.id
    /\ e.id <= made

WritingLabel == CommitLabel \cup {"reb_tmp", "reb_mv", "rec_events"}

\* Nothing has been written, and nobody is about to.
Untouched ==
    /\ log = <<>> /\ pending = {} /\ snap = 0 /\ done = {}
    /\ \A q \in Proc : /\ call[q].todo = {}
                       /\ call[q].cand = 0
                       /\ pc[q] \notin WritingLabel

\* A create that has not written its intent yet.
Creating(p) == call[p].op = "create" /\ pc[p] \in {"populate", "acquire", "write_lock"}

LogInv ==
    /\ EventChain
    /\ \A i, j \in 1..Len(log) : i < j /\ log[j].id # 0 => log[i].id < log[j].id
    /\ \A i \in 1..Len(log) : log[i].id <= made
    /\ \A e \in pending : Placed(e)
    /\ \A p \in Proc : \A e \in call[p].todo : Placed(e)
    /\ \A p \in Proc : pc[p] \in {"intent_tmp", "intent_mv", "append"} => Follows(call[p].ev)
    /\ \A p \in Proc : pc[p] \in {"snap_tmp", "snap_mv", "commit_tmp", "commit_mv"}
                          => InLog(call[p].ev.id)
    /\ \A p \in Proc : call[p].cand # 0 => InLog(call[p].cand)
    /\ LogFirst
    /\ \A p \in Proc : Creating(p) =>
          /\ Untouched
          /\ pc[p] # "populate" => Follows(call[p].ev)
    /\ \A p, q \in Proc : call[p].op = "create" /\ call[q].op = "create" => p = q
    /\ dir = "absent" => Untouched /\ \A q \in Proc : pc[q] = "idle" /\ call[q] = Blank

LEMMA InitLog == Init => LogInv
BY DEF Init, LogInv, EventChain, ChainOK, ChainTo, LogFirst, InLog, Creating, Untouched, Blank,
       WritingLabel, CommitLabel

LEMMA PlacedMono ==
    ASSUME TypeOK, TypeOK', NEW e \in Event, Placed(e), made <= made',
           \/ log' = log
           \/ \E x \in Event : log' = Append(log, x)
    PROVE  Placed(e)'
<1>1. Len(log) \in Nat /\ Len(log)' >= Len(log) /\ Len(log') \in Nat
  BY DEF TypeOK
<1>2. \A i \in 1..Len(log) : log'[i] = log[i]
  BY DEF TypeOK
<1>3. e.seq # 1 => e.seq - 1 \in 1..Len(log)
  BY <1>1 DEF Placed, Event
<1>4. e.id <= made'
  BY DEF Placed, TypeOK, Event
<1>5. e.seq \in 1..(Len(log') + 1)
  BY <1>1 DEF Placed, Event
<1>6. e.prev = IF e.seq = 1 THEN 0 ELSE log'[e.seq - 1].id
  BY <1>2, <1>3 DEF Placed
<1> QED
  BY <1>4, <1>5, <1>6 DEF Placed

LEMMA InLogMono ==
    ASSUME TypeOK, NEW id, InLog(id),
           \/ log' = log
           \/ \E x \in Event : log' = Append(log, x)
    PROVE  InLog(id)'
BY DEF TypeOK, InLog

LEMMA FollowsPlaced ==
    ASSUME TypeOK, NEW e \in Event, Follows(e)
    PROVE  Placed(e)
BY DEF TypeOK, Follows, Placed, LastId, Event

\* rollForward's comparison of digests suffices: an event whose predecessor is
\* the last of the log is the next one.
LEMMA PlacedFollows ==
    ASSUME TypeOK, LogInv, NEW e \in Event, Placed(e), ChainOK(log), LastId(log) = e.prev
    PROVE  Follows(e)
<1>1. Len(log) \in Nat
  BY DEF TypeOK
<1>2. ASSUME e.seq # Len(log) + 1 PROVE FALSE
  <2>1. e.seq \in 1..Len(log) /\ Len(log) \in 1..Len(log) /\ log # <<>>
    BY <1>1, <1>2 DEF Placed, Event, TypeOK
  <2>2. log[Len(log)].id = e.prev /\ log[Len(log)].id # 0
    BY <2>1 DEF LastId, ChainOK, ChainTo
  <2>3. e.seq # 1
    BY <2>2 DEF Placed
  <2>4. e.seq - 1 \in 1..Len(log) /\ e.seq - 1 < Len(log)
    BY <1>1, <2>1, <2>3
  <2>5. log[e.seq - 1].id < log[Len(log)].id
    BY <2>1, <2>2, <2>4 DEF LogInv
  <2>6. log[e.seq - 1].id \in Nat
    <3>1. log[e.seq - 1] \in Event
      BY <2>4 DEF TypeOK
    <3> QED
      BY <3>1 DEF Event
  <2> QED
    BY <2>2, <2>3, <2>5, <2>6 DEF Placed
<1> QED
  BY <1>2 DEF Placed, Follows

EarlyLabel == {"intent_tmp", "intent_mv", "append"}
LateLabel  == {"snap_tmp", "snap_mv", "commit_tmp", "commit_mv"}

\* The clauses of LogInv that speak of one process.
LogOf(p) ==
    /\ \A e \in call[p].todo : Placed(e)
    /\ pc[p] \in EarlyLabel => Follows(call[p].ev)
    /\ pc[p] \in LateLabel => InLog(call[p].ev.id)
    /\ call[p].cand # 0 => InLog(call[p].cand)

LEMMA LogOfAll == LogInv => \A p \in Proc : LogOf(p)
BY DEF LogInv, LogOf, EarlyLabel, LateLabel

\* A step of p that leaves log, snapshot and transactions alone.
LEMMA LogFrame ==
    ASSUME TypeOK, TypeOK', LogInv, NEW p \in Proc,
           UNCHANGED <<log, snap, pending, done>>, made <= made',
           dir # "absent", dir' # "absent",
           \A q \in Proc \ {p} : pc'[q] = pc[q] /\ call'[q] = call[q],
           LogOf(p)',
           call'[p].op = "create" => call[p].op = "create",
           Creating(p)' => /\ Creating(p)
                           /\ Untouched'
                           /\ pc'[p] # "populate" => Follows(call[p].ev)',
           (\E q \in Proc \ {p} : Creating(q)) =>
              /\ call'[p].todo = {}
              /\ call'[p].cand = 0
              /\ pc'[p] \notin WritingLabel
    PROVE  LogInv'
<1>1. \A e \in pending : Placed(e)'
  BY PlacedMono DEF LogInv, TypeOK
<1>2. \A id : InLog(id)' <=> InLog(id)
  BY DEF InLog
<1>3. \A e \in Event : Follows(e) => Follows(e)'
  BY DEF Follows, TypeOK, Event
<1>4. ASSUME NEW q \in Proc \ {p} PROVE LogOf(q)'
  <2>1. call[q].todo \subseteq Event /\ call[q].ev \in Event
    BY DEF TypeOK, Call
  <2>2. \A e \in call[q].todo : Placed(e)'
    BY <2>1, PlacedMono DEF LogInv
  <2> QED
    BY <1>2, <1>3, <2>1, <2>2, LogOfAll DEF LogOf
<1>5. \A q \in Proc : LogOf(q)'
  BY <1>4
<1>6. ASSUME NEW q \in Proc \ {p}, Creating(q)'
      PROVE  Untouched' /\ (pc'[q] # "populate" => Follows(call[q].ev)')
  <2>1. Creating(q)
    BY <1>6 DEF Creating
  <2>2. Untouched
    BY <2>1 DEF LogInv
  <2>3. Untouched'
    BY <2>1, <2>2 DEF Untouched
  <2>4. call[q].ev \in Event
    BY DEF TypeOK, Call
  <2> QED
    BY <1>3, <2>1, <2>3, <2>4 DEF LogInv
<1>7. \A q \in Proc : Creating(q)' => /\ Untouched'
                                      /\ pc'[q] # "populate" => Follows(call[q].ev)'
  BY <1>6
<1>8. EventChain' /\ LogFirst'
  BY <1>2 DEF LogInv, EventChain, ChainOK, ChainTo, LogFirst
<1>9. ASSUME NEW i \in 1..Len(log') PROVE log'[i].id <= made'
  <2>1. log[i] \in Event /\ log[i].id <= made /\ log' = log
    BY <1>9 DEF LogInv, TypeOK
  <2> QED
    BY <2>1 DEF TypeOK, Event
<1>10. \A q, r \in Proc : call'[q].op = "create" /\ call'[r].op = "create" => q = r
  BY DEF LogInv
<1> QED
  BY <1>1, <1>5, <1>7, <1>8, <1>9, <1>10 DEF LogInv, LogOf, EarlyLabel, LateLabel

\* When some process writes, no create is still on its way to its intent.
LEMMA WriterAlone ==
    ASSUME LogInv, NEW p \in Proc, pc[p] \in WritingLabel
    PROVE  /\ \A q \in Proc : ~Creating(q)
           /\ dir # "absent"
BY DEF LogInv, Untouched, WritingLabel, CommitLabel

\* atomicWrite's rename keeps LogInv when the process then stays clear of the
\* labels that promise more.
LEMMA LogRename ==
    ASSUME TypeOK, TypeOK', LogInv, MutualExclusion, NEW p \in Proc, NEW kind \in Kind,
           Rename(p, kind),
           kind = "intent" => pc[p] \in EarlyLabel,
           kind \in {"case", "commit"} => pc[p] \in LateLabel,
           pc[p] \in WritingLabel \cap HoldLabel,
           \A q \in Proc \ {p} : pc'[q] = pc[q] /\ call'[q] = call[q],
           LogOf(p)',
           call'[p].op = call[p].op,
           pc'[p] \in HoldLabel \ {"write_lock"}
    PROVE  LogInv'
<1>1. UNCHANGED <<log, dir, made>>
  BY DEF Rename
<1>2. \A e \in Event : Placed(e)' <=> Placed(e)
  BY <1>1 DEF Placed
<1>3. \A id : InLog(id)' <=> InLog(id)
  BY <1>1 DEF InLog
<1>4. \A e \in Event : Follows(e)' <=> Follows(e)
  BY <1>1 DEF Follows
<1>5. call[p].ev \in Event
  BY DEF TypeOK, Call
<1>6. \A e \in pending' : Placed(e)'
  <2>1. kind = "intent" => Placed(call[p].ev)
    BY <1>5, LogOfAll, FollowsPlaced DEF LogOf
  <2>2. pending' \subseteq pending \cup (IF kind = "intent" THEN {call[p].ev} ELSE {})
    BY DEF Rename, Kind
  <2> QED
    BY <1>2, <1>5, <2>1, <2>2 DEF LogInv, TypeOK
<1>7. ASSUME NEW q \in Proc \ {p} PROVE LogOf(q)'
  BY <1>2, <1>3, <1>4, LogOfAll DEF LogOf, TypeOK, Call
<1>8. \A q \in Proc : LogOf(q)'
  BY <1>7
<1>9. LogFirst'
  <2>1. kind \in {"case", "commit"} => InLog(call[p].ev.id)
    BY LogOfAll DEF LogOf
  <2>2. kind = "rebuild" /\ call[p].cand # 0 => InLog(call[p].cand)
    BY LogOfAll DEF LogOf
  <2>3. snap' # 0 => InLog(snap')
    BY <2>1, <2>2 DEF Rename, Kind, LogInv, LogFirst
  <2>4. done' \subseteq done \cup (IF kind = "commit" THEN {call[p].ev} ELSE {})
    BY DEF Rename, Kind
  <2>5. \A e \in done' : InLog(e.id)
    BY <2>1, <2>4 DEF LogInv, LogFirst
  <2> QED
    BY <1>3, <2>3, <2>5 DEF LogFirst
<1>10. \A q \in Proc : ~Creating(q)'
  <2>1. \A q \in Proc \ {p} : ~Creating(q)'
    BY WriterAlone DEF Creating
  <2>2. ~Creating(p)'
    BY DEF Creating, HoldLabel, CommitLabel
  <2> QED
    BY <2>1, <2>2
<1>11. dir' # "absent"
  BY <1>1, WriterAlone
<1>12. EventChain' /\ (\A i, j \in 1..Len(log') : i < j /\ log'[j].id # 0 => log'[i].id < log'[j].id)
       /\ (\A i \in 1..Len(log') : log'[i].id <= made')
  BY <1>1 DEF LogInv, EventChain, ChainOK, ChainTo
<1>13. \A q, r \in Proc : call'[q].op = "create" /\ call'[r].op = "create" => q = r
  BY DEF LogInv
<1> QED
  BY <1>6, <1>8, <1>9, <1>10, <1>11, <1>12, <1>13 DEF LogInv, LogOf, EarlyLabel, LateLabel

\* The log grows by the event that comes next, or by a torn line.
LEMMA LogAppend ==
    ASSUME TypeOK, TypeOK', LogInv, MutualExclusion, NEW p \in Proc,
           pc[p] = "append", NEW line \in {call[p].ev, NoEvent}, log' = Append(log, line),
           UNCHANGED <<dir, snap, pending, done, made, call>>,
           \A q \in Proc \ {p} : pc'[q] = pc[q],
           \/ pc'[p] = "snap_tmp" /\ line = call[p].ev
           \/ pc'[p] = "release"
    PROVE  LogInv'
<1> DEFINE e == call[p].ev
<1>1. e \in Event /\ NoEvent \in Event /\ log \in Seq(Event) /\ made \in Nat
  BY DEF TypeOK, Call, NoEvent, Event
<1>2. Follows(e)
  BY DEF LogInv
<1>3. Len(log') = Len(log) + 1 /\ Len(log) \in Nat
      /\ log'[Len(log) + 1] = line /\ \A i \in 1..Len(log) : log'[i] = log[i]
  BY <1>1
<1>4. \A i \in 1..Len(log) : log[i] \in Event
  BY <1>1
<1>5. \A i \in 1..Len(log) : log[i].id < e.id
  <2> SUFFICES ASSUME NEW i \in 1..Len(log) PROVE log[i].id < e.id
    OBVIOUS
  <2>1. Len(log) \in 1..Len(log) /\ log # <<>>
    BY <1>3
  <2>2. LastId(log) = log[Len(log)].id /\ log[Len(log)].id # 0
    BY <1>2, <2>1 DEF LastId, Follows, ChainOK, ChainTo
  <2>3. log[i].id <= log[Len(log)].id
    BY <1>4, <2>1, <2>2 DEF LogInv, Event
  <2>4. log[i].id \in Nat /\ log[Len(log)].id \in Nat /\ e.id \in Nat
    BY <1>1, <1>4, <2>1 DEF Event
  <2>5. log[Len(log)].id < e.id
    BY <1>2, <2>2 DEF Follows
  <2> QED
    BY <2>3, <2>4, <2>5
<1>6. ChainTo(log, Len(log)) /\ ChainTo(log', Len(log))
  BY <1>2, <1>3 DEF Follows, ChainOK, ChainTo
<1>7. EventChain'
  <2>1. CASE line = e
    <3>1. e.id # 0 /\ e.seq = Len(log) + 1
      BY <1>1, <1>2 DEF Follows, Event
    <3>2. e.prev = IF Len(log) + 1 = 1 THEN 0 ELSE log'[Len(log) + 1 - 1].id
      BY <1>1, <1>2, <1>3 DEF Follows, LastId
    <3>3. ChainTo(log', Len(log) + 1)
      BY <1>3, <1>6, <2>1, <3>1, <3>2 DEF ChainTo
    <3> QED
      BY <1>3, <3>3 DEF EventChain, ChainOK
  <2>2. CASE line = NoEvent
    <3>1. log' # <<>> /\ log'[Len(log')] = NoEvent
      BY <1>3, <2>2
    <3>2. Len(log') - 1 = Len(log)
      BY <1>3
    <3> QED
      BY <1>6, <3>1, <3>2 DEF EventChain
  <2> QED
    BY <2>1, <2>2
<1>8. ASSUME NEW i \in 1..Len(log'), NEW j \in 1..Len(log'), i < j, log'[j].id # 0
      PROVE  log'[i].id < log'[j].id
  <2>1. CASE j \in 1..Len(log)
    BY <1>3, <1>8, <2>1 DEF LogInv
  <2>2. CASE j = Len(log) + 1
    <3>1. line = e
      BY <1>3, <1>8, <2>2 DEF NoEvent
    <3>2. i \in 1..Len(log)
      BY <1>3, <1>8, <2>2
    <3> QED
      BY <1>3, <1>5, <2>2, <3>1, <3>2
  <2> QED
    BY <1>3, <2>1, <2>2
<1>9. \A i \in 1..Len(log') : log'[i].id <= made'
  <2>1. line.id <= made
    BY <1>1, <1>2 DEF Follows, NoEvent
  <2> QED
    BY <1>3, <2>1 DEF LogInv
<1>10. \A x \in Event : Placed(x) => Placed(x)'
  BY <1>1, PlacedMono
<1>11. \A id : InLog(id) => InLog(id)'
  BY <1>1, InLogMono
<1>12. pc'[p] = "snap_tmp" => InLog(e.id)'
  BY <1>3 DEF InLog
<1>13. \A q \in Proc \ {p} : pc[q] \notin HoldLabel
  BY DEF MutualExclusion, Holds, HoldLabel, CommitLabel
<1>14. \A q \in Proc : LogOf(q)'
  <2>1. ASSUME NEW q \in Proc \ {p} PROVE LogOf(q)'
    BY <1>10, <1>11, <1>13, LogOfAll
       DEF LogOf, HoldLabel, CommitLabel, EarlyLabel, LateLabel, TypeOK, Call
  <2>2. LogOf(p)'
    BY <1>10, <1>11, <1>12, LogOfAll DEF LogOf, EarlyLabel, LateLabel, TypeOK, Call
  <2> QED
    BY <2>1, <2>2
<1>15. \A q \in Proc : ~Creating(q)'
  <2>1. pc[p] \in WritingLabel
    BY DEF WritingLabel, CommitLabel
  <2> QED
    BY <2>1, WriterAlone DEF Creating
<1>16. dir' # "absent"
  BY WriterAlone DEF WritingLabel, CommitLabel
<1>17. (\A x \in pending' : Placed(x)') /\ LogFirst'
  BY <1>10, <1>11 DEF LogInv, LogFirst, TypeOK
<1>18. \A q, r \in Proc : call'[q].op = "create" /\ call'[r].op = "create" => q = r
  BY DEF LogInv
<1> QED
  BY <1>7, <1>8, <1>9, <1>14, <1>15, <1>16, <1>17, <1>18
     DEF LogInv, LogOf, EarlyLabel, LateLabel

\* A step of p that touches nothing LogInv speaks of, and ends where p is not
\* about to write.
LEMMA LogQuiet ==
    ASSUME TypeOK, TypeOK', LogInv, NEW p \in Proc,
           UNCHANGED <<log, snap, pending, done, made, dir>>, dir # "absent",
           \A q \in Proc \ {p} : pc'[q] = pc[q] /\ call'[q] = call[q],
           pc'[p] \notin WritingLabel,
           call'[p].todo \subseteq call[p].todo,
           call'[p].cand \in {0, call[p].cand},
           call'[p].op = "create" => call[p].op = "create",
           Creating(p)' => Creating(p) /\ pc[p] # "populate" /\ call'[p] = call[p]
    PROVE  LogInv'
<1>1. pc'[p] \notin EarlyLabel \cup LateLabel
  BY DEF EarlyLabel, LateLabel, WritingLabel, CommitLabel
<1>2. \A e \in Event : Placed(e) => Placed(e)'
  BY DEF Placed
<1>3. \A id : InLog(id)' <=> InLog(id)
  BY DEF InLog
<1>4. LogOf(p)'
  BY <1>1, <1>2, <1>3, LogOfAll DEF LogOf, TypeOK, Call
<1>5. Creating(p)' => Untouched' /\ Follows(call[p].ev)'
  <2> SUFFICES ASSUME Creating(p)' PROVE Untouched' /\ Follows(call[p].ev)'
    OBVIOUS
  <2>1. Untouched /\ Follows(call[p].ev)
    BY DEF LogInv
  <2>2. Untouched'
    BY <2>1 DEF Untouched
  <2> QED
    BY <2>1, <2>2 DEF Follows
<1>6. (\E q \in Proc \ {p} : Creating(q)) => call'[p].todo = {} /\ call'[p].cand = 0
  BY DEF LogInv, Untouched
<1>7. made <= made'
  BY DEF TypeOK
<1> QED
  BY <1>4, <1>5, <1>6, <1>7, LogFrame

LEMMA LogThrow ==
    ASSUME TypeOK, TypeOK', LogInv, NEW p \in Proc, Throw(p), pc[p] # "idle",
           UNCHANGED <<log, snap, pending, done, made, dir>>
    PROVE  LogInv'
<1>1. pc'[p] = "release" /\ call' = call /\ \A q \in Proc \ {p} : pc'[q] = pc[q]
  BY DEF Throw, Goto, TypeOK
<1>2. dir # "absent"
  BY DEF LogInv
<1>3. ~Creating(p)' /\ "release" \notin WritingLabel
  BY <1>1 DEF Creating, WritingLabel, CommitLabel
<1> QED
  BY <1>1, <1>2, <1>3, LogQuiet

LEMMA LogFinish ==
    ASSUME TypeOK, TypeOK', LogInv, NEW p \in Proc, pc[p] # "idle",
           \E l \in {"idle", "dead"} : Goto(p, l),
           call' = [call EXCEPT ![p] = Blank],
           UNCHANGED <<log, snap, pending, done, made, dir>>
    PROVE  LogInv'
<1>1. pc'[p] \in {"idle", "dead"} /\ \A q \in Proc \ {p} : pc'[q] = pc[q]
  BY DEF Goto, TypeOK
<1>2. call'[p] = Blank /\ \A q \in Proc \ {p} : call'[q] = call[q]
  BY DEF TypeOK
<1>3. dir # "absent"
  BY DEF LogInv
<1>4. ~Creating(p)' /\ pc'[p] \notin WritingLabel
  BY <1>1 DEF Creating, WritingLabel, CommitLabel
<1> QED
  BY <1>1, <1>2, <1>3, <1>4, LogQuiet DEF Blank

LEMMA StepLog ==
    ASSUME TypeOK, TypeOK', LockInv, LogInv, [Next]_vars
    PROVE  LogInv'
<1> USE DEF Goto
<1>0. MutualExclusion /\ \A p \in Proc : pc[p] # "idle" => dir # "absent"
  BY DEF LockInv, MutualExclusion, LogInv
<1>1. ASSUME NEW p \in Proc, StartCreate(p) PROVE LogInv'
  <2>1. Untouched /\ \A q \in Proc : pc[q] = "idle" /\ call[q] = Blank
    BY <1>1 DEF StartCreate, LogInv
  <2>2. \A q \in Proc : pc'[q] = IF q = p THEN "populate" ELSE "idle"
    BY <1>1, <2>1 DEF StartCreate, TypeOK
  <2>3. /\ \A q \in Proc : call'[q].todo = {} /\ call'[q].cand = 0
        /\ \A q \in Proc \ {p} : call'[q].op # "create"
    BY <1>1, <2>1 DEF StartCreate, TypeOK, Call, Blank
  <2>4. Untouched'
    BY <1>1, <2>1, <2>2, <2>3 DEF StartCreate, Untouched, WritingLabel, CommitLabel
  <2>5. dir' # "absent"
    BY <1>1 DEF StartCreate
  <2>6. log' = <<>> /\ pending' = {} /\ snap' = 0 /\ done' = {}
    BY <2>4 DEF Untouched
  <2>7. EventChain' /\ LogFirst'
    BY <2>6 DEF EventChain, ChainOK, ChainTo, LogFirst
  <2>8. \A q \in Proc : Creating(q)' => q = p /\ pc'[q] = "populate"
    BY <2>2, <2>3 DEF Creating
  <2> QED
    BY <2>2, <2>3, <2>4, <2>5, <2>6, <2>7, <2>8 DEF LogInv
<1>2. ASSUME NEW p \in Proc, Populate(p) PROVE LogInv'
  <2>1. pc'[p] = "acquire" /\ \A q \in Proc \ {p} : pc'[q] = pc[q] /\ call'[q] = call[q]
    BY <1>2 DEF Populate, TypeOK
  <2>2. /\ call'[p].ev = Draw(1, 0) /\ call'[p].op = call[p].op
        /\ call'[p].todo = call[p].todo /\ call'[p].cand = call[p].cand
    BY <1>2 DEF Populate, TypeOK, Call
  <2>3. made' = made + 1 /\ made <= made' /\ UNCHANGED <<log, snap, pending, done>>
        /\ dir # "absent" /\ dir' # "absent"
    BY <1>0, <1>2 DEF Populate, TypeOK
  <2>4. LogOf(p)'
    <3>1. \A e \in call[p].todo : Placed(e)'
      <4>1. \A e \in call[p].todo : e \in Event /\ Placed(e)
        BY DEF LogInv, TypeOK, Call
      <4> QED
        BY <2>3, <4>1, PlacedMono
    <3> QED
      BY <2>1, <2>2, <2>3, <3>1, LogOfAll DEF LogOf, EarlyLabel, LateLabel, InLog
  <2>5. Creating(p)' => /\ Creating(p)
                        /\ Untouched'
                        /\ Follows(call[p].ev)'
    <3> SUFFICES ASSUME Creating(p)' PROVE Creating(p) /\ Untouched' /\ Follows(call[p].ev)'
      OBVIOUS
    <3>1. Creating(p)
      BY <1>2, <2>2 DEF Creating, Populate
    <3>2. Untouched
      BY <3>1 DEF LogInv
    <3>3. Untouched'
      BY <2>1, <2>2, <2>3, <3>2 DEF Untouched, WritingLabel, CommitLabel
    <3>4. log' = <<>>
      BY <3>3 DEF Untouched
    <3>5. Follows(call[p].ev)'
      BY <2>2, <2>3, <3>4 DEF Follows, ChainOK, ChainTo, LastId, Draw, TypeOK
    <3> QED
      BY <3>1, <3>3, <3>5
  <2>6. (\E q \in Proc \ {p} : Creating(q)) =>
           call'[p].todo = {} /\ call'[p].cand = 0 /\ pc'[p] \notin WritingLabel
    BY <2>1, <2>2 DEF LogInv, Untouched, WritingLabel, CommitLabel
  <2> QED
    BY <2>1, <2>2, <2>3, <2>4, <2>5, <2>6, LogFrame
<1>3. ASSUME NEW p \in Proc, StartMutate(p) \/ StartRecover(p) PROVE LogInv'
  <2>1. pc'[p] \in {"acquire", "rec_pending"}
        /\ \A q \in Proc \ {p} : pc'[q] = pc[q] /\ call'[q] = call[q]
    BY <1>3 DEF StartMutate, StartRecover, TypeOK
  <2>2. /\ call'[p].op # "create"
        /\ call'[p].todo = call[p].todo /\ call'[p].cand = call[p].cand
    BY <1>3 DEF StartMutate, StartRecover, TypeOK, Call
  <2>3. UNCHANGED <<log, snap, pending, done, made, dir>> /\ dir # "absent"
    BY <1>3 DEF StartMutate, StartRecover, disk
  <2>4. pc'[p] \notin WritingLabel
    BY <2>1 DEF WritingLabel, CommitLabel
  <2> QED
    BY <2>1, <2>2, <2>3, <2>4, LogQuiet DEF Creating
<1>4. ASSUME NEW p \in Proc, Acquire(p) PROVE LogInv'
  <2>1. UNCHANGED <<log, snap, pending, done, made, dir>> /\ dir # "absent" /\ pc[p] # "idle"
    BY <1>0, <1>4 DEF Acquire
  <2>2. CASE Finish(p)
    BY <2>1, <2>2, LogFinish DEF Finish
  <2>3. CASE ~Finish(p)
    <3>1. pc'[p] = "write_lock" /\ call' = call /\ \A q \in Proc \ {p} : pc'[q] = pc[q]
      BY <1>4, <2>3 DEF Acquire, TypeOK
    <3>2. Creating(p)' => Creating(p) /\ pc[p] # "populate"
      BY <1>4, <3>1 DEF Acquire, Creating
    <3>3. pc'[p] \notin WritingLabel
      BY <3>1 DEF WritingLabel, CommitLabel
    <3> QED
      BY <2>1, <3>1, <3>2, <3>3, LogQuiet
  <2> QED
    BY <2>2, <2>3
<1>5. ASSUME NEW p \in Proc, WriteLock(p) PROVE LogInv'
  <2>1. UNCHANGED <<log, snap, pending, done, made, dir>> /\ dir # "absent" /\ pc[p] # "idle"
        /\ pc[p] = "write_lock"
    BY <1>0, <1>5 DEF WriteLock
  <2>2. CASE Finish(p)
    BY <2>1, <2>2, LogFinish DEF Finish
  <2>3. CASE ~Finish(p)
    <3>1. call' = call /\ \A q \in Proc \ {p} : pc'[q] = pc[q]
      BY <1>5, <2>3 DEF WriteLock, TypeOK
    <3>2. CASE call[p].op = "create"
      <4>1. pc'[p] = "intent_tmp"
        BY <1>5, <2>3, <3>2 DEF WriteLock, TypeOK
      <4>2. Creating(p)
        BY <2>1, <3>2 DEF Creating
      <4>3. Follows(call[p].ev)
        BY <2>1, <4>2 DEF LogInv
      <4>4. LogOf(p)'
        <5>1. Follows(call[p].ev)'
          BY <2>1, <3>1, <4>3 DEF Follows
        <5>2. call[p].todo = {} /\ call[p].cand = 0
          BY <4>2 DEF LogInv, Untouched
        <5> QED
          BY <3>1, <4>1, <5>1, <5>2 DEF LogOf, LateLabel
      <4>5. \A q \in Proc \ {p} : ~Creating(q)
        BY <3>2 DEF LogInv, Creating
      <4>6. ~Creating(p)' /\ made <= made'
        BY <2>1, <4>1 DEF Creating, TypeOK
      <4>7. dir' # "absent" /\ call'[p].op = call[p].op
            /\ \A q \in Proc \ {p} : call'[q] = call[q]
        BY <2>1, <3>1
      <4>8. UNCHANGED <<log, snap, pending, done>>
        BY <2>1
      <4> QED
        BY <2>1, <3>1, <4>4, <4>5, <4>6, <4>7, <4>8, LogFrame
    <3>3. CASE call[p].op # "create"
      <4>1. pc'[p] \in {"roll", "read"}
        BY <1>5, <2>3, <3>3 DEF WriteLock, TypeOK
      <4>2. pc'[p] \notin WritingLabel /\ ~Creating(p)'
        BY <4>1 DEF WritingLabel, CommitLabel, Creating
      <4> QED
        BY <2>1, <3>1, <4>2, LogQuiet
    <3> QED
      BY <3>2, <3>3
  <2> QED
    BY <2>2, <2>3
<1>6. ASSUME NEW p \in Proc, Release(p) PROVE LogInv'
  BY <1>6, LogFinish DEF Release, Finish
<1>7. ASSUME NEW p \in Proc, Read(p) PROVE LogInv'
  <2>1. UNCHANGED <<log, snap, pending, done, dir>> /\ dir # "absent" /\ pc[p] = "read"
    BY <1>0, <1>7 DEF Read
  <2>2. CASE Throw(p) /\ UNCHANGED made
    BY <2>1, <2>2, LogThrow
  <2>3. CASE /\ Mutable
             /\ made' = made + 1
             /\ call' = [call EXCEPT ![p].ev = Draw(Len(log) + 1, LastId(log))]
             /\ Goto(p, "intent_tmp")
    <3>1. pc'[p] = "intent_tmp" /\ \A q \in Proc \ {p} : pc'[q] = pc[q] /\ call'[q] = call[q]
      BY <2>3 DEF TypeOK
    <3>2. /\ call'[p].ev = Draw(Len(log) + 1, LastId(log)) /\ call'[p].op = call[p].op
          /\ call'[p].todo = call[p].todo /\ call'[p].cand = call[p].cand
      BY <2>3 DEF TypeOK, Call
    <3>3. LastId(log) \in Nat /\ LastId(log) <= made
      <4>1. CASE log = <<>>
        BY <4>1 DEF LastId, TypeOK
      <4>2. CASE log # <<>>
        <5>1. Len(log) \in 1..Len(log)
          BY <4>2 DEF TypeOK
        <5> QED
          BY <4>2, <5>1, LastIdType DEF LastId, LogInv, TypeOK
      <4> QED
        BY <4>1, <4>2
    <3>4. made \in Nat /\ made <= made'
      BY <2>3 DEF TypeOK
    <3>5. Follows(call[p].ev)'
      BY <2>1, <2>3, <3>2, <3>3, <3>4 DEF Follows, Draw, Mutable
    <3>6. \A e \in call[p].todo : Placed(e)'
      <4>1. \A e \in call[p].todo : e \in Event /\ Placed(e)
        BY DEF LogInv, TypeOK, Call
      <4> QED
        BY <2>1, <3>4, <4>1, PlacedMono
    <3>7. LogOf(p)'
      BY <2>1, <3>1, <3>2, <3>5, <3>6, LogOfAll DEF LogOf, LateLabel, InLog
    <3>8. \A q \in Proc : ~Creating(q)
      BY <2>3 DEF LogInv, Untouched, Mutable
    <3>9. ~Creating(p)' /\ dir' # "absent"
      BY <2>1, <3>1 DEF Creating
    <3> QED
      BY <2>1, <3>1, <3>2, <3>4, <3>7, <3>8, <3>9, LogFrame
  <2> QED
    BY <1>7, <2>2, <2>3 DEF Read
<1>8. ASSUME NEW p \in Proc, NEW l, NEW kind, NEW n, CreateTemp(p, l, kind, n),
             \/ l = "intent_tmp" /\ n = "intent_mv"
             \/ l = "snap_tmp" /\ n = "snap_mv"
             \/ l = "commit_tmp" /\ n = "commit_mv"
             \/ l = "reb_tmp" /\ n = "reb_mv"
      PROVE  LogInv'
  <2>1. pc[p] = l /\ pc'[p] = n /\ call' = call /\ \A q \in Proc \ {p} : pc'[q] = pc[q]
    BY <1>8 DEF CreateTemp, TypeOK
  <2>2. UNCHANGED <<log, snap, pending, done, made, dir>>
    BY <1>8 DEF CreateTemp
  <2>3. pc[p] \in WritingLabel /\ pc'[p] \notin {"populate", "acquire", "write_lock"}
    BY <1>8, <2>1 DEF EarlyLabel, LateLabel, WritingLabel, CommitLabel
  <2>4. (\A q \in Proc : ~Creating(q)) /\ dir # "absent" /\ dir' # "absent"
    BY <2>2, <2>3, WriterAlone
  <2>5. LogOf(p)'
    <3>1. LogOf(p)
      BY LogOfAll
    <3> QED
      BY <1>8, <2>1, <2>2, <3>1
         DEF LogOf, EarlyLabel, LateLabel, Placed, Follows, InLog
  <2>6. ~Creating(p)' /\ made <= made'
    BY <2>2, <2>3 DEF Creating, TypeOK
  <2> QED
    BY <2>1, <2>2, <2>4, <2>5, <2>6, LogFrame
<1>9. ASSUME NEW p \in Proc, IntentTmp(p) \/ SnapTmp(p) \/ CommitTmp(p) \/ RebuildTmp(p)
      PROVE  LogInv'
  <2>1. CASE IntentTmp(p)
    BY <2>1, <1>8 DEF IntentTmp
  <2>2. CASE SnapTmp(p)
    BY <2>2, <1>8 DEF SnapTmp
  <2>3. CASE CommitTmp(p)
    BY <2>3, <1>8 DEF CommitTmp
  <2>4. CASE RebuildTmp(p)
    BY <2>4, <1>8 DEF RebuildTmp
  <2> QED
    BY <1>9, <2>1, <2>2, <2>3, <2>4
<1>10. ASSUME NEW p \in Proc, NEW kind \in Kind, Rename(p, kind), UNCHANGED call,
              NEW l \in Label, Goto(p, l),
              <<pc[p], kind, l>> \in {<<"intent_mv", "intent", "append">>,
                                      <<"intent_mv", "intent", "release">>,
                                      <<"snap_mv", "case", "commit_tmp">>,
                                      <<"snap_mv", "case", "release">>,
                                      <<"commit_mv", "commit", "release">>,
                                      <<"reb_mv", "rebuild", "sweep">>,
                                      <<"reb_mv", "rebuild", "release">>}
       PROVE  LogInv'
  <2>1. pc'[p] = l /\ \A q \in Proc \ {p} : pc'[q] = pc[q] /\ call'[q] = call[q]
    BY <1>10 DEF TypeOK
  <2>2. UNCHANGED <<log, made>>
    BY <1>10 DEF Rename
  <2>3. LogOf(p)'
    <3>1. LogOf(p)
      BY LogOfAll
    <3> QED
      BY <1>10, <2>1, <2>2, <3>1 DEF LogOf, EarlyLabel, LateLabel, Placed, Follows, InLog
  <2>4. /\ pc[p] \in WritingLabel \cap HoldLabel /\ l \in HoldLabel \ {"write_lock"}
        /\ (kind = "intent" => pc[p] \in EarlyLabel)
        /\ (kind \in {"case", "commit"} => pc[p] \in LateLabel)
    BY <1>10 DEF WritingLabel, HoldLabel, CommitLabel, EarlyLabel, LateLabel
  <2> QED
    BY <1>0, <1>10, <2>1, <2>3, <2>4, LogRename
<1>11. ASSUME NEW p \in Proc, NEW kind, RenameLost(p, kind), pc[p] # "idle" PROVE LogInv'
  BY <1>11, LogThrow DEF RenameLost, disk
<1>12. ASSUME NEW p \in Proc, IntentMv(p) \/ SnapMv(p) \/ RebuildMv(p) PROVE LogInv'
  <2>1. {"append", "commit_tmp", "sweep"} \subseteq Label
    BY DEF Label, HoldLabel, CommitLabel
  <2> QED
    BY <1>12, <2>1, <1>10, <1>11 DEF IntentMv, SnapMv, RebuildMv, RenameTemp, Kind
<1>13. ASSUME NEW p \in Proc, CommitMv(p) PROVE LogInv'
  <2>1. CASE RenameLost(p, "commit")
    BY <1>13, <2>1, <1>11 DEF CommitMv
  <2>2. CASE /\ Rename(p, "commit")
             /\ call' = [call EXCEPT ![p].todo = @ \ {call[p].ev}]
             /\ Goto(p, IF call[p].op = "recover" THEN "roll" ELSE "release")
    <3>1. /\ pc[p] = "commit_mv" /\ pc'[p] \in {"roll", "release"}
          /\ \A q \in Proc \ {p} : pc'[q] = pc[q] /\ call'[q] = call[q]
      BY <1>13, <2>2 DEF CommitMv, TypeOK
    <3>2. /\ call'[p].op = call[p].op /\ call'[p].cand = call[p].cand
          /\ call'[p].todo \subseteq call[p].todo
      BY <2>2 DEF TypeOK, Call
    <3>3. UNCHANGED <<log, made>>
      BY <2>2 DEF Rename
    <3>4. LogOf(p)'
      BY <3>1, <3>2, <3>3, LogOfAll DEF LogOf, EarlyLabel, LateLabel, Placed, InLog
    <3>5. /\ pc[p] \in WritingLabel \cap HoldLabel /\ pc'[p] \in HoldLabel \ {"write_lock"}
          /\ pc[p] \in LateLabel /\ "commit" \in Kind
      BY <3>1 DEF WritingLabel, HoldLabel, CommitLabel, LateLabel, Kind
    <3> QED
      BY <1>0, <2>2, <3>1, <3>2, <3>4, <3>5, LogRename
  <2> QED
    BY <1>13, <2>1, <2>2 DEF CommitMv
<1>14. ASSUME NEW p \in Proc, AppendEvent(p) PROVE LogInv'
  <2>1. pc[p] = "append" /\ pc'[p] = "snap_tmp" /\ \A q \in Proc \ {p} : pc'[q] = pc[q]
    BY <1>14 DEF AppendEvent, TypeOK
  <2> QED
    BY <1>0, <1>14, <2>1, LogAppend DEF AppendEvent
<1>15. ASSUME NEW p \in Proc, RecPending(p) PROVE LogInv'
  <2>1. UNCHANGED <<log, snap, pending, done, made, dir>> /\ pc[p] = "rec_pending"
        /\ dir # "absent"
    BY <1>0, <1>15 DEF RecPending, disk
  <2>2. CASE Finish(p)
    BY <2>1, <2>2, LogFinish DEF Finish
  <2>3. CASE ~Finish(p)
    <3>1. pc'[p] \in {"rec_snap", "rec_unlink", "acquire"}
          /\ \A q \in Proc \ {p} : pc'[q] = pc[q] /\ call'[q] = call[q]
      BY <1>15, <2>3 DEF RecPending, Proceed, TypeOK
    <3>2. /\ call'[p].todo = pending /\ call'[p].cand = call[p].cand
          /\ call'[p].op = call[p].op
      BY <1>15, <2>3 DEF RecPending, TypeOK, Call
    <3>3. call[p].op = "recover"
      BY <2>1 DEF LockInv, ScanLabel
    <3>4. LogOf(p)'
      BY <2>1, <3>1, <3>2, LogOfAll DEF LogOf, EarlyLabel, LateLabel, InLog, Placed, LogInv
    <3>5. ~Creating(p)' /\ made <= made'
      BY <2>1, <3>2, <3>3 DEF Creating, TypeOK
    <3>6. (\E q \in Proc \ {p} : Creating(q)) =>
             call'[p].todo = {} /\ call'[p].cand = 0 /\ pc'[p] \notin WritingLabel
      BY <3>1, <3>2 DEF LogInv, Untouched, WritingLabel, CommitLabel
    <3>7. UNCHANGED <<log, snap, pending, done>> /\ dir' # "absent"
      BY <2>1
    <3> QED
      BY <2>1, <3>1, <3>2, <3>4, <3>5, <3>6, <3>7, LogFrame
  <2> QED
    BY <2>2, <2>3
<1>16. ASSUME NEW p \in Proc, RecSnap(p) PROVE LogInv'
  <2>1. UNCHANGED <<log, snap, pending, done, made, dir>> /\ pc[p] = "rec_snap"
        /\ dir # "absent"
    BY <1>0, <1>16 DEF RecSnap, disk
  <2>2. pc'[p] \in {"rec_unlink", "idle", "rec_events"}
        /\ \A q \in Proc \ {p} : pc'[q] = pc[q] /\ call'[q] = call[q]
    BY <1>16 DEF RecSnap, Proceed, TypeOK
  <2>3. CASE snap = 0
    <3>1. call'[p] \in {call[p], Blank} /\ pc'[p] # "rec_events"
      BY <1>16, <2>3 DEF RecSnap, Proceed, TypeOK
    <3>2. ~Creating(p)' /\ pc'[p] \notin WritingLabel
      BY <2>2, <3>1 DEF Creating, WritingLabel, CommitLabel
    <3> QED
      BY <2>1, <2>2, <3>1, <3>2, LogQuiet DEF Blank
  <2>4. CASE snap # 0
    <3>1. /\ call'[p].todo = call[p].todo /\ call'[p].cand = snap
          /\ call'[p].op = call[p].op /\ pc'[p] = "rec_events"
      BY <1>16, <2>4 DEF RecSnap, TypeOK, Call
    <3>2. LogOf(p)'
      BY <2>1, <2>4, <3>1, LogOfAll
         DEF LogOf, EarlyLabel, LateLabel, InLog, Placed, LogInv, LogFirst
    <3>3. ~Creating(p)' /\ made <= made'
      BY <2>1, <3>1 DEF Creating, TypeOK
    <3>4. \A q \in Proc : ~Creating(q)
      BY <2>4 DEF LogInv, Untouched
    <3>5. UNCHANGED <<log, snap, pending, done>> /\ dir' # "absent"
      BY <2>1
    <3> QED
      BY <2>1, <2>2, <3>1, <3>2, <3>3, <3>4, <3>5, LogFrame
  <2> QED
    BY <2>3, <2>4
<1>17. ASSUME NEW p \in Proc, RecEvents(p) PROVE LogInv'
  <2>1. UNCHANGED <<log, snap, pending, done, made, dir>> /\ pc[p] = "rec_events"
    BY <1>17 DEF RecEvents, disk
  <2>2. pc'[p] \in {"rec_unlink", "idle", "acquire"}
        /\ \A q \in Proc \ {p} : pc'[q] = pc[q] /\ call'[q] = call[q]
    BY <1>17 DEF RecEvents, Proceed, TypeOK
  <2>3. (\A q \in Proc : ~Creating(q)) /\ dir # "absent" /\ dir' # "absent"
    BY <2>1, WriterAlone DEF WritingLabel
  <2>4. call[p].op = "recover"
    BY <2>1 DEF LockInv, ScanLabel
  <2>5. /\ call'[p].todo \subseteq call[p].todo /\ call'[p].op # "create"
        /\ \/ call'[p].cand = 0
           \/ call'[p].cand = LastId(log) /\ log # <<>>
    BY <1>17, <2>4 DEF RecEvents, Drift, Blank, TypeOK, Call
  <2>6. call'[p].cand # 0 => InLog(call'[p].cand)
    <3>1. log # <<>> => InLog(LastId(log))
      BY DEF InLog, LastId, TypeOK
    <3> QED
      BY <2>5, <3>1
  <2>7. LogOf(p)'
    BY <2>1, <2>2, <2>5, <2>6, LogOfAll DEF LogOf, EarlyLabel, LateLabel, InLog, Placed
  <2>8. ~Creating(p)' /\ made <= made'
    BY <2>1, <2>5 DEF Creating, TypeOK
  <2>9. UNCHANGED <<log, snap, pending, done>>
    BY <2>1
  <2> QED
    BY <2>2, <2>3, <2>5, <2>7, <2>8, <2>9, LogFrame
<1>18. ASSUME NEW p \in Proc, RecUnlink(p) \/ Sweep(p) PROVE LogInv'
  <2>1. UNCHANGED <<log, snap, pending, done, made, dir>> /\ pc[p] # "idle" /\ dir # "absent"
    BY <1>0, <1>18 DEF RecUnlink, Sweep
  <2>2. CASE Finish(p)
    BY <2>1, <2>2, LogFinish DEF Finish
  <2>3. CASE ~Finish(p)
    <3>1. pc'[p] \in {"acquire", "release"} /\ call' = call
          /\ (pc'[p] = "acquire" => pc[p] = "rec_unlink")
          /\ \A q \in Proc \ {p} : pc'[q] = pc[q]
      BY <1>18, <2>3 DEF RecUnlink, Sweep, TypeOK
    <3>2. pc'[p] = "acquire" => call[p].op = "recover"
      BY <3>1 DEF LockInv, ScanLabel
    <3>3. ~Creating(p)' /\ pc'[p] \notin WritingLabel
      BY <3>1, <3>2 DEF Creating, WritingLabel, CommitLabel
    <3> QED
      BY <2>1, <3>1, <3>3, LogQuiet
  <2> QED
    BY <2>2, <2>3
<1>19. ASSUME NEW p \in Proc, Roll(p) PROVE LogInv'
  <2>1. UNCHANGED <<log, snap, pending, done, made, dir>> /\ pc[p] = "roll" /\ dir # "absent"
    BY <1>0, <1>19 DEF Roll, disk
  <2>2. CASE Throw(p)
    BY <2>1, <2>2, LogThrow
  <2>3. CASE call[p].todo = {} /\ Goto(p, IF call[p].cand # 0 THEN "reb_tmp" ELSE "sweep")
             /\ UNCHANGED call
    <3>1. pc'[p] = (IF call[p].cand # 0 THEN "reb_tmp" ELSE "sweep")
          /\ \A q \in Proc \ {p} : pc'[q] = pc[q] /\ call'[q] = call[q]
      BY <2>3 DEF TypeOK
    <3>2. LogOf(p)'
      BY <2>1, <2>3, <3>1, LogOfAll DEF LogOf, EarlyLabel, LateLabel, InLog
    <3>3. ~Creating(p)' /\ made <= made'
      BY <2>1, <3>1 DEF Creating, TypeOK
    <3>4. (\E q \in Proc \ {p} : Creating(q)) =>
             call'[p].todo = {} /\ call'[p].cand = 0 /\ pc'[p] \notin WritingLabel
      BY <2>3, <3>1 DEF LogInv, Untouched, WritingLabel, CommitLabel
    <3>5. UNCHANGED <<log, snap, pending, done>> /\ dir' # "absent" /\ call'[p].op = call[p].op
      BY <2>1, <2>3
    <3> QED
      BY <2>1, <3>1, <3>2, <3>3, <3>4, <3>5, LogFrame
  <2>4. ASSUME NEW e \in call[p].todo, RollForward(p, e), ~Throw(p) PROVE LogInv'
    <3>1. e \in Event /\ Placed(e)
      BY DEF TypeOK, Call, LogInv
    <3>2. /\ call'[p].ev = e /\ call'[p].op = call[p].op /\ call'[p].cand = call[p].cand
          /\ call'[p].todo = call[p].todo
          /\ \A q \in Proc \ {p} : pc'[q] = pc[q] /\ call'[q] = call[q]
      <4>1. call' = [call EXCEPT ![p].ev = e]
        BY <2>4 DEF RollForward
      <4>2. \E l \in {"append", "snap_tmp"} : Goto(p, l)
        BY <2>4 DEF RollForward
      <4> QED
        BY <4>1, <4>2 DEF TypeOK, Call
    <3>3. \/ pc'[p] = "append" /\ ChainOK(log) /\ LastId(log) = e.prev
          \/ pc'[p] = "snap_tmp" /\ LastId(log) = e.id
      BY <2>4 DEF RollForward, TypeOK
    <3>4. pc'[p] = "append" => Follows(e)
      BY <3>1, <3>3, PlacedFollows
    <3>5. pc'[p] = "snap_tmp" => InLog(e.id)
      <4>1. e.id # 0
        BY <3>1 DEF Placed, Event
      <4>2. LastId(log) = e.id => log # <<>> /\ log[Len(log)].id = e.id
        BY <4>1 DEF LastId
      <4> QED
        BY <3>3, <4>2 DEF InLog, TypeOK
    <3>6. LogOf(p)'
      BY <2>1, <3>2, <3>3, <3>4, <3>5, LogOfAll
         DEF LogOf, EarlyLabel, LateLabel, InLog, Follows, Placed
    <3>7. ~Creating(p)' /\ made <= made'
      BY <2>1, <3>3 DEF Creating, TypeOK
    <3>8. \A q \in Proc : ~Creating(q)
      BY DEF LogInv, Untouched
    <3>9. UNCHANGED <<log, snap, pending, done>> /\ dir' # "absent"
      BY <2>1
    <3> QED
      BY <2>1, <3>2, <3>6, <3>7, <3>8, <3>9, LogFrame
  <2> QED
    BY <1>19, <2>2, <2>3, <2>4 DEF Roll
<1>20. ASSUME NEW p \in Proc, Crash(p) PROVE LogInv'
  <2>1. pc[p] # "idle"
    BY <1>20, ConstantsAssumption DEF Crash
  <2> QED
    BY <1>20, <2>1, LogFinish DEF Crash, disk
<1>21. ASSUME NEW p \in Proc, IOError(p) PROVE LogInv'
  <2>1. pc[p] # "idle"
    BY <1>21, ConstantsAssumption DEF IOError, CommitLabel
  <2>2. CASE Finish(p) /\ UNCHANGED disk
    BY <2>1, <2>2, LogFinish DEF Finish, disk
  <2>3. CASE Throw(p) /\ UNCHANGED <<dir, log, snap, pending, done, made>>
    BY <2>1, <2>3, LogThrow
  <2>4. CASE /\ Throw(p) /\ pc[p] = "append"
             /\ \E line \in {call[p].ev, NoEvent} : log' = Append(log, line)
             /\ UNCHANGED <<dir, lock, snap, pending, done, tmp, made>>
    <3>1. pc'[p] = "release" /\ call' = call /\ \A q \in Proc \ {p} : pc'[q] = pc[q]
      BY <2>4 DEF Throw, TypeOK
    <3> QED
      BY <1>0, <2>4, <3>1, LogAppend
  <2>5. CASE /\ Throw(p)
             /\ \E kind \in Kind :
                   /\ <<pc[p], kind>> \in {<<"intent_mv", "intent">>, <<"snap_mv", "case">>,
                                           <<"commit_mv", "commit">>, <<"reb_mv", "rebuild">>}
                   /\ Rename(p, kind)
    <3>1. "release" \in Label
      BY DEF Label, HoldLabel
    <3> QED
      BY <2>5, <3>1, <1>10 DEF Throw
  <2> QED
    BY <1>21, <2>2, <2>3, <2>4, <2>5 DEF IOError, disk
<1>22. ASSUME UNCHANGED <<dir, log, snap, pending, done, made, pc, call>> PROVE LogInv'
  BY <1>22 DEF LogInv, EventChain, ChainOK, ChainTo, Placed, Follows, LogFirst, InLog,
               Creating, Untouched
<1>23. LockAges \/ UNCHANGED vars => UNCHANGED <<dir, log, snap, pending, done, made, pc, call>>
  BY DEF LockAges, vars, disk
<1> QED
  BY <1>1, <1>2, <1>3, <1>4, <1>5, <1>6, <1>7, <1>9, <1>12, <1>13, <1>14, <1>15, <1>16,
     <1>17, <1>18, <1>19, <1>20, <1>21, <1>22, <1>23 DEF Next, Step

LEMMA Invariants ==
    ASSUME RecoverMode # "any"
    PROVE  Spec => [](TypeOK /\ LockInv /\ LogInv)
<1>1. Init => TypeOK /\ LockInv /\ LogInv
  BY InitType, InitLock, InitLog
<1>2. TypeOK /\ LockInv /\ LogInv /\ [Next]_vars => TypeOK' /\ LockInv' /\ LogInv'
  BY StepType, StepLock, StepLog
<1> QED
  BY <1>1, <1>2, PTL DEF Spec

\* As long as two recovers never overlap, no interleaving of mutations,
\* crashes, failing writes and recoveries forks, duplicates or reorders an
\* event: readEvents accepts all of events.jsonl but at most a torn last line.
THEOREM Chained ==
    ASSUME RecoverMode # "any"
    PROVE  Spec => []EventChain
<1>1. LogInv => EventChain
  BY DEF LogInv
<1> QED
  BY <1>1, Invariants, PTL

\* ... and whatever case.json or a COMMITTED transaction file says, the log
\* already holds the event it came from.
THEOREM LogIsFirst ==
    ASSUME RecoverMode # "any"
    PROVE  Spec => []LogFirst
<1>1. LogInv => LogFirst
  BY DEF LogInv
<1> QED
  BY <1>1, Invariants, PTL

-----------------------------------------------------------------------------
(***************************************************************************)
(* A case whose recover is run alone: the store implements CaseHistory     *)
(* whatever crashes and fails, and no damage is silent.                    *)
(***************************************************************************)

-----------------------------------------------------------------------------
(* Where files and processes stand to each other.  The log may be one      *)
(* event ahead of the snapshot, and only while the transaction of that     *)
(* event is pending; every process between lock and unlock knows which.    *)

\* A recover runs alone.
Solo == \A p, q \in Proc : Recovering(p) /\ Busy(q) => p = q

\* Without a pending transaction the snapshot is the end of the log; with one,
\* its event is the next one or the last one.
Tidy ==
    /\ pending = {} => ChainOK(log) /\ snap = LastId(log)
    /\ \A e \in pending :
          /\ pending = {e}
          /\ ChainOK(log) => \/ LastId(log) = e.prev /\ snap = e.prev
                             \/ LastId(log) = e.id /\ snap \in {e.prev, e.id}

\* The transaction process p is committing is the pending one, and the files
\* are as far as p has come.
Written(p) ==
    /\ pc[p] \in {"intent_tmp", "intent_mv"} => pending = {}
    /\ pc[p] = "append" => pending = {call[p].ev} /\ snap = LastId(log)
    /\ pc[p] \in LateLabel =>
          /\ pending = {call[p].ev}
          /\ ChainOK(log)
          /\ LastId(log) = call[p].ev.id
    /\ pc[p] \in {"commit_tmp", "commit_mv"} => snap = call[p].ev.id

\* What a recover read before it took the lock is still so.
Judged(p) ==
    /\ pc[p] \in {"rec_snap", "rec_events", "sweep"} => pending = {}
    /\ pc[p] \notin {"reb_tmp", "reb_mv"}
    /\ call[p].op # "recover" => call[p].todo = {}
    /\ call[p].op = "recover" /\ pc[p] \notin {"rec_pending", "release"} =>
          call[p].todo = pending
    /\ call[p].cand # 0 => pc[p] = "rec_events"
    /\ pc[p] = "rec_events" => call[p].cand = snap

\* Which command is at which label.
Placing(p) ==
    /\ pc[p] \in {"read", "intent_tmp", "intent_mv"} => call[p].op # "recover"
    /\ pc[p] \in {"roll", "sweep"} => call[p].op = "recover"
    /\ ~Busy(p) => call[p] = Blank

InPlace(p) == Written(p) /\ Judged(p) /\ Placing(p)

CommitInv == Solo /\ Tidy /\ \A p \in Proc : InPlace(p)

LEMMA InitCommit == Init => CommitInv
BY DEF Init, CommitInv, Solo, Tidy, InPlace, Written, Judged, Placing, Recovering, Busy, LateLabel,
       ChainOK, ChainTo, LastId, Blank

\* A step of p that starts no command keeps a recover alone.
LEMMA SoloKept ==
    ASSUME Solo, NEW p \in Proc,
           \A q \in Proc \ {p} : pc'[q] = pc[q] /\ call'[q] = call[q],
           Recovering(p)' => Recovering(p),
           Busy(p)' => Busy(p)
    PROVE  Solo'
BY DEF Solo, Recovering, Busy

\* A step of p that leaves log, snapshot and transactions alone.
LEMMA PlaceFrame ==
    ASSUME CommitInv, NEW p \in Proc, UNCHANGED <<log, snap, pending>>,
           \A q \in Proc \ {p} : pc'[q] = pc[q] /\ call'[q] = call[q],
           InPlace(p)', Solo'
    PROVE  CommitInv'
<1>1. Tidy'
  BY DEF CommitInv, Tidy
<1>2. ASSUME NEW q \in Proc \ {p} PROVE InPlace(q)'
  BY DEF CommitInv, InPlace, Written, Judged, Placing, Busy
<1> QED
  BY <1>1, <1>2 DEF CommitInv

\* While p is between lock and unlock no other process relies on the files.
LEMMA PlaceWrite ==
    ASSUME LockInv, CommitInv, NEW p \in Proc, pc[p] \in HoldLabel,
           \A q \in Proc \ {p} : pc'[q] = pc[q] /\ call'[q] = call[q],
           InPlace(p)', Solo', Tidy'
    PROVE  CommitInv'
<1>1. ASSUME NEW q \in Proc \ {p} PROVE InPlace(q)'
  <2>1. pc[q] \notin HoldLabel
    BY DEF LockInv, Holds
  <2>2. ~Recovering(q)
    BY DEF CommitInv, Solo, Busy, HoldLabel, CommitLabel
  <2>3. pc[q] \notin ScanLabel /\ call[q].op # "recover"
    BY <2>2 DEF LockInv, Recovering, Busy, ScanLabel, CommitInv, InPlace, Placing, Blank
  <2> QED
    BY <2>1, <2>3 DEF CommitInv, InPlace, Written, Judged, Placing, Busy, HoldLabel, CommitLabel,
                      ScanLabel, LateLabel
<1> QED
  BY <1>1 DEF CommitInv

\* A command that ends, or a process that dies.
LEMMA PlaceEnd ==
    ASSUME TypeOK, CommitInv, NEW p \in Proc, UNCHANGED <<log, snap, pending>>,
           \E l \in {"idle", "dead"} : Goto(p, l),
           call' = [call EXCEPT ![p] = Blank]
    PROVE  CommitInv'
<1>1. pc'[p] \in {"idle", "dead"} /\ call'[p] = Blank
  BY DEF Goto, TypeOK
<1>2. \A q \in Proc \ {p} : pc'[q] = pc[q] /\ call'[q] = call[q]
  BY DEF Goto, TypeOK
<1>3. InPlace(p)'
  BY <1>1 DEF InPlace, Written, Judged, Placing, Busy, Blank, LateLabel
<1>4. Solo'
  BY <1>1, <1>2, SoloKept DEF CommitInv, Recovering, Busy
<1> QED
  BY <1>2, <1>3, <1>4, PlaceFrame

\* The exception of a process that holds the lock.
LEMMA ThrowPlace ==
    ASSUME TypeOK, CommitInv, NEW p \in Proc, pc[p] \in HoldLabel, Throw(p)
    PROVE  InPlace(p)' /\ Solo' /\ \A q \in Proc \ {p} : pc'[q] = pc[q] /\ call'[q] = call[q]
<1>1. pc'[p] = "release" /\ call' = call /\ \A q \in Proc \ {p} : pc'[q] = pc[q]
  BY DEF Throw, Goto, TypeOK
<1>2. Busy(p) /\ Busy(p)'
  BY <1>1 DEF Busy, HoldLabel, CommitLabel
<1>3. call[p].cand = 0
  BY DEF CommitInv, InPlace, Judged, HoldLabel, CommitLabel
<1>4. InPlace(p)'
  BY <1>1, <1>2, <1>3 DEF CommitInv, InPlace, Written, Judged, Placing, LateLabel
<1>5. Solo'
  BY <1>1, <1>2, SoloKept DEF CommitInv, Recovering
<1> QED
  BY <1>1, <1>4, <1>5

LEMMA PlaceThrow ==
    ASSUME TypeOK, CommitInv, NEW p \in Proc, pc[p] \in HoldLabel, Throw(p),
           UNCHANGED <<log, snap, pending>>
    PROVE  CommitInv'
BY ThrowPlace, PlaceFrame

\* atomicWrite's rename, by what it makes visible.
LEMMA RenameIntent ==
    ASSUME TypeOK, LockInv, LogInv, CommitInv, NEW p \in Proc, pc[p] = "intent_mv",
           Rename(p, "intent"),
           \/ Goto(p, "append") /\ UNCHANGED call
           \/ Throw(p)
    PROVE  CommitInv'
<1> DEFINE e == call[p].ev
<1>1. pending' = {e} /\ UNCHANGED <<log, snap>> /\ UNCHANGED call
  BY DEF Rename, CommitInv, InPlace, Written, Throw
<1>2. ChainOK(log) /\ LastId(log) = e.prev /\ snap = e.prev
  BY DEF LogInv, Follows, CommitInv, Tidy, InPlace, Written
<1>3. Tidy'
  BY <1>1, <1>2 DEF Tidy, ChainOK, ChainTo, LastId
<1>4. pc'[p] \in {"append", "release"} /\ \A q \in Proc \ {p} : pc'[q] = pc[q]
  BY DEF Throw, Goto, TypeOK
<1>5. InPlace(p)'
  BY <1>1, <1>2, <1>4 DEF CommitInv, InPlace, Written, Judged, Placing, Busy, LateLabel, LastId
<1>6. Solo'
  BY <1>1, <1>4, SoloKept DEF CommitInv, Recovering, Busy
<1> QED
  BY <1>1, <1>3, <1>4, <1>5, <1>6, PlaceWrite DEF HoldLabel, CommitLabel

LEMMA RenameCase ==
    ASSUME TypeOK, LockInv, LogInv, CommitInv, NEW p \in Proc, pc[p] = "snap_mv",
           Rename(p, "case"),
           \/ Goto(p, "commit_tmp") /\ UNCHANGED call
           \/ Throw(p)
    PROVE  CommitInv'
<1> DEFINE e == call[p].ev
<1>1. snap' = e.id /\ UNCHANGED <<log, pending>> /\ UNCHANGED call
  BY DEF Rename, Throw
<1>2. pending = {e} /\ ChainOK(log) /\ LastId(log) = e.id
  BY DEF CommitInv, InPlace, Written, LateLabel
<1>3. Tidy'
  BY <1>1, <1>2 DEF Tidy, ChainOK, ChainTo, LastId
<1>4. pc'[p] \in {"commit_tmp", "release"} /\ \A q \in Proc \ {p} : pc'[q] = pc[q]
  BY DEF Throw, Goto, TypeOK
<1>5. InPlace(p)'
  BY <1>1, <1>2, <1>4 DEF CommitInv, InPlace, Written, Judged, Placing, Busy, LateLabel, LastId,
                          ChainOK, ChainTo
<1>6. Solo'
  BY <1>1, <1>4, SoloKept DEF CommitInv, Recovering, Busy
<1> QED
  BY <1>1, <1>3, <1>4, <1>5, <1>6, PlaceWrite DEF HoldLabel, CommitLabel

LEMMA RenameCommit ==
    ASSUME TypeOK, LockInv, LogInv, CommitInv, NEW p \in Proc, pc[p] = "commit_mv",
           Rename(p, "commit"),
           \/ /\ call' = [call EXCEPT ![p].todo = @ \ {call[p].ev}]
              /\ Goto(p, IF call[p].op = "recover" THEN "roll" ELSE "release")
           \/ Throw(p)
    PROVE  CommitInv'
<1> DEFINE e == call[p].ev
<1>1. pending' = {} /\ UNCHANGED <<log, snap>>
  BY DEF Rename, CommitInv, InPlace, Written, LateLabel
<1>2. ChainOK(log) /\ LastId(log) = e.id /\ snap = e.id /\ pending = {e}
  BY DEF CommitInv, InPlace, Written, LateLabel
<1>3. Tidy'
  BY <1>1, <1>2 DEF Tidy, ChainOK, ChainTo, LastId
<1>4. /\ \A q \in Proc \ {p} : pc'[q] = pc[q] /\ call'[q] = call[q]
      /\ pc'[p] \in {"roll", "release"}
      /\ pc'[p] = "roll" => call[p].op = "recover" /\ call'[p].todo = call[p].todo \ {e}
      /\ call'[p].op = call[p].op /\ call'[p].cand = call[p].cand
      /\ call'[p].todo \in {call[p].todo, call[p].todo \ {e}}
  BY DEF Throw, Goto, TypeOK, Call
<1>5. InPlace(p)'
  BY <1>1, <1>2, <1>4 DEF CommitInv, InPlace, Written, Judged, Placing, Busy, LateLabel
<1>6. Solo'
  BY <1>4, SoloKept DEF CommitInv, Recovering, Busy
<1> QED
  BY <1>3, <1>4, <1>5, <1>6, PlaceWrite DEF HoldLabel, CommitLabel

\* The event, or a torn line, reaches the log.
LEMMA AppendPlace ==
    ASSUME TypeOK, LockInv, LogInv, CommitInv, NEW p \in Proc, pc[p] = "append",
           NEW line \in {call[p].ev, NoEvent}, log' = Append(log, line),
           UNCHANGED <<snap, pending, call>>,
           \/ Goto(p, "snap_tmp") /\ line = call[p].ev
           \/ Throw(p)
    PROVE  CommitInv'
<1> DEFINE e == call[p].ev
<1>1. e \in Event /\ NoEvent \in Event /\ log \in Seq(Event)
  BY DEF TypeOK, Call, NoEvent, Event
<1>2. Follows(e) /\ pending = {e} /\ snap = LastId(log)
  BY DEF LogInv, CommitInv, InPlace, Written
<1>3. Len(log') = Len(log) + 1 /\ log'[Len(log) + 1] = line /\ Len(log) \in Nat
      /\ \A i \in 1..Len(log) : log'[i] = log[i]
  BY <1>1
<1>4. LastId(log') = line.id
  BY <1>1, <1>3 DEF LastId
<1>5. ASSUME line = e PROVE ChainOK(log')
  <2>1. e.id # 0 /\ e.seq = Len(log) + 1
    BY <1>1, <1>2 DEF Follows, Event
  <2>2. e.prev = IF Len(log) + 1 = 1 THEN 0 ELSE log'[Len(log) + 1 - 1].id
    BY <1>1, <1>2, <1>3 DEF Follows, LastId
  <2> QED
    BY <1>2, <1>3, <1>5, <2>1, <2>2 DEF Follows, ChainOK, ChainTo
<1>6. line # e => ~ChainOK(log')
  <2>1. Len(log') \in 1..Len(log')
    BY <1>3
  <2> QED
    BY <1>3, <2>1 DEF ChainOK, ChainTo, NoEvent
<1>7. Tidy'
  BY <1>2, <1>4, <1>6 DEF Tidy, Follows
<1>8. /\ \A q \in Proc \ {p} : pc'[q] = pc[q]
      /\ pc'[p] \in {"snap_tmp", "release"}
      /\ pc'[p] = "snap_tmp" => line = e
  BY DEF Throw, Goto, TypeOK
<1>9. InPlace(p)'
  BY <1>2, <1>4, <1>5, <1>8 DEF CommitInv, InPlace, Written, Judged, Placing, Busy, LateLabel
<1>10. Solo'
  BY <1>8, SoloKept DEF CommitInv, Recovering, Busy
<1> QED
  BY <1>7, <1>8, <1>9, <1>10, PlaceWrite DEF HoldLabel, CommitLabel

\* A step of p from one label to another that touches no more than its own
\* call, told by what p must know there.
LEMMA PlaceMove ==
    ASSUME TypeOK, CommitInv, NEW p \in Proc, NEW l, Goto(p, l),
           UNCHANGED <<log, snap, pending>>,
           \A q \in Proc \ {p} : call'[q] = call[q],
           l \notin {"idle", "dead"}, Busy(p), call'[p].op = call[p].op,
           Written(p)', Judged(p)',
           l \in {"read", "intent_tmp", "intent_mv"} => call[p].op # "recover",
           l \in {"roll", "sweep"} => call[p].op = "recover"
    PROVE  CommitInv'
<1>1. pc'[p] = l /\ \A q \in Proc \ {p} : pc'[q] = pc[q]
  BY DEF Goto, TypeOK
<1>2. InPlace(p)'
  BY <1>1 DEF InPlace, Placing, Busy
<1>3. Solo'
  BY <1>1, SoloKept DEF CommitInv, Recovering, Busy
<1> QED
  BY <1>1, <1>2, <1>3, PlaceFrame

LEMMA StepCommit ==
    ASSUME RecoverMode = "exclusive", TypeOK, TypeOK', LockInv, LogInv, CommitInv, [Next]_vars
    PROVE  CommitInv'
<1>0. \A p \in Proc : Written(p) /\ Judged(p) /\ Placing(p)
  BY DEF CommitInv, InPlace
<1>1. ASSUME NEW p \in Proc, StartCreate(p) \/ StartMutate(p) PROVE CommitInv'
  <2>1. \A q \in Proc : ~Recovering(q)
    BY <1>1 DEF StartCreate, StartMutate, MayMutate
  <2>2. call[p] = Blank /\ pc[p] = "idle"
    BY <1>0, <1>1 DEF StartCreate, StartMutate, Placing, Busy
  <2>3. /\ \A q \in Proc \ {p} : pc'[q] = pc[q] /\ call'[q] = call[q]
        /\ call'[p].op \in {"create", "mutate"} /\ call'[p].todo = {} /\ call'[p].cand = 0
        /\ pc'[p] \in {"populate", "acquire"}
        /\ UNCHANGED <<log, snap, pending>>
    <3>1. CASE StartCreate(p)
      BY <2>2, <3>1 DEF StartCreate, Goto, TypeOK, Call, Blank
    <3>2. CASE StartMutate(p)
      BY <2>2, <3>2 DEF StartMutate, Goto, disk, TypeOK, Call, Blank
    <3> QED
      BY <1>1, <3>1, <3>2
  <2>4. InPlace(p)'
    BY <2>3 DEF InPlace, Written, Judged, Placing, Busy, LateLabel
  <2>5. Solo'
    BY <2>1, <2>3 DEF Solo, Recovering, Busy
  <2> QED
    BY <2>3, <2>4, <2>5, PlaceFrame
<1>2. ASSUME NEW p \in Proc, StartRecover(p) PROVE CommitInv'
  <2>1. \A q \in Proc : ~Busy(q)
    BY <1>2 DEF StartRecover, MayRecover
  <2>2. call[p] = Blank /\ pc[p] = "idle"
    BY <1>0, <1>2 DEF StartRecover, Placing, Busy
  <2>3. /\ \A q \in Proc \ {p} : pc'[q] = pc[q] /\ call'[q] = call[q]
        /\ call'[p].todo = {} /\ call'[p].cand = 0
        /\ call'[p].op = "recover"
        /\ pc'[p] = "rec_pending"
        /\ UNCHANGED <<log, snap, pending>>
    BY <1>2, <2>2 DEF StartRecover, Goto, disk, TypeOK, Call, Blank
  <2>4. InPlace(p)'
    BY <2>3 DEF InPlace, Written, Judged, Placing, Busy, LateLabel
  <2>5. Solo'
    BY <2>1, <2>3 DEF Solo, Recovering, Busy
  <2> QED
    BY <2>3, <2>4, <2>5, PlaceFrame
<1>3. ASSUME NEW p \in Proc, Populate(p) PROVE CommitInv'
  <2>1. /\ \A q \in Proc \ {p} : call'[q] = call[q]
        /\ call'[p].op = call[p].op /\ call'[p].todo = call[p].todo /\ call'[p].cand = call[p].cand
        /\ pc'[p] = "acquire"
    BY <1>3 DEF Populate, Goto, TypeOK, Call
  <2>2. Written(p)' /\ Judged(p)'
    BY <1>0, <1>3, <2>1 DEF Populate, Written, Judged, LateLabel
  <2> QED
    BY <1>3, <2>1, <2>2, PlaceMove DEF Populate, Busy
<1>4. ASSUME NEW p \in Proc, Acquire(p) PROVE CommitInv'
  <2>1. CASE Finish(p)
    BY <1>4, <2>1, PlaceEnd DEF Acquire, Finish
  <2>2. CASE Goto(p, "write_lock") /\ UNCHANGED call
    <3>1. pc'[p] = "write_lock"
      BY <2>2 DEF Goto, TypeOK
    <3>2. Written(p)' /\ Judged(p)'
      BY <1>0, <1>4, <2>2, <3>1 DEF Acquire, Written, Judged, LateLabel
    <3> QED
      BY <1>4, <2>2, <3>2, PlaceMove DEF Acquire, Busy
  <2> QED
    BY <1>4, <2>1, <2>2 DEF Acquire
<1>5. ASSUME NEW p \in Proc, WriteLock(p) PROVE CommitInv'
  <2>1. CASE Finish(p)
    BY <1>5, <2>1, PlaceEnd DEF WriteLock, Finish
  <2>2. CASE ~Finish(p)
    <3>1. PICK l \in {"intent_tmp", "roll", "read"} :
             /\ Goto(p, l) /\ UNCHANGED call
             /\ l = "intent_tmp" => call[p].op = "create"
             /\ l = "roll" <=> call[p].op = "recover"
      BY <1>5, <2>2 DEF WriteLock
    <3>2. pc'[p] = l
      BY <3>1 DEF Goto, TypeOK
    <3>3. l = "intent_tmp" => pending = {}
      BY <1>5, <3>1 DEF WriteLock, LogInv, Creating, Untouched
    <3>4. Written(p)' /\ Judged(p)'
      BY <1>0, <1>5, <3>1, <3>2, <3>3 DEF WriteLock, Written, Judged, LateLabel
    <3> QED
      BY <1>5, <3>1, <3>4, PlaceMove DEF WriteLock, Busy
  <2> QED
    BY <2>1, <2>2
<1>6. ASSUME NEW p \in Proc, Release(p) PROVE CommitInv'
  BY <1>6, PlaceEnd DEF Release, Finish
<1>7. ASSUME NEW p \in Proc, Read(p) PROVE CommitInv'
  <2>1. CASE Throw(p)
    BY <1>7, <2>1, PlaceThrow DEF Read, HoldLabel
  <2>2. CASE ~Throw(p)
    <3>1. /\ \A q \in Proc \ {p} : call'[q] = call[q]
          /\ call'[p].op = call[p].op /\ call'[p].todo = call[p].todo
          /\ call'[p].cand = call[p].cand
          /\ pc'[p] = "intent_tmp"
      BY <1>7, <2>2 DEF Read, Goto, TypeOK, Call
    <3>2. Written(p)' /\ Judged(p)'
      BY <1>0, <1>7, <2>2, <3>1 DEF Read, Mutable, Written, Judged, LateLabel
    <3> QED
      BY <1>0, <1>7, <2>2, <3>1, <3>2, PlaceMove DEF Read, Busy, Placing
  <2> QED
    BY <2>1, <2>2
<1>8. ASSUME NEW p \in Proc, NEW from, NEW kind \in Kind, NEW to,
             CreateTemp(p, from, kind, to),
             <<from, to>> \in {<<"intent_tmp", "intent_mv">>, <<"snap_tmp", "snap_mv">>,
                               <<"commit_tmp", "commit_mv">>}
      PROVE  CommitInv'
  <2>1. pc'[p] = to /\ pc[p] = from /\ UNCHANGED call /\ UNCHANGED <<log, snap, pending>>
    BY <1>8 DEF CreateTemp, Goto, TypeOK
  <2>2. Written(p)' /\ Judged(p)'
    BY <1>0, <1>8, <2>1 DEF Written, Judged, LateLabel, ChainOK, ChainTo, LastId
  <2>3. from = "intent_tmp" \/ from = "snap_tmp" \/ from = "commit_tmp"
    BY <1>8
  <2>4. Busy(p) /\ to \notin {"idle", "dead", "read", "intent_tmp", "roll", "sweep"}
        /\ (to = "intent_mv" => from = "intent_tmp")
    BY <1>8, <2>1 DEF Busy
  <2>5. to = "intent_mv" => call[p].op # "recover"
    BY <1>0, <2>1, <2>4 DEF Placing
  <2> QED
    BY <1>8, <2>1, <2>2, <2>4, <2>5, PlaceMove DEF CreateTemp
<1>9. ASSUME NEW p \in Proc, IntentTmp(p) \/ SnapTmp(p) \/ CommitTmp(p) PROVE CommitInv'
  BY <1>8, <1>9 DEF IntentTmp, SnapTmp, CommitTmp, Kind
<1>10. ASSUME NEW p \in Proc, RebuildTmp(p) \/ RebuildMv(p) PROVE FALSE
  BY <1>0, <1>10 DEF RebuildTmp, RebuildMv, CreateTemp, RenameTemp, Judged
<1>11. ASSUME NEW p \in Proc, IntentMv(p) \/ SnapMv(p) \/ CommitMv(p) PROVE CommitInv'
  <2>1. ASSUME NEW kind \in Kind, RenameLost(p, kind) PROVE CommitInv'
    BY <1>11, <2>1, PlaceThrow DEF RenameLost, IntentMv, SnapMv, CommitMv, RenameTemp, disk,
                                   HoldLabel, CommitLabel
  <2>2. CASE IntentMv(p)
    BY <2>1, <2>2, RenameIntent DEF IntentMv, RenameTemp, Kind
  <2>3. CASE SnapMv(p)
    BY <2>1, <2>3, RenameCase DEF SnapMv, RenameTemp, Kind
  <2>4. CASE CommitMv(p)
    BY <2>1, <2>4, RenameCommit DEF CommitMv, Kind
  <2> QED
    BY <1>11, <2>2, <2>3, <2>4
<1>12. ASSUME NEW p \in Proc, AppendEvent(p) PROVE CommitInv'
  BY <1>12, AppendPlace DEF AppendEvent
<1>13. ASSUME NEW p \in Proc, RecPending(p) PROVE CommitInv'
  <2>1. CASE Finish(p)
    BY <1>13, <2>1, PlaceEnd DEF RecPending, Finish, disk
  <2>2. CASE ~Finish(p)
    <3>1. call[p].op = "recover" /\ Busy(p) /\ call[p].cand = 0
      BY <1>0, <1>13 DEF RecPending, LockInv, ScanLabel, Busy, Judged
    <3>2. /\ \A q \in Proc \ {p} : call'[q] = call[q]
          /\ call'[p].op = "recover" /\ call'[p].todo = pending /\ call'[p].cand = 0
      BY <1>13, <2>2, <3>1 DEF RecPending, TypeOK, Call
    <3>3. PICK l \in {"rec_snap", "rec_unlink", "acquire"} :
             Goto(p, l) /\ (l = "rec_snap" => pending = {})
      BY <1>13, <2>2 DEF RecPending, Proceed
    <3>4. pc'[p] = l /\ UNCHANGED <<log, snap, pending>>
      BY <1>13, <3>3 DEF RecPending, Goto, TypeOK, disk
    <3>5. Written(p)' /\ Judged(p)'
      BY <3>2, <3>3, <3>4 DEF Written, Judged, LateLabel
    <3> QED
      BY <3>1, <3>2, <3>3, <3>4, <3>5, PlaceMove
  <2> QED
    BY <2>1, <2>2
<1>14. ASSUME NEW p \in Proc, RecSnap(p) PROVE CommitInv'
  <2>1. call[p].op = "recover" /\ Busy(p) /\ call[p].cand = 0 /\ pending = {}
        /\ call[p].todo = {} /\ UNCHANGED <<log, snap, pending>>
    BY <1>0, <1>14 DEF RecSnap, LockInv, ScanLabel, Busy, Judged, disk
  <2>2. CASE snap = 0 /\ ~call[p].had
    BY <1>14, <2>1, <2>2, PlaceEnd DEF RecSnap, Proceed
  <2>3. CASE ~(snap = 0 /\ ~call[p].had)
    <3>1. PICK l \in {"rec_unlink", "rec_events"} :
             Goto(p, l) /\ (l = "rec_unlink" => snap = 0)
      BY <1>14, <2>3 DEF RecSnap, Proceed
    <3>2. /\ pc'[p] = l
          /\ \A q \in Proc \ {p} : call'[q] = call[q]
          /\ call'[p].op = "recover" /\ call'[p].todo = {} /\ call'[p].cand = snap
      <4>1. CASE snap = 0
        <5>1. call' = [call EXCEPT ![p] = call[p]]
          BY <1>14, <2>3, <4>1 DEF RecSnap
        <5>2. call' = call
          BY <5>1 DEF TypeOK
        <5> QED
          BY <2>1, <3>1, <4>1, <5>2 DEF Goto, TypeOK
      <4>2. CASE snap # 0
        <5>1. call' = [call EXCEPT ![p].cand = snap] /\ call[p] \in Call
          BY <1>14, <4>2 DEF RecSnap, TypeOK
        <5>2. call'[p].cand = snap /\ call'[p].op = call[p].op /\ call'[p].todo = call[p].todo
              /\ \A q \in Proc \ {p} : call'[q] = call[q]
          BY <5>1 DEF TypeOK, Call
        <5> QED
          BY <2>1, <3>1, <5>2 DEF Goto, TypeOK
      <4> QED
        BY <4>1, <4>2
    <3>3. Written(p)' /\ Judged(p)'
      BY <2>1, <3>1, <3>2 DEF Written, Judged, LateLabel
    <3> QED
      BY <2>1, <3>1, <3>2, <3>3, PlaceMove
  <2> QED
    BY <2>2, <2>3
<1>15. ASSUME NEW p \in Proc, RecEvents(p) PROVE CommitInv'
  <2>1. call[p].op = "recover" /\ Busy(p) /\ pending = {} /\ pc[p] = "rec_events"
        /\ call[p].todo = {} /\ UNCHANGED <<log, snap, pending>>
    BY <1>0, <1>15 DEF RecEvents, LockInv, ScanLabel, Busy, Judged, disk
  <2>2. ~Drift(call[p].cand)
    <3>1. snap = LastId(log)
      BY <2>1 DEF CommitInv, Tidy
    <3> QED
      BY <1>0, <2>1, <3>1 DEF Drift, Judged
  <2>3. CASE ~call[p].had
    BY <1>15, <2>1, <2>2, <2>3, PlaceEnd DEF RecEvents, Proceed
  <2>4. CASE call[p].had
    <3>1. /\ Goto(p, "rec_unlink") /\ pc'[p] = "rec_unlink"
          /\ \A q \in Proc \ {p} : call'[q] = call[q]
          /\ call'[p].op = "recover" /\ call'[p].todo = {} /\ call'[p].cand = 0
      BY <1>15, <2>1, <2>2, <2>4 DEF RecEvents, Proceed, Goto, TypeOK, Call
    <3>2. Written(p)' /\ Judged(p)'
      BY <2>1, <3>1 DEF Written, Judged, LateLabel
    <3> QED
      BY <2>1, <3>1, <3>2, PlaceMove
  <2> QED
    BY <2>3, <2>4
<1>16. ASSUME NEW p \in Proc, RecUnlink(p) PROVE CommitInv'
  <2>1. CASE Finish(p)
    BY <1>16, <2>1, PlaceEnd DEF RecUnlink, Finish
  <2>2. CASE Goto(p, "acquire") /\ UNCHANGED call
    <3>1. pc'[p] = "acquire"
      BY <2>2 DEF Goto, TypeOK
    <3>2. Written(p)' /\ Judged(p)'
      BY <1>0, <1>16, <2>2, <3>1 DEF RecUnlink, Written, Judged, LateLabel
    <3> QED
      BY <1>16, <2>2, <3>2, PlaceMove DEF RecUnlink, Busy
  <2> QED
    BY <1>16, <2>1, <2>2 DEF RecUnlink
<1>17. ASSUME NEW p \in Proc, Roll(p) PROVE CommitInv'
  <2>0. call[p].op = "recover" /\ Busy(p) /\ call[p].todo = pending /\ call[p].cand = 0
        /\ UNCHANGED <<log, snap, pending>>
    BY <1>0, <1>17 DEF Roll, Placing, Judged, Busy, disk
  <2>1. CASE Throw(p)
    BY <1>17, <2>0, <2>1, PlaceThrow DEF Roll, HoldLabel
  <2>2. CASE ~Throw(p) /\ \E e \in call[p].todo : RollForward(p, e)
    <3>1. PICK e \in pending : RollForward(p, e)
      BY <2>0, <2>2
    <3>2. e \in Event /\ Placed(e) /\ pending = {e}
      BY DEF TypeOK, LogInv, CommitInv, Tidy
    <3>3. PICK l \in {"append", "snap_tmp"} :
             /\ Goto(p, l) /\ ChainOK(log)
             /\ call' = [call EXCEPT ![p].ev = e]
             /\ l = "append" => LastId(log) = e.prev
             /\ l = "snap_tmp" => LastId(log) = e.id
      BY <2>2, <3>1 DEF RollForward
    <3>4. /\ pc'[p] = l
          /\ \A q \in Proc \ {p} : call'[q] = call[q]
          /\ call'[p].op = "recover" /\ call'[p].todo = pending /\ call'[p].cand = 0
          /\ call'[p].ev = e
      BY <2>0, <3>3 DEF Goto, TypeOK, Call
    <3>5. LastId(log) = e.prev => snap = LastId(log)
      BY <3>2, <3>3 DEF CommitInv, Tidy, Placed, Event
    <3>6. Written(p)' /\ Judged(p)'
      BY <2>0, <3>2, <3>3, <3>4, <3>5 DEF Written, Judged, LateLabel, ChainOK, ChainTo, LastId
    <3> QED
      BY <2>0, <3>3, <3>4, <3>6, PlaceMove
  <2>3. CASE /\ call[p].todo = {}
             /\ Goto(p, IF call[p].cand # 0 THEN "reb_tmp" ELSE "sweep")
             /\ UNCHANGED call
    <3>1. Goto(p, "sweep") /\ pc'[p] = "sweep"
      BY <2>0, <2>3 DEF Goto, TypeOK
    <3>2. Written(p)' /\ Judged(p)'
      BY <2>0, <2>3, <3>1 DEF Written, Judged, LateLabel
    <3> QED
      BY <2>0, <2>3, <3>1, <3>2, PlaceMove
  <2> QED
    BY <1>17, <2>1, <2>2, <2>3 DEF Roll
<1>18. ASSUME NEW p \in Proc, Sweep(p) PROVE CommitInv'
  BY <1>18, PlaceThrow DEF Sweep, Throw, HoldLabel
<1>19. ASSUME NEW p \in Proc, Crash(p) PROVE CommitInv'
  BY <1>19, PlaceEnd DEF Crash, disk
<1>20. ASSUME NEW p \in Proc, IOError(p) PROVE CommitInv'
  <2>1. pc[p] \in HoldLabel
    BY <1>20, ConstantsAssumption DEF IOError, HoldLabel, CommitLabel
  <2>2. CASE Finish(p) /\ UNCHANGED disk
    BY <2>2, PlaceEnd DEF Finish, disk
  <2>3. CASE Throw(p) /\ UNCHANGED <<log, snap, pending>>
    BY <2>1, <2>3, PlaceThrow
  <2>4. CASE Throw(p) /\ pc[p] = "append" /\ UNCHANGED <<snap, pending>>
             /\ \E line \in {call[p].ev, NoEvent} : log' = Append(log, line)
    BY <2>4, AppendPlace DEF Throw
  <2>5. ASSUME NEW kind \in Kind, Throw(p), Rename(p, kind),
               <<pc[p], kind>> \in {<<"intent_mv", "intent">>, <<"snap_mv", "case">>,
                                    <<"commit_mv", "commit">>, <<"reb_mv", "rebuild">>}
        PROVE  CommitInv'
    <3>1. CASE pc[p] = "intent_mv" /\ kind = "intent"
      BY <2>5, <3>1, RenameIntent
    <3>2. CASE pc[p] = "snap_mv" /\ kind = "case"
      BY <2>5, <3>2, RenameCase
    <3>3. CASE pc[p] = "commit_mv" /\ kind = "commit"
      BY <2>5, <3>3, RenameCommit
    <3>4. pc[p] # "reb_mv"
      BY <1>0 DEF Judged
    <3> QED
      BY <2>5, <3>1, <3>2, <3>3, <3>4
  <2> QED
    BY <1>20, <2>2, <2>3, <2>4, <2>5 DEF IOError, disk
<1>21. ASSUME LockAges \/ UNCHANGED vars PROVE CommitInv'
  BY <1>21 DEF LockAges, vars, disk, CommitInv, Solo, Tidy, InPlace, Written, Judged, Placing,
               Recovering, Busy
<1> QED
  BY <1>1, <1>2, <1>3, <1>4, <1>5, <1>6, <1>7, <1>9, <1>10, <1>11, <1>12, <1>13, <1>14, <1>15,
     <1>16, <1>17, <1>18, <1>19, <1>20, <1>21 DEF Next, Step

-----------------------------------------------------------------------------
(* What a reader and the next command find.                                *)

LEMMA RecoveryInvariants ==
    ASSUME RecoverMode = "exclusive"
    PROVE  Spec => [](TypeOK /\ LockInv /\ LogInv /\ CommitInv)
<1>1. Init => TypeOK /\ LockInv /\ LogInv /\ CommitInv
  BY InitType, InitLock, InitLog, InitCommit
<1>2. TypeOK /\ LockInv /\ LogInv /\ CommitInv /\ [Next]_vars
        => TypeOK' /\ LockInv' /\ LogInv' /\ CommitInv'
  BY StepType, StepLock, StepLog, StepCommit
<1> QED
  BY <1>1, <1>2, PTL DEF Spec

\* When recover is run alone, there is never more than one interrupted
\* transaction, and recover can roll it forward unless a torn line makes it
\* refuse the whole log, wherever processes crash and file operations fail.
THEOREM Rollable ==
    ASSUME RecoverMode = "exclusive"
    PROVE  Spec => []PendingRollable
<1>1. CommitInv => PendingRollable
  BY DEF CommitInv, Tidy, PendingRollable
<1> QED
  BY <1>1, RecoveryInvariants, PTL

\* ... and case.json is never behind a log that can be read without an INTENT
\* that says so.
THEOREM NeverStale ==
    ASSUME RecoverMode = "exclusive"
    PROVE  Spec => []SnapshotCurrent
<1>1. CommitInv => SnapshotCurrent
  BY DEF CommitInv, Tidy, SnapshotCurrent
<1> QED
  BY <1>1, RecoveryInvariants, PTL

-----------------------------------------------------------------------------
(* Refinement of CaseHistory.  The names under which its variables are     *)
(* instantiated:                                                           *)

Accepted == [i \in 1..Len(Whole) |-> Whole[i].id]
Visible  == IF snap = 0 THEN 0 ELSE CHOOSE i \in 1..Len(Whole) : Whole[i].id = snap

\* Event ids are drawn within their bound.
Bounded == made <= MaxEvents

LEMMA StepBounded == ASSUME TypeOK, Bounded, [Next]_vars PROVE Bounded'
<1>1. made' \in {made, made + 1} /\ (made' = made + 1 => made < MaxEvents \/ made' = made)
  BY DEF Next, Step, StartCreate, Populate, StartMutate, StartRecover, Acquire, WriteLock, Release,
         Read, IntentTmp, IntentMv, AppendEvent, SnapTmp, SnapMv, CommitTmp, CommitMv, RecPending,
         RecSnap, RecEvents, RecUnlink, Roll, RebuildTmp, RebuildMv, Sweep, Crash, IOError,
         CreateTemp, RenameTemp, Rename, RenameLost, LockAges, vars, disk
<1> QED
  BY <1>1, ConstantsAssumption DEF Bounded, TypeOK

\* An event, or a torn line, reaches the log; the snapshot catches up with it.
LogGrows(p) ==
    /\ pc[p] = "append"
    /\ UNCHANGED snap
    /\ \E line \in {call[p].ev, NoEvent} : log' = Append(log, line)
SnapMoves(p) ==
    /\ pc[p] = "snap_mv"
    /\ UNCHANGED log
    /\ snap' = call[p].ev.id

\* The only steps that change what readers and writers of the case see.
LEMMA StepFiles ==
    ASSUME TypeOK, CommitInv, [Next]_vars
    PROVE  UNCHANGED <<log, snap>> \/ \E p \in Proc : LogGrows(p) \/ SnapMoves(p)
<1>1. ASSUME NEW p \in Proc,
             \/ StartCreate(p) \/ Populate(p) \/ StartMutate(p) \/ StartRecover(p)
             \/ Acquire(p) \/ WriteLock(p) \/ Release(p) \/ Read(p)
             \/ IntentTmp(p) \/ SnapTmp(p) \/ CommitTmp(p) \/ RebuildTmp(p)
             \/ RecPending(p) \/ RecSnap(p) \/ RecEvents(p) \/ RecUnlink(p)
             \/ Roll(p) \/ Sweep(p) \/ Crash(p)
      PROVE  UNCHANGED <<log, snap>>
  BY <1>1 DEF StartCreate, Populate, StartMutate, StartRecover, Acquire, WriteLock, Release, Read,
              IntentTmp, SnapTmp, CommitTmp, RebuildTmp, RecPending, RecSnap, RecEvents, RecUnlink,
              Roll, Sweep, Crash, CreateTemp, disk
<1>2. ASSUME NEW p \in Proc, IntentMv(p) \/ CommitMv(p) PROVE UNCHANGED <<log, snap>>
  BY <1>2 DEF IntentMv, CommitMv, RenameTemp, RenameLost, Rename, disk
<1>3. ASSUME NEW p \in Proc, SnapMv(p) PROVE UNCHANGED <<log, snap>> \/ SnapMoves(p)
  BY <1>3 DEF SnapMv, RenameTemp, RenameLost, Rename, disk, SnapMoves
<1>4. ASSUME NEW p \in Proc, RebuildMv(p) PROVE FALSE
  BY <1>4 DEF RebuildMv, RenameTemp, CommitInv, InPlace, Judged
<1>5. ASSUME NEW p \in Proc, AppendEvent(p) PROVE LogGrows(p)
  BY <1>5 DEF AppendEvent, LogGrows
<1>6. ASSUME NEW p \in Proc, IOError(p)
      PROVE  UNCHANGED <<log, snap>> \/ LogGrows(p) \/ SnapMoves(p)
  <2>1. pc[p] # "reb_mv"
    BY DEF CommitInv, InPlace, Judged
  <2>2. ASSUME NEW kind \in Kind, Rename(p, kind),
               <<pc[p], kind>> \in {<<"intent_mv", "intent">>, <<"snap_mv", "case">>,
                                    <<"commit_mv", "commit">>, <<"reb_mv", "rebuild">>}
        PROVE  UNCHANGED <<log, snap>> \/ SnapMoves(p)
    BY <2>1, <2>2 DEF Rename, SnapMoves
  <2> QED
    BY <1>6, <2>2 DEF IOError, disk, LogGrows
<1>7. ASSUME LockAges \/ UNCHANGED vars PROVE UNCHANGED <<log, snap>>
  BY <1>7 DEF LockAges, vars, disk
<1>8. ASSUME NEW p \in Proc, Step(p) PROVE UNCHANGED <<log, snap>> \/ LogGrows(p) \/ SnapMoves(p)
  BY <1>1, <1>2, <1>3, <1>4, <1>5, <1>8 DEF Step
<1> QED
  BY <1>1, <1>6, <1>7, <1>8 DEF Next

\* The position of an event in a log whose ids increase.
LEMMA Position ==
    ASSUME NEW l \in Seq(Event), NEW n \in 1..Len(l),
           \A i, j \in 1..Len(l) : i < j => l[i].id < l[j].id
    PROVE  (CHOOSE i \in 1..Len(l) : l[i].id = l[n].id) = n
<1>1. PICK m \in 1..Len(l) : m = CHOOSE i \in 1..Len(l) : l[i].id = l[n].id
  OBVIOUS
<1>2. l[m].id = l[n].id
  BY <1>1
<1>3. l[m].id \in Nat /\ l[n].id \in Nat
  <2>1. l[m] \in Event /\ l[n] \in Event
    OBVIOUS
  <2> QED
    BY <2>1 DEF Event
<1>4. m \in Nat /\ n \in Nat
  OBVIOUS
<1> QED
  BY <1>1, <1>2, <1>3, <1>4

LEMMA WholeLog == ChainOK(log) /\ TypeOK => Whole = log
<1> SUFFICES ASSUME ChainOK(log), TypeOK, log # <<>> PROVE log[Len(log)] # NoEvent
  BY DEF Whole
<1>1. Len(log) \in 1..Len(log)
  BY DEF TypeOK
<1> QED
  BY <1>1 DEF ChainOK, ChainTo, NoEvent

\* The ids of a whole log increase.
LEMMA Increasing ==
    ASSUME TypeOK, LogInv, ChainOK(log)
    PROVE  \A i, j \in 1..Len(log) : i < j => log[i].id < log[j].id
BY DEF LogInv, ChainOK, ChainTo

LEMMA InitHistory == Init => History!Init
<1> SUFFICES ASSUME Init PROVE Accepted = <<>> /\ Visible = 0
  BY DEF History!Init, Accepted, Visible
<1>1. Whole = <<>>
  BY DEF Init, Whole
<1> QED
  BY <1>1 DEF Init, Accepted, Visible

\* Appending an event accepts it; appending a torn line changes nothing.
LEMMA GrowAccepts ==
    ASSUME TypeOK, TypeOK', LogInv, LogInv', CommitInv, Bounded, NEW p \in Proc, LogGrows(p)
    PROVE  History!Accept \/ UNCHANGED <<Accepted, Visible>>
<1> DEFINE e == call[p].ev
<1>1. e \in Event /\ log \in Seq(Event) /\ Follows(e) /\ snap = LastId(log)
  BY DEF LogGrows, TypeOK, Call, LogInv, CommitInv, InPlace, Written
<1>2. ChainOK(log) /\ Whole = log /\ Len(log) \in Nat
  BY <1>1, WholeLog DEF Follows
<1>3. PICK line \in {e, NoEvent} : log' = Append(log, line)
  BY DEF LogGrows
<1>4. Len(log') = Len(log) + 1 /\ log'[Len(log) + 1] = line
      /\ \A i \in 1..Len(log) : log'[i] = log[i]
  BY <1>1, <1>3 DEF NoEvent, Event
<1>5. CASE line = NoEvent
  <2>1. Whole' = SubSeq(log', 1, Len(log))
    BY <1>1, <1>4, <1>5 DEF Whole
  <2>2. SubSeq(log', 1, Len(log)) = log
    <3>1. NoEvent \in Event
      BY DEF NoEvent, Event
    <3> QED
      BY <1>1, <1>2, <1>3, <1>5, <3>1
  <2>3. Whole' = Whole /\ snap' = snap
    BY <1>2, <2>1, <2>2 DEF LogGrows
  <2>4. Accepted' = Accepted
    BY <2>3 DEF Accepted
  <2>5. Visible' = Visible
    BY <2>3 DEF Visible
  <2> QED
    BY <2>4, <2>5
<1>6. CASE line = e
  <2>1. e.id # 0 /\ e.id \in 1..MaxEvents /\ line.id # 0
    BY <1>1, <1>6, ConstantsAssumption DEF Follows, Event, Bounded, TypeOK
  <2>2. Whole' = log'
    BY <1>4, <2>1 DEF Whole, NoEvent
  <2>3. Accepted = [i \in 1..Len(log) |-> log[i].id]
    BY <1>2 DEF Accepted
  <2>4. Accepted' = [i \in 1..(Len(log) + 1) |-> log'[i].id]
    BY <1>4, <2>2 DEF Accepted
  <2>5. Accepted \in Seq(Nat) /\ Len(Accepted) = Len(log)
    <3>1. \A i \in 1..Len(log) : log[i].id \in Nat
      <4>1. \A i \in 1..Len(log) : log[i] \in Event
        BY <1>1
      <4> QED
        BY <4>1 DEF Event
    <3> QED
      BY <1>2, <2>3, <3>1
  <2>6. Accepted' = Append(Accepted, e.id)
    BY <1>2, <1>4, <1>6, <2>3, <2>4, <2>5
  <2>7. \A i \in 1..Len(log) : log[i].id < e.id
    <3>1. \A i \in 1..Len(log) : i < Len(log) + 1 /\ i \in 1..Len(log') /\ Len(log) + 1 \in 1..Len(log')
      BY <1>2, <1>4
    <3> QED
      BY <1>4, <1>6, <2>1, <3>1 DEF LogInv
  <2>8. \A i \in 1..Len(Accepted) : Accepted[i] # e.id
    <3>1. \A i \in 1..Len(log) : Accepted[i] = log[i].id /\ log[i].id # e.id
      <4>1. \A i \in 1..Len(log) : log[i] \in Event
        BY <1>1
      <4> QED
        BY <1>1, <2>3, <2>7, <4>1 DEF Event
    <3> QED
      BY <2>5, <3>1
  <2>9. Visible = Len(log) /\ Visible' = Visible
    <3>1. CASE log = <<>>
      BY <1>1, <3>1 DEF LastId, Visible, LogGrows
    <3>2. CASE log # <<>>
      <4>1. Len(log) \in 1..Len(log) /\ Len(log) \in 1..Len(log')
        BY <1>1, <1>4, <3>2
      <4>2. snap = log[Len(log)].id /\ snap # 0 /\ snap = log'[Len(log)].id
        BY <1>1, <1>2, <1>4, <3>2, <4>1 DEF LastId, ChainOK, ChainTo
      <4>3. Visible = Len(log)
        <5>1. (CHOOSE i \in 1..Len(log) : log[i].id = log[Len(log)].id) = Len(log)
          BY <1>1, <1>2, <4>1, Position, Increasing
        <5> QED
          BY <1>2, <4>2, <5>1 DEF Visible
      <4>4. log' \in Seq(Event) /\ \A i, j \in 1..Len(log') : i < j => log'[i].id < log'[j].id
        <5>1. \A j \in 1..Len(log') : log'[j].id # 0
          BY <1>2, <1>4, <1>6, <2>1 DEF ChainOK, ChainTo
        <5> QED
          BY <5>1 DEF LogInv, TypeOK
      <4>5. (CHOOSE i \in 1..Len(log') : log'[i].id = log'[Len(log)].id) = Len(log)
        BY <4>1, <4>4, Position
      <4>6. Visible' = Len(log)
        BY <2>2, <4>2, <4>5 DEF Visible, LogGrows
      <4> QED
        BY <4>3, <4>6
    <3> QED
      BY <3>1, <3>2
  <2> QED
    BY <2>1, <2>5, <2>6, <2>8, <2>9 DEF History!Accept, Accepted, Visible
<1> QED
  BY <1>5, <1>6

\* Replacing case.json publishes the last event, or shows what it showed.
LEMMA SnapPublishes ==
    ASSUME TypeOK, LogInv, CommitInv, NEW p \in Proc, SnapMoves(p)
    PROVE  History!Publish \/ UNCHANGED <<Accepted, Visible>>
<1> DEFINE e == call[p].ev
<1>1. ChainOK(log) /\ LastId(log) = e.id /\ log \in Seq(Event) /\ Whole = log
  BY WholeLog DEF SnapMoves, CommitInv, InPlace, Written, LateLabel, TypeOK
<1>2. Whole' = Whole /\ Accepted' = Accepted
  BY DEF SnapMoves, Whole, Accepted
<1>3. CASE snap = e.id
  BY <1>2, <1>3 DEF SnapMoves, Visible
<1>4. CASE snap # e.id
  <2>1. InLog(e.id)
    BY DEF SnapMoves, LogInv
  <2>2. log # <<>> /\ Len(log) \in 1..Len(log) /\ log[Len(log)].id = e.id /\ e.id # 0
    BY <1>1, <2>1 DEF InLog, LastId, ChainOK, ChainTo
  <2>3. Visible' = Len(log)
    BY <1>1, <1>2, <2>2, Position, Increasing DEF Visible, SnapMoves
  <2>4. Visible < Len(log)
    <3>1. CASE snap = 0
      BY <2>2, <3>1 DEF Visible
    <3>2. CASE snap # 0
      <4>1. PICK i \in 1..Len(log) : log[i].id = snap
        BY <3>2 DEF LogInv, LogFirst, InLog
      <4>2. Visible = i
        BY <1>1, <3>2, <4>1, Position, Increasing DEF Visible
      <4> QED
        BY <1>4, <2>2, <4>1, <4>2
    <3> QED
      BY <3>1, <3>2
  <2>5. Len(Accepted) = Len(log)
    BY <1>1 DEF Accepted
  <2> QED
    BY <1>2, <2>3, <2>4, <2>5 DEF History!Publish, Accepted, Visible
<1> QED
  BY <1>3, <1>4

\* As long as recover is run alone, the store is the abstract history,
\* however many processes mutate, wherever they crash and whatever fails: an
\* event is accepted by one file operation, once, after readers have seen its
\* predecessor, and what readers see never shrinks.
THEOREM ImplementsHistory ==
    ASSUME RecoverMode = "exclusive"
    PROVE  Spec => RefinesHistory
<1> DEFINE Inv == TypeOK /\ LockInv /\ LogInv /\ CommitInv /\ Bounded
<1>1. Init => Inv /\ History!Init
  <2>1. Init => Bounded
    BY ConstantsAssumption DEF Init, Bounded
  <2> QED
    BY <2>1, InitType, InitLock, InitLog, InitCommit, InitHistory
<1>2. Inv /\ [Next]_vars => Inv'
  BY StepType, StepLock, StepLog, StepCommit, StepBounded
<1>3. Inv /\ Inv' /\ [Next]_vars => [History!Next]_<<Accepted, Visible>>
  <2> SUFFICES ASSUME Inv, Inv', [Next]_vars
               PROVE  History!Next \/ UNCHANGED <<Accepted, Visible>>
    OBVIOUS
  <2>1. CASE UNCHANGED <<log, snap>>
    BY <2>1 DEF Accepted, Visible, Whole
  <2>2. CASE \E p \in Proc : LogGrows(p)
    BY <2>2, GrowAccepts DEF History!Next
  <2>3. CASE \E p \in Proc : SnapMoves(p)
    BY <2>3, SnapPublishes DEF History!Next
  <2> QED
    BY <2>1, <2>2, <2>3, StepFiles
<1>4. [History!Next]_<<Accepted, Visible>> =>
      [History!Next]_<<[i \in 1..Len(Whole) |-> Whole[i].id],
                       IF snap = 0 THEN 0 ELSE CHOOSE i \in 1..Len(Whole) : Whole[i].id = snap>>
  BY DEF Accepted, Visible
<1> QED
  BY <1>1, <1>2, <1>3, <1>4, PTL DEF Spec, RefinesHistory, History!Spec

-----------------------------------------------------------------------------
(* Damage that only a leftover lock or a leftover temporary file shows.    *)

\* The faults after which the store has a recovery action: no process dies
\* between the creation of a lock file and the end of its writing, or right
\* before, and file operations fail between the intent and the commit mark
\* only, whole lines of the log written.
Recoverable ==
    /\ RecoverMode = "exclusive"
    /\ "acquire" \notin CrashAt /\ "write_lock" \notin CrashAt
    /\ IOErrorAt \subseteq {"snap_tmp", "snap_mv", "commit_tmp"}

\* A lock file, and a temporary file while nothing is pending, are there
\* because somebody is at work, or is a dead owner's; or a recover that has
\* removed the dead owner's lock is about to take its own.
Leftovers ==
    /\ dir # "ready" => pending = {} /\ snap = 0
    /\ ChainOK(log)
    /\ lock = NoLock /\ pending = {} =>
          tmp = {} \/ \E p \in Proc : pc[p] = "acquire" /\ call[p].op = "recover"

\* The lock file and the temporary files of process p.
OwnFiles(p) ==
    /\ pc[p] = "intent_mv" => TempFile(p, "intent") \in tmp
    /\ pc[p] = "snap_mv" => TempFile(p, "case") \in tmp
    /\ pc[p] = "commit_mv" => TempFile(p, "commit") \in tmp
    /\ pc[p] = "release" => pending # {} \/ tmp = {}
    /\ lock # NoLock /\ lock.owner = p =>
          /\ pc[p] \in HoldLabel \cup {"dead"}
          /\ ~lock.written => pc[p] = "write_lock"

\* A command other than recover finds no temporary files and leaves none.
Alone(p) ==
    call[p].op # "recover" =>
       /\ pc[p] \in {"write_lock", "read"} => pending # {} \/ tmp = {}
       /\ pc[p] \in {"intent_tmp", "append", "snap_tmp", "commit_tmp"} => tmp = {}
       /\ pc[p] = "intent_mv" => tmp \subseteq {TempFile(p, "intent")}
       /\ pc[p] = "snap_mv" => tmp \subseteq {TempFile(p, "case")}
       /\ pc[p] = "commit_mv" => tmp \subseteq {TempFile(p, "commit")}

\* Whoever writes, writes to a directory that is complete.
InDir(p) ==
    /\ pc[p] \in CommitLabel => dir = "ready"
    /\ call[p].op = "create" /\ pc[p] # "populate" => dir = "ready"

Tracked(p) == OwnFiles(p) /\ Alone(p) /\ InDir(p)

LeftInv == Leftovers /\ \A p \in Proc : Tracked(p)

LEMMA InitLeft == Init => LeftInv
BY DEF Init, LeftInv, Leftovers, Tracked, OwnFiles, Alone, InDir, CommitLabel, Blank, ChainOK, ChainTo

\* The other processes, when p steps.
LEMMA OthersTracked ==
    ASSUME LockInv, LeftInv, NEW p \in Proc,
           \A q \in Proc \ {p} : pc'[q] = pc[q] /\ call'[q] = call[q],
           UNCHANGED <<tmp, pending>> \/ pc[p] \in HoldLabel,
           dir' = dir \/ dir' = "ready",
           lock' = lock \/ lock' = NoLock \/ lock'.owner = p
    PROVE  \A q \in Proc \ {p} : Tracked(q)'
<1> SUFFICES ASSUME NEW q \in Proc \ {p} PROVE Tracked(q)'
  OBVIOUS
<1>1. Tracked(q)
  BY DEF LeftInv
<1>2. UNCHANGED <<tmp, pending>> \/ pc[q] \notin HoldLabel
  BY DEF LockInv, Holds
<1>3. OwnFiles(q)'
  <2>1. lock' # NoLock /\ lock'.owner = q => lock' = lock
    OBVIOUS
  <2> QED
    BY <1>1, <1>2, <2>1 DEF Tracked, OwnFiles, TempFile, HoldLabel, CommitLabel
<1>4. Alone(q)'
  BY <1>1, <1>2 DEF Tracked, Alone, TempFile, HoldLabel, CommitLabel
<1>5. InDir(q)'
  BY <1>1 DEF Tracked, InDir
<1> QED
  BY <1>3, <1>4, <1>5 DEF Tracked

\* A step of p that leaves the files alone.
LEMMA LeftFrame ==
    ASSUME LockInv, LeftInv, NEW p \in Proc,
           \A q \in Proc \ {p} : pc'[q] = pc[q] /\ call'[q] = call[q],
           UNCHANGED <<dir, lock, log, snap, pending, tmp>>,
           pc[p] # "acquire" \/ lock # NoLock,
           Tracked(p)'
    PROVE  LeftInv'
<1>1. \A q \in Proc \ {p} : Tracked(q)'
  BY OthersTracked
<1>2. Leftovers'
  BY DEF LeftInv, Leftovers, ChainOK, ChainTo
<1> QED
  BY <1>1, <1>2 DEF LeftInv

\* A step of p while it holds the lock and keeps it.
LEMMA LeftHold ==
    ASSUME LockInv, LeftInv, NEW p \in Proc, pc[p] \in HoldLabel,
           \A q \in Proc \ {p} : pc'[q] = pc[q] /\ call'[q] = call[q],
           UNCHANGED <<dir, lock>>, ChainOK(log)',
           dir # "ready" => UNCHANGED <<pending, snap>>,
           Tracked(p)'
    PROVE  LeftInv'
<1>1. \A q \in Proc \ {p} : Tracked(q)'
  BY OthersTracked
<1>2. lock' # NoLock
  BY DEF LockInv, Holds
<1>3. Leftovers'
  BY <1>2 DEF LeftInv, Leftovers
<1> QED
  BY <1>1, <1>3 DEF LeftInv

\* Throwing with a transaction pending, or with no temporary file around.
LEMMA LeftThrow ==
    ASSUME TypeOK, LockInv, LeftInv, NEW p \in Proc, pc[p] \in HoldLabel \ {"write_lock"},
           Throw(p), UNCHANGED <<dir, lock, log>>,
           dir # "ready" => UNCHANGED <<pending, snap>>,
           pending' # {} \/ tmp' = {}
    PROVE  LeftInv'
<1>1. pc'[p] = "release" /\ call' = call /\ \A q \in Proc \ {p} : pc'[q] = pc[q]
  BY DEF Throw, Goto, TypeOK
<1>2. "release" \in HoldLabel /\ "release" \notin CommitLabel /\ pc[p] # "populate"
  BY DEF HoldLabel, CommitLabel
<1>3. Tracked(p)'
  BY <1>1, <1>2 DEF LeftInv, Tracked, OwnFiles, Alone, InDir
<1>4. ChainOK(log)'
  BY DEF LeftInv, Leftovers, ChainOK, ChainTo
<1> QED
  BY <1>1, <1>3, <1>4, LeftHold

\* A process that ends without the lock, or dies.
LEMMA LeftEnd ==
    ASSUME TypeOK, LockInv, LeftInv, NEW p \in Proc, NEW l \in {"idle", "dead"}, Goto(p, l),
           call' = [call EXCEPT ![p] = Blank],
           UNCHANGED <<dir, lock, log, snap, pending, tmp>>,
           pc[p] # "acquire" \/ lock # NoLock,
           l = "idle" => lock = NoLock \/ lock.owner # p,
           l = "dead" => pc[p] # "write_lock"
    PROVE  LeftInv'
<1>1. pc'[p] = l /\ call'[p] = Blank
      /\ \A q \in Proc \ {p} : pc'[q] = pc[q] /\ call'[q] = call[q]
  BY DEF Goto, TypeOK
<1>2. Tracked(p)'
  BY <1>1 DEF LeftInv, Tracked, OwnFiles, Alone, InDir, Blank, CommitLabel
<1> QED
  BY <1>1, <1>2, LeftFrame

LEMMA StepLeft ==
    ASSUME Recoverable, TypeOK, TypeOK', LockInv, LogInv, CommitInv, CommitInv', LeftInv,
           [Next]_vars
    PROVE  LeftInv'
<1>0. \A p \in Proc : Tracked(p) /\ Written(p) /\ Judged(p) /\ Placing(p)
  BY DEF CommitInv, InPlace, LeftInv
<1>1. ASSUME NEW p \in Proc, StartCreate(p) PROVE LeftInv'
  <2>1. \A q \in Proc : pc[q] = "idle" /\ call[q] = Blank
    BY <1>1 DEF StartCreate, LogInv
  <2>2. \A q \in Proc : /\ pc'[q] = IF q = p THEN "populate" ELSE "idle"
                        /\ call'[q].op # "none" => q = p
    BY <1>1, <2>1 DEF StartCreate, Goto, TypeOK, Call, Blank
  <2>3. lock = NoLock \/ lock.owner \notin Proc
    BY <1>0, <2>1 DEF Tracked, OwnFiles, HoldLabel, CommitLabel
  <2>4. pending = {} /\ tmp = {} /\ lock = NoLock
    <3>1. lock = NoLock
      BY <2>3 DEF TypeOK, Lock
    <3>2. pending = {}
      BY <1>1 DEF StartCreate, LeftInv, Leftovers
    <3> QED
      BY <2>1, <3>1, <3>2 DEF LeftInv, Leftovers
  <2>5. /\ UNCHANGED <<lock, log, snap, pending, tmp>> /\ dir = "absent"
    BY <1>1 DEF StartCreate
  <2>6. \A q \in Proc : Tracked(q)'
    BY <2>2, <2>4, <2>5 DEF Tracked, OwnFiles, Alone, InDir, CommitLabel
  <2>7. Leftovers'
    BY <2>4, <2>5 DEF LeftInv, Leftovers, ChainOK, ChainTo
  <2> QED
    BY <2>6, <2>7 DEF LeftInv
<1>2. ASSUME NEW p \in Proc, Populate(p) PROVE LeftInv'
  <2>1. /\ pc'[p] = "acquire" /\ dir' = "ready"
        /\ UNCHANGED <<lock, log, snap, pending, tmp>>
        /\ \A q \in Proc \ {p} : pc'[q] = pc[q] /\ call'[q] = call[q]
    BY <1>2 DEF Populate, Goto, TypeOK
  <2>2. Tracked(p)'
    BY <1>0, <1>2, <2>1 DEF Populate, Tracked, OwnFiles, Alone, InDir, HoldLabel, CommitLabel
  <2>3. \A q \in Proc \ {p} : Tracked(q)'
    BY <2>1, OthersTracked
  <2>4. Leftovers'
    BY <1>2, <2>1 DEF Populate, LeftInv, Leftovers, ChainOK, ChainTo
  <2> QED
    BY <2>2, <2>3, <2>4 DEF LeftInv
<1>3. ASSUME NEW p \in Proc, StartMutate(p) \/ StartRecover(p) PROVE LeftInv'
  <2>1. call[p] = Blank /\ pc[p] = "idle" /\ UNCHANGED disk
    BY <1>0, <1>3 DEF StartMutate, StartRecover, Placing, Busy
  <2>2. /\ pc'[p] \in {"acquire", "rec_pending"}
        /\ \A q \in Proc \ {p} : pc'[q] = pc[q] /\ call'[q] = call[q]
        /\ call'[p].op \in {"mutate", "recover"}
    <3>1. CASE StartMutate(p)
      BY <3>1 DEF StartMutate, Goto, TypeOK, Call
    <3>2. CASE StartRecover(p)
      BY <3>2 DEF StartRecover, Goto, TypeOK, Call
    <3> QED
      BY <1>3, <3>1, <3>2
  <2>3. Tracked(p)'
    BY <1>0, <2>1, <2>2 DEF Tracked, OwnFiles, Alone, InDir, HoldLabel, CommitLabel, disk
  <2> QED
    BY <2>1, <2>2, <2>3, LeftFrame DEF disk
<1>4. ASSUME NEW p \in Proc, Acquire(p) PROVE LeftInv'
  <2>1. CASE lock # NoLock /\ Finish(p) /\ UNCHANGED lock
    <3>1. lock.owner # p
      BY <1>0, <1>4, <2>1 DEF Acquire, Tracked, OwnFiles, HoldLabel, CommitLabel
    <3> QED
      BY <1>4, <2>1, <3>1, LeftEnd DEF Acquire, Finish
  <2>2. CASE /\ lock = NoLock
             /\ lock' = [owner |-> p, written |-> FALSE, old |-> FALSE]
             /\ Goto(p, "write_lock")
             /\ UNCHANGED call
    <3>0. lock' # NoLock /\ lock'.owner = p
      <4>1. [owner |-> p, written |-> FALSE, old |-> FALSE] \in Lock
        BY DEF Lock
      <4> QED
        BY <2>2, <4>1, ConstantsAssumption
    <3>1. /\ pc'[p] = "write_lock" /\ UNCHANGED <<dir, log, snap, pending, tmp>>
          /\ \A q \in Proc \ {p} : pc'[q] = pc[q]
          /\ lock'.owner = p /\ lock' # NoLock
      BY <1>4, <2>2, <3>0 DEF Acquire, Goto, TypeOK
    <3>2. call[p].op # "recover" => pending # {} \/ tmp = {}
      <4> SUFFICES ASSUME call[p].op # "recover", pending = {} PROVE tmp = {}
        OBVIOUS
      <4>1. ASSUME NEW r \in Proc, pc[r] = "acquire", call[r].op = "recover" PROVE FALSE
        BY <1>4, <4>1 DEF Acquire, CommitInv, Solo, Recovering, Busy
      <4> QED
        BY <2>2, <4>1 DEF LeftInv, Leftovers
    <3>3. Tracked(p)'
      BY <1>0, <1>4, <2>2, <3>1, <3>2 DEF Acquire, Tracked, OwnFiles, Alone, InDir, HoldLabel, CommitLabel
    <3>4. \A q \in Proc \ {p} : Tracked(q)'
      BY <2>2, <3>1, OthersTracked
    <3>5. Leftovers'
      BY <3>1 DEF LeftInv, Leftovers, ChainOK, ChainTo
    <3> QED
      BY <3>3, <3>4, <3>5 DEF LeftInv
  <2> QED
    BY <1>4, <2>1, <2>2 DEF Acquire
<1>5. ASSUME NEW p \in Proc, WriteLock(p) PROVE LeftInv'
  <2>1. lock # NoLock /\ lock.owner = p /\ pc[p] = "write_lock"
    BY <1>5 DEF WriteLock, LockInv, Holds, HoldLabel
  <2>2. PICK l \in {"intent_tmp", "roll", "read"} :
           /\ Goto(p, l)
           /\ l = "intent_tmp" => call[p].op = "create"
           /\ l = "roll" <=> call[p].op = "recover"
    BY <1>5, <2>1 DEF WriteLock
  <2>3. /\ pc'[p] = l /\ UNCHANGED <<dir, log, snap, pending, tmp, call>>
        /\ \A q \in Proc \ {p} : pc'[q] = pc[q]
        /\ lock' = [lock EXCEPT !.written = TRUE]
    BY <1>5, <2>1, <2>2 DEF WriteLock, Goto, TypeOK
  <2>4. lock' # NoLock /\ lock'.owner = p /\ lock'.written = TRUE
    BY <2>1, <2>3, ConstantsAssumption DEF TypeOK, Lock
  <2>5. l = "intent_tmp" => pending = {} /\ tmp = {}
    <3>1. l = "intent_tmp" => pending = {}
      BY <2>1, <2>2 DEF LogInv, Creating, Untouched
    <3> QED
      BY <1>0, <2>1, <2>2, <3>1 DEF Tracked, Alone
  <2>6. Tracked(p)'
    BY <1>0, <2>1, <2>2, <2>3, <2>4, <2>5 DEF Tracked, OwnFiles, Alone, InDir, HoldLabel, CommitLabel
  <2>7. \A q \in Proc \ {p} : Tracked(q)'
    BY <2>3, <2>4, OthersTracked
  <2>8. Leftovers'
    BY <2>3, <2>4 DEF LeftInv, Leftovers, ChainOK, ChainTo
  <2> QED
    BY <2>6, <2>7, <2>8 DEF LeftInv
<1>6. ASSUME NEW p \in Proc, Release(p) PROVE LeftInv'
  <2>1. lock # NoLock /\ lock.owner = p /\ lock' = NoLock /\ pc[p] = "release"
    BY <1>6 DEF Release, LockInv, Holds, HoldLabel
  <2>2. /\ pc'[p] = "idle" /\ call'[p] = Blank /\ UNCHANGED <<dir, log, snap, pending, tmp>>
        /\ \A q \in Proc \ {p} : pc'[q] = pc[q] /\ call'[q] = call[q]
    BY <1>6 DEF Release, Finish, Goto, TypeOK
  <2>3. pending # {} \/ tmp = {}
    BY <1>0, <2>1 DEF Tracked, OwnFiles
  <2>4. Tracked(p)'
    BY <2>1, <2>2 DEF Tracked, OwnFiles, Alone, InDir, Blank, CommitLabel
  <2>5. \A q \in Proc \ {p} : Tracked(q)'
    BY <2>1, <2>2, OthersTracked
  <2>6. Leftovers'
    BY <2>2, <2>3 DEF LeftInv, Leftovers, ChainOK, ChainTo
  <2> QED
    BY <2>4, <2>5, <2>6 DEF LeftInv
<1>7. ASSUME NEW p \in Proc, Read(p) PROVE LeftInv'
  <2>1. call[p].op # "recover" /\ (pending # {} \/ tmp = {}) /\ pc[p] = "read"
    BY <1>0, <1>7 DEF Read, Placing, Tracked, Alone
  <2>2. CASE Throw(p)
    BY <1>7, <2>1, <2>2, LeftThrow DEF Read, HoldLabel
  <2>3. CASE Mutable /\ ~Throw(p)
    <3>1. /\ pc'[p] = "intent_tmp" /\ call'[p].op = call[p].op
          /\ \A q \in Proc \ {p} : pc'[q] = pc[q] /\ call'[q] = call[q]
          /\ UNCHANGED <<dir, lock, log, snap, pending, tmp>>
      BY <1>7, <2>3 DEF Read, Goto, TypeOK, Call
    <3>2. dir = "ready"
      BY <2>3 DEF Mutable, LeftInv, Leftovers
    <3>3. Tracked(p)'
      BY <1>0, <2>1, <2>3, <3>1, <3>2 DEF Mutable, Tracked, OwnFiles, Alone, InDir, HoldLabel, CommitLabel
    <3> QED
      BY <2>1, <3>1, <3>3, LeftFrame
  <2> QED
    BY <1>7, <2>2, <2>3 DEF Read
<1>8. ASSUME NEW p \in Proc, pc[p] \in CommitLabel
      PROVE  /\ dir = "ready" /\ lock # NoLock /\ lock.owner = p /\ lock.written
             /\ pc[p] \in HoldLabel
             /\ ChainOK(log)
  <2>1. lock # NoLock /\ lock.owner = p
    BY <1>8 DEF LockInv, Holds, HoldLabel
  <2>2. pc[p] # "write_lock" /\ lock.written \in BOOLEAN
    BY <1>8, <2>1 DEF CommitLabel, TypeOK, Lock
  <2> QED
    BY <1>0, <1>8, <2>1, <2>2 DEF Tracked, OwnFiles, InDir, LeftInv, Leftovers, HoldLabel
<1>9. ASSUME NEW p \in Proc, NEW from, NEW kind \in Kind, NEW to, CreateTemp(p, from, kind, to),
             <<from, kind, to>> \in {<<"intent_tmp", "intent", "intent_mv">>,
                                     <<"snap_tmp", "case", "snap_mv">>,
                                     <<"commit_tmp", "commit", "commit_mv">>}
      PROVE  LeftInv'
  <2>1. /\ pc[p] = from /\ pc'[p] = to /\ UNCHANGED <<dir, lock, log, snap, pending, call>>
        /\ \A q \in Proc \ {p} : pc'[q] = pc[q]
        /\ tmp' = tmp \cup {TempFile(p, kind)} /\ TempFile(p, kind)' = TempFile(p, kind)
    BY <1>9 DEF CreateTemp, WriteTemp, Goto, TypeOK, TempFile
  <2>2. from \in CommitLabel /\ to \in CommitLabel
    BY <1>9 DEF CommitLabel
  <2>3. dir = "ready" /\ lock # NoLock /\ lock.owner = p /\ lock.written /\ from \in HoldLabel
        /\ ChainOK(log)
    BY <1>8, <2>1, <2>2
  <2>4. OwnFiles(p)'
    <3>1. to \in HoldLabel
      BY <2>2 DEF HoldLabel
    <3> QED
      BY <1>9, <2>1, <2>3, <3>1 DEF OwnFiles
  <2>5. Alone(p)'
    <3>1. call[p].op # "recover" => tmp = {}
      BY <1>0, <1>9, <2>1 DEF Tracked, Alone
    <3> QED
      BY <1>9, <2>1, <3>1 DEF Alone
  <2>6. InDir(p)'
    BY <2>1, <2>3 DEF InDir
  <2>7. ChainOK(log)'
    BY <2>1, <2>3 DEF ChainOK, ChainTo
  <2> QED
    BY <2>1, <2>3, <2>4, <2>5, <2>6, <2>7, LeftHold DEF Tracked
<1>10. ASSUME NEW p \in Proc, IntentTmp(p) \/ SnapTmp(p) \/ CommitTmp(p) PROVE LeftInv'
  BY <1>9, <1>10 DEF IntentTmp, SnapTmp, CommitTmp, Kind
<1>11. ASSUME NEW p \in Proc, NEW kind \in Kind, RenameLost(p, kind),
              <<pc[p], kind>> \in {<<"intent_mv", "intent">>, <<"snap_mv", "case">>,
                                   <<"commit_mv", "commit">>}
       PROVE  FALSE
  BY <1>0, <1>11 DEF RenameLost, Tracked, OwnFiles
<1>12. ASSUME NEW p \in Proc, NEW kind \in {"intent", "case"}, Rename(p, kind),
              NEW to, Goto(p, to), UNCHANGED call,
              <<pc[p], kind, to>> \in {<<"intent_mv", "intent", "append">>,
                                       <<"snap_mv", "case", "commit_tmp">>}
       PROVE  LeftInv'
  <2>1. /\ pc'[p] = to /\ UNCHANGED <<dir, lock, log, call>>
        /\ \A q \in Proc \ {p} : pc'[q] = pc[q]
        /\ tmp' = tmp \ {TempFile(p, kind)}
    BY <1>12 DEF Rename, Goto, TypeOK
  <2>2. pc[p] \in CommitLabel /\ to \in CommitLabel
    BY <1>12 DEF CommitLabel
  <2>3. dir = "ready" /\ lock # NoLock /\ lock.owner = p /\ lock.written /\ pc[p] \in HoldLabel
        /\ ChainOK(log)
    BY <1>8, <2>2
  <2>4. OwnFiles(p)'
    <3>1. to \in HoldLabel
      BY <2>2 DEF HoldLabel
    <3> QED
      BY <1>12, <2>1, <2>3, <3>1 DEF OwnFiles
  <2>5. Alone(p)'
    <3>1. call[p].op # "recover" => tmp' = {}
      BY <1>0, <1>12, <2>1 DEF Tracked, Alone
    <3> QED
      BY <1>12, <2>1, <3>1 DEF Alone
  <2>6. InDir(p)'
    BY <2>1, <2>3 DEF InDir
  <2>7. ChainOK(log)'
    BY <2>1, <2>3 DEF ChainOK, ChainTo
  <2> QED
    BY <2>1, <2>3, <2>4, <2>5, <2>6, <2>7, LeftHold DEF Tracked
<1>13. ASSUME NEW p \in Proc, IntentMv(p) \/ SnapMv(p) PROVE LeftInv'
  <2>1. CASE IntentMv(p)
    BY <1>11, <1>12, <2>1 DEF IntentMv, RenameTemp, Kind
  <2>2. CASE SnapMv(p)
    BY <1>11, <1>12, <2>2 DEF SnapMv, RenameTemp, Kind
  <2> QED
    BY <1>13, <2>1, <2>2
<1>14. ASSUME NEW p \in Proc, AppendEvent(p) PROVE LeftInv'
  <2>1. /\ pc[p] = "append" /\ pc'[p] = "snap_tmp" /\ UNCHANGED <<dir, lock, snap, pending, tmp, call>>
        /\ \A q \in Proc \ {p} : pc'[q] = pc[q]
    BY <1>14 DEF AppendEvent, Goto, TypeOK
  <2>2. pc[p] \in CommitLabel /\ "snap_tmp" \in HoldLabel
    BY <2>1 DEF CommitLabel, HoldLabel
  <2>3. dir = "ready" /\ lock # NoLock /\ lock.owner = p /\ lock.written /\ pc[p] \in HoldLabel
    BY <1>8, <2>2
  <2>4. ChainOK(log)'
    BY <2>1 DEF CommitInv, InPlace, Written, LateLabel
  <2>5. OwnFiles(p)' /\ InDir(p)'
    BY <2>1, <2>2, <2>3 DEF OwnFiles, InDir
  <2>6. Alone(p)'
    BY <1>0, <2>1 DEF Tracked, Alone
  <2> QED
    BY <2>1, <2>3, <2>4, <2>5, <2>6, LeftHold DEF Tracked
<1>15. ASSUME NEW p \in Proc, CommitMv(p) PROVE LeftInv'
  <2>1. Rename(p, "commit") /\ pc[p] = "commit_mv"
    BY <1>11, <1>15 DEF CommitMv, Kind
  <2>2. pc[p] \in CommitLabel
    BY <2>1 DEF CommitLabel
  <2>3. dir = "ready" /\ lock # NoLock /\ lock.owner = p /\ lock.written /\ pc[p] \in HoldLabel
        /\ ChainOK(log)
    BY <1>8, <2>2
  <2>4. /\ call' = [call EXCEPT ![p].todo = @ \ {call[p].ev}]
        /\ Goto(p, IF call[p].op = "recover" THEN "roll" ELSE "release")
        /\ UNCHANGED <<dir, lock, log>> /\ tmp' = tmp \ {TempFile(p, "commit")}
    BY <1>11, <1>15, <2>1 DEF CommitMv, Rename, Kind
  <2>5. /\ call'[p].op = call[p].op
        /\ pc'[p] = IF call[p].op = "recover" THEN "roll" ELSE "release"
        /\ \A q \in Proc \ {p} : pc'[q] = pc[q] /\ call'[q] = call[q]
    BY <2>4 DEF Goto, TypeOK, Call
  <2>6. call[p].op # "recover" => tmp' = {}
    BY <1>0, <2>1, <2>4 DEF Tracked, Alone
  <2>7. Tracked(p)'
    BY <2>3, <2>4, <2>5, <2>6 DEF Tracked, OwnFiles, Alone, InDir, HoldLabel
  <2>8. ChainOK(log)'
    BY <2>3, <2>4 DEF ChainOK, ChainTo
  <2> QED
    BY <2>3, <2>4, <2>5, <2>7, <2>8, LeftHold
<1>16. ASSUME NEW p \in Proc, RecPending(p) \/ RecSnap(p) \/ RecEvents(p) PROVE LeftInv'
  <2>1. call[p].op = "recover" /\ pc[p] \in ScanLabel /\ UNCHANGED disk
    BY <1>16 DEF RecPending, RecSnap, RecEvents, LockInv, ScanLabel
  <2>2. lock = NoLock \/ lock.owner # p
    BY <1>0, <2>1 DEF Tracked, OwnFiles, ScanLabel, HoldLabel, CommitLabel
  <2>3. /\ \A q \in Proc \ {p} : pc'[q] = pc[q] /\ call'[q] = call[q]
        /\ pc'[p] \in ScanLabel \cup {"acquire", "idle"}
        /\ call'[p].op \in {"recover", "none"}
    <3>1. CASE RecPending(p)
      BY <2>1, <3>1 DEF RecPending, Proceed, Finish, Goto, TypeOK, Call, ScanLabel, Blank
    <3>2. CASE RecSnap(p)
      BY <2>1, <3>2 DEF RecSnap, Proceed, Goto, TypeOK, Call, ScanLabel, Blank
    <3>3. CASE RecEvents(p)
      BY <2>1, <3>3 DEF RecEvents, Proceed, Goto, TypeOK, Call, ScanLabel, Blank
    <3> QED
      BY <1>16, <3>1, <3>2, <3>3
  <2>4. Tracked(p)'
    BY <2>1, <2>2, <2>3 DEF Tracked, OwnFiles, Alone, InDir, ScanLabel, HoldLabel, CommitLabel, disk
  <2> QED
    BY <2>1, <2>3, <2>4, LeftFrame DEF disk, ScanLabel
<1>17. ASSUME NEW p \in Proc, RecUnlink(p) PROVE LeftInv'
  <2>1. lock # NoLock /\ call[p].op = "recover"
    BY <1>17 DEF RecUnlink, LockInv, ScanLabel, Stale
  <2>2. /\ pc'[p] = "acquire" /\ UNCHANGED <<dir, log, snap, pending, tmp, call>> /\ lock' = NoLock
        /\ \A q \in Proc \ {p} : pc'[q] = pc[q]
    BY <1>17, <2>1 DEF RecUnlink, Goto, TypeOK
  <2>3. Tracked(p)'
    BY <1>0, <2>1, <2>2 DEF Tracked, OwnFiles, Alone, InDir, CommitLabel
  <2>4. \A q \in Proc \ {p} : Tracked(q)'
    BY <2>2, OthersTracked
  <2>5. Leftovers'
    BY <2>1, <2>2 DEF LeftInv, Leftovers, ChainOK, ChainTo
  <2> QED
    BY <2>3, <2>4, <2>5 DEF LeftInv
<1>18. ASSUME NEW p \in Proc, Roll(p) PROVE LeftInv'
  <2>1. call[p].op = "recover" /\ pc[p] = "roll" /\ call[p].todo = pending /\ UNCHANGED disk
        /\ call[p].cand = 0
    BY <1>0, <1>18 DEF Roll, Placing, Judged
  <2>2. lock # NoLock /\ lock.owner = p /\ lock.written /\ pc[p] \in HoldLabel
    <3>1. lock # NoLock /\ lock.owner = p /\ pc[p] \in HoldLabel
      BY <2>1 DEF LockInv, Holds, HoldLabel
    <3> QED
      BY <1>0, <2>1, <3>1 DEF Tracked, OwnFiles, TypeOK, Lock
  <2>3. CASE pending # {} /\ Throw(p)
    BY <2>1, <2>2, <2>3, LeftThrow DEF disk
  <2>4. CASE \E l \in {"append", "snap_tmp", "sweep"} :
                Goto(p, l) /\ (l # "sweep" => pending # {})
    <3>1. PICK l \in {"append", "snap_tmp", "sweep"} : Goto(p, l) /\ (l # "sweep" => pending # {})
      BY <2>4
    <3>2. /\ \A q \in Proc \ {p} : pc'[q] = pc[q] /\ call'[q] = call[q]
          /\ call'[p].op = "recover" /\ pc'[p] = l
      <4>1. UNCHANGED call \/ \E e : call' = [call EXCEPT ![p].ev = e]
        BY <1>18, <3>1 DEF Roll, RollForward, Throw
      <4> QED
        BY <2>1, <3>1, <4>1 DEF Goto, TypeOK, Call
    <3>3. l # "sweep" => dir = "ready"
      BY <3>1 DEF LeftInv, Leftovers
    <3>4. Tracked(p)'
      BY <2>1, <2>2, <3>1, <3>2, <3>3 DEF Tracked, OwnFiles, Alone, InDir, HoldLabel, CommitLabel, disk
    <3> QED
      BY <2>1, <3>2, <3>4, LeftFrame DEF disk
  <2> QED
    BY <1>18, <2>1, <2>3, <2>4 DEF Roll, RollForward
<1>19. ASSUME NEW p \in Proc, Sweep(p) PROVE LeftInv'
  BY <1>19, LeftThrow DEF Sweep, Throw, HoldLabel
<1>20. ASSUME NEW p \in Proc, RebuildTmp(p) \/ RebuildMv(p) PROVE FALSE
  BY <1>0, <1>20 DEF RebuildTmp, RebuildMv, CreateTemp, RenameTemp, Judged
<1>21. ASSUME NEW p \in Proc, Crash(p) PROVE LeftInv'
  <2>1. pc[p] # "acquire" /\ pc[p] # "write_lock"
    BY <1>21 DEF Crash, Recoverable
  <2> QED
    BY <1>21, <2>1, LeftEnd DEF Crash, disk
<1>22. ASSUME NEW p \in Proc, IOError(p) PROVE LeftInv'
  <2>1. pc[p] \in {"snap_tmp", "snap_mv", "commit_tmp"}
    BY <1>22 DEF IOError, Recoverable
  <2>2. pc[p] \in CommitLabel /\ pc[p] \in HoldLabel \ {"write_lock"} /\ pc[p] \in LateLabel
    BY <2>1 DEF CommitLabel, HoldLabel, LateLabel
  <2>3. pending # {} /\ dir = "ready"
    BY <1>0, <1>8, <2>2 DEF Written
  <2>4. Throw(p) /\ UNCHANGED <<dir, lock, log>>
    BY <1>22, <2>1 DEF IOError, Rename, disk
  <2>5. pending' = pending
    BY <1>22, <2>1 DEF IOError, Rename, disk
  <2> QED
    BY <2>2, <2>3, <2>4, <2>5, LeftThrow
<1>23. ASSUME LockAges PROVE LeftInv'
  <2>1. /\ UNCHANGED <<dir, log, snap, pending, tmp, pc, call>> /\ lock # NoLock
        /\ lock' = [lock EXCEPT !.old = TRUE]
    BY <1>23 DEF LockAges
  <2>2. lock' # NoLock /\ lock'.owner = lock.owner /\ lock'.written = lock.written
    BY <2>1, ConstantsAssumption DEF TypeOK, Lock
  <2> QED
    BY <2>1, <2>2 DEF LeftInv, Leftovers, Tracked, OwnFiles, Alone, InDir, TempFile, ChainOK, ChainTo
<1>24. ASSUME UNCHANGED vars PROVE LeftInv'
  BY <1>24 DEF vars, disk, LeftInv, Leftovers, Tracked, OwnFiles, Alone, InDir, TempFile, ChainOK,
               ChainTo
<1> QED
  BY <1>1, <1>2, <1>3, <1>4, <1>5, <1>6, <1>7, <1>10, <1>13, <1>14, <1>15, <1>16, <1>17, <1>18,
     <1>19, <1>20, <1>21, <1>22, <1>23, <1>24 DEF Next, Step

\* When recover is run alone, nothing dies between a lock file and its contents
\* and no line of the log is cut short, no damage is silent or for good: at most one transaction is
\* interrupted and can be rolled forward, case.json is behind the log only
\* while an INTENT says so, and a case at rest is clean or recover acts on it.
THEOREM DamageIsSeen ==
    ASSUME Recoverable
    PROVE  Spec => []NoSilentDamage
<1> DEFINE Inv == TypeOK /\ LockInv /\ LogInv /\ CommitInv /\ LeftInv
<1>1. Init => Inv
  BY InitType, InitLock, InitLog, InitCommit, InitLeft
<1>2. Inv /\ [Next]_vars => Inv'
  BY StepType, StepLock, StepLog, StepCommit, StepLeft DEF Recoverable
<1>3. Inv => NoSilentDamage
  <2> SUFFICES ASSUME Inv PROVE NoSilentDamage
    OBVIOUS
  <2>1. PendingRollable /\ SnapshotCurrent
    BY DEF CommitInv, Tidy, PendingRollable, SnapshotCurrent
  <2>2. RecoveryOffered
    <3> SUFFICES ASSUME Quiet, snap # 0 \/ pending # {} PROVE Clean \/ RecoveryActs
      BY DEF RecoveryOffered
    <3>1. dir = "ready" /\ ChainOK(log)
      BY DEF LeftInv, Leftovers
    <3>2. ASSUME lock # NoLock PROVE lock.written /\ Stale
      <4>1. lock.owner \in Proc /\ lock.written \in BOOLEAN
        BY <3>2 DEF TypeOK, Lock
      <4>2. pc[lock.owner] \in {"idle", "dead"}
        BY <4>1 DEF Quiet, Busy
      <4>3. pc[lock.owner] = "dead" /\ lock.written
        BY <3>2, <4>1, <4>2 DEF LeftInv, Tracked, OwnFiles, HoldLabel, CommitLabel
      <4> QED
        BY <3>2, <4>3 DEF Stale, Alive, Quiet
    <3>3. CASE lock = NoLock /\ pending = {}
      <4>1. tmp = {}
        BY <3>3 DEF LeftInv, Leftovers, Quiet, Busy
      <4>2. snap = LastId(log)
        BY <3>3 DEF CommitInv, Tidy
      <4> QED
        BY <3>1, <3>3, <4>1, <4>2 DEF Clean
    <3>4. CASE lock # NoLock \/ pending # {}
      BY <3>1, <3>2, <3>4 DEF RecoveryActs
    <3> QED
      BY <3>3, <3>4
  <2> QED
    BY <2>1, <2>2 DEF NoSilentDamage
<1> QED
  BY <1>1, <1>2, <1>3, PTL DEF Spec
=============================================================================
