-------------------------- MODULE InstallationProofs --------------------------
(***************************************************************************)
(* Theorems about Installation: what holds for any number of operations at *)
(* once, for all paths, versions, installations, crashes and edits.        *)
(***************************************************************************)
EXTENDS Installation, TLAPS

-----------------------------------------------------------------------------
(* The inductive invariant. *)

Copying  == {"backup", "write", "snap"}
Applying == Copying \cup {"save", "publish", "complete"}
TxOf(p)  == tx[run[p].install]

\* An apply owns a transaction, and has taken a snapshot of all it has done.
Exact(p) ==
    /\ pc[p] = "begin" => run[p].todo = Lists(run[p].plan)
    /\ pc[p] \in Applying => run[p].install \in Install /\ TxOf(p).status # "none"
    /\ pc[p] \in Copying =>
          /\ run[p].todo \subseteq Lists(run[p].plan)
          /\ TxOf(p).saved = Nothing
          /\ \A f \in Path \ run[p].todo : TxOf(p).snap[f] = run[p].plan[f]
    /\ pc[p] \in {"write", "snap"} => run[p].cur \in run[p].todo
    /\ pc[p] \in {"save", "publish", "complete"} => TxOf(p).snap = run[p].plan
    /\ pc[p] = "save" => TxOf(p).saved = Nothing
    /\ pc[p] = "restore" \/ pc[p] = "recovered" => run[p].install \in Install

\* No two applies own the same transaction.
Distinct ==
    \A p, q \in Proc :
        pc[p] \in Applying /\ pc[q] \in Applying /\ p # q => run[p].install # run[q].install

IInv == TypeOK /\ SnapshotExact /\ (\A p \in Proc : Exact(p)) /\ Distinct

-----------------------------------------------------------------------------
(* Type correctness. *)

\* The contents that plans, snapshots and fresh transactions are made of.
LEMMA FilesType ==
    /\ Nothing \in Files
    /\ \A v \in Version : Ship(v) \in Files
    /\ \A fs \in Files : Lists(fs) \subseteq Path
    /\ \A fs \in Files, f \in Path, c \in Content \cup {"none"} : [fs EXCEPT ![f] = c] \in Files
  BY InstallationAssumption DEF Files, Nothing, Ship, Lists, Content

LEMMA ShipLists ==
    ASSUME NEW v \in Version PROVE Lists(Ship(v)) = Ships[v] /\ Ships[v] \subseteq Path
<1>1. Ships[v] \subseteq Path
  BY InstallationAssumption
<1> QED
  BY <1>1, InstallationAssumption DEF Lists, Ship

LEMMA StartedType ==
    ASSUME NEW fs \in SUBSET Path
    PROVE  /\ Started(fs) \in Tx
           /\ Started(fs).status = "STARTED" /\ Started(fs).files = fs
           /\ Started(fs).backup = Nothing /\ Started(fs).saved = Nothing
           /\ Started(fs).snap = Nothing
  BY FilesType DEF Started, NoTx, Tx

LEMMA RetainedType ==
    ASSUME TypeOK, NEW i \in Install
    PROVE  Retained(i) \in Files
<1>1. tx[i] \in Tx
  BY DEF TypeOK
<1>2. tx[i].snap \in Files
  BY <1>1 DEF Tx
<1> QED
  BY <1>2 DEF Retained, Files

LEMMA OperationType ==
    ASSUME NEW op \in {"update", "rollback", "recover", "setup"}, NEW i \in Install \cup {0},
           NEW plan \in Files, NEW remove \in SUBSET Path, NEW todo \in SUBSET Path
    PROVE  /\ Operation(op, i, plan, remove, todo) \in Run
           /\ Operation(op, i, plan, remove, todo).op = op
           /\ Operation(op, i, plan, remove, todo).install = i
           /\ Operation(op, i, plan, remove, todo).plan = plan
           /\ Operation(op, i, plan, remove, todo).todo = todo
<1>1. (CHOOSE f \in Path : TRUE) \in Path
  BY InstallationAssumption
<1> QED
  BY <1>1 DEF Operation, Run

LEMMA RunType ==
    ASSUME TypeOK, NEW p \in Proc, pc[p] # "idle"
    PROVE  /\ run[p] \in Run
           /\ run[p].plan \in Files /\ run[p].todo \subseteq Path /\ run[p].remove \subseteq Path
           /\ run[p].cur \in Path
  BY DEF TypeOK, Run

LEMMA TxType ==
    ASSUME TypeOK, NEW i \in Install
    PROVE  /\ tx[i] \in Tx
           /\ tx[i].files \subseteq Path /\ tx[i].backup \in Files
           /\ tx[i].snap \in Files /\ tx[i].saved \in Files
  BY DEF TypeOK, Tx

\* The processes' part of TypeOK.
ProcsOK ==
    /\ pc \in [Proc -> Where]
    /\ run \in [Proc -> Run \cup {NoRun}]
    /\ \A p \in Proc : run[p] = NoRun <=> pc[p] = "idle"

LEMMA GoOn ==
    ASSUME ProcsOK, NEW p \in Proc, NEW w \in Where \ {"idle"}, NEW r \in Run,
           Goto(p, w), run' = [run EXCEPT ![p] = r]
    PROVE  ProcsOK'
  BY InstallationAssumption DEF ProcsOK, Goto

LEMMA StopOK ==
    ASSUME ProcsOK, NEW p \in Proc, Stop(p) PROVE ProcsOK'
  BY DEF ProcsOK, Stop, Goto, Where

LEMMA GotoOK ==
    ASSUME ProcsOK, NEW p \in Proc, NEW w \in Where \ {"idle"}, pc[p] # "idle",
           Goto(p, w), UNCHANGED run
    PROVE  ProcsOK'
  BY DEF ProcsOK, Goto

LEMMA DoneOK ==
    ASSUME TypeOK, NEW p \in Proc, pc[p] # "idle", NEW f,
           NEW w \in Where \ {"idle"}, NEW v \in Where \ {"idle"}, Done(p, f, w, v)
    PROVE  ProcsOK'
<1>1. [run[p] EXCEPT !.todo = @ \ {f}] \in Run
  BY RunType DEF Run
<1>2. run' = [run EXCEPT ![p] = [run[p] EXCEPT !.todo = @ \ {f}]]
  BY DEF Done
<1>3. ProcsOK
  BY DEF TypeOK, ProcsOK
<1> QED
  BY <1>1, <1>2, <1>3, GoOn DEF Done

LEMMA LaunchOK ==
    ASSUME TypeOK, NEW p \in Proc, NEW w \in Where \ {"idle"}, NEW r \in Run, Launch(p, w, r)
    PROVE  TypeOK'
<1>1. ProcsOK
  BY DEF TypeOK, ProcsOK
<1>2. ProcsOK'
  BY <1>1, GoOn DEF Launch
<1> QED
  BY <1>2 DEF TypeOK, ProcsOK, Launch, disk, At

\* Whatever TypeOK says of the disk, a step that changes one thing keeps it.
LEMMA TxChange ==
    ASSUME TypeOK, NEW i \in Install, NEW t \in Tx, tx' = [tx EXCEPT ![i] = t]
    PROVE  tx' \in [Install -> Tx]
  BY DEF TypeOK

LEMMA TypedUpdate ==
    ASSUME TypeOK, NEW p \in Proc, NEW v \in Version, Update(p, v) PROVE TypeOK'
<1>1. Operation("update", 0, Ship(v), {}, Ships[v]) \in Run
  BY FilesType, ShipLists, OperationType
<1> QED
  BY <1>1, LaunchOK DEF Update, Where

LEMMA TypedSetup ==
    ASSUME TypeOK, NEW p \in Proc, NEW v \in Version, Setup(p, v) PROVE TypeOK'
<1>1. Operation("setup", 0, Ship(v), {}, Ships[v]) \in Run
  BY FilesType, ShipLists, OperationType
<1> QED
  BY <1>1, LaunchOK DEF Setup, Where

LEMMA TypedRollback ==
    ASSUME TypeOK, NEW p \in Proc, NEW i \in Install, Rollback(p, i) PROVE TypeOK'
<1>1. Retained(i) \in Files
  BY RetainedType
<1>2. manifest \in Files
  BY DEF TypeOK
<1>3. Lists(Retained(i)) \subseteq Path /\ Lists(manifest) \ Lists(Retained(i)) \subseteq Path
  BY <1>1, <1>2, FilesType
<1>4. Operation("rollback", 0, Retained(i), Lists(manifest) \ Lists(Retained(i)),
                Lists(Retained(i))) \in Run
  BY <1>1, <1>3, OperationType
<1> QED
  BY <1>4, LaunchOK DEF Rollback, Where

LEMMA TypedRecover ==
    ASSUME TypeOK, NEW p \in Proc, NEW i \in Install, Recover(p, i) PROVE TypeOK'
<1>1. Operation("recover", i, Nothing, {}, tx[i].files) \in Run
  BY TxType, FilesType, OperationType
<1> QED
  BY <1>1, LaunchOK DEF Recover, Where

LEMMA TypedBegin ==
    ASSUME TypeOK, NEW p \in Proc, Begin(p) PROVE TypeOK'
<1>1. PICK i \in Install :
        /\ tx' = [tx EXCEPT ![i] = Started(run[p].todo)]
        /\ before' = [before EXCEPT ![i] = file]
        /\ run' = [run EXCEPT ![p].install = i]
  BY DEF Begin
<1>2. pc[p] # "idle"
  BY DEF Begin, At
<1>3. Started(run[p].todo) \in Tx
  BY <1>2, RunType, StartedType
<1>4. [run[p] EXCEPT !.install = i] \in Run
  BY <1>2, RunType DEF Run
<1>5. ProcsOK'
  BY <1>1, <1>4, GoOn DEF Begin, TypeOK, ProcsOK, Where
<1> QED
  BY <1>1, <1>3, <1>5, TxChange DEF Begin, TypeOK, ProcsOK, At

LEMMA TypedBackup ==
    ASSUME TypeOK, NEW p \in Proc, run[p].install \in Install, Backup(p) PROVE TypeOK'
<1> DEFINE i == run[p].install
<1>1. PICK f \in run[p].todo :
        /\ tx' = [tx EXCEPT ![i].backup[f] = file[f]]
        /\ run' = [run EXCEPT ![p].cur = f]
        /\ Goto(p, "write")
        /\ UNCHANGED <<file, manifest, before>>
  BY DEF Backup
<1>2. pc[p] # "idle"
  BY DEF Backup, At
<1>3. f \in Path
  BY <1>2, RunType
<1>4. file[f] \in Content \cup {"none"}
  BY <1>3 DEF TypeOK, Files
<1>5. [tx[i].backup EXCEPT ![f] = file[f]] \in Files
  BY <1>3, <1>4, TxType, FilesType
<1>6. [tx[i] EXCEPT !.backup[f] = file[f]] \in Tx
  BY <1>5, TxType DEF Tx
<1>7. [run[p] EXCEPT !.cur = f] \in Run
  BY <1>2, <1>3, RunType DEF Run
<1>8. ProcsOK'
  BY <1>1, <1>7, GoOn DEF TypeOK, ProcsOK, Where
<1> QED
  BY <1>1, <1>6, <1>8, TxChange DEF Backup, TypeOK, ProcsOK, At

LEMMA TypedWrite ==
    ASSUME TypeOK, NEW p \in Proc, Write(p) PROVE TypeOK'
<1>1. pc[p] # "idle"
  BY DEF Write, At
<1>2. run[p].cur \in Path /\ run[p].plan[run[p].cur] \in Content \cup {"none"}
  BY <1>1, RunType DEF Files
<1>3. file' \in Files
  BY <1>2, FilesType DEF Write, TypeOK
<1>4. ProcsOK'
  BY <1>1, GotoOK DEF Write, TypeOK, ProcsOK, Where
<1> QED
  BY <1>3, <1>4 DEF Write, TypeOK, ProcsOK, At

LEMMA TypedSnap ==
    ASSUME TypeOK, NEW p \in Proc, run[p].install \in Install, Snap(p) PROVE TypeOK'
<1> DEFINE i == run[p].install
           f == run[p].cur
<1>1. pc[p] # "idle"
  BY DEF Snap, At
<1>2. f \in Path /\ run[p].plan[f] \in Content \cup {"none"}
  BY <1>1, RunType DEF Files
<1>3. [tx[i].snap EXCEPT ![f] = run[p].plan[f]] \in Files
  BY <1>2, TxType, FilesType
<1>4. [tx[i] EXCEPT !.snap[f] = run[p].plan[f]] \in Tx
  BY <1>3, TxType DEF Tx
<1>5. ProcsOK'
  BY <1>1, DoneOK DEF Snap, Where
<1> QED
  BY <1>4, <1>5, TxChange DEF Snap, TypeOK, ProcsOK, At

LEMMA TypedSave ==
    ASSUME TypeOK, NEW p \in Proc, run[p].install \in Install, Save(p) PROVE TypeOK'
<1>1. pc[p] # "idle"
  BY DEF Save, At
<1>2. [tx[run[p].install] EXCEPT !.saved = run[p].plan] \in Tx
  BY <1>1, RunType, TxType DEF Tx
<1>3. ProcsOK'
  BY <1>1, GotoOK DEF Save, TypeOK, ProcsOK, Where
<1> QED
  BY <1>2, <1>3, TxChange DEF Save, TypeOK, ProcsOK, At

LEMMA TypedPublish ==
    ASSUME TypeOK, NEW p \in Proc, Publish(p) PROVE TypeOK'
<1>1. pc[p] # "idle"
  BY DEF Publish, At
<1>2. ProcsOK'
  BY <1>1, GotoOK DEF Publish, TypeOK, ProcsOK, Where
<1> QED
  BY <1>1, <1>2, RunType DEF Publish, TypeOK, ProcsOK, At

LEMMA TypedComplete ==
    ASSUME TypeOK, NEW p \in Proc, run[p].install \in Install, Complete(p) PROVE TypeOK'
<1>1. pc[p] # "idle"
  BY DEF Complete, At
<1>2. [tx[run[p].install] EXCEPT !.status = "COMPLETE", !.files = {}] \in Tx
  BY TxType DEF Tx
<1>3. [run[p] EXCEPT !.todo = run[p].remove] \in Run
  BY <1>1, RunType DEF Run
<1>4. ProcsOK'
  BY <1>3, GoOn DEF Complete, TypeOK, ProcsOK, Where
<1> QED
  BY <1>2, <1>4, TxChange, FilesType DEF Complete, TypeOK, ProcsOK, At

LEMMA TypedRemove ==
    ASSUME TypeOK, NEW p \in Proc, Remove(p) PROVE TypeOK'
<1>1. pc[p] # "idle"
  BY DEF Remove, At
<1>2. PICK f \in run[p].todo :
        /\ file' = [file EXCEPT ![f] = "none"]
        /\ Done(p, f, "remove", "return")
        /\ UNCHANGED <<manifest, tx, before>>
  BY DEF Remove
<1>3. file' \in Files
  BY <1>1, <1>2, RunType, FilesType DEF TypeOK
<1>4. ProcsOK'
  BY <1>1, <1>2, DoneOK DEF Where
<1> QED
  BY <1>2, <1>3, <1>4 DEF Remove, TypeOK, ProcsOK, At

LEMMA TypedReturn ==
    ASSUME TypeOK, NEW p \in Proc, Return(p) PROVE TypeOK'
<1>1. ProcsOK'
  BY StopOK DEF Return, TypeOK, ProcsOK
<1> QED
  BY <1>1 DEF Return, TypeOK, ProcsOK, At, disk

LEMMA TypedRestore ==
    ASSUME TypeOK, NEW p \in Proc, run[p].install \in Install, Restore(p) PROVE TypeOK'
<1>1. pc[p] # "idle"
  BY DEF Restore, At
<1>2. PICK f \in run[p].todo :
        /\ file' = [file EXCEPT ![f] = tx[run[p].install].backup[f]]
        /\ Done(p, f, "restore", "recovered")
        /\ UNCHANGED <<manifest, tx, before>>
  BY DEF Restore
<1>3. f \in Path
  BY <1>1, RunType
<1>4. tx[run[p].install].backup[f] \in Content \cup {"none"}
  BY <1>3, TxType DEF Files
<1>5. file' \in Files
  BY <1>2, <1>3, <1>4, FilesType DEF TypeOK
<1>6. ProcsOK'
  BY <1>1, <1>2, DoneOK DEF Where
<1> QED
  BY <1>2, <1>5, <1>6 DEF Restore, TypeOK, ProcsOK, At

LEMMA TypedRecovered ==
    ASSUME TypeOK, NEW p \in Proc, run[p].install \in Install, Recovered(p) PROVE TypeOK'
<1>1. [tx[run[p].install] EXCEPT !.status = "RECOVERED"] \in Tx
  BY TxType DEF Tx
<1>2. ProcsOK'
  BY StopOK DEF Recovered, TypeOK, ProcsOK
<1> QED
  BY <1>1, <1>2, TxChange, FilesType DEF Recovered, TypeOK, ProcsOK, At

LEMMA TypedSetupFile ==
    ASSUME TypeOK, NEW p \in Proc, SetupFile(p) PROVE TypeOK'
<1>1. pc[p] # "idle"
  BY DEF SetupFile, At
<1>2. PICK f \in run[p].todo :
        /\ file' = [file EXCEPT ![f] = run[p].plan[f]]
        /\ Done(p, f, "setup", "finalize")
        /\ UNCHANGED <<manifest, tx, before>>
  BY DEF SetupFile
<1>3. f \in Path /\ run[p].plan[f] \in Content \cup {"none"}
  BY <1>1, RunType DEF Files
<1>4. file' \in Files
  BY <1>2, <1>3, FilesType DEF TypeOK
<1>5. ProcsOK'
  BY <1>1, <1>2, DoneOK DEF Where
<1> QED
  BY <1>2, <1>4, <1>5 DEF SetupFile, TypeOK, ProcsOK, At

LEMMA TypedFinalize ==
    ASSUME TypeOK, NEW p \in Proc, Finalize(p) PROVE TypeOK'
<1>1. pc[p] # "idle"
  BY DEF Finalize, At
<1>2. ProcsOK'
  BY StopOK DEF Finalize, TypeOK, ProcsOK
<1> QED
  BY <1>1, <1>2, RunType DEF Finalize, TypeOK, ProcsOK, At

LEMMA TypedCrash ==
    ASSUME TypeOK, NEW p \in Proc, pc[p] \in {"backup", "restore"} => run[p].install \in Install,
           Crash(p)
    PROVE  TypeOK'
<1>1. ProcsOK'
  BY StopOK DEF Crash, TypeOK, ProcsOK
<1>2. faults' \in 0..MaxFaults
  BY InstallationAssumption DEF Crash, Fault, TypeOK
<1>3. CASE UNCHANGED disk
  BY <1>1, <1>2, <1>3 DEF TypeOK, ProcsOK, disk
<1>4. CASE TornCopy(p)
  <2> DEFINE i == run[p].install
  <2>1. PICK f \in run[p].todo :
          \/ /\ pc[p] = "backup" /\ file[f] # "none"
             /\ tx' = [tx EXCEPT ![i].backup[f] = "torn"]
             /\ UNCHANGED file
          \/ /\ pc[p] = "restore" /\ tx[i].backup[f] # "none"
             /\ file' = [file EXCEPT ![f] = "torn"]
             /\ UNCHANGED tx
    BY <1>4 DEF TornCopy
  <2>2. f \in Path
    BY RunType DEF Crash
  <2>3. i \in Install
    BY <2>1
  <2>4. [tx[i].backup EXCEPT ![f] = "torn"] \in Files
    BY <2>2, <2>3, TxType, FilesType DEF Content
  <2>5. [tx[i] EXCEPT !.backup[f] = "torn"] \in Tx
    BY <2>3, <2>4, TxType DEF Tx
  <2>6. tx' \in [Install -> Tx]
    BY <2>1, <2>3, <2>5, TxChange DEF TypeOK
  <2>7. file' \in Files
    BY <2>1, <2>2, FilesType DEF TypeOK, Content
  <2> QED
    BY <1>1, <1>2, <1>4, <2>6, <2>7 DEF TornCopy, TypeOK, ProcsOK
<1> QED
  BY <1>3, <1>4 DEF Crash

LEMMA TypedEdit ==
    ASSUME TypeOK, Edit PROVE TypeOK'
<1>1. faults' \in 0..MaxFaults
  BY InstallationAssumption DEF Edit, Fault, TypeOK
<1>2. PICK f \in Path, c \in {"local", "none"} : file' = [file EXCEPT ![f] = c]
  BY DEF Edit
<1>3. file' \in Files
  BY <1>2, FilesType DEF TypeOK, Content
<1> QED
  BY <1>1, <1>3 DEF Edit, TypeOK, procs

-----------------------------------------------------------------------------
(* Any number of operations at once. *)

\* A step of p leaves the other processes alone, and the transactions too
\* that p does not own.
Others(p) == \A q \in Proc \ {p} : pc'[q] = pc[q] /\ run'[q] = run[q]

Apart(p) ==
    \A i \in Install :
        tx[i].status # "none" /\ (pc[p] \in Applying => i # run[p].install) =>
            /\ tx'[i].snap = tx[i].snap
            /\ tx'[i].saved = tx[i].saved
            /\ tx'[i].status # "none"

StaysOwner(p) ==
    pc'[p] \in Applying => pc[p] \in Applying /\ run'[p].install = run[p].install

LEMMA OthersExact ==
    ASSUME IInv, NEW p \in Proc, Others(p), Apart(p), NEW q \in Proc, q # p
    PROVE  Exact(q)'
<1>1. pc'[q] = pc[q] /\ run'[q] = run[q]
  BY DEF Others
<1>2. Exact(q)
  BY DEF IInv
<1>3. CASE pc[q] \in Applying
  <2>1. /\ TxOf(q)'.snap = TxOf(q).snap
        /\ TxOf(q)'.saved = TxOf(q).saved
        /\ TxOf(q)'.status # "none"
    BY <1>1, <1>2, <1>3 DEF Exact, Apart, IInv, Distinct, TxOf
  <2> QED
    BY <1>1, <1>2, <1>3, <2>1 DEF Exact
<1>4. CASE pc[q] \notin Applying
  BY <1>1, <1>2, <1>4 DEF Exact, Applying, Copying
<1> QED
  BY <1>3, <1>4

LEMMA IStep ==
    ASSUME IInv, NEW p \in Proc, TypeOK', Others(p), Apart(p), StaysOwner(p),
           Exact(p)', SnapshotExact'
    PROVE  IInv'
<1>1. \A q \in Proc : Exact(q)'
  BY OthersExact
<1>2. Distinct'
  BY DEF IInv, Distinct, Others, StaysOwner
<1> QED
  BY <1>1, <1>2 DEF IInv

\* A step that leaves the transactions alone.
LEMMA IStepNoTx ==
    ASSUME IInv, NEW p \in Proc, TypeOK', Others(p), UNCHANGED tx, StaysOwner(p), Exact(p)'
    PROVE  IInv'
<1>1. Apart(p)
  BY DEF Apart
<1>2. SnapshotExact'
  BY DEF IInv, SnapshotExact
<1> QED
  BY <1>1, <1>2, IStep

LEMMA GotoOthers ==
    ASSUME TypeOK, NEW p \in Proc, NEW w, Goto(p, w),
           \/ UNCHANGED run
           \/ \E r : run' = [run EXCEPT ![p] = r]
    PROVE  Others(p) /\ pc'[p] = w
  BY DEF TypeOK, Goto, Others

LEMMA StopOthers ==
    ASSUME TypeOK, NEW p \in Proc, Stop(p)
    PROVE  Others(p) /\ pc'[p] = "idle" /\ Exact(p)' /\ StaysOwner(p)
<1>1. Others(p) /\ pc'[p] = "idle"
  BY GotoOthers DEF Stop
<1> QED
  BY <1>1 DEF Exact, StaysOwner, Applying, Copying

LEMMA DoneOthers ==
    ASSUME TypeOK, NEW p \in Proc, pc[p] # "idle", NEW f, NEW w, NEW v, Done(p, f, w, v)
    PROVE  /\ Others(p)
           /\ pc'[p] = IF run[p].todo \ {f} = {} THEN v ELSE w
           /\ pc'[p] \in {w, v}
           /\ run'[p].todo = run[p].todo \ {f}
           /\ run'[p].plan = run[p].plan /\ run'[p].install = run[p].install
           /\ run'[p].op = run[p].op /\ run'[p].cur = run[p].cur
<1>1. run[p] \in Run
  BY RunType
<1>2. run' = [run EXCEPT ![p] = [run[p] EXCEPT !.todo = @ \ {f}]]
  BY DEF Done
<1>3. Others(p) /\ pc'[p] = IF run[p].todo \ {f} = {} THEN v ELSE w
  BY <1>2, GotoOthers DEF Done
<1>4. run'[p] = [run[p] EXCEPT !.todo = @ \ {f}]
  BY <1>2 DEF TypeOK
<1> QED
  BY <1>1, <1>3, <1>4 DEF Run

LEMMA LaunchStep ==
    ASSUME IInv, NEW p \in Proc, NEW w, NEW r, Launch(p, w, r), TypeOK',
           w \in {"begin", "setup", "restore"},
           w = "begin" => r.todo = Lists(r.plan),
           w = "restore" => r.install \in Install
    PROVE  IInv' /\ pc'[p] = w /\ run'[p] = r
<1>1. Others(p) /\ pc'[p] = w
  BY GotoOthers DEF Launch, IInv
<1>2. run'[p] = r
  BY DEF Launch, IInv, TypeOK
<1>3. Exact(p)' /\ StaysOwner(p)
  BY <1>1, <1>2 DEF Exact, StaysOwner, Applying, Copying, Lists
<1> QED
  BY <1>1, <1>2, <1>3, IStepNoTx DEF Launch, disk

LEMMA IUpdate ==
    ASSUME IInv, NEW p \in Proc, NEW v \in Version, Update(p, v) PROVE IInv'
<1>1. Ship(v) \in Files /\ Lists(Ship(v)) = Ships[v] /\ Ships[v] \subseteq Path
  BY FilesType, ShipLists
<1> QED
  BY <1>1, TypedUpdate, OperationType, LaunchStep DEF Update, IInv

LEMMA ISetup ==
    ASSUME IInv, NEW p \in Proc, NEW v \in Version, Setup(p, v) PROVE IInv'
  BY TypedSetup, LaunchStep DEF Setup, IInv

LEMMA IRollback ==
    ASSUME IInv, NEW p \in Proc, NEW i \in Install, Rollback(p, i) PROVE IInv'
<1>1. Retained(i) \in Files /\ manifest \in Files
  BY RetainedType DEF IInv, TypeOK
<1>2. Lists(Retained(i)) \subseteq Path /\ Lists(manifest) \ Lists(Retained(i)) \subseteq Path
  BY <1>1, FilesType
<1> DEFINE r == Operation("rollback", 0, Retained(i), Lists(manifest) \ Lists(Retained(i)),
                          Lists(Retained(i)))
<1>3. r.todo = Lists(r.plan)
  BY DEF Operation
<1>4. TypeOK'
  BY TypedRollback DEF IInv
<1>5. Launch(p, "begin", r)
  BY DEF Rollback
<1> HIDE DEF r
<1> QED
  BY <1>3, <1>4, <1>5, LaunchStep

LEMMA IRecover ==
    ASSUME IInv, NEW p \in Proc, NEW i \in Install, Recover(p, i) PROVE IInv'
<1>1. tx[i].files \subseteq Path
  BY TxType DEF IInv
<1> QED
  BY <1>1, FilesType, TypedRecover, OperationType, LaunchStep DEF Recover, IInv

LEMMA IBegin ==
    ASSUME IInv, NEW p \in Proc, Begin(p) PROVE IInv'
<1>1. PICK i \in Install :
        /\ tx[i].status = "none"
        /\ tx' = [tx EXCEPT ![i] = Started(run[p].todo)]
        /\ run' = [run EXCEPT ![p].install = i]
  BY DEF Begin
<1>2. TypeOK' /\ TypeOK /\ Exact(p) /\ pc[p] = "begin" /\ Distinct /\ SnapshotExact
  BY TypedBegin DEF IInv, Begin, At
<1>3. run[p] \in Run
  BY <1>2, RunType
<1>4. run' = [run EXCEPT ![p] = [run[p] EXCEPT !.install = i]]
  BY <1>1
<1>5. Others(p) /\ pc'[p] = "backup"
  BY <1>2, <1>4, GotoOthers DEF Begin
<1>6. /\ run'[p].install = i /\ run'[p].todo = Lists(run[p].plan)
      /\ run'[p].plan = run[p].plan
  BY <1>2, <1>3, <1>4 DEF Run, TypeOK, Exact
<1>7. /\ tx'[i].status = "STARTED" /\ tx'[i].saved = Nothing /\ tx'[i].snap = Nothing
      /\ \A j \in Install \ {i} : tx'[j] = tx[j]
  BY <1>1, <1>2, RunType, StartedType DEF TypeOK
<1>8. Apart(p)
  BY <1>1, <1>7 DEF Apart
<1>9. Exact(p)'
  <2>1. \A f \in Path \ Lists(run[p].plan) : run[p].plan[f] = "none" /\ Nothing[f] = "none"
    BY DEF Lists, Nothing
  <2>2. TxOf(p)' = tx'[i]
    BY <1>6 DEF TxOf
  <2> QED
    BY <1>5, <1>6, <1>7, <2>1, <2>2 DEF Exact, Applying, Copying, Lists
<1>10. \A q \in Proc : Exact(q)'
  BY <1>5, <1>8, <1>9, OthersExact
<1>11. \A q \in Proc \ {p} : pc[q] \in Applying => run[q].install # i
  BY <1>1 DEF IInv, Exact, TxOf
<1>12. Distinct'
  BY <1>2, <1>5, <1>6, <1>11 DEF Distinct, Others
<1>13. SnapshotExact'
  BY <1>2, <1>7 DEF SnapshotExact
<1> QED
  BY <1>2, <1>10, <1>12, <1>13 DEF IInv

LEMMA IBackup ==
    ASSUME IInv, NEW p \in Proc, Backup(p) PROVE IInv'
<1>1. PICK f \in run[p].todo :
        /\ tx' = [tx EXCEPT ![run[p].install].backup[f] = file[f]]
        /\ run' = [run EXCEPT ![p].cur = f]
        /\ Goto(p, "write")
  BY DEF Backup
<1>2. TypeOK' /\ TypeOK /\ Exact(p) /\ pc[p] = "backup" /\ SnapshotExact
  BY TypedBackup DEF IInv, Exact, Applying, Copying, Backup, At
<1>3. run[p] \in Run /\ run[p].install \in Install
  BY <1>2, RunType DEF Exact, Applying, Copying
<1>4. run' = [run EXCEPT ![p] = [run[p] EXCEPT !.cur = f]]
  BY <1>1
<1>5. Others(p) /\ pc'[p] = "write"
  BY <1>1, <1>2, <1>4, GotoOthers
<1>6. /\ run'[p].install = run[p].install /\ run'[p].todo = run[p].todo
      /\ run'[p].plan = run[p].plan /\ run'[p].cur = f
  BY <1>2, <1>3, <1>4 DEF Run, TypeOK
<1>7. \A j \in Install :
          tx'[j].snap = tx[j].snap /\ tx'[j].saved = tx[j].saved /\ tx'[j].status = tx[j].status
  BY <1>1, <1>2, <1>3, TxType DEF TypeOK, Tx
<1>8. Apart(p) /\ SnapshotExact'
  BY <1>2, <1>7 DEF Apart, SnapshotExact
<1>9. Exact(p)' /\ StaysOwner(p)
  BY <1>2, <1>3, <1>5, <1>6, <1>7 DEF Exact, StaysOwner, Applying, Copying, TxOf
<1> QED
  BY <1>2, <1>5, <1>8, <1>9, IStep

LEMMA IWrite ==
    ASSUME IInv, NEW p \in Proc, Write(p) PROVE IInv'
<1>1. TypeOK' /\ TypeOK /\ Exact(p) /\ pc[p] = "write"
  BY TypedWrite DEF IInv, Exact, Applying, Copying, Write, At
<1>2. Others(p) /\ pc'[p] = "snap" /\ run' = run /\ tx' = tx
  BY <1>1, GotoOthers DEF Write
<1>3. Exact(p)' /\ StaysOwner(p)
  BY <1>1, <1>2 DEF Exact, StaysOwner, Applying, Copying, TxOf
<1> QED
  BY <1>1, <1>2, <1>3, IStepNoTx

LEMMA ISnap ==
    ASSUME IInv, NEW p \in Proc, Snap(p) PROVE IInv'
<1> DEFINE f == run[p].cur
           i == run[p].install
<1>1. TypeOK' /\ TypeOK /\ Exact(p) /\ pc[p] = "snap" /\ SnapshotExact
  BY TypedSnap DEF IInv, Exact, Applying, Copying, Snap, At
<1>2. i \in Install /\ f \in run[p].todo /\ f \in Path /\ tx[i].status # "none"
  BY <1>1, RunType DEF Exact, Applying, Copying, TxOf
<1>0. Done(p, f, "backup", "save")
  BY DEF Snap
<1>3. /\ Others(p) /\ pc'[p] = IF run[p].todo \ {f} = {} THEN "save" ELSE "backup"
      /\ run'[p].todo = run[p].todo \ {f}
      /\ run'[p].plan = run[p].plan /\ run'[p].install = i
  <2>1. pc[p] # "idle" /\ TypeOK
    BY <1>1
  <2> HIDE DEF f
  <2> QED
    BY <1>0, <2>1, DoneOthers
<1>4. tx' = [tx EXCEPT ![i] = [tx[i] EXCEPT !.snap = [tx[i].snap EXCEPT ![f] = run[p].plan[f]]]]
  BY DEF Snap
<1>5. /\ \A j \in Install \ {i} : tx'[j] = tx[j]
      /\ tx'[i].saved = tx[i].saved /\ tx'[i].status = tx[i].status
      /\ tx'[i].snap = [tx[i].snap EXCEPT ![f] = run[p].plan[f]]
  BY <1>1, <1>2, <1>4, TxType DEF TypeOK, Tx
<1>6. tx[i].saved = Nothing
  BY <1>1 DEF Exact, Copying, TxOf
<1>7. Apart(p) /\ SnapshotExact'
  BY <1>1, <1>2, <1>5, <1>6 DEF Apart, SnapshotExact, Applying, Copying
<1>8. \A g \in Path \ run'[p].todo : tx'[i].snap[g] = run[p].plan[g]
  BY <1>1, <1>2, <1>3, <1>5, TxType DEF Exact, Copying, TxOf, Files
<1>9. run'[p].todo = {} => tx'[i].snap = run[p].plan
  <2>1. tx'[i].snap \in Files /\ run[p].plan \in Files
    BY <1>1, <1>2, TxType, RunType DEF TypeOK, Tx
  <2> QED
    BY <1>8, <2>1 DEF Files
<1>10. run'[p].todo \subseteq Lists(run[p].plan)
  BY <1>1, <1>3 DEF Exact, Copying
<1>11. Exact(p)' /\ StaysOwner(p)
  <2>1. TxOf(p)' = tx'[i]
    BY <1>3 DEF TxOf
  <2>2. CASE run[p].todo \ {f} = {}
    BY <1>2, <1>3, <1>5, <1>6, <1>9, <1>1, <2>1, <2>2
       DEF Exact, StaysOwner, Applying, Copying, Lists
  <2>3. CASE run[p].todo \ {f} # {}
    BY <1>2, <1>3, <1>5, <1>6, <1>8, <1>10, <1>1, <2>1, <2>3
       DEF Exact, StaysOwner, Applying, Copying, Lists
  <2> QED
    BY <2>2, <2>3
<1> QED
  BY <1>1, <1>3, <1>7, <1>11, IStep

LEMMA ISave ==
    ASSUME IInv, NEW p \in Proc, Save(p) PROVE IInv'
<1> DEFINE i == run[p].install
<1>1. TypeOK' /\ TypeOK /\ Exact(p) /\ pc[p] = "save" /\ SnapshotExact
  BY TypedSave DEF IInv, Exact, Applying, Copying, Save, At
<1>2. i \in Install /\ tx[i].status # "none" /\ tx[i].snap = run[p].plan
  BY <1>1 DEF Exact, Applying, Copying, TxOf
<1>3. Others(p) /\ pc'[p] = "publish" /\ run' = run
  BY <1>1, GotoOthers DEF Save
<1>4. tx' = [tx EXCEPT ![i] = [tx[i] EXCEPT !.saved = run[p].plan]]
  BY DEF Save
<1>5. /\ \A j \in Install \ {i} : tx'[j] = tx[j]
      /\ tx'[i].snap = tx[i].snap /\ tx'[i].status = tx[i].status
      /\ tx'[i].saved = run[p].plan
  BY <1>1, <1>2, <1>4, TxType DEF TypeOK, Tx
<1>6. Apart(p) /\ SnapshotExact'
  BY <1>1, <1>2, <1>5 DEF Apart, SnapshotExact, Applying, Copying
<1>7. Exact(p)' /\ StaysOwner(p)
  BY <1>1, <1>2, <1>3, <1>5 DEF Exact, StaysOwner, Applying, Copying, TxOf
<1> QED
  BY <1>1, <1>3, <1>6, <1>7, IStep

LEMMA IPublish ==
    ASSUME IInv, NEW p \in Proc, Publish(p) PROVE IInv'
<1>1. TypeOK' /\ TypeOK /\ Exact(p) /\ pc[p] = "publish"
  BY TypedPublish DEF IInv, Exact, Applying, Copying, Publish, At
<1>2. Others(p) /\ pc'[p] = "complete" /\ run' = run /\ tx' = tx
  BY <1>1, GotoOthers DEF Publish
<1>3. Exact(p)' /\ StaysOwner(p)
  BY <1>1, <1>2 DEF Exact, StaysOwner, Applying, Copying, TxOf
<1> QED
  BY <1>1, <1>2, <1>3, IStepNoTx

\* A transaction that is marked keeps its snapshots and its manifest.
LEMMA Marked ==
    ASSUME TypeOK, NEW i \in Install, NEW s \in {"COMPLETE", "RECOVERED"},
           \/ tx' = [tx EXCEPT ![i].status = s]
           \/ tx' = [tx EXCEPT ![i] = [@ EXCEPT !.status = s, !.files = {}]]
    PROVE  \A j \in Install :
               /\ tx'[j].snap = tx[j].snap /\ tx'[j].saved = tx[j].saved
               /\ tx[j].status # "none" => tx'[j].status # "none"
<1>1. \A j \in Install \ {i} : tx'[j] = tx[j]
  BY DEF TypeOK
<1>2. tx[i] \in Tx
  BY TxType
<1>3. CASE tx' = [tx EXCEPT ![i].status = s]
  <2>1. tx'[i] = [tx[i] EXCEPT !.status = s]
    BY <1>3 DEF TypeOK
  <2> QED
    BY <1>1, <1>2, <2>1 DEF Tx
<1>4. CASE tx' = [tx EXCEPT ![i] = [@ EXCEPT !.status = s, !.files = {}]]
  <2>1. tx'[i] = [tx[i] EXCEPT !.status = s, !.files = {}]
    BY <1>4 DEF TypeOK
  <2> QED
    BY <1>1, <1>2, <2>1 DEF Tx
<1> QED
  BY <1>3, <1>4

LEMMA IComplete ==
    ASSUME IInv, NEW p \in Proc, Complete(p) PROVE IInv'
<1> DEFINE i == run[p].install
           w == IF run[p].remove = {} THEN "return" ELSE "remove"
<1>1. TypeOK' /\ TypeOK /\ Exact(p) /\ pc[p] = "complete" /\ SnapshotExact
  BY TypedComplete DEF IInv, Exact, Applying, Copying, Complete, At
<1>2. i \in Install
  BY <1>1 DEF Exact, Applying, Copying
<1>3. run' = [run EXCEPT ![p] = [run[p] EXCEPT !.todo = run[p].remove]]
  BY DEF Complete
<1>4. Others(p) /\ pc'[p] = w
  BY <1>1, <1>3, GotoOthers DEF Complete
<1>5. \A j \in Install :
          /\ tx'[j].snap = tx[j].snap /\ tx'[j].saved = tx[j].saved
          /\ tx[j].status # "none" => tx'[j].status # "none"
  BY <1>1, <1>2, Marked DEF Complete
<1>6. Apart(p) /\ SnapshotExact'
  BY <1>1, <1>5 DEF Apart, SnapshotExact
<1>7. Exact(p)' /\ StaysOwner(p)
  BY <1>4 DEF Exact, StaysOwner, Applying, Copying
<1> QED
  BY <1>1, <1>4, <1>6, <1>7, IStep

LEMMA IRemove ==
    ASSUME IInv, NEW p \in Proc, Remove(p) PROVE IInv'
<1>1. TypeOK' /\ TypeOK /\ pc[p] = "remove"
  BY TypedRemove DEF IInv, Remove, At
<1>2. PICK f \in Path : Done(p, f, "remove", "return") /\ UNCHANGED tx
  BY <1>1, RunType DEF Remove
<1>3. Others(p) /\ pc'[p] \in {"remove", "return"}
  <2>1. pc[p] # "idle" /\ Done(p, f, "remove", "return")
    BY <1>1, <1>2
  <2> QED
    BY <1>1, <2>1, DoneOthers
<1>4. Exact(p)' /\ StaysOwner(p)
  BY <1>3 DEF Exact, StaysOwner, Applying, Copying
<1> QED
  BY <1>1, <1>2, <1>3, <1>4, IStepNoTx

LEMMA IReturn ==
    ASSUME IInv, NEW p \in Proc, Return(p) PROVE IInv'
<1>1. TypeOK' /\ TypeOK
  BY TypedReturn DEF IInv
<1> QED
  BY <1>1, StopOthers, IStepNoTx DEF Return, disk

LEMMA IRestore ==
    ASSUME IInv, NEW p \in Proc, Restore(p) PROVE IInv'
<1>1. TypeOK' /\ TypeOK /\ pc[p] = "restore" /\ run[p].install \in Install
  BY TypedRestore DEF IInv, Exact, Restore, At
<1>2. PICK f \in Path : Done(p, f, "restore", "recovered") /\ UNCHANGED tx
  BY <1>1, RunType DEF Restore
<1>3. /\ Others(p) /\ pc'[p] \in {"restore", "recovered"}
      /\ run'[p].install = run[p].install
  <2>1. pc[p] # "idle" /\ Done(p, f, "restore", "recovered")
    BY <1>1, <1>2
  <2> QED
    BY <1>1, <2>1, DoneOthers
<1>4. Exact(p)' /\ StaysOwner(p)
  BY <1>1, <1>3 DEF Exact, StaysOwner, Applying, Copying
<1> QED
  BY <1>1, <1>2, <1>3, <1>4, IStepNoTx

LEMMA IRecovered ==
    ASSUME IInv, NEW p \in Proc, Recovered(p) PROVE IInv'
<1>1. TypeOK' /\ TypeOK /\ run[p].install \in Install /\ SnapshotExact
  BY TypedRecovered DEF IInv, Exact, Recovered, At
<1>2. \A j \in Install :
          /\ tx'[j].snap = tx[j].snap /\ tx'[j].saved = tx[j].saved
          /\ tx[j].status # "none" => tx'[j].status # "none"
  BY <1>1, Marked DEF Recovered
<1>3. Apart(p) /\ SnapshotExact'
  BY <1>1, <1>2 DEF Apart, SnapshotExact
<1> QED
  BY <1>1, <1>3, StopOthers, IStep DEF Recovered

LEMMA ISetupFile ==
    ASSUME IInv, NEW p \in Proc, SetupFile(p) PROVE IInv'
<1>1. TypeOK' /\ TypeOK /\ pc[p] = "setup"
  BY TypedSetupFile DEF IInv, SetupFile, At
<1>2. PICK f \in Path : Done(p, f, "setup", "finalize") /\ UNCHANGED tx
  BY <1>1, RunType DEF SetupFile
<1>3. Others(p) /\ pc'[p] \in {"setup", "finalize"}
  <2>1. pc[p] # "idle" /\ Done(p, f, "setup", "finalize")
    BY <1>1, <1>2
  <2> QED
    BY <1>1, <2>1, DoneOthers
<1>4. Exact(p)' /\ StaysOwner(p)
  BY <1>3 DEF Exact, StaysOwner, Applying, Copying
<1> QED
  BY <1>1, <1>2, <1>3, <1>4, IStepNoTx

LEMMA IFinalize ==
    ASSUME IInv, NEW p \in Proc, Finalize(p) PROVE IInv'
<1>1. TypeOK' /\ TypeOK
  BY TypedFinalize DEF IInv
<1> QED
  BY <1>1, StopOthers, IStepNoTx DEF Finalize

LEMMA ICrash ==
    ASSUME IInv, NEW p \in Proc, Crash(p) PROVE IInv'
<1>1. pc[p] \in {"backup", "restore"} => run[p].install \in Install
  BY DEF IInv, Exact, Applying, Copying
<1>2. TypeOK' /\ TypeOK /\ SnapshotExact
  BY <1>1, TypedCrash DEF IInv
<1>3. \A j \in Install :
          tx'[j].snap = tx[j].snap /\ tx'[j].saved = tx[j].saved /\ tx'[j].status = tx[j].status
  <2>1. CASE UNCHANGED disk
    BY <2>1 DEF disk
  <2>2. CASE TornCopy(p)
    <3>1. CASE UNCHANGED tx
      BY <3>1
    <3>2. CASE /\ pc[p] = "backup"
               /\ \E f \in Path : tx' = [tx EXCEPT ![run[p].install].backup[f] = "torn"]
      BY <1>1, <1>2, <3>2, TxType DEF TypeOK, Tx
    <3> QED
      BY <1>2, <2>2, <3>1, <3>2, RunType DEF TornCopy
  <2> QED
    BY <2>1, <2>2 DEF Crash
<1>4. Apart(p) /\ SnapshotExact'
  BY <1>2, <1>3 DEF Apart, SnapshotExact
<1> QED
  BY <1>2, <1>4, StopOthers, IStep DEF Crash

LEMMA IEdit ==
    ASSUME IInv, Edit PROVE IInv'
  BY TypedEdit DEF IInv, Edit, procs, SnapshotExact, Exact, Distinct, TxOf

LEMMA IStutter ==
    ASSUME IInv, UNCHANGED vars PROVE IInv'
  BY DEF IInv, vars, disk, procs, TypeOK, SnapshotExact, Exact, Distinct, TxOf, Lists

LEMMA IInit ==
    ASSUME Init PROVE IInv
  BY FilesType, InstallationAssumption
     DEF Init, IInv, TypeOK, SnapshotExact, Exact, Distinct, Applying, Copying, NoTx, Tx, Where

\* IInv is inductive, one lemma for each action.
LEMMA INext ==
    ASSUME IInv, [Next]_vars PROVE IInv'
<1>1. ASSUME NEW p \in Proc, Step(p) PROVE IInv'
  BY <1>1, IBegin, IBackup, IWrite, ISnap, ISave, IPublish, IComplete, IRemove, IReturn,
     IRestore, IRecovered, ISetupFile, IFinalize DEF Step
<1>2. ASSUME NEW p \in Proc, NEW v \in Version, Update(p, v) \/ Setup(p, v) PROVE IInv'
  BY <1>2, IUpdate, ISetup
<1>3. ASSUME NEW p \in Proc, NEW i \in Install, Rollback(p, i) \/ Recover(p, i) PROVE IInv'
  BY <1>3, IRollback, IRecover
<1> QED
  BY <1>1, <1>2, <1>3, ICrash, IEdit, IStutter DEF Next

LEMMA Invariant == Spec => []IInv
<1>1. Init => IInv
  BY IInit
<1>2. IInv /\ [Next]_vars => IInv'
  BY INext
<1> QED
  BY <1>1, <1>2, PTL DEF Spec

\* Every variable has its type: whatever the number of operations at once.
THEOREM InstallationTyped == Spec => []TypeOK
<1>1. IInv => TypeOK
  BY DEF IInv
<1> QED
  BY <1>1, Invariant, PTL

\* Any installation whose manifest was saved has exactly the files it lists in
\* its snapshots, whatever other operations run, die or are recovered.
THEOREM SnapshotsAreExact == Spec => []SnapshotExact
<1>1. IInv => SnapshotExact
  BY DEF IInv
<1> QED
  BY <1>1, Invariant, PTL

-----------------------------------------------------------------------------
(* One operation at a time: nothing is lost and the status is honest. *)

\* The hypothesis of what follows.  Installations take no lock.
Alone == \A p, q \in Proc : p = q

\* The files an apply has not replaced yet.
Left(p) == IF pc[p] = "snap" THEN run[p].todo \ {run[p].cur} ELSE run[p].todo

\* A backup is of the file as it was when the transaction began, unless it was
\* not made yet or was cut short.
Backs(t, b) ==
    t.status = "STARTED" =>
        \A f \in t.files :
            \/ t.backup[f] = b[f]
            \/ t.backup[f] \in {"none", "torn"} /\ b[f] # "none"

BackedUp == \A i \in Install : Backs(tx[i], before[i])

\* Before its replacement a file is as the transaction found it, and as an update
\* compared it with the manifest; afterwards it is as planned; and a recover has
\* put back all but what is left to do.
Sound(p) ==
    /\ pc[p] \in Applying => TxOf(p).status = "STARTED"
    /\ pc[p] \in Copying \cup {"begin"} /\ run[p].op = "update" =>
          \A f \in Left(p) \cap Lists(manifest) : file[f] = manifest[f]
    /\ pc[p] \in Copying =>
          /\ \A f \in Left(p) : file[f] = before[run[p].install][f]
          /\ \A f \in Lists(run[p].plan) \ Left(p) : file[f] = run[p].plan[f]
    /\ pc[p] = "write" => TxOf(p).backup[run[p].cur] = file[run[p].cur]
    /\ pc[p] \in {"save", "publish", "complete"} =>
          \A f \in Lists(run[p].plan) : file[f] = run[p].plan[f]
    /\ pc[p] \in {"publish", "complete"} => TxOf(p).saved = run[p].plan
    /\ pc[p] = "complete" => manifest = run[p].plan
    /\ pc[p] \in {"restore", "recovered"} =>
          \A f \in TxOf(p).files \ run[p].todo : file[f] = TxOf(p).backup[f]
    /\ pc[p] = "recovered" => run[p].todo = {}

\* Nothing is asked of a process that is not applying or recovering.
Calm == {"idle", "remove", "return", "setup", "finalize"}

LEMMA CalmSound ==
    ASSUME NEW p \in Proc, pc[p] \in Calm PROVE Sound(p)
  BY DEF Sound, Calm, Applying, Copying

\* A backup that is not of the transaction at hand stays good.
LEMMA OtherBackups ==
    ASSUME TypeOK, BackedUp, NEW i \in Install, NEW t, NEW b,
           tx' = [tx EXCEPT ![i] = t], before' = [before EXCEPT ![i] = b], Backs(t, b)
    PROVE  BackedUp'
  BY DEF TypeOK, BackedUp

LEMMA SameBefore ==
    ASSUME TypeOK, NEW i \in Install, UNCHANGED before
    PROVE  before' = [before EXCEPT ![i] = before[i]]
  BY DEF TypeOK

LEMMA SUpdate ==
    ASSUME IInv, NEW p \in Proc, NEW v \in Version, Update(p, v) PROVE Sound(p)'
<1> DEFINE r == Operation("update", 0, Ship(v), {}, Ships[v])
<1>1. Ship(v) \in Files /\ Lists(Ship(v)) = Ships[v] /\ Ships[v] \subseteq Path
  BY FilesType, ShipLists
<1>2. Launch(p, "begin", r) /\ Conflicts = {} /\ TypeOK'
  BY TypedUpdate DEF Update, IInv
<1>3. pc'[p] = "begin" /\ UNCHANGED disk
  BY <1>2, GotoOthers DEF Launch, IInv
<1>4. \A f \in Lists(manifest) : file[f] = manifest[f]
  BY <1>2 DEF Conflicts
<1> QED
  BY <1>3, <1>4 DEF Sound, Applying, Copying, disk, Lists, Left

LEMMA SSetup ==
    ASSUME IInv, NEW p \in Proc, NEW v \in Version, Setup(p, v) PROVE Sound(p)'
<1>1. pc'[p] = "setup"
  BY GotoOthers DEF Setup, Launch, IInv
<1> QED
  BY <1>1 DEF Sound, Applying, Copying

LEMMA SRollback ==
    ASSUME IInv, NEW p \in Proc, NEW i \in Install, Rollback(p, i) PROVE Sound(p)'
<1>1. pc'[p] = "begin"
  BY GotoOthers DEF Rollback, Launch, IInv
<1>2. run'[p].op = "rollback"
  BY DEF Rollback, Launch, IInv, TypeOK, Operation
<1> QED
  BY <1>1, <1>2 DEF Sound, Applying, Copying

LEMMA SRecover ==
    ASSUME IInv, NEW p \in Proc, NEW i \in Install, Recover(p, i) PROVE Sound(p)'
<1>1. pc'[p] = "restore" /\ UNCHANGED tx
  BY GotoOthers DEF Recover, Launch, IInv, disk
<1>2. run'[p].install = i /\ run'[p].todo = tx[i].files
  BY DEF Recover, Launch, IInv, TypeOK, Operation
<1> QED
  BY <1>1, <1>2 DEF Sound, Applying, Copying, TxOf

LEMMA SBegin ==
    ASSUME IInv, BackedUp, NEW p \in Proc, Sound(p), Begin(p) PROVE BackedUp' /\ Sound(p)'
<1>1. PICK i \in Install :
        /\ tx' = [tx EXCEPT ![i] = Started(run[p].todo)]
        /\ before' = [before EXCEPT ![i] = file]
        /\ run' = [run EXCEPT ![p].install = i]
  BY DEF Begin
<1>2. TypeOK /\ Exact(p) /\ pc[p] = "begin" /\ UNCHANGED <<file, manifest>>
  BY DEF IInv, Begin, At
<1>3. run[p] \in Run
  BY <1>2, RunType
<1>4. run' = [run EXCEPT ![p] = [run[p] EXCEPT !.install = i]]
  BY <1>1
<1>5. pc'[p] = "backup"
  BY <1>2, <1>4, GotoOthers DEF Begin
<1>6. /\ run'[p].install = i /\ run'[p].todo = Lists(run[p].plan)
      /\ run'[p].plan = run[p].plan /\ run'[p].op = run[p].op /\ run[p].todo = Lists(run[p].plan)
  BY <1>2, <1>3, <1>4 DEF Run, TypeOK, Exact
<1> DEFINE t == Started(run[p].todo)
<1>7. t.status = "STARTED" /\ t.backup = Nothing /\ t.files \subseteq Path
  BY <1>2, RunType, StartedType
<1>8. Backs(t, file)
  <2> HIDE DEF t
  <2> QED
    BY <1>7 DEF Backs, Nothing
<1>9. BackedUp'
  BY <1>1, <1>2, <1>8, OtherBackups
<1>10. TxOf(p)' = t /\ before'[run'[p].install] = file
  BY <1>1, <1>2, <1>6 DEF TxOf, TypeOK
<1>11. Sound(p)'
  BY <1>2, <1>5, <1>6, <1>7, <1>10 DEF Sound, Applying, Copying, Lists, Left
<1> QED
  BY <1>9, <1>11

LEMMA SBackup ==
    ASSUME IInv, BackedUp, NEW p \in Proc, Sound(p), Backup(p) PROVE BackedUp' /\ Sound(p)'
<1> DEFINE i == run[p].install
<1>1. PICK f \in run[p].todo :
        /\ tx' = [tx EXCEPT ![i].backup[f] = file[f]]
        /\ run' = [run EXCEPT ![p].cur = f]
        /\ Goto(p, "write")
  BY DEF Backup
<1>2. TypeOK /\ Exact(p) /\ pc[p] = "backup" /\ UNCHANGED <<file, manifest, before>>
  BY DEF IInv, Backup, At
<1>3. run[p] \in Run /\ i \in Install /\ tx[i] \in Tx /\ f \in Path
  BY <1>2, RunType, TxType DEF Exact, Applying, Copying
<1>4. run' = [run EXCEPT ![p] = [run[p] EXCEPT !.cur = f]]
  BY <1>1
<1>5. pc'[p] = "write"
  BY <1>1, <1>2, <1>4, GotoOthers
<1>6. /\ run'[p].install = i /\ run'[p].todo = run[p].todo /\ run'[p].op = run[p].op
      /\ run'[p].plan = run[p].plan /\ run'[p].cur = f
  BY <1>2, <1>3, <1>4 DEF Run, TypeOK
<1> DEFINE t == [tx[i] EXCEPT !.backup = [@ EXCEPT ![f] = file[f]]]
<1>7. /\ t.status = "STARTED" /\ t.files = tx[i].files
      /\ t.backup = [tx[i].backup EXCEPT ![f] = file[f]]
  BY <1>2, <1>3 DEF Sound, Applying, Copying, TxOf, Tx
<1>8. tx[i].backup \in Files /\ tx[i].files \subseteq Path /\ file[f] = before[i][f]
  BY <1>2, <1>3, TxType DEF Sound, Copying, Left
<1>9. Backs(t, before[i])
  BY <1>2, <1>3, <1>7, <1>8 DEF Backs, BackedUp, Sound, Applying, Copying, TxOf, Files
<1>10. tx' = [tx EXCEPT ![i] = t]
  BY <1>1
<1>11. BackedUp'
  BY <1>2, <1>3, <1>9, <1>10, OtherBackups, SameBefore
<1>12. TxOf(p)' = t
  BY <1>2, <1>3, <1>6, <1>10 DEF TxOf, TypeOK
<1>13. t.backup[f] = file[f]
  BY <1>3, <1>7, <1>8 DEF Files
<1> HIDE DEF t
<1>14. Left(p)' = Left(p) /\ Left(p) = run[p].todo
  BY <1>2, <1>5, <1>6 DEF Left
<1>15. Sound(p)'
  <2>1. TxOf(p)'.status = "STARTED" /\ TxOf(p)'.backup[run'[p].cur] = file'[run'[p].cur]
    BY <1>2, <1>6, <1>7, <1>12, <1>13
  <2>2. run'[p].op = "update" =>
            \A g \in Left(p)' \cap Lists(manifest)' : file'[g] = manifest'[g]
    BY <1>2, <1>6, <1>14 DEF Sound, Copying, Lists
  <2>3. /\ \A g \in Left(p)' : file'[g] = before'[run'[p].install][g]
        /\ \A g \in Lists(run'[p].plan) \ Left(p)' : file'[g] = run'[p].plan[g]
    BY <1>2, <1>6, <1>14 DEF Sound, Copying
  <2> QED
    BY <1>5, <2>1, <2>2, <2>3 DEF Sound, Lists
<1> QED
  BY <1>11, <1>15

LEMMA SWrite ==
    ASSUME IInv, BackedUp, NEW p \in Proc, Sound(p), Write(p) PROVE BackedUp' /\ Sound(p)'
<1> DEFINE f == run[p].cur
<1>1. TypeOK /\ Exact(p) /\ pc[p] = "write" /\ UNCHANGED <<manifest, tx, before, run>>
  BY DEF IInv, Write, At
<1>2. f \in Path /\ f \in run[p].todo /\ file \in Files
  BY <1>1, RunType DEF Exact, TypeOK
<1>3. pc'[p] = "snap"
  BY <1>1, GotoOthers DEF Write
<1>4. file'[f] = run[p].plan[f] /\ \A g \in Path \ {f} : file'[g] = file[g]
  BY <1>2 DEF Write, Files
<1>5. Left(p) = run[p].todo /\ Left(p)' = run[p].todo \ {f}
  BY <1>1, <1>3 DEF Left
<1>6. run[p].todo \subseteq Path /\ Lists(run[p].plan) \subseteq Path
  BY <1>1, RunType, FilesType
<1>7. BackedUp'
  BY <1>1 DEF BackedUp
<1>8. Sound(p)'
  BY <1>1, <1>2, <1>3, <1>4, <1>5, <1>6 DEF Sound, Applying, Copying, TxOf, Lists
<1> QED
  BY <1>7, <1>8

LEMMA SSnap ==
    ASSUME IInv, BackedUp, NEW p \in Proc, Sound(p), Snap(p) PROVE BackedUp' /\ Sound(p)'
<1> DEFINE f == run[p].cur
           i == run[p].install
<1>1. TypeOK /\ Exact(p) /\ pc[p] = "snap" /\ UNCHANGED <<file, manifest, before>>
  BY DEF IInv, Snap, At
<1>2. i \in Install /\ f \in Path /\ tx[i] \in Tx
  BY <1>1, RunType, TxType DEF Exact, Applying, Copying
<1>3. Done(p, f, "backup", "save")
  BY DEF Snap
<1>4. /\ pc'[p] = IF run[p].todo \ {f} = {} THEN "save" ELSE "backup"
      /\ run'[p].todo = run[p].todo \ {f} /\ run'[p].op = run[p].op
      /\ run'[p].plan = run[p].plan /\ run'[p].install = i
  <2>1. pc[p] # "idle" /\ TypeOK
    BY <1>1
  <2> HIDE DEF f
  <2> QED
    BY <1>3, <2>1, DoneOthers
<1> DEFINE t == [tx[i] EXCEPT !.snap = [@ EXCEPT ![f] = run[p].plan[f]]]
<1>5. /\ t.status = "STARTED" /\ t.files = tx[i].files /\ t.backup = tx[i].backup
  BY <1>1, <1>2 DEF Sound, Applying, Copying, TxOf, Tx
<1>6. Backs(t, before[i])
  BY <1>1, <1>2, <1>5 DEF Backs, BackedUp, Sound, Applying, Copying, TxOf
<1>7. tx' = [tx EXCEPT ![i] = t]
  BY DEF Snap
<1>8. BackedUp'
  BY <1>1, <1>2, <1>6, <1>7, OtherBackups, SameBefore
<1>9. TxOf(p)' = t
  BY <1>1, <1>2, <1>4, <1>7 DEF TxOf, TypeOK
<1> HIDE DEF t
<1>10. Left(p)' = Left(p) /\ Left(p) = run'[p].todo
  BY <1>1, <1>4 DEF Left
<1>11. Sound(p)'
  <2>1. CASE run[p].todo \ {f} = {}
    BY <1>1, <1>4, <1>5, <1>9, <1>10, <2>1 DEF Sound, Applying, Copying, Lists
  <2>2. CASE run[p].todo \ {f} # {}
    BY <1>1, <1>4, <1>5, <1>9, <1>10, <2>2 DEF Sound, Applying, Copying, Lists
  <2> QED
    BY <2>1, <2>2
<1> QED
  BY <1>8, <1>11

LEMMA SSave ==
    ASSUME IInv, BackedUp, NEW p \in Proc, Sound(p), Save(p) PROVE BackedUp' /\ Sound(p)'
<1> DEFINE i == run[p].install
<1>1. TypeOK /\ Exact(p) /\ pc[p] = "save" /\ UNCHANGED <<file, manifest, before, run>>
  BY DEF IInv, Save, At
<1>2. i \in Install /\ tx[i] \in Tx
  BY <1>1, TxType DEF Exact, Applying, Copying
<1>3. pc'[p] = "publish"
  BY <1>1, GotoOthers DEF Save
<1> DEFINE t == [tx[i] EXCEPT !.saved = run[p].plan]
<1>4. /\ t.status = "STARTED" /\ t.files = tx[i].files /\ t.backup = tx[i].backup
      /\ t.saved = run[p].plan
  BY <1>1, <1>2 DEF Sound, Applying, Copying, TxOf, Tx
<1>5. Backs(t, before[i])
  BY <1>1, <1>2, <1>4 DEF Backs, BackedUp, Sound, Applying, Copying, TxOf
<1>6. tx' = [tx EXCEPT ![i] = t]
  BY DEF Save
<1>7. BackedUp'
  BY <1>1, <1>2, <1>5, <1>6, OtherBackups, SameBefore
<1>8. TxOf(p)' = t
  BY <1>1, <1>2, <1>6 DEF TxOf, TypeOK
<1> HIDE DEF t
<1>9. Sound(p)'
  BY <1>1, <1>3, <1>4, <1>8 DEF Sound, Applying, Copying, Lists
<1> QED
  BY <1>7, <1>9

LEMMA SPublish ==
    ASSUME IInv, BackedUp, NEW p \in Proc, Sound(p), Publish(p) PROVE BackedUp' /\ Sound(p)'
<1>1. /\ TypeOK /\ pc[p] = "publish" /\ UNCHANGED <<file, tx, before, run>>
      /\ manifest' = run[p].plan
  BY DEF IInv, Publish, At
<1>2. pc'[p] = "complete"
  BY <1>1, GotoOthers DEF Publish
<1> QED
  BY <1>1, <1>2 DEF BackedUp, Sound, Applying, Copying, TxOf, Lists

LEMMA SComplete ==
    ASSUME IInv, BackedUp, NEW p \in Proc, Complete(p) PROVE BackedUp' /\ Sound(p)'
<1> DEFINE i == run[p].install
           w == IF run[p].remove = {} THEN "return" ELSE "remove"
           t == [tx[i] EXCEPT !.status = "COMPLETE", !.files = {}]
<1>1. TypeOK /\ Exact(p) /\ pc[p] = "complete"
  BY DEF IInv, Complete, At
<1>2. i \in Install /\ tx[i] \in Tx
  BY <1>1, TxType DEF Exact, Applying, Copying
<1>3. t.status = "COMPLETE"
  BY <1>2 DEF Tx
<1>4. tx' = [tx EXCEPT ![i] = t] /\ before' = [before EXCEPT ![i] = Nothing]
  BY DEF Complete
<1>5. BackedUp'
  BY <1>1, <1>2, <1>3, <1>4, OtherBackups DEF Backs
<1>6. pc'[p] \in Calm
  BY <1>1, GotoOthers DEF Complete, Calm
<1> QED
  BY <1>5, <1>6, CalmSound DEF Sound, Calm, Applying, Copying

LEMMA SRestore ==
    ASSUME IInv, BackedUp, NEW p \in Proc, Sound(p), Restore(p) PROVE BackedUp' /\ Sound(p)'
<1>1. TypeOK /\ Exact(p) /\ pc[p] = "restore" /\ UNCHANGED <<manifest, tx, before>>
  BY DEF IInv, Restore, At
<1>2. run[p].install \in Install /\ run[p].todo \subseteq Path
  BY <1>1, RunType DEF Exact
<1>3. PICK f \in run[p].todo :
        /\ file' = [file EXCEPT ![f] = tx[run[p].install].backup[f]]
        /\ Done(p, f, "restore", "recovered")
  BY DEF Restore
<1>4. /\ pc'[p] = IF run[p].todo \ {f} = {} THEN "recovered" ELSE "restore"
      /\ pc'[p] \in {"restore", "recovered"}
      /\ run'[p].todo = run[p].todo \ {f} /\ run'[p].install = run[p].install
  BY <1>1, <1>3, DoneOthers
<1>5. TxOf(p)' = TxOf(p) /\ TxOf(p).files \subseteq Path /\ f \in Path
  BY <1>1, <1>2, <1>4, TxType DEF TxOf
<1>6. file'[f] = TxOf(p).backup[f] /\ \A g \in Path \ {f} : file'[g] = file[g]
  BY <1>1, <1>3, <1>5 DEF TypeOK, Files, TxOf
<1>7. \A g \in TxOf(p).files \ run'[p].todo : file'[g] = TxOf(p).backup[g]
  BY <1>1, <1>4, <1>5, <1>6 DEF Sound
<1>8. pc'[p] = "recovered" => run'[p].todo = {}
  BY <1>4
<1>9. Sound(p)'
  BY <1>4, <1>5, <1>7, <1>8 DEF Sound, Applying, Copying
<1> QED
  BY <1>1, <1>9 DEF BackedUp

LEMMA SRecovered ==
    ASSUME IInv, BackedUp, NEW p \in Proc, Recovered(p) PROVE BackedUp' /\ Sound(p)'
<1> DEFINE i == run[p].install
           t == [tx[i] EXCEPT !.status = "RECOVERED"]
<1>1. TypeOK /\ Exact(p) /\ pc[p] = "recovered"
  BY DEF IInv, Recovered, At
<1>2. i \in Install /\ tx[i] \in Tx
  BY <1>1, TxType DEF Exact
<1>3. t.status = "RECOVERED"
  BY <1>2 DEF Tx
<1>4. tx' = [tx EXCEPT ![i] = t] /\ before' = [before EXCEPT ![i] = Nothing]
  BY DEF Recovered
<1>5. BackedUp'
  BY <1>1, <1>2, <1>3, <1>4, OtherBackups DEF Backs
<1>6. pc'[p] = "idle"
  BY <1>1, StopOthers DEF Recovered
<1> QED
  BY <1>5, <1>6 DEF Sound, Applying, Copying

\* The steps of the loops that no transaction is about.
LEMMA SCalm ==
    ASSUME IInv, BackedUp, NEW p \in Proc,
           Remove(p) \/ Return(p) \/ SetupFile(p) \/ Finalize(p)
    PROVE  BackedUp' /\ Sound(p)' /\ UNCHANGED tx
<1>1. TypeOK
  BY DEF IInv
<1>2. UNCHANGED <<tx, before>>
  BY DEF Remove, Return, SetupFile, Finalize, disk
<1>3. CASE Return(p) \/ Finalize(p)
  <2>1. pc'[p] = "idle"
    BY <1>1, <1>3, StopOthers DEF Return, Finalize
  <2> QED
    BY <1>2, <2>1 DEF Sound, Applying, Copying, BackedUp
<1>4. CASE Remove(p)
  <2>1. pc[p] # "idle" /\ \E f : Done(p, f, "remove", "return")
    BY <1>4 DEF Remove, At
  <2>2. pc'[p] \in {"remove", "return"}
    BY <1>1, <2>1, DoneOthers
  <2> QED
    BY <1>2, <2>2 DEF Sound, Applying, Copying, BackedUp
<1>5. CASE SetupFile(p)
  <2>1. pc[p] # "idle" /\ \E f : Done(p, f, "setup", "finalize")
    BY <1>5 DEF SetupFile, At
  <2>2. pc'[p] \in {"setup", "finalize"}
    BY <1>1, <2>1, DoneOthers
  <2> QED
    BY <1>2, <2>2 DEF Sound, Applying, Copying, BackedUp
<1> QED
  BY <1>3, <1>4, <1>5

\* A backup that was cut short is of a file that was there.
LEMMA SCrash ==
    ASSUME IInv, BackedUp, NEW p \in Proc, Sound(p), Crash(p) PROVE BackedUp' /\ Sound(p)'
<1>1. TypeOK /\ Exact(p)
  BY DEF IInv
<1>2. pc'[p] = "idle"
  BY <1>1, StopOthers DEF Crash
<1>3. CASE UNCHANGED <<tx, before>>
  BY <1>2, <1>3 DEF BackedUp, Sound, Applying, Copying
<1>4. CASE ~UNCHANGED <<tx, before>>
  <2> DEFINE i == run[p].install
  <2>1. PICK f \in run[p].todo :
          /\ pc[p] = "backup" /\ file[f] # "none"
          /\ tx' = [tx EXCEPT ![i].backup[f] = "torn"]
          /\ UNCHANGED before
    BY <1>4 DEF Crash, TornCopy, disk
  <2>2. i \in Install /\ tx[i] \in Tx /\ f \in Path
    BY <1>1, <2>1, RunType, TxType DEF Exact, Applying, Copying
  <2> DEFINE t == [tx[i] EXCEPT !.backup = [@ EXCEPT ![f] = "torn"]]
  <2>3. /\ t.files = tx[i].files /\ t.status = tx[i].status
        /\ t.backup = [tx[i].backup EXCEPT ![f] = "torn"]
    BY <2>2 DEF Tx
  <2>4. tx[i].backup \in Files /\ tx[i].files \subseteq Path /\ file[f] = before[i][f]
    BY <1>1, <2>1, <2>2, TxType DEF Sound, Copying, Left
  <2>5. Backs(t, before[i])
    BY <2>1, <2>2, <2>3, <2>4 DEF Backs, BackedUp, Files
  <2>6. tx' = [tx EXCEPT ![i] = t]
    BY <2>1
  <2>7. BackedUp'
    BY <1>1, <2>1, <2>2, <2>5, <2>6, OtherBackups, SameBefore
  <2> QED
    BY <1>2, <2>7 DEF Sound, Applying, Copying
<1> QED
  BY <1>3, <1>4

\* People change files only while nothing is asked of them.
LEMMA SEdit ==
    ASSUME IInv, BackedUp, Edit, NEW p \in Proc PROVE BackedUp' /\ Sound(p)'
  BY DEF Edit, procs, BackedUp, Sound, Applying, Copying

AInv == IInv /\ BackedUp /\ (\A p \in Proc : Sound(p))

LEMMA AInit ==
    ASSUME Init PROVE AInv
<1>1. IInv
  BY IInit
<1>2. BackedUp
  BY DEF Init, BackedUp, Backs, NoTx
<1>3. \A p \in Proc : Sound(p)
  BY DEF Init, Sound, Applying, Copying
<1> QED
  BY <1>1, <1>2, <1>3 DEF AInv

\* AInv is inductive.
LEMMA ANext ==
    ASSUME Alone, AInv, [Next]_vars PROVE AInv'
<1>1. IInv /\ BackedUp /\ IInv'
  BY INext DEF AInv
<1>2. ASSUME NEW p \in Proc, BackedUp', Sound(p)' PROVE AInv'
  BY <1>1, <1>2 DEF AInv, Alone
<1>3. ASSUME NEW p \in Proc, Step(p) \/ Crash(p) PROVE AInv'
  <2>1. Sound(p)
    BY DEF AInv
  <2>2. BackedUp' /\ Sound(p)'
    BY <1>1, <1>3, <2>1, SBegin, SBackup, SWrite, SSnap, SSave, SPublish, SComplete,
       SRestore, SRecovered, SCalm, SCrash DEF Step
  <2> QED
    BY <1>2, <2>2
<1>4. ASSUME NEW p \in Proc, NEW v \in Version, Update(p, v) \/ Setup(p, v) PROVE AInv'
  <2>1. BackedUp'
    BY <1>1, <1>4 DEF Update, Setup, Launch, disk, BackedUp
  <2>2. Sound(p)'
    BY <1>1, <1>4, SUpdate, SSetup
  <2> QED
    BY <1>2, <2>1, <2>2
<1>5. ASSUME NEW p \in Proc, NEW i \in Install, Rollback(p, i) \/ Recover(p, i) PROVE AInv'
  <2>1. BackedUp'
    BY <1>1, <1>5 DEF Rollback, Recover, Launch, disk, BackedUp
  <2>2. Sound(p)'
    BY <1>1, <1>5, SRollback, SRecover
  <2> QED
    BY <1>2, <2>1, <2>2
<1>6. CASE Edit
  <2>1. BackedUp'
    BY <1>1, <1>6 DEF Edit, BackedUp
  <2>2. \A p \in Proc : Sound(p)'
    BY <1>1, <1>6, SEdit
  <2> QED
    BY <1>1, <2>1, <2>2 DEF AInv
<1>7. CASE UNCHANGED vars
  BY <1>1, <1>7 DEF AInv, BackedUp, Sound, vars, disk, procs, TxOf, Left, Lists
<1> QED
  BY <1>3, <1>4, <1>5, <1>6, <1>7 DEF Next

LEMMA AloneInvariant ==
    ASSUME Alone
    PROVE  Spec => []AInv
<1>1. Init => AInv
  BY AInit
<1>2. AInv /\ [Next]_vars => AInv'
  BY ANext
<1> QED
  BY <1>1, <1>2, PTL DEF Spec

\* Of all that runs beside an apply that is about to replace a file, only this
\* replacement changes one.
LEMMA OnlyTheWrite ==
    ASSUME Alone, AInv, [Next]_vars, NEW p \in Proc, pc[p] = "write"
    PROVE  UNCHANGED file \/ file' = [file EXCEPT ![run[p].cur] = run[p].plan[run[p].cur]]
<1>1. ASSUME NEW q \in Proc, Step(q) \/ Crash(q) PROVE UNCHANGED file \/ Write(p)
  <2>1. pc[q] = "write"
    BY DEF Alone
  <2>2. CASE Crash(q)
    BY <2>1, <2>2 DEF Crash, TornCopy, disk
  <2>3. CASE Step(q)
    <3>1. Write(q)
      BY <2>1, <2>3 DEF Step, At, Begin, Backup, Write, Snap, Save, Publish, Complete,
         Remove, Return, Restore, Recovered, SetupFile, Finalize
    <3> QED
      BY <3>1 DEF Alone
  <2> QED
    BY <1>1, <2>2, <2>3
<1>2. ASSUME NEW q \in Proc, NEW v \in Version, Update(q, v) \/ Setup(q, v)
      PROVE  UNCHANGED file
  BY <1>2 DEF Update, Setup, Launch, disk
<1>3. ASSUME NEW q \in Proc, NEW i \in Install, Rollback(q, i) \/ Recover(q, i)
      PROVE  UNCHANGED file
  BY <1>3 DEF Rollback, Recover, Launch, disk
<1>4. ~Edit
  BY DEF Edit
<1> QED
  BY <1>1, <1>2, <1>3, <1>4 DEF Next, vars, disk, Write

\* Operations that do not overlap overwrite no content that is not in the backup
\* of their transaction, and an update overwrites no file that people changed
\* (applyInstallation; inspectInstallation in installation/manager.mjs).
THEOREM UserFilesKept ==
    ASSUME Alone
    PROVE  Spec => NothingLost
<1>1. ASSUME AInv, [Next]_vars, NEW p \in Proc, NEW f \in Path, pc[p] = "write",
             file'[f] # file[f]
      PROVE  /\ file[f] \in {"none", tx[run[p].install].backup[f]}
             /\ run[p].op = "update" /\ f \in Lists(manifest) => file[f] = manifest[f]
  <2>1. TypeOK /\ Exact(p) /\ Sound(p)
    BY <1>1 DEF AInv, IInv
  <2>2. f = run[p].cur
    BY <1>1, <2>1, OnlyTheWrite DEF TypeOK, Files
  <2>3. f \in Left(p)
    BY <1>1, <2>1, <2>2 DEF Exact, Left
  <2> QED
    BY <1>1, <2>1, <2>2, <2>3 DEF Sound, Copying, TxOf
<1>2. AInv /\ [Next]_vars =>
         [\A p \in Proc, f \in Path :
             pc[p] = "write" /\ file'[f] # file[f] =>
                 /\ file[f] \in {"none", tx[run[p].install].backup[f]}
                 /\ run[p].op = "update" /\ f \in Lists(manifest) => file[f] = manifest[f]]_file
  BY <1>1
<1> QED
  BY <1>2, AloneInvariant, PTL DEF Spec, NothingLost

\* The steps that end a transaction.
LEMMA Ends ==
    ASSUME AInv, [Next]_vars, NEW i \in Install, tx[i].status = "STARTED"
    PROVE  /\ tx'[i].status = "COMPLETE" =>
                  \E p \in Proc : Complete(p) /\ run[p].install = i
           /\ tx'[i].status = "RECOVERED" =>
                  \E p \in Proc : Recovered(p) /\ run[p].install = i
<1>1. TypeOK /\ tx[i] \in Tx /\ \A p \in Proc : Exact(p)
  BY TxType DEF AInv, IInv
<1>2. CASE UNCHANGED tx
  BY <1>2
<1>3. ASSUME NEW p \in Proc, Begin(p) PROVE tx'[i].status = "STARTED"
  BY <1>1, <1>3 DEF Begin, TypeOK
<1>4. ASSUME NEW p \in Proc, Backup(p) \/ Snap(p) \/ Save(p)
      PROVE  tx'[i].status = "STARTED"
  <2>1. run[p].install \in Install /\ tx[run[p].install] \in Tx
    BY <1>1, <1>4, TxType DEF Exact, Applying, Copying, Backup, Snap, Save, At
  <2>2. CASE Backup(p)
    BY <1>1, <2>1, <2>2 DEF Backup, TypeOK, Tx
  <2>3. CASE Snap(p)
    BY <1>1, <2>1, <2>3 DEF Snap, TypeOK, Tx
  <2>4. CASE Save(p)
    BY <1>1, <2>1, <2>4 DEF Save, TypeOK, Tx
  <2> QED
    BY <1>4, <2>2, <2>3, <2>4
<1>5. ASSUME NEW p \in Proc, Crash(p) PROVE tx'[i].status = "STARTED"
  <2>1. CASE UNCHANGED tx
    BY <2>1
  <2>2. CASE ~UNCHANGED tx
    <3>1. pc[p] = "backup" /\ \E f : tx' = [tx EXCEPT ![run[p].install].backup[f] = "torn"]
      BY <1>5, <2>2 DEF Crash, TornCopy, disk
    <3>2. run[p].install \in Install /\ tx[run[p].install] \in Tx
      BY <1>1, <3>1, TxType DEF Exact, Applying, Copying
    <3> QED
      BY <1>1, <3>1, <3>2 DEF TypeOK, Tx
  <2> QED
    BY <2>1, <2>2
<1>6. ASSUME NEW p \in Proc, Complete(p)
      PROVE  IF run[p].install = i THEN tx'[i].status = "COMPLETE" ELSE tx'[i] = tx[i]
  BY <1>1, <1>6 DEF Complete, TypeOK, Tx
<1>7. ASSUME NEW p \in Proc, Recovered(p)
      PROVE  IF run[p].install = i THEN tx'[i].status = "RECOVERED" ELSE tx'[i] = tx[i]
  BY <1>1, <1>7 DEF Recovered, TypeOK, Tx
<1>8. CASE \E p \in Proc : Step(p) \/ Crash(p)
  BY <1>2, <1>3, <1>4, <1>5, <1>6, <1>7, <1>8
     DEF Step, Write, Publish, Remove, Return, Restore, SetupFile, Finalize, disk
<1>9. CASE ~\E p \in Proc : Step(p) \/ Crash(p)
  <2>1. UNCHANGED tx
    BY <1>9 DEF Next, Update, Setup, Rollback, Recover, Launch, Edit, vars, disk
  <2> QED
    BY <1>2, <2>1
<1> QED
  BY <1>8, <1>9

\* A transaction of operations that do not overlap is marked COMPLETE only when the
\* files and the manifest are what it installed, and RECOVERED only when they are
\* as it found them, but for backups it had not made or that were cut short
\* (applyInstallation, recoverInstallation in installation/manager.mjs).
THEOREM StatusIsTrue ==
    ASSUME Alone
    PROVE  Spec => StatusHonest
<1>1. ASSUME AInv, [Next]_vars, NEW i \in Install, tx[i].status = "STARTED",
             tx'[i].status = "COMPLETE"
      PROVE  Conflicts = {} /\ manifest = tx[i].saved
  <2>1. PICK p \in Proc : Complete(p) /\ run[p].install = i
    BY <1>1, Ends
  <2>2. Sound(p) /\ pc[p] = "complete"
    BY <1>1, <2>1 DEF AInv, Complete, At
  <2> QED
    BY <2>1, <2>2 DEF Sound, TxOf, Conflicts
<1>2. ASSUME AInv, [Next]_vars, NEW i \in Install, tx[i].status = "STARTED",
             tx'[i].status = "RECOVERED"
      PROVE  \A f \in tx[i].files :
                \/ file[f] = before[i][f]
                \/ tx[i].backup[f] \in {"none", "torn"} /\ before[i][f] # "none"
  <2>1. PICK p \in Proc : Recovered(p) /\ run[p].install = i
    BY <1>2, Ends
  <2>2. Sound(p) /\ pc[p] = "recovered" /\ BackedUp
    BY <1>2, <2>1 DEF AInv, Recovered, At
  <2>3. \A f \in tx[i].files : file[f] = tx[i].backup[f]
    BY <2>1, <2>2 DEF Sound, TxOf
  <2> QED
    BY <1>2, <2>2, <2>3 DEF BackedUp, Backs
<1>3. AInv /\ [Next]_vars =>
         [\A i \in Install :
             tx[i].status = "STARTED" =>
                 /\ tx'[i].status = "COMPLETE" => Conflicts = {} /\ manifest = tx[i].saved
                 /\ tx'[i].status = "RECOVERED" =>
                       \A f \in tx[i].files :
                          \/ file[f] = before[i][f]
                          \/ tx[i].backup[f] \in {"none", "torn"} /\ before[i][f] # "none"]_tx
  BY <1>1, <1>2
<1> QED
  BY <1>3, AloneInvariant, PTL DEF Spec, StatusHonest

=============================================================================
