----------------------------- MODULE Installation -----------------------------
(***************************************************************************)
(* The managed files of a profile: update and rollback of installation/-   *)
(* manager.mjs, its recoverInstallation, and the installer scripts/install-*)
(* profile.mjs.  A transaction keeps, in a directory of its own, a backup  *)
(* of every file it is about to replace and a snapshot of every file it    *)
(* installs; the manifest is replaced after all files, and the transaction *)
(* marked COMPLETE after the manifest.  Every operation may die anywhere.  *)
(***************************************************************************)
EXTENDS Integers, FiniteSets

CONSTANTS
    Proc,         \* processes that run an operation
    Path,         \* paths of managed files
    Version,      \* versions of the package
    Ships,        \* the paths each version manages
    MaxInstalls,  \* bound on transactions
    MaxFaults,    \* bound on operations that die and files people change
    NoRun         \* the local variables of a process that runs nothing

VARIABLES
    file,      \* contents of the profile
    manifest,  \* installation.json: what it lists; Nothing without one
    tx,        \* the transaction directories
    before,    \* the profile when an unfinished transaction began (no code has it)
    pc,        \* where each process is
    run,       \* local variables of each operation
    faults

disk  == <<file, manifest, tx, before>>
procs == <<pc, run>>
vars  == <<disk, procs, faults>>

-----------------------------------------------------------------------------
(* Data. *)

Install == 1..MaxInstalls

\* Contents of a file are those of a version, or local, or cut short, or none.
Content == Version \cup {"local", "torn"}
Files   == [Path -> Content \cup {"none"}]

Nothing   == [f \in Path |-> "none"]
Lists(fs) == {f \in Path : fs[f] # "none"}
Ship(v)   == [f \in Path |-> IF f \in Ships[v] THEN v ELSE "none"]

Tx == [status : {"none", "STARTED", "COMPLETE", "RECOVERED"},
       files  : SUBSET Path,   \* those it is to replace
       backup : Files,
       snap   : Files,
       saved  : Files]         \* its own copy of its manifest

NoTx == [status |-> "none", files |-> {}, backup |-> Nothing, snap |-> Nothing,
         saved |-> Nothing]

Started(fs) == [NoTx EXCEPT !.status = "STARTED", !.files = fs]

Run == [op : {"update", "rollback", "recover", "setup"},
        install : Install \cup {0},  \* its transaction, or the one it recovers
        plan : Files,                \* what to install
        remove : SUBSET Path,        \* what to remove afterwards
        todo : SUBSET Path,          \* of the current loop
        cur : Path]                  \* the file at hand

Where == {"idle", "begin", "backup", "write", "snap", "save", "publish", "complete",
          "remove", "return", "restore", "recovered", "setup", "finalize"}

ASSUME InstallationAssumption ==
    /\ Path # {}
    /\ "local" \notin Version /\ "torn" \notin Version /\ "none" \notin Version
    /\ Ships \in [Version -> (SUBSET Path) \ {{}}]
    /\ MaxInstalls \in Nat \ {0} /\ MaxFaults \in Nat
    /\ NoRun \notin Run

TypeOK ==
    /\ file \in Files
    /\ manifest \in Files
    /\ tx \in [Install -> Tx]
    /\ before \in [Install -> Files]
    /\ pc \in [Proc -> Where]
    /\ run \in [Proc -> Run \cup {NoRun}]
    /\ \A p \in Proc : run[p] = NoRun <=> pc[p] = "idle"
    /\ faults \in 0..MaxFaults

Init ==
    /\ file = Nothing
    /\ manifest = Nothing
    /\ tx = [i \in Install |-> NoTx]
    /\ before = [i \in Install |-> Nothing]
    /\ pc = [p \in Proc |-> "idle"]
    /\ run = [p \in Proc |-> NoRun]
    /\ faults = 0

\* inspectInstallation: the files that are not what the manifest lists.
Conflicts == {f \in Lists(manifest) : file[f] # manifest[f]}

-----------------------------------------------------------------------------
(* Control flow. *)

Goto(p, where) == pc' = [pc EXCEPT ![p] = where]

\* The operation ends, returning or throwing or because its process dies.
Stop(p) == Goto(p, "idle") /\ run' = [run EXCEPT ![p] = NoRun]

Fault == faults < MaxFaults /\ faults' = faults + 1

At(p, where) == pc[p] = where /\ UNCHANGED faults

\* The files still to do once f is done, in the loop that goes on at where.
Done(p, f, where, after) ==
    /\ run' = [run EXCEPT ![p].todo = @ \ {f}]
    /\ Goto(p, IF run[p].todo \ {f} = {} THEN after ELSE where)

Operation(op, i, plan, remove, todo) ==
    [op |-> op, install |-> i, plan |-> plan, remove |-> remove, todo |-> todo,
     cur |-> CHOOSE f \in Path : TRUE]

Launch(p, where, r) ==
    /\ At(p, "idle")
    /\ Goto(p, where)
    /\ run' = [run EXCEPT ![p] = r]
    /\ UNCHANGED disk

-----------------------------------------------------------------------------
(* Plans. *)

\* The bound on transactions, at one process.
Room == tx[MaxInstalls].status = "none"

\* planUpdate and planMigrate, refused when a managed file was changed.
Update(p, v) ==
    /\ Room
    /\ Conflicts = {}
    /\ Launch(p, "begin", Operation("update", 0, Ship(v), {}, Ships[v]))

\* The files a saved manifest lists, as the snapshots beside it have them.
Retained(i) ==
    [f \in Path |-> IF f \in Lists(tx[i].saved) THEN tx[i].snap[f] ELSE "none"]

\* planRollback to an installation whose transaction saved its manifest; no
\* conflict is looked for.
Rollback(p, i) ==
    /\ Room
    /\ manifest # Nothing
    /\ tx[i].saved # Nothing
    /\ Launch(p, "begin", Operation("rollback", 0, Retained(i),
                                    Lists(manifest) \ Lists(Retained(i)), Lists(Retained(i))))

-----------------------------------------------------------------------------
(* applyInstallation and applyRollback. *)

\* The transaction file names every file of the plan.
Begin(p) ==
    /\ At(p, "begin")
    /\ \E i \in Install :
          /\ tx[i].status = "none"
          /\ \A j \in 1..(i - 1) : tx[j].status # "none"
          /\ tx' = [tx EXCEPT ![i] = Started(run[p].todo)]
          /\ before' = [before EXCEPT ![i] = file]
          /\ run' = [run EXCEPT ![p].install = i]
    /\ Goto(p, "backup")
    /\ UNCHANGED <<file, manifest>>

\* A variant of Backup: a file of the same version as before is not backed up.
BackupChanged(p) ==
    /\ At(p, "backup")
    /\ \E f \in run[p].todo :
          /\ tx' = IF file[f] = manifest[f] THEN tx
                   ELSE [tx EXCEPT ![run[p].install].backup[f] = file[f]]
          /\ run' = [run EXCEPT ![p].cur = f]
          /\ Goto(p, "write")
          /\ UNCHANGED <<file, manifest, before>>

\* copyFileSync, of a file that exists.
Backup(p) ==
    /\ At(p, "backup")
    /\ \E f \in run[p].todo :
          /\ tx' = [tx EXCEPT ![run[p].install].backup[f] = file[f]]
          /\ run' = [run EXCEPT ![p].cur = f]
          /\ Goto(p, "write")
          /\ UNCHANGED <<file, manifest, before>>

Write(p) ==
    LET f == run[p].cur IN
    /\ At(p, "write")
    /\ file' = [file EXCEPT ![f] = run[p].plan[f]]
    /\ Goto(p, "snap")
    /\ UNCHANGED <<manifest, tx, before, run>>

\* A variant of Snap: the snapshot is taken of what was there before.
SnapBackup(p) ==
    LET f == run[p].cur IN
    /\ At(p, "snap")
    /\ tx' = [tx EXCEPT ![run[p].install].snap[f] = tx[run[p].install].backup[f]]
    /\ Done(p, f, "backup", "save")
    /\ UNCHANGED <<file, manifest, before>>

Snap(p) ==
    LET f == run[p].cur IN
    /\ At(p, "snap")
    /\ tx' = [tx EXCEPT ![run[p].install].snap[f] = run[p].plan[f]]
    /\ Done(p, f, "backup", "save")
    /\ UNCHANGED <<file, manifest, before>>

\* The manifest goes to the transaction first, then to the profile.
Save(p) ==
    /\ At(p, "save")
    /\ tx' = [tx EXCEPT ![run[p].install].saved = run[p].plan]
    /\ Goto(p, "publish")
    /\ UNCHANGED <<file, manifest, before, run>>

Publish(p) ==
    /\ At(p, "publish")
    /\ manifest' = run[p].plan
    /\ Goto(p, "complete")
    /\ UNCHANGED <<file, tx, before, run>>

\* A rollback goes on to remove what its target did not install.
Complete(p) ==
    /\ At(p, "complete")
    /\ tx' = [tx EXCEPT ![run[p].install] = [@ EXCEPT !.status = "COMPLETE", !.files = {}]]
    /\ run' = [run EXCEPT ![p].todo = run[p].remove]
    /\ Goto(p, IF run[p].remove = {} THEN "return" ELSE "remove")
    /\ before' = [before EXCEPT ![run[p].install] = Nothing]
    /\ UNCHANGED <<file, manifest>>

Remove(p) ==
    /\ At(p, "remove")
    /\ \E f \in run[p].todo :
          /\ file' = [file EXCEPT ![f] = "none"]
          /\ Done(p, f, "remove", "return")
          /\ UNCHANGED <<manifest, tx, before>>

Return(p) == At(p, "return") /\ Stop(p) /\ UNCHANGED disk

-----------------------------------------------------------------------------
(* recoverInstallation. *)

\* Of a transaction that was started and neither completed nor recovered.
Recover(p, i) ==
    /\ tx[i].status = "STARTED"
    /\ Launch(p, "restore", Operation("recover", i, Nothing, {}, tx[i].files))

\* A variant of Restore: a file without a backup stays as it is.
RestoreBackedUp(p) ==
    /\ At(p, "restore")
    /\ \E f \in run[p].todo :
          LET b == tx[run[p].install].backup[f] IN
          /\ file' = [file EXCEPT ![f] = IF b = "none" THEN @ ELSE b]
          /\ Done(p, f, "restore", "recovered")
          /\ UNCHANGED <<manifest, tx, before>>

\* The backup is copied back, in place; a file without a backup is removed.
Restore(p) ==
    /\ At(p, "restore")
    /\ \E f \in run[p].todo :
          /\ file' = [file EXCEPT ![f] = tx[run[p].install].backup[f]]
          /\ Done(p, f, "restore", "recovered")
          /\ UNCHANGED <<manifest, tx, before>>

Recovered(p) ==
    /\ At(p, "recovered")
    /\ tx' = [tx EXCEPT ![run[p].install].status = "RECOVERED"]
    /\ before' = [before EXCEPT ![run[p].install] = Nothing]
    /\ Stop(p)
    /\ UNCHANGED <<file, manifest>>

-----------------------------------------------------------------------------
(* writeInstallation and finalizeInstallation: no transaction, no conflicts. *)

Setup(p, v) == Launch(p, "setup", Operation("setup", 0, Ship(v), {}, Ships[v]))

SetupFile(p) ==
    /\ At(p, "setup")
    /\ \E f \in run[p].todo :
          /\ file' = [file EXCEPT ![f] = run[p].plan[f]]
          /\ Done(p, f, "setup", "finalize")
          /\ UNCHANGED <<manifest, tx, before>>

\* After the packages were installed the files are compared once more.
Finalize(p) ==
    /\ At(p, "finalize")
    /\ manifest' = IF \A f \in Lists(run[p].plan) : file[f] = run[p].plan[f]
                   THEN run[p].plan ELSE manifest
    /\ Stop(p)
    /\ UNCHANGED <<file, tx, before>>

-----------------------------------------------------------------------------
(* Everybody else. *)

\* copyFileSync, to a backup or back, stops half way.
TornCopy(p) ==
    LET i == run[p].install IN
    /\ UNCHANGED <<manifest, before>>
    /\ \E f \in run[p].todo :
          \/ /\ pc[p] = "backup" /\ file[f] # "none"
             /\ tx' = [tx EXCEPT ![i].backup[f] = "torn"]
             /\ UNCHANGED file
          \/ /\ pc[p] = "restore" /\ tx[i].backup[f] # "none"
             /\ file' = [file EXCEPT ![f] = "torn"]
             /\ UNCHANGED tx

\* An operation dies, or throws; what it has done so far stays.
Crash(p) ==
    /\ pc[p] # "idle"
    /\ Fault
    /\ UNCHANGED disk \/ TornCopy(p)
    /\ Stop(p)

\* People change or delete a file while no operation is at work on the files;
\* the packages the installer runs may do so before it compares them.
Edit ==
    /\ Fault
    /\ \A p \in Proc : pc[p] \in {"idle", "finalize"}
    /\ \E f \in Path, c \in {"local", "none"} : file' = [file EXCEPT ![f] = c]
    /\ UNCHANGED <<manifest, tx, before, procs>>

-----------------------------------------------------------------------------
Step(p) ==
    \/ Begin(p) \/ Backup(p) \/ Write(p) \/ Snap(p) \/ Save(p) \/ Publish(p)
    \/ Complete(p) \/ Remove(p) \/ Return(p) \/ Restore(p) \/ Recovered(p)
    \/ SetupFile(p) \/ Finalize(p)

Next ==
    \/ \E p \in Proc : Step(p) \/ Crash(p)
    \/ \E p \in Proc, v \in Version : Update(p, v) \/ Setup(p, v)
    \/ \E p \in Proc, i \in Install : Rollback(p, i) \/ Recover(p, i)
    \/ Edit

Spec == Init /\ [][Next]_vars

-----------------------------------------------------------------------------
(* Properties. *)

\* What an installation installed can be installed again: once its manifest is
\* saved, the snapshots beside it are exactly the files it lists, whatever is
\* interrupted, recovered or rolled back later.
SnapshotExact ==
    \A i \in Install :
        tx[i].saved # Nothing => tx[i].saved = tx[i].snap

\* Nothing of the user's is lost: what is overwritten is in the backup, and what
\* people changed is not overwritten by an update.
NothingLost ==
    [][\A p \in Proc, f \in Path :
          pc[p] = "write" /\ file'[f] # file[f] =>
              /\ file[f] \in {"none", tx[run[p].install].backup[f]}
              /\ run[p].op = "update" /\ f \in Lists(manifest) => file[f] = manifest[f]]_file

\* The status of a transaction is never better than its files: COMPLETE only when
\* they are what its manifest says, and RECOVERED only when what it had written is
\* undone: a file is as it was before, unless it was still to be backed up.
StatusHonest ==
    [][\A i \in Install :
          tx[i].status = "STARTED" =>
              /\ tx'[i].status = "COMPLETE" => Conflicts = {} /\ manifest = tx[i].saved
              /\ tx'[i].status = "RECOVERED" =>
                    \A f \in tx[i].files :
                       \/ file[f] = before[i][f]
                       \/ tx[i].backup[f] \in {"none", "torn"} /\ before[i][f] # "none"]_tx

=============================================================================
