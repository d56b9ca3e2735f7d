-------------------------- MODULE PlanningCaseStore --------------------------
(***************************************************************************)
(* The durable Planning Case of planning-case/store.mjs: one directory     *)
(* with a lock file, an append-only event log, a snapshot, one file per    *)
(* transaction, and the temporary files of atomic replacements.  Several   *)
(* command-line processes create, mutate and recover the case; each file   *)
(* operation is a step of its own, so processes interleave and crash       *)
(* between any two of them.                                                *)
(*                                                                         *)
(* What a case says is abstracted to WHICH EVENT IT REFLECTS: an event     *)
(* carries the digest of its predecessor, the reducer is deterministic, so *)
(* the last event of a snapshot determines its contents.                   *)
(***************************************************************************)
EXTENDS Integers, Sequences, FiniteSets

CONSTANTS
    Proc,         \* operating-system processes (a pid is never reused)
    NoLock,       \* there is no lock file
    MaxEvents,    \* bound on the events processes may draw
    RecoverMode,  \* which commands may run beside a recover, see MayRecover
    CrashAt,      \* the labels at which a process may die
    IOErrorAt     \* the labels at which a file operation may throw

VARIABLES
    dir,      \* the case directory: "absent", "bare" (mkdir only), "ready"
    lock,     \* NoLock, or who created the file, whether its JSON has been
              \* written, and whether it is older than staleLockMs
    log,      \* events.jsonl
    snap,     \* id of lastEvent in case.json, 0 when there is no case.json
    pending,  \* events of the transaction files whose status is INTENT
    done,     \* events of the transaction files whose status is COMMITTED
    tmp,      \* temporary files that have not been renamed
    made,     \* number of event ids drawn so far
    pc,       \* where each process is
    call      \* local variables of the command each process executes

disk == <<dir, lock, log, snap, pending, done, tmp, made>>
vars == <<disk, pc, call>>

-----------------------------------------------------------------------------
(* Data. *)

Event == [id : Nat, seq : Nat, prev : Nat]

\* No event; in the log, the torn line of a write that stopped half way.
NoEvent == [id |-> 0, seq |-> 0, prev |-> 0]

Lock == [owner : Proc, written : BOOLEAN, old : BOOLEAN]
Kind == {"intent", "case", "commit", "rebuild"}
Temp == [by : Proc, kind : Kind, id : Nat]
Op   == {"none", "create", "mutate", "recover"}
Call == [op : Op, ev : Event, todo : SUBSET Event, cand : Nat, had : BOOLEAN]

\* Labels of the write path, in order, and of recover.  A label names the
\* file operation the process is about to perform.
CommitLabel == {"intent_tmp", "intent_mv", "append", "snap_tmp", "snap_mv",
                "commit_tmp", "commit_mv"}
HoldLabel   == CommitLabel \cup
               {"write_lock", "read", "roll", "reb_tmp", "reb_mv", "sweep", "release"}
ScanLabel   == {"rec_pending", "rec_snap", "rec_events", "rec_unlink"}
Label       == HoldLabel \cup ScanLabel \cup {"idle", "dead", "populate", "acquire"}

ASSUME ConstantsAssumption ==
    /\ NoLock \notin Lock
    /\ MaxEvents \in Nat \ {0}
    /\ RecoverMode \in {"any", "single", "exclusive"}
    /\ CrashAt \subseteq Label \ {"idle", "dead"}
    /\ IOErrorAt \subseteq CommitLabel \cup {"write_lock", "reb_tmp", "reb_mv"}

Blank == [op |-> "none", ev |-> NoEvent, todo |-> {}, cand |-> 0, had |-> FALSE]

LastId(l) == IF l = <<>> THEN 0 ELSE l[Len(l)].id

\* The checks of readEvents: every line parses, the sequence numbers count up
\* from one, and each event names the digest of the one before it.
ChainTo(l, n) ==
    \A i \in 1..n :
        /\ l[i].id # 0
        /\ l[i].seq = i
        /\ l[i].prev = IF i = 1 THEN 0 ELSE l[i-1].id
ChainOK(l) == ChainTo(l, Len(l))

Busy(p)       == pc[p] \notin {"idle", "dead"}
Alive(p)      == pc[p] # "dead"
Recovering(p) == Busy(p) /\ call[p].op = "recover"

\* A variant of Stale: five minutes are enough, whether or not the pid is alive.
StaleByAge == lock # NoLock /\ lock.old

\* staleLock: old enough, and the pid is not alive.
Stale == lock # NoLock /\ lock.old /\ ~Alive(lock.owner)

\* How operators use recover.  "any": whenever they like.  "single": one
\* recover at a time, beside other commands.  "exclusive": alone.
MayRecover ==
    /\ RecoverMode # "any" => \A q \in Proc : ~Recovering(q)
    /\ RecoverMode = "exclusive" => \A q \in Proc : ~Busy(q)
MayMutate == RecoverMode = "exclusive" => \A q \in Proc : ~Recovering(q)

TypeOK ==
    /\ dir \in {"absent", "bare", "ready"}
    /\ lock \in Lock \cup {NoLock}
    /\ log \in Seq(Event)
    /\ snap \in Nat
    /\ pending \subseteq Event
    /\ done \subseteq Event
    /\ tmp \subseteq Temp
    /\ made \in Nat
    /\ pc \in [Proc -> Label]
    /\ call \in [Proc -> Call]

Init ==
    /\ dir = "absent"
    /\ lock = NoLock
    /\ log = <<>>
    /\ snap = 0
    /\ pending = {}
    /\ done = {}
    /\ tmp = {}
    /\ made = 0
    /\ pc = [p \in Proc |-> "idle"]
    /\ call = [p \in Proc |-> Blank]

-----------------------------------------------------------------------------
(* Control flow. *)

Goto(p, label) == pc' = [pc EXCEPT ![p] = label]

\* The command returns, or throws where no lock is held.
Finish(p) ==
    /\ Goto(p, "idle")
    /\ call' = [call EXCEPT ![p] = Blank]

\* An exception inside withLock: only the finally clause is left to run.
Throw(p) == Goto(p, "release") /\ UNCHANGED call

Draw(seq, prev) == [id |-> made + 1, seq |-> seq, prev |-> prev]

-----------------------------------------------------------------------------
(* Starting a command.                                                     *)

\* create: the directory must not exist.
StartCreate(p) ==
    /\ pc[p] = "idle"
    /\ dir = "absent"
    /\ MayMutate
    /\ dir' = "bare"
    /\ call' = [call EXCEPT ![p].op = "create"]
    /\ Goto(p, "populate")
    /\ UNCHANGED <<lock, log, snap, pending, done, tmp, made>>

\* create: transactions, receipts and an empty events.jsonl; the CASE_CREATED
\* event is built before the lock is taken.
Populate(p) ==
    /\ pc[p] = "populate"
    /\ made < MaxEvents
    /\ dir' = "ready"
    /\ made' = made + 1
    /\ call' = [call EXCEPT ![p].ev = Draw(1, 0)]
    /\ Goto(p, "acquire")
    /\ UNCHANGED <<lock, log, snap, pending, done, tmp>>

\* Every other writing command is a mutate of an existing directory.
StartMutate(p) ==
    /\ pc[p] = "idle"
    /\ dir # "absent"
    /\ MayMutate
    /\ call' = [call EXCEPT ![p].op = "mutate"]
    /\ Goto(p, "acquire")
    /\ UNCHANGED disk

\* recover reads the lock first.  A lock that does not parse throws and a lock
\* that is not stale answers BLOCKED: neither changes anything.
StartRecover(p) ==
    /\ pc[p] = "idle"
    /\ dir # "absent"
    /\ MayRecover
    /\ lock # NoLock => lock.written /\ Stale
    /\ call' = [call EXCEPT ![p].op = "recover", ![p].had = (lock # NoLock)]
    /\ Goto(p, "rec_pending")
    /\ UNCHANGED disk

-----------------------------------------------------------------------------
(* The lock.                                                               *)

\* Any existing lock file is refused (CASE_LOCKED, STALE_LOCK, CORRUPT_LOCK);
\* O_EXCL makes the check and the creation one step.
Acquire(p) ==
    /\ pc[p] = "acquire"
    /\ \/ /\ lock # NoLock
          /\ Finish(p)
          /\ UNCHANGED lock
       \/ /\ lock = NoLock
          /\ lock' = [owner |-> p, written |-> FALSE, old |-> FALSE]
          /\ Goto(p, "write_lock")
          /\ UNCHANGED call
    /\ UNCHANGED <<dir, log, snap, pending, done, tmp, made>>

\* The JSON goes to the descriptor, the chmod to the path: when the file has
\* been unlinked meanwhile the chmod throws, unless another lock took the name.
WriteLock(p) ==
    /\ pc[p] = "write_lock"
    /\ \/ /\ lock = NoLock
          /\ Finish(p)
          /\ UNCHANGED lock
       \/ /\ lock # NoLock
          /\ lock' = IF lock.owner = p THEN [lock EXCEPT !.written = TRUE] ELSE lock
          /\ Goto(p, CASE call[p].op = "create"  -> "intent_tmp"
                       [] call[p].op = "recover" -> "roll"
                       [] OTHER                  -> "read")
          /\ UNCHANGED call
    /\ UNCHANGED <<dir, log, snap, pending, done, tmp, made>>

\* releaseLock: a missing or foreign lock is left alone (LOCK_OWNERSHIP_LOST).
\* A process holds one lock at a time, so the owner stands for the nonce.
Release(p) ==
    /\ pc[p] = "release"
    /\ lock' = IF lock # NoLock /\ lock.owner = p THEN NoLock ELSE lock
    /\ Finish(p)
    /\ UNCHANGED <<dir, log, snap, pending, done, tmp, made>>

\* Five minutes pass.
LockAges ==
    /\ lock # NoLock
    /\ ~lock.old
    /\ lock' = [lock EXCEPT !.old = TRUE]
    /\ UNCHANGED <<dir, log, snap, pending, done, tmp, made, pc, call>>

-----------------------------------------------------------------------------
(* mutate and commitTransaction.                                           *)

\* What mutate requires of the files before it builds an event.
Mutable ==
    /\ snap # 0
    /\ ChainOK(log)
    /\ pending = {}
    /\ snap = LastId(log)

\* Under the lock: read snapshot, log and transactions.  The reducer may
\* reject the event whatever the files say; the contents are abstracted.
Read(p) ==
    /\ pc[p] = "read"
    /\ \/ /\ Throw(p)
          /\ UNCHANGED made
       \/ /\ Mutable
          /\ made < MaxEvents
          /\ made' = made + 1
          /\ call' = [call EXCEPT ![p].ev = Draw(Len(log) + 1, LastId(log))]
          /\ Goto(p, "intent_tmp")
    /\ UNCHANGED <<dir, lock, log, snap, pending, done, tmp>>

TempFile(p, kind) == [by |-> p, kind |-> kind, id |-> call[p].ev.id]

\* atomicWrite, first half: create and fill a temporary file.
WriteTemp(p, kind) == tmp' = tmp \cup {TempFile(p, kind)}

CreateTemp(p, label, kind, next) ==
    /\ pc[p] = label
    /\ WriteTemp(p, kind)
    /\ Goto(p, next)
    /\ UNCHANGED <<dir, lock, log, snap, pending, done, made, call>>

\* atomicWrite, second half: what the rename makes visible, by kind.
Rename(p, kind) ==
    /\ TempFile(p, kind) \in tmp
    /\ tmp' = tmp \ {TempFile(p, kind)}
    /\ snap' = CASE kind = "case"    -> call[p].ev.id
                 [] kind = "rebuild" -> call[p].cand
                 [] OTHER            -> snap
    /\ pending' = CASE kind = "intent" -> pending \cup {call[p].ev}
                    [] kind = "commit" -> pending \ {call[p].ev}
                    [] OTHER           -> pending
    /\ done' = CASE kind = "intent" -> done \ {call[p].ev}
                 [] kind = "commit" -> done \cup {call[p].ev}
                 [] OTHER           -> done
    /\ UNCHANGED <<dir, lock, log, made>>

\* A rename whose temporary file has been swept away throws ENOENT.
RenameLost(p, kind) ==
    /\ TempFile(p, kind) \notin tmp
    /\ Throw(p)
    /\ UNCHANGED disk

RenameTemp(p, label, kind, next) ==
    /\ pc[p] = label
    /\ \/ Rename(p, kind) /\ Goto(p, next) /\ UNCHANGED call
       \/ RenameLost(p, kind)

IntentTmp(p) == CreateTemp(p, "intent_tmp", "intent", "intent_mv")
IntentMv(p)  == RenameTemp(p, "intent_mv", "intent", "append")

AppendEvent(p) ==
    /\ pc[p] = "append"
    /\ log' = Append(log, call[p].ev)
    /\ Goto(p, "snap_tmp")
    /\ UNCHANGED <<dir, lock, snap, pending, done, tmp, made, call>>

SnapTmp(p)   == CreateTemp(p, "snap_tmp", "case", "snap_mv")
SnapMv(p)    == RenameTemp(p, "snap_mv", "case", "commit_tmp")
CommitTmp(p) == CreateTemp(p, "commit_tmp", "commit", "commit_mv")

\* The last write of commitTransaction, and of rollForward, which goes on with
\* the next pending transaction.
CommitMv(p) ==
    /\ pc[p] = "commit_mv"
    /\ \/ /\ Rename(p, "commit")
          /\ call' = [call EXCEPT ![p].todo = @ \ {call[p].ev}]
          /\ Goto(p, IF call[p].op = "recover" THEN "roll" ELSE "release")
       \/ RenameLost(p, "commit")

-----------------------------------------------------------------------------
(* recover.                                                                *)

\* What recover does once it knows its actions: a lock it judged stale is
\* unlinked, then the lock is acquired; without any action it only verifies.
Proceed(p, act) ==
    IF call[p].had THEN Goto(p, "rec_unlink")
    ELSE IF act THEN Goto(p, "acquire")
    ELSE Goto(p, "idle")

\* The pending transactions are read BEFORE the lock is acquired.
RecPending(p) ==
    /\ pc[p] = "rec_pending"
    /\ \/ /\ dir = "bare"
          /\ Finish(p)
       \/ /\ dir = "ready"
          /\ call' = [call EXCEPT ![p].todo = pending]
          /\ IF pending = {} THEN Goto(p, "rec_snap") ELSE Proceed(p, TRUE)
    /\ UNCHANGED disk

\* ... and so are the snapshot and the log.  An unreadable snapshot or log is
\* caught, and nothing is rebuilt.
RecSnap(p) ==
    /\ pc[p] = "rec_snap"
    /\ IF snap = 0
       THEN /\ Proceed(p, FALSE)
            /\ call' = [call EXCEPT ![p] = IF @.had THEN @ ELSE Blank]
       ELSE /\ Goto(p, "rec_events")
            /\ call' = [call EXCEPT ![p].cand = snap]
    /\ UNCHANGED disk

Drift(seen) == ChainOK(log) /\ log # <<>> /\ seen # LastId(log)

RecEvents(p) ==
    /\ pc[p] = "rec_events"
    /\ LET drift == Drift(call[p].cand) IN
       /\ Proceed(p, drift)
       /\ call' = [call EXCEPT ![p] =
             IF drift THEN [@ EXCEPT !.cand = LastId(log)]
             ELSE IF @.had THEN [@ EXCEPT !.cand = 0]
             ELSE Blank]
    /\ UNCHANGED disk

\* The lock file is removed by name, whoever owns it now; a file that has gone
\* makes unlink throw.
RecUnlink(p) ==
    /\ pc[p] = "rec_unlink"
    /\ IF lock = NoLock
       THEN Finish(p)
       ELSE Goto(p, "acquire") /\ UNCHANGED call
    /\ lock' = NoLock
    /\ UNCHANGED <<dir, log, snap, pending, done, tmp, made>>

\* A variant of RollForward: the event is appended again though it is in the log.
RollForwardAgain(p, e) ==
    /\ \A f \in call[p].todo : e.seq <= f.seq
    /\ \/ /\ ChainOK(log)
          /\ LastId(log) \in {e.prev, e.id}
          /\ call' = [call EXCEPT ![p].ev = e]
          /\ Goto(p, "append")
       \/ /\ ~ChainOK(log) \/ LastId(log) \notin {e.prev, e.id}
          /\ Throw(p)

\* A variant of RollForward: an event that is in the log already is committed
\* without writing its snapshot.
RollForwardNoSnapshot(p, e) ==
    /\ \A f \in call[p].todo : e.seq <= f.seq
    /\ \/ /\ ChainOK(log)
          /\ LastId(log) \in {e.prev, e.id}
          /\ call' = [call EXCEPT ![p].ev = e]
          /\ Goto(p, IF LastId(log) = e.prev THEN "append" ELSE "commit_tmp")
       \/ /\ ~ChainOK(log) \/ LastId(log) \notin {e.prev, e.id}
          /\ Throw(p)

\* A variant of RollForward: an event that is in the log already is a conflict.
RollForwardOnce(p, e) ==
    /\ \A f \in call[p].todo : e.seq <= f.seq
    /\ \/ /\ ChainOK(log)
          /\ LastId(log) = e.prev
          /\ call' = [call EXCEPT ![p].ev = e]
          /\ Goto(p, "append")
       \/ /\ ~ChainOK(log) \/ LastId(log) # e.prev
          /\ Throw(p)

\* rollForward of the transactions read earlier, lowest sequence first.
RollForward(p, e) ==
    /\ \A f \in call[p].todo : e.seq <= f.seq
    /\ \/ /\ ChainOK(log)
          /\ LastId(log) = e.prev
          /\ call' = [call EXCEPT ![p].ev = e]
          /\ Goto(p, "append")
       \/ /\ ChainOK(log)
          /\ LastId(log) # e.prev
          /\ LastId(log) = e.id
          /\ call' = [call EXCEPT ![p].ev = e]
          /\ Goto(p, "snap_tmp")
       \/ /\ ~ChainOK(log) \/ LastId(log) \notin {e.prev, e.id}
          /\ Throw(p)

Roll(p) ==
    /\ pc[p] = "roll"
    /\ \/ \E e \in call[p].todo : RollForward(p, e)
       \/ /\ call[p].todo = {}
          /\ Goto(p, IF call[p].cand # 0 THEN "reb_tmp" ELSE "sweep")
          /\ UNCHANGED call
    /\ UNCHANGED disk

RebuildTmp(p) == CreateTemp(p, "reb_tmp", "rebuild", "reb_mv")
RebuildMv(p)  == RenameTemp(p, "reb_mv", "rebuild", "sweep")

\* Every temporary file of the case is deleted, whoever wrote it.
Sweep(p) ==
    /\ pc[p] = "sweep"
    /\ tmp' = {}
    /\ Goto(p, "release")
    /\ UNCHANGED <<dir, lock, log, snap, pending, done, made, call>>

-----------------------------------------------------------------------------
(* Faults.                                                                 *)

\* A process dies between two file operations; some other process survives.
\* A write cut short is an IOError followed by a crash in the finally clause.
Crash(p) ==
    /\ pc[p] \in CrashAt
    /\ \E q \in Proc \ {p} : Alive(q)
    /\ Goto(p, "dead")
    /\ call' = [call EXCEPT ![p] = Blank]
    /\ UNCHANGED disk

\* A file operation throws after none, some or all of its effect.  Outside
\* withLock's try block the exception leaves the lock file behind.
IOError(p) ==
    /\ pc[p] \in IOErrorAt
    /\ \/ /\ pc[p] = "write_lock"
          /\ Finish(p)
          /\ UNCHANGED disk
       \/ /\ pc[p] # "write_lock"
          /\ Throw(p)
          /\ \/ UNCHANGED disk
             \/ /\ pc[p] = "append"
                /\ \E line \in {call[p].ev, NoEvent} : log' = Append(log, line)
                /\ UNCHANGED <<dir, lock, snap, pending, done, tmp, made>>
             \/ \E kind \in Kind :
                   /\ <<pc[p], kind>> \in {<<"intent_tmp", "intent">>, <<"snap_tmp", "case">>,
                                           <<"commit_tmp", "commit">>, <<"reb_tmp", "rebuild">>}
                   /\ WriteTemp(p, kind)
                   /\ UNCHANGED <<dir, lock, log, snap, pending, done, made>>
             \/ \E kind \in Kind :
                   /\ <<pc[p], kind>> \in {<<"intent_mv", "intent">>, <<"snap_mv", "case">>,
                                           <<"commit_mv", "commit">>, <<"reb_mv", "rebuild">>}
                   /\ Rename(p, kind)

-----------------------------------------------------------------------------
Step(p) ==
    \/ Populate(p)
    \/ Acquire(p) \/ WriteLock(p) \/ Release(p)
    \/ Read(p)
    \/ IntentTmp(p) \/ IntentMv(p) \/ AppendEvent(p)
    \/ SnapTmp(p) \/ SnapMv(p) \/ CommitTmp(p) \/ CommitMv(p)
    \/ RecPending(p) \/ RecSnap(p) \/ RecEvents(p) \/ RecUnlink(p)
    \/ Roll(p) \/ RebuildTmp(p) \/ RebuildMv(p) \/ Sweep(p)

Next ==
    \/ \E p \in Proc : \/ StartCreate(p) \/ StartMutate(p) \/ StartRecover(p)
                       \/ Step(p)
                       \/ Crash(p) \/ IOError(p)
    \/ LockAges

Spec == Init /\ [][Next]_vars

\* A started command runs on, time passes, and operators retry recover as long
\* as some process is left to do it.
Fairness ==
    /\ \A p \in Proc : WF_vars(Step(p)) /\ SF_vars(StartRecover(p))
    /\ WF_vars(LockAges)

FairSpec == Spec /\ Fairness

-----------------------------------------------------------------------------
(* Properties.                                                             *)

\* At most one process is between the creation of its lock file and its
\* release: withLock really is exclusive.
Holds(p) == pc[p] \in HoldLabel
MutualExclusion == \A p, q \in Proc : Holds(p) /\ Holds(q) => p = q

\* A lock file disappears only by its owner's releaseLock, or when its owner
\* is dead and the file is older than staleLockMs (recover).
LockRemovedByRight ==
    [][lock # NoLock /\ lock' = NoLock =>
          \/ pc[lock.owner] = "release" /\ pc'[lock.owner] = "idle"
          \/ lock.old /\ ~Alive(lock.owner)]_vars

\* readEvents accepts events.jsonl, or all of it but a torn last line: no
\* interleaving of mutations and recoveries duplicates or forks an event.
EventChain ==
    \/ ChainOK(log)
    \/ /\ log # <<>>
       /\ log[Len(log)] = NoEvent
       /\ ChainTo(log, Len(log) - 1)

\* The log is written first: what case.json reflects and what a transaction
\* file calls COMMITTED is an event of the log, so replay can reconstruct it.
InLog(id) == \E i \in 1..Len(log) : log[i].id = id
LogFirst ==
    /\ snap # 0 => InLog(snap)
    /\ \A e \in done : InLog(e.id)

\* There is at most one interrupted transaction, and it extends the log or is
\* its last event: recover never meets TRANSACTION_EVENT_CONFLICT on it.
PendingRollable ==
    \A e \in pending :
        /\ \A f \in pending : f = e
        /\ ChainOK(log) => LastId(log) \in {e.prev, e.id}

\* Unless an INTENT says otherwise the snapshot is the replay of the whole
\* log: what get and list return is never silently out of date.
SnapshotCurrent ==
    pending = {} /\ snap # 0 /\ ChainOK(log) => snap = LastId(log)

\* verify answers COMPLETE, and nobody holds the lock.
Clean ==
    /\ snap # 0
    /\ ChainOK(log)
    /\ snap = LastId(log)
    /\ pending = {}
    /\ tmp = {}
    /\ lock = NoLock

\* recover, called now, would find something to do and could do it.
RecoveryActs ==
    /\ dir = "ready"
    /\ ChainOK(log)
    /\ lock # NoLock => lock.written /\ Stale
    /\ \/ lock # NoLock
       \/ pending # {}
       \/ snap # 0 /\ Drift(snap)

\* Every process has stopped or died, and a leftover lock has grown old.
Quiet ==
    /\ dir # "absent"
    /\ \A p \in Proc : ~Busy(p)
    /\ lock # NoLock => lock.old

\* Once its first transaction is on disk, a quiet case is clean or recover has
\* an action for it.
RecoveryOffered == Quiet /\ (snap # 0 \/ pending # {}) => Clean \/ RecoveryActs

\* No damage is silent or for good: an interrupted transaction can be rolled forward,
\* a stale snapshot has one, and a quiet case is clean or offered a recovery.
NoSilentDamage == PendingRollable /\ SnapshotCurrent /\ RecoveryOffered

\* Once other commands stop coming, an interrupted mutation or a leftover lock
\* is eventually recovered, even when recover itself crashes on the way.
CaseHeals ==
    <>[](\A p \in Proc : call[p].op # "mutate")
    => ((pending # {} \/ (snap # 0 /\ lock # NoLock)) ~> Clean)

-----------------------------------------------------------------------------
(* Refinement of CaseHistory.                                              *)

\* The accepted events are the whole lines of the log, and readers see as many
\* of them as case.json reflects.
Whole == IF log # <<>> /\ log[Len(log)] = NoEvent
         THEN SubSeq(log, 1, Len(log) - 1) ELSE log

History == INSTANCE CaseHistory WITH
    EventId <- 1..MaxEvents,
    history <- [i \in 1..Len(Whole) |-> Whole[i].id],
    visible <- IF snap = 0 THEN 0 ELSE CHOOSE i \in 1..Len(Whole) : Whole[i].id = snap

\* Every step of the store is a step of the abstract history, or none.
RefinesHistory == History!Spec
=============================================================================
