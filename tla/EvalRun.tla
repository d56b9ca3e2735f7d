------------------------------- MODULE EvalRun -------------------------------
(***************************************************************************)
(* One run of the live evaluation (runLivePiEval in                        *)
(* scripts/eval-pi-behavior.mjs): every case is attempted in every round,  *)
(* each attempt in a workspace and a PI session of its own; what failed is *)
(* retried; the gate says which cases passed.                              *)
(*                                                                         *)
(* A file holds 0 (what the case gave, or nothing), 1 (what the observer   *)
(* wrote before a turn) or 2 (what the model wrote).  PI works on files    *)
(* during a turn, and a process it left behind may at any time.  Whether   *)
(* an answer matches the patterns of its turn is a choice.                 *)
(***************************************************************************)
EXTENDS PiSession, FiniteSets, SequencesExt

CONSTANTS Cases, Repeat, RetryFailures, Turns, Paths,
          Observed,      \* per turn: the files of beforeTurn
          Allowed,       \* per turn: allowedWrites
          Needed         \* per turn: expectedWrites

ASSUME EvalAssumption ==
    /\ Cases # {} /\ IsFiniteSet(Cases)
    /\ Repeat \in Nat \ {0} /\ RetryFailures \in Nat /\ Turns \in Nat \ {0}
    /\ {Observed, Allowed, Needed} \subseteq [1..Turns -> SUBSET Paths]

VARIABLES phase,     \* where the run is; "off" when another client runs
          todo,      \* the attempts still to make in this pass
          retry,     \* passes of retries made
          task,      \* the attempt being made: its case and what it retries
          turn,      \* the turn of the case
          tree,      \* the workspace
          before,    \* the snapshot taken before the turn
          errors,    \* the attempt has semantic errors
          infra,     \* infraError is set
          attempts,  \* what the report will list
          gate,      \* the verdict
          start,     \* the workspace as the turn began          (observed)
          wrote,     \* <<turn, file>> that the turn changed     (observed)
          stray      \* a file was written outside the turns     (observed)

evalVars == <<phase, todo, retry, task, turn, tree, before, errors, infra,
              attempts, gate, start, wrote, stray>>

Statuses == {"PASS", "SEMANTIC_FAIL", "INFRA_FAIL"}

\* retryOf 0: a first attempt; a retry keeps the round it makes good  (observed)
Task == [case : Cases, round : 1..Repeat, retryOf : 0..Repeat]

Attempt == [case : Cases, round : 1..Repeat, retryOf : 0..Repeat,
            attempt : Nat \ {0}, status : Statuses]

NoGate == [done |-> FALSE, failed |-> {}, flaky |-> {}]

FirstTasks == {j \in Task : j.retryOf = 0}

\* the first pass: every case once, in any order, round by round
Rounds ==
    {q \in [1..(Repeat * Cardinality(Cases)) -> FirstTasks] :
        /\ IsInjective(q) /\ ToSet(q) = FirstTasks
        /\ \A i, j \in DOMAIN q : i < j => q[i].round <= q[j].round}

EvalInit ==
    /\ todo \in Rounds /\ retry = 0 /\ task = Head(todo)
    /\ turn = 1 /\ tree = [p \in Paths |-> 0] /\ before = tree
    /\ errors = FALSE /\ infra = FALSE /\ attempts = << >> /\ gate = NoGate
    /\ start = tree /\ wrote = {} /\ stray = FALSE

-----------------------------------------------------------------------------
Of(case) == {n \in DOMAIN attempts : attempts[n].case = case}

Primary(case) == {n \in Of(case) : attempts[n].retryOf = 0}

\* a variant: any retry of the case that passed
RecoveredAny(n) == \E k \in Of(attempts[n].case) :
                      /\ attempts[k].retryOf # 0
                      /\ attempts[k].status = "PASS"

\* some retry of the first attempt n passed
Recovered(n) == \E k \in Of(attempts[n].case) :
                   /\ attempts[k].retryOf = attempts[n].attempt
                   /\ attempts[k].status = "PASS"

unresolved == {n \in DOMAIN attempts : /\ attempts[n].retryOf = 0
                                       /\ attempts[n].status # "PASS"
                                       /\ ~Recovered(n)}

\* a number no attempt of the case has
nextAttempt(case) == 1 + Max({attempts[n].attempt : n \in Of(case)} \cup {0})

evaluateCaseGate ==
    LET failed == {c \in Cases : \/ Primary(c) = {}
                                 \/ Primary(c) \cap unresolved # {}}
    IN  [done   |-> TRUE,
         failed |-> failed,
         flaky  |-> {c \in Cases \ failed :
                       \E n \in Primary(c) : attempts[n].status # "PASS"}]

-----------------------------------------------------------------------------
(* One attempt.                                                            *)
Returned == s["case"].op = "idle"

Call(r) == s' = [s EXCEPT !["case"] = r]

\* a new workspace, and a session in it
StartAttempt ==
    /\ phase = "next" /\ todo # << >>
    /\ task' = Head(todo) /\ todo' = Tail(todo)
    /\ tree' = [p \in Paths |-> 0]
    /\ turn' = 1 /\ errors' = FALSE /\ infra' = FALSE
    /\ start' = tree' /\ wrote' = {} /\ stray' = FALSE /\ before' = tree'
    /\ \/ Call(create(s["case"])) /\ phase' = "create"
       \/ \* the workspace or its repository cannot be made
          s' = [s EXCEPT !["case"] = NoSession] /\ phase' = "fail"
    /\ UNCHANGED <<retry, attempts, gate>>

\* without a session there is nothing to close
Created ==
    /\ phase = "create" /\ Returned
    /\ phase' = IF s["case"].out = "ok" THEN "turn" ELSE "fail"
    /\ UNCHANGED <<s, todo, retry, task, turn, tree, before, errors, infra,
                   attempts, gate, start, wrote, stray>>

\* a variant: the snapshot is taken before the observer writes
StartTurnBlind ==
    /\ phase = "turn"
    /\ tree' = [p \in Paths |-> IF p \in Observed[turn] THEN 1 ELSE tree[p]]
    /\ before' = tree
    /\ Call(prompt(s["case"]))
    /\ phase' = "answer"
    /\ UNCHANGED <<todo, retry, task, turn, errors, infra, attempts, gate,
                   start, wrote, stray>>

\* the observer's files, the snapshot, the prompt
StartTurn ==
    /\ phase = "turn"
    /\ tree' = [p \in Paths |-> IF p \in Observed[turn] THEN 1 ELSE tree[p]]
    /\ before' = tree'
    /\ Call(prompt(s["case"]))
    /\ phase' = "answer"
    /\ UNCHANGED <<todo, retry, task, turn, errors, infra, attempts, gate,
                   start, wrote, stray>>

modelMutations == {p \in Paths : tree[p] # before[p]}

\* the answer is matched, and the workspace compared with the snapshot
JudgeTurn ==
    /\ phase = "answer" /\ Returned
    /\ \E matched \in BOOLEAN :
          LET good == /\ matched
                      /\ modelMutations \subseteq Allowed[turn]
                      /\ Needed[turn] \subseteq modelMutations
          IN  IF s["case"].out # "ok"
              THEN infra' = TRUE /\ phase' = "stats" /\ UNCHANGED <<errors, turn>>
              ELSE /\ errors' = ~good
                   /\ phase' = IF good /\ turn < Turns THEN "turn" ELSE "stats"
                   /\ turn' = IF good /\ turn < Turns THEN turn + 1 ELSE turn
                   /\ UNCHANGED infra
    /\ UNCHANGED <<s, todo, retry, task, tree, before, attempts, gate, start,
                   wrote, stray>>

\* what the whole conversation must match is looked at after the last turn
Stats ==
    /\ phase = "stats"
    /\ errors' \in IF infra \/ errors THEN {errors} ELSE BOOLEAN
    /\ Call(stats(s["case"]))
    /\ phase' = "close"
    /\ UNCHANGED <<todo, retry, task, turn, tree, before, infra, attempts, gate,
                   start, wrote, stray>>

\* missing statistics are no failure
CloseSession ==
    /\ phase = "close" /\ Returned
    /\ Call(close(s["case"]))
    /\ phase' = "clean"
    /\ UNCHANGED <<todo, retry, task, turn, tree, before, errors, infra,
                   attempts, gate, start, wrote, stray>>

\* the workspace is removed and the attempt recorded
Record(failed) ==
    \E removed \in BOOLEAN :
        LET broken == failed \/ ~removed
        IN  /\ infra' = broken
            /\ attempts' = Append(attempts,
                 [case    |-> task.case,
                  round   |-> task.round,
                  attempt |-> IF task.retryOf = 0 THEN task.round
                                                 ELSE nextAttempt(task.case),
                  retryOf |-> task.retryOf,
                  status  |-> IF broken THEN "INFRA_FAIL"
                              ELSE IF errors THEN "SEMANTIC_FAIL" ELSE "PASS"])

Clean ==
    /\ \/ phase = "clean" /\ Returned /\ Record(infra \/ s["case"].out # "ok")
       \/ phase = "fail" /\ Record(TRUE)
    /\ phase' = "next"
    /\ UNCHANGED <<s, todo, retry, task, turn, tree, before, errors, gate,
                   start, wrote, stray>>

-----------------------------------------------------------------------------
(* The run.                                                                *)
StartRetries ==
    /\ phase = "next" /\ todo = << >>
    /\ retry < RetryFailures /\ unresolved # {}
    /\ retry' = retry + 1
    /\ \E list \in [1..Cardinality(unresolved) -> unresolved] :
          /\ \A i, j \in DOMAIN list : i < j => list[i] < list[j]
          /\ todo' = [k \in DOMAIN list |->
                        [case |-> attempts[list[k]].case, round |-> attempts[list[k]].round,
                         retryOf |-> attempts[list[k]].attempt]]
    /\ UNCHANGED <<s, phase, task, turn, tree, before, errors, infra, attempts, gate,
                   start, wrote, stray>>

WriteReport ==
    /\ phase = "next" /\ todo = << >>
    /\ retry = RetryFailures \/ unresolved = {}
    /\ gate' = evaluateCaseGate
    /\ phase' = "done"
    /\ UNCHANGED <<s, todo, retry, task, turn, tree, before, errors, infra,
                   attempts, start, wrote, stray>>

EvalStep == \/ StartAttempt \/ Created \/ StartTurn \/ JudgeTurn
            \/ Stats \/ CloseSession \/ Clean \/ StartRetries \/ WriteReport

\* external: PI changes a file of the workspace, or undoes a change, in a turn
\* or, once, from a process it left behind
Write(p) ==
    /\ phase \in {"turn", "answer", "stats", "close", "clean"}
    /\ s["case"].child = "up"
    /\ s["case"].busy \/ ~stray
    /\ \E v \in {0, 2} \ {tree[p]} : tree' = [tree EXCEPT ![p] = v]
    /\ stray' = (stray \/ ~s["case"].busy)
    /\ UNCHANGED <<s, phase, todo, retry, task, turn, before, errors, infra,
                   attempts, gate, start, wrote>>

\* what is observed of a turn as it begins and settles
Watch ==
    LET r == s["case"]
    IN  /\ start' = IF s'["case"].turn # r.turn THEN tree ELSE start
        /\ wrote' = IF s'["case"].said # r.said
                    THEN wrote \cup {<<s'["case"].said, p>> :
                                        p \in {p \in Paths : tree[p] # start'[p]}}
                    ELSE wrote
        /\ UNCHANGED <<phase, todo, retry, task, turn, tree, before, errors, infra,
                       attempts, gate, stray>>

-----------------------------------------------------------------------------
(* Properties.                                                             *)
Passed == /\ phase = "next" /\ attempts # << >>
          /\ Last(attempts).status = "PASS"

\* An attempt passes only if what each of its turns did to the workspace is
\* what that turn may and must do: no turn is credited with, or excused by, the
\* writes of another or of the observer.  Writes outside the turns are not
\* looked for: they fall between two snapshots.
TurnJudged ==
    Passed /\ ~stray =>
        \A t \in 1..Turns : LET did == {p \in Paths : <<t, p>> \in wrote}
                            IN  Needed[t] \subseteq did /\ did \subseteq Allowed[t]

\* An attempt passes only if PI had exited by itself, with code 0, before its
\* workspace was removed; nothing else of it can still write.
PassedIsOver == Passed => s["case"].child = "ended"

\* The gate fails exactly the cases one of whose rounds passed neither at first
\* nor in a retry made for that round, whatever number the retry got.
GateHonest ==
    gate.done =>
        gate.failed = {c \in Cases : \E n \in 1..Repeat :
                          \A k \in Of(c) : attempts[k].round = n
                                              => attempts[k].status # "PASS"}
=============================================================================
