------------------------------ MODULE PiSession ------------------------------
(***************************************************************************)
(* A session with PI: the child process, the JSONL channel to it and the   *)
(* client that scripts/eval-pi-behavior.mjs builds in createPiRpcSession.  *)
(* The client is one thread of callbacks: a method asks the child          *)
(* something, awaits an answer under a timer, and goes on from there; in   *)
(* between the child answers, works on a turn, settles, prints rubbish,    *)
(* stops or dies, and timers fire.                                         *)
(*                                                                         *)
(* A method in progress is named by op and the thing it awaits by at; out  *)
(* says how the last one ended.  An answer the client receives late and    *)
(* one the child sends late are the same to it, so the pipe holds only     *)
(* requests; live marks those whose answer somebody still waits for.       *)
(***************************************************************************)
EXTENDS Naturals, Sequences

\* external: the sessions the clients of this module open
Sessions == {"case", "tool", "reviewer", "named", "resumed", "timeout"}

VARIABLE s      \* per session: the child process and the client's variables

Asks == {"commands", "state", "prompt", "text", "entries", "stats", "abort"}

Session == [child  : {"none", "up", "ended", "died"},  \* ended: exit code 0
            term   : BOOLEAN,    \* child.killed
            eof    : BOOLEAN,    \* the client ended the child's stdin
            inbox  : Seq([ask : Asks, live : BOOLEAN]),
            op     : {"idle", "create", "prompt", "entries", "stats",
                      "control", "close", "exit"},
            at     : Asks \cup {"none", "settled", "reap", "closed", "ack"},
            out    : {"none", "ok", "failed"},
            settle : {"none", "waiting", "done", "failed"},
            error  : {"none", "timeout", "jsonl", "died"},   \* terminalError
            abort  : {"none", "asked", "acked", "failed"}, \* lastTimeoutControl
            kill   : BOOLEAN,    \* the timer that terminates the child
            busy   : BOOLEAN,    \* the child works on a turn
            turn   : Nat,        \* turns the child took on
            said   : Nat,        \* the turn its last message belongs to
            text   : Nat,        \* the turn whose message prompt() returned
            gone   : BOOLEAN]    \* closedByClient

NoSession == [child |-> "none", term |-> FALSE, eof |-> FALSE, inbox |-> << >>,
              op |-> "idle", at |-> "none", out |-> "none", settle |-> "none",
              error |-> "none", abort |-> "none", kill |-> FALSE, busy |-> FALSE,
              turn |-> 0, said |-> 0, text |-> 0,
              gone |-> FALSE]

Timed == (Asks \ {"abort"}) \cup {"settled"}       \* what timed() guards

(***************************************************************************)
(* The client's own functions, on the record of its session.               *)
(***************************************************************************)
\* request(): a write to a child that is gone is lost
Sent(r, ask) ==
    IF r.child = "up"
    THEN [r EXCEPT !.inbox = Append(@, [ask |-> ask, live |-> TRUE])] ELSE r

Ask(r, ask) == [Sent(r, ask) EXCEPT !.at = ask]

Return(r, how) == [r EXCEPT !.op = "idle", !.at = "none", !.out = how]

terminate(r) == [r EXCEPT !.term = @ \/ r.child = "up"]

\* what a method does when the thing it awaits was rejected: create also
\* terminates the child and waits for it to go
Throw(r) == IF r.op = "create" THEN [terminate(r) EXCEPT !.at = "reap"]
                               ELSE Return(r, "failed")

failPending(r, cause) ==
    LET dead == [r EXCEPT !.error  = IF @ = "none" THEN cause ELSE @,
                          !.settle = IF @ = "waiting" THEN "failed" ELSE @,
                          !.abort  = IF @ = "asked" THEN "failed" ELSE @,
                          !.inbox  = [n \in DOMAIN @ |->
                                        [@[n] EXCEPT !.live = FALSE]]]
    IN  IF r.at \in Timed THEN Throw(dead)
        ELSE IF r.at = "ack" THEN Return(dead, "ok") ELSE dead

\* the timer of timed(): everyone waiting is told, the child is asked to
\* abort, and is terminated two seconds later
TimedOut(r) ==
    LET failed == failPending(r, "timeout")
    IN  IF r.child = "up"
        THEN [Sent(failed, "abort") EXCEPT !.abort = "asked", !.kill = TRUE]
        ELSE failed

\* a variant: the message is asked for as soon as the prompt is accepted
ResumeEarly(r) ==
    CASE r.op = "create" /\ r.at = "commands" -> Ask(r, "state")
      [] r.op = "prompt" /\ r.at = "prompt" -> Ask(r, "text")
      [] r.op = "prompt" /\ r.at = "text" ->
            [Ask(r, "state") EXCEPT !.text = r.said]
      [] OTHER -> Return(r, "ok")

\* the answer a method waited for is there: the await that follows
Resume(r) ==
    CASE r.op = "create" /\ r.at = "commands" -> Ask(r, "state")
      [] r.op = "prompt" /\ r.at = "prompt" ->
            IF r.settle = "done" THEN Ask(r, "text")
                                 ELSE [r EXCEPT !.at = "settled"]
      [] r.op = "prompt" /\ r.at = "settled" -> Ask(r, "text")
      [] r.op = "prompt" /\ r.at = "text" ->
            [Ask(r, "state") EXCEPT !.text = r.said]
      [] OTHER -> Return(r, "ok")

\* an answer with success: false, without a text, or of another identity
Refused(r) ==
    Throw(IF r.at = "prompt" THEN [r EXCEPT !.settle = "none"] ELSE r)

-----------------------------------------------------------------------------
(* The methods of the session, up to their first await.                    *)
create(r) == [Ask([NoSession EXCEPT !.child = "up"], "commands")
                EXCEPT !.op = "create"]

prompt(r) ==
    IF r.error # "none" \/ r.settle = "waiting" THEN Return(r, "failed")
    ELSE [Ask(r, "prompt") EXCEPT !.op = "prompt", !.settle = "waiting",
                                  !.out = "none"]

entries(r) == [Ask(r, "entries") EXCEPT !.op = "entries", !.out = "none"]

stats(r) == [Ask(r, "stats") EXCEPT !.op = "stats", !.out = "none"]

timeoutControl(r) ==
    IF r.abort # "asked" THEN Return(r, "ok")
    ELSE [r EXCEPT !.op = "control", !.at = "ack", !.out = "none"]

close(r) ==
    IF r.gone THEN Return(r, "ok")
    ELSE IF r.child # "up"
         THEN Return([r EXCEPT !.gone = TRUE],
                     IF r.child = "ended" THEN "ok" ELSE "failed")
         ELSE [r EXCEPT !.gone = TRUE, !.eof = TRUE, !.op = "close",
                        !.at = "closed", !.out = "none"]

waitForExit(r) ==
    IF r.child # "up" THEN Return(r, "ok")
    ELSE [r EXCEPT !.op = "exit", !.at = "closed", !.out = "none"]

isAlive(r) == r.child = "up"

-----------------------------------------------------------------------------
(* The child and the timers.                                               *)
Becomes(i, r) == s' = [s EXCEPT ![i] = r]

\* the child answers the request at the head of the pipe; whoever awaits it
\* goes on, and an answer nobody waits for is ignored
Answer(i) ==
    LET r == s[i]
        q == Head(r.inbox)
        taken == [r EXCEPT !.inbox = Tail(@)]
        works == CASE q.ask = "prompt" ->
                        [taken EXCEPT !.busy = TRUE, !.turn = @ + 1]
                   [] q.ask = "abort" -> [taken EXCEPT !.busy = FALSE]
                   [] OTHER -> taken
    IN  /\ r.child = "up"
        /\ r.inbox # << >>
        /\ IF q.ask = "abort"
           THEN \E how \in {"acked", "failed"} :
                    LET told == IF q.live THEN [works EXCEPT !.abort = how]
                                          ELSE works
                    IN  Becomes(i, IF q.live /\ r.at = "ack"
                                   THEN Return(told, "ok") ELSE told)
           ELSE \/ Becomes(i, IF q.live THEN Resume(works) ELSE works)
                \/ /\ q.ask = "prompt"     \* the turn is over before the answer
                   /\ q.live
                   /\ Becomes(i, Resume([works EXCEPT !.busy = FALSE,
                                        !.said = works.turn, !.settle = "done"]))
                \/ Becomes(i, IF q.live THEN Refused(taken) ELSE taken)

\* agent_settled: heard only by a prompt that waits for it
Settle(i) ==
    LET r    == s[i]
        done == [r EXCEPT !.busy = FALSE, !.said = r.turn,
                          !.settle = IF @ = "waiting" THEN "done" ELSE @]
    IN  /\ r.child = "up"
        /\ r.busy
        /\ Becomes(i, IF r.at = "settled" THEN Resume(done) ELSE done)

\* the child prints a line that is not JSON
Garbage(i) ==
    /\ s[i].child = "up"
    /\ s[i].error = "none"
    /\ Becomes(i, failPending(s[i], "jsonl"))

\* the child exits: with 0 nobody who waits for an answer is told
Exit(i) ==
    LET r == [s[i] EXCEPT !.child = "ended", !.inbox = << >>, !.busy = FALSE]
    IN  /\ s[i].child = "up"
        /\ Becomes(i, CASE r.at = "closed" -> Return(r, "ok")
                        [] r.at = "reap" -> Return(r, "failed")
                        [] OTHER -> r)

\* it exits with another code, or of a signal
Die(i) ==
    LET r == failPending([s[i] EXCEPT !.child = "died", !.inbox = << >>,
                                      !.busy = FALSE], "died")
    IN  /\ s[i].child = "up"
        /\ Becomes(i, CASE r.at = "closed" ->
                            Return(r, IF r.op = "exit" THEN "ok" ELSE "failed")
                        [] r.at = "reap" -> Return(r, "failed")
                        [] OTHER -> r)

\* the two seconds after a timeout are over
KillTimer(i) ==
    /\ s[i].kill
    /\ Becomes(i, [terminate(s[i]) EXCEPT !.kill = FALSE])

\* a variant: close() awaits the exit without a timer
TimeoutButClose(i) ==
    LET r == s[i]
    IN  \/ /\ r.at \in Timed
           /\ Becomes(i, TimedOut(r))
        \/ /\ r.at = "ack"
           /\ ~r.kill
           /\ Becomes(i, Return(r, "ok"))
        \/ /\ r.at = "closed" /\ r.op # "close"
           /\ ~r.kill
           /\ Becomes(i, Return(IF r.op = "close" THEN terminate(r) ELSE r,
                                "failed"))
        \/ /\ r.at = "reap"
           /\ Becomes(i, Return([r EXCEPT !.child = "died", !.inbox = << >>,
                                          !.busy = FALSE], "failed"))

\* the timer of what a method awaits.  The waits for the acknowledgement and
\* for the exit are longer than the two seconds, so kill is over before them
Timeout(i) ==
    LET r == s[i]
    IN  \/ /\ r.at \in Timed
           /\ Becomes(i, TimedOut(r))
        \/ /\ r.at = "ack"
           /\ ~r.kill
           /\ Becomes(i, Return(r, "ok"))
        \/ /\ r.at = "closed"
           /\ ~r.kill
           /\ Becomes(i, Return(IF r.op = "close" THEN terminate(r) ELSE r,
                                "failed"))
        \/ /\ r.at = "reap"
           /\ Becomes(i, Return([r EXCEPT !.child = "died", !.inbox = << >>,
                                          !.busy = FALSE], "failed"))

\* Between two awaits the client is one piece of synchronous code: what the
\* child does then reaches it at the next await.
Awaiting(i) == s[i].op # "idle"

Child(i) == /\ Awaiting(i)
            /\ Answer(i) \/ Settle(i) \/ Garbage(i) \/ Exit(i) \/ Die(i)

Timers(i) == Awaiting(i) /\ (KillTimer(i) \/ Timeout(i))
=============================================================================
