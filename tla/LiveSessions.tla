----------------------------- MODULE LiveSessions -----------------------------
(***************************************************************************)
(* PI sessions under either of their clients: an evaluation run or the     *)
(* active capability probe.  One process runs one of them.                 *)
(***************************************************************************)
EXTENDS EvalRun, CapabilityProbe

liveVars == <<s, evalVars, probeVars>>

LiveInit ==
    /\ s = [i \in Sessions |-> NoSession]
    /\ EvalInit /\ ProbeInit
    /\ \/ phase = "next" /\ mode = "off"
       \/ phase = "off" /\ mode = "call"

Eval == /\ \/ EvalStep
           \/ Child("case") /\ Watch
           \/ Timers("case") /\ UNCHANGED evalVars
           \/ \E p \in Paths : Write(p)
        /\ UNCHANGED probeVars

Probe == /\ \/ ProbeStep \/ ToolStarts \/ ToolStops
            \/ \E i \in Sessions \ {"case"} :
                  (Child(i) \/ Timers(i)) /\ UNCHANGED probeVars
         /\ mode # "off"
         /\ UNCHANGED evalVars

\* the report is written, or the receipt built: nothing is left to do
Over == phase = "done" \/ mode \in {"done", "threw"}

LiveNext == Eval \/ Probe \/ (Over /\ UNCHANGED liveVars)

\* Timers fire and the event loop goes on; nothing is asked of PI.
LiveSpec ==
    /\ LiveInit /\ [][LiveNext]_liveVars
    /\ WF_liveVars(EvalStep /\ UNCHANGED probeVars)
    /\ WF_liveVars(ProbeStep /\ UNCHANGED evalVars)
    /\ \A i \in Sessions : WF_liveVars(Timers(i) /\ UNCHANGED <<evalVars, probeVars>>)

LiveTypeOK ==
    /\ s \in [Sessions -> Session]
    /\ phase \in {"off", "next", "create", "turn", "answer", "stats", "close",
               "clean", "fail", "done"}
    /\ todo \in Seq(Task) /\ retry \in 0..RetryFailures /\ task \in Task
    /\ turn \in 1..Turns
    /\ {tree, before, start} \subseteq [Paths -> 0..2]
    /\ {errors, infra, stray, forced, receipt, evidence} \subseteq BOOLEAN
    /\ attempts \in Seq(Attempt)
    /\ gate \in [done : BOOLEAN, failed : SUBSET Cases, flaky : SUBSET Cases]
    /\ wrote \subseteq (1..Turns) \X Paths
    /\ step \in DOMAIN Script
    /\ mode \in {"off", "call", "wait", "look", "finally", "closing", "done",
                 "threw"}
    /\ held \subseteq Sessions
    /\ results \in [Capabilities -> {"UNTESTED", "SUPPORTED", "BLOCKED"}]
    /\ prober \in {"none", "up", "gone"}

\* The answer a prompt returned is the message of the turn it began, which is
\* over: never that of an earlier turn or of one still being worked on.
OwnAnswer ==
    LET own(r) == r.op = "idle" /\ r.out = "ok"
                    => r.text = r.turn /\ r.said = r.turn /\ ~r.busy
    IN  /\ phase = "answer" => own(s["case"]) /\ s["case"].turn <= turn
        /\ mode = "wait" /\ Do = "prompt" => own(s[On])

\* When an attempt or the probe is over, a PI process that still runs has been
\* sent SIGTERM: none is left that nobody told to stop.
NoneForgotten ==
    phase \in {"next", "done"} \/ mode \in {"done", "threw"} =>
        \A i \in Sessions : s[i].child = "up" => s[i].term

\* Whatever PI does or fails to do, a run comes to its end.
Ends == <>Over

\* What the two clients report of PI is what was seen of it, whatever was retried,
\* timed out or thrown in between: the gate, and every capability called SUPPORTED.
ReportsHonest == GateHonest /\ SupportedIsSeen

\* A PI process is let go of only when it is over or told to stop: none writes to the
\* session file or the workspace behind the back of what comes next.
ProcessesKept == OneWriter /\ NoneForgotten /\ PassedIsOver
=============================================================================
