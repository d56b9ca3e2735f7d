---------------------------- MODULE CapabilityProbe ----------------------------
(***************************************************************************)
(* The active capability probe (defaultActiveProbe in                      *)
(* capabilities/doctor.mjs): five PI sessions in one script.  Each shows   *)
(* that a capability works; the fourth reopens the session file of the     *)
(* third in a new process, the fifth is made to time out.  An error ends   *)
(* the script; what was not tested by then is BLOCKED; every session that  *)
(* is still held is closed at the end.                                     *)
(*                                                                         *)
(* What a session answers (the token, the reviewer's result, its machine   *)
(* projection) is a choice.                                                *)
(***************************************************************************)
EXTENDS PiSession, FiniteSets

VARIABLES step,      \* the call of the script being made
          mode,      \* "off", "call", "wait", "finally", "closing", "done", "threw"
          held,      \* the sessions the script has a variable for
          results,   \* what is known of each capability
          forced,    \* the prompt of the fifth session timed out as asked
          prober,    \* the process the fifth session's tool starts
          receipt,   \* the tool wrote that it was aborted and its process ended
          evidence   \* timeoutEvidence is complete and good

probeVars == <<step, mode, held, results, forced, prober, receipt, evidence>>

\* "reviewer" stands for those whose verdict hangs on what the model answered
\* (tool-calling and the five read off the reviewer's result), "resume" for the
\* two read off the session that was reopened
Capabilities == {"session", "reviewer", "resume", "timeout"}

Does(i, method) == [on |-> i, do |-> method]

Script == << Does("tool", "create"), Does("tool", "prompt"),
             Does("reviewer", "create"), Does("reviewer", "prompt"),
             Does("named", "create"), Does("named", "prompt"),
             Does("named", "entries"), Does("named", "close"),
             Does("resumed", "create"), Does("resumed", "entries"),
             Does("resumed", "prompt"), Does("resumed", "close"),
             Does("timeout", "create"), Does("timeout", "prompt"),
             Does("timeout", "control"), Does("timeout", "close"),
             Does("timeout", "exit") >>

\* a variant: the close() before the session is reopened is let fail as well
CaughtClose == {8} \cup 14..17

\* the calls of the fifth session whose rejection is swallowed
Caught == 14..17

ProbeInit == /\ step = 1 /\ held = {} /\ forced = FALSE /\ evidence = FALSE
             /\ results = [c \in Capabilities |-> "UNTESTED"]
             /\ prober = "none" /\ receipt = FALSE

Method(r, do) == CASE do = "create"  -> create(r)
                   [] do = "prompt"  -> prompt(r)
                   [] do = "entries" -> entries(r)
                   [] do = "control" -> timeoutControl(r)
                   [] do = "close"   -> close(r)
                   [] do = "exit"    -> waitForExit(r)

-----------------------------------------------------------------------------
On == Script[step].on
Do == Script[step].do
Ok == s[On].out = "ok"

Verdict(good) == IF good THEN "SUPPORTED" ELSE "BLOCKED"

\* what the script concludes from a call that returned
Learn ==
    LET put(f) == results' = [c \in Capabilities |->
                                IF c \in DOMAIN f THEN f[c] ELSE results[c]]
    IN  CASE On = "tool" /\ Do = "prompt" ->
                put([session |-> "SUPPORTED"])
          [] On = "reviewer" /\ Do = "prompt" ->
                \E good \in BOOLEAN : put([reviewer |-> Verdict(good)])
          [] On = "resumed" /\ Do = "prompt" ->
                \E same \in BOOLEAN :
                    put([resume |-> Verdict(same /\ ~isAlive(s["named"]))])
          [] OTHER -> UNCHANGED results

\* the script forgets a session: what is left of it is how its process fared
Forget(i) == s' = [s EXCEPT ![i] =
                     [NoSession EXCEPT !.child = s[i].child, !.term = s[i].term,
                                       !.error = s[i].error, !.abort = s[i].abort,
                                       !.gone = TRUE]]

CallNext ==
    /\ mode = "call"
    /\ s' = [s EXCEPT ![On] = Method(@, Do)]
    /\ mode' = "wait"
    /\ UNCHANGED <<step, held, results, forced, prober, receipt, evidence>>

\* a session exists for the script once it was created, and no longer once it
\* was closed; the last call is followed by the look at the tool's process
Proceed ==
    /\ mode = "wait" /\ s[On].op = "idle"
    /\ Ok \/ step \in Caught
    /\ Learn
    /\ IF Do = "close" /\ On # "timeout"
       THEN held' = held \ {On} /\ Forget(On)
       ELSE /\ held' = IF Do = "create" THEN held \cup {On} ELSE held
            /\ UNCHANGED s
    /\ forced' = IF step = 14 THEN /\ ~Ok /\ s[On].error = "timeout"
                                  /\ s[On].settle = "failed"
                              ELSE forced
    /\ step' = IF step < Len(Script) THEN step + 1 ELSE step
    /\ mode' = IF step < Len(Script) THEN "call" ELSE "look"
    /\ UNCHANGED <<prober, receipt, evidence>>

\* the receipt is waited for, and a tool process that is still there killed
Look ==
    /\ mode = "look"
    /\ evidence' = /\ forced /\ s["timeout"].abort = "acked"
                   /\ ~isAlive(s["timeout"]) /\ receipt
    /\ prober' = IF prober = "up" THEN "gone" ELSE prober
    /\ held' = held \ {"timeout"} /\ Forget("timeout")
    /\ mode' = "finally"
    /\ UNCHANGED <<step, results, forced, receipt>>

Catch ==
    /\ mode = "wait" /\ s[On].op = "idle"
    /\ ~Ok /\ step \notin Caught
    /\ results' = [c \in Capabilities |-> IF results[c] = "UNTESTED"
                                          THEN "BLOCKED" ELSE results[c]]
    /\ mode' = "finally"
    /\ UNCHANGED <<s, step, held, forced, prober, receipt, evidence>>

\* the sessions are closed in the reverse order of their opening
Order == << "timeout", "resumed", "named", "reviewer", "tool" >>

NextHeld == Order[CHOOSE n \in DOMAIN Order :
                    /\ Order[n] \in held
                    /\ \A k \in 1..(n - 1) : Order[k] \notin held]

Finally ==
    /\ mode = "finally" /\ held # {}
    /\ s' = [s EXCEPT ![NextHeld] = close(@)]
    /\ mode' = "closing"
    /\ UNCHANGED <<step, held, results, forced, prober, receipt, evidence>>

Closed ==
    /\ mode = "closing" /\ s[NextHeld].op = "idle"
    /\ held' = held \ {NextHeld} /\ Forget(NextHeld)
    /\ mode' = "finally"
    /\ UNCHANGED <<step, results, forced, prober, receipt, evidence>>

\* the directories are removed: an error here leaves the probe without results
RemoveAll ==
    /\ mode = "finally" /\ held = {}
    /\ \/ /\ results' = [results EXCEPT !["timeout"] = Verdict(evidence)]
          /\ mode' = "done"
       \/ mode' = "threw" /\ UNCHANGED results
    /\ UNCHANGED <<s, step, held, forced, prober, receipt, evidence>>

ProbeStep == CallNext \/ Proceed \/ Look \/ Catch \/ Finally \/ Closed \/ RemoveAll

-----------------------------------------------------------------------------
(* External: the tool of extensions/capability-timeout-probe.mjs.          *)
ToolStarts ==
    /\ prober = "none" /\ s["timeout"].busy
    /\ prober' = "up"
    /\ UNCHANGED <<s, step, mode, held, results, forced, receipt, evidence>>

\* aborted, it stops its process and then writes the receipt
ToolStops ==
    /\ prober = "up" /\ s["timeout"].child = "up" /\ ~s["timeout"].busy
    /\ prober' = "gone" /\ receipt' = TRUE
    /\ UNCHANGED <<s, step, mode, held, results, forced, evidence>>

-----------------------------------------------------------------------------
(* Properties.                                                             *)

\* No two PI processes have the session file open at once: the file is reopened
\* only after the first process has exited, however closing it went.
OneWriter == s["resumed"].child = "up" => s["named"].child # "up"

\* Every capability gets a verdict, and SUPPORTED only on what was seen: the resumed session
\* on a process that had exited, the cancelled one on a process that was told to
\* abort, agreed, and is gone together with the process of its tool.
SupportedIsSeen ==
    mode = "done" =>
        /\ \A c \in Capabilities : results[c] # "UNTESTED"
        /\ results["resume"] = "SUPPORTED" => s["named"].child = "ended"
        /\ results["timeout"] = "SUPPORTED" =>
              /\ s["timeout"].error # "none" /\ s["timeout"].abort = "acked"
              /\ s["timeout"].child \in {"ended", "died"} /\ prober = "gone"
=============================================================================
