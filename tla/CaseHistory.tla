----------------------------- MODULE CaseHistory -----------------------------
(***************************************************************************)
(* What a Planning Case promises to its users, whatever its files, locks   *)
(* and processes do: the case is a history of distinct events that only    *)
(* grows, readers see a prefix of it that never shrinks, and no event is   *)
(* accepted before its predecessors can be read.                           *)
(***************************************************************************)
EXTENDS Naturals, Sequences

CONSTANT EventId

VARIABLES
    history,  \* the ids of the accepted events, in order
    visible   \* how many of them the snapshot that readers see reflects

Init == history = <<>> /\ visible = 0

\* A mutation, or the recovery of one, makes its event durable.
Accept ==
    /\ visible = Len(history)
    /\ \E e \in EventId :
          /\ \A i \in 1..Len(history) : history[i] # e
          /\ history' = Append(history, e)
    /\ UNCHANGED visible

\* The snapshot catches up with the log.
Publish ==
    /\ visible < Len(history)
    /\ visible' = Len(history)
    /\ UNCHANGED history

Next == Accept \/ Publish

Spec == Init /\ [][Next]_<<history, visible>>
=============================================================================
