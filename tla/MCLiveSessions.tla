---------------------------- MODULE MCLiveSessions ----------------------------
EXTENDS LiveSessions

\* the observer leaves a file before the second turn, which must change it
MCObserved == [t \in 1..Turns |-> IF t = 2 THEN {"draft"} ELSE {}]
=============================================================================
