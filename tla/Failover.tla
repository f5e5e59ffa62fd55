------------------------------ MODULE Failover ------------------------------
(***************************************************************************)
(* What a redundancy group promises, without threads, flags or handles:    *)
(* the servers are tried one at a time in the configured order, there is   *)
(* at most one association and it is with the server selected, except that *)
(* a server given up because it did not answer in time may answer until it *)
(* is gone; a server in service is left only when it has been lost; and    *)
(* shutting down ends with no association.  Client implements this.        *)
(***************************************************************************)
EXTENDS Naturals

CONSTANT N

VARIABLES
    phase,     \* "off", "idle", "trying", "serving" or "closing"
    selected,  \* the server the group turns to, 0 for none
    assoc,     \* the servers with an association
    leaving    \* the servers given up without an answer and not yet gone

group == <<phase, selected, assoc, leaving>>

Init ==
    /\ phase = "off"
    /\ selected = 0
    /\ assoc = {}
    /\ leaving = {}

SwitchOn ==
    /\ phase = "off"
    /\ phase' = "idle"
    /\ UNCHANGED <<selected, assoc, leaving>>

\* A search begins with the first server.
Search ==
    /\ phase = "idle"
    /\ N > 0
    /\ phase' = "trying"
    /\ selected' = 1
    /\ UNCHANGED <<assoc, leaving>>

\* The server selected is released before the next one is tried; after the last one
\* the search ends.
TryNext ==
    /\ phase = "trying"
    /\ assoc \subseteq leaving
    /\ selected \notin leaving
    /\ \/ selected < N /\ selected' = selected + 1 /\ UNCHANGED phase
       \/ selected = N /\ selected' = 0 /\ phase' = "idle"
    /\ UNCHANGED <<assoc, leaving>>

Settle ==
    /\ phase = "trying"
    /\ phase' = "serving"
    /\ UNCHANGED <<selected, assoc, leaving>>

Associate ==
    /\ phase \in {"trying", "serving", "closing"}
    /\ selected # 0
    /\ assoc \subseteq leaving
    /\ assoc' = assoc \cup {selected}
    /\ UNCHANGED <<phase, selected, leaving>>

Release(s) ==
    /\ s \in assoc
    /\ assoc' = assoc \ {s}
    /\ UNCHANGED <<phase, selected, leaving>>

\* The server selected, which has no association, did not answer in time.
GiveUp ==
    /\ phase \in {"trying", "serving", "closing"}
    /\ selected # 0
    /\ selected \notin assoc
    /\ leaving' = leaving \cup {selected}
    /\ UNCHANGED <<phase, selected, assoc>>

\* Its answer comes too late ...
AnswerLate(s) ==
    /\ s \in leaving
    /\ assoc' = assoc \cup {s}
    /\ UNCHANGED <<phase, selected, leaving>>

\* ... and in the end it is gone.
Leave(s) ==
    /\ s \in leaving
    /\ leaving' = leaving \ {s}
    /\ assoc' = assoc \ {s}
    /\ UNCHANGED <<phase, selected>>

\* The server in service is lost for good; a group that is closing stays so.
Lose ==
    /\ phase \in {"serving", "closing"}
    /\ selected \in leaving
    /\ phase' = IF phase = "serving" THEN "idle" ELSE "closing"
    /\ selected' = 0
    /\ UNCHANGED <<assoc, leaving>>

Close ==
    /\ phase \in {"idle", "serving"}
    /\ phase' = "closing"
    /\ UNCHANGED <<selected, assoc, leaving>>

SwitchOff ==
    /\ phase = "closing" \/ (phase = "idle" /\ N = 0)
    /\ assoc = {}
    /\ leaving = {}
    /\ phase' = "off"
    /\ selected' = 0
    /\ UNCHANGED <<assoc, leaving>>

Next ==
    \/ SwitchOn \/ Search \/ TryNext \/ Settle \/ Associate \/ GiveUp
    \/ \E s \in 1 .. N : Release(s) \/ AnswerLate(s) \/ Leave(s)
    \/ Lose \/ Close \/ SwitchOff

Spec == Init /\ [][Next]_group

=============================================================================
