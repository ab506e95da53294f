-------------------------- MODULE TelemetrySession --------------------------
(***************************************************************************)
(* What the monitoring thread promises to everything that reads its        *)
(* snapshots: there is one session at a time, with one phone; it ends      *)
(* before the next begins, and ends with nothing held; what is held came   *)
(* from the phone of the session.  One thing takes a live session to       *)
(* another phone, and lets it hold data of both: a pick of the user.       *)
(***************************************************************************)
CONSTANTS Serial, NoSerial

VARIABLES
    session,   \* the phone of the session, or NoSerial
    held,      \* the phones the held snapshots were read from
    picked     \* the phones the user has asked for

vars == <<session, held, picked>>

Init == session = NoSerial /\ held = {} /\ picked = {}

Pick(s) ==
    /\ picked' = picked \cup {s}
    /\ UNCHANGED <<session, held>>

\* A pick is heeded before a session is up, or is of the session's phone.
Heed ==
    /\ picked' \subseteq picked
    /\ UNCHANGED <<session, held>>

\* A pick is heeded in a live session.
HandOver(s) ==
    /\ session # NoSerial
    /\ s \in picked
    /\ session' = s
    /\ picked' \subseteq picked
    /\ UNCHANGED held

Open(s) ==
    /\ session = NoSerial
    /\ session' = s
    /\ held' = {}
    /\ UNCHANGED picked

\* A collector replaces its snapshot, or has nothing to report any more.
Sample ==
    /\ session # NoSerial
    /\ held' \subseteq held \cup {session}
    /\ UNCHANGED <<session, picked>>

Close ==
    /\ session # NoSerial
    /\ session' = NoSerial
    /\ held' = {}
    /\ UNCHANGED picked

Next ==
    \/ \E s \in Serial : Pick(s) \/ HandOver(s) \/ Open(s)
    \/ Heed \/ Sample \/ Close

Spec == Init /\ [][Next]_vars
=============================================================================
