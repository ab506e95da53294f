-------------------------- MODULE MCActionPipeline --------------------------
(* Small instances of ActionPipeline for TLC. *)
EXTENDS ActionPipeline, TLC

CONSTANTS a, b, app

\* The application of the user on one phone is the system's on the other.
SystemOnOne == [s \in Serial |-> IF s = b THEN {app} ELSE {}]

\* One action per way to end: two commands, no change to the phone, a change
\* that can be undone, one that cannot.
Commands == {"open_app", "force_stop", "disable", "uninstall"}
AnyDump == {"complete", "partial"}
=============================================================================
