----------------------------- MODULE MCInspector -----------------------------
(* The instance of Inspector that TLC checks, and the audits it shows. *)
EXTENDS Inspector, Permissions, TLC

CONSTANTS p1, p2, a, b

\* The name of b is longer than 15 characters; what is left of it is a.
CutNames == a :> a @@ b :> a

AppAndNative == p1 :> b @@ p2 :> NoPackage

-----------------------------------------------------------------------------
(* The pure algorithms, against reference definitions. *)

Of(name, state) == [kind |-> "permission", name |-> name, state |-> state]

\* A permission that is not granted behaves as any other.
Lines == {l \in Line : l.kind = "permission" =>
             \/ l.state = "granted" /\ l.name # "camera"
             \/ l = Of("accessibility", "denied")}

Dumps == UNION {[1 .. n -> Lines] : n \in 0 .. 4}

\* A flag needs every one of its permissions granted on a line below a header;
\* one permission alone is never a flag, and an audit without a header has none.
ASSUME FlagsAreGranted ==
    \A dump \in Dumps :
        LET found == AuditOf(dump)
            Granted(name) == \E i \in DOMAIN dump : /\ dump[i] = Of(name, "granted")
                                                    /\ \E j \in 1 .. i - 1 : dump[j].kind = "header"
        IN  /\ \A f \in found.flags : Cardinality(f.matched) >= 2 /\ \A n \in f.matched : Granted(n)
            /\ Granted("accessibility") /\ Granted("overlay") =>
                  \E f \in found.flags : f.flag = "OVERLAY_ACCESSIBILITY"
            /\ ~found.complete => found.permissions = {} /\ found.flags = {}
            /\ \A e \in found.permissions : e.section \in {"install", "runtime"}

=============================================================================
