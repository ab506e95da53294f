----------------------------- MODULE MCCaseDesk ------------------------------
(* The instances of CaseDesk that TLC checks. *)
EXTENDS CaseDesk, TLC

App == [name |-> "app", uid |-> 1, user |-> TRUE, named |-> TRUE]
AppPackage == [name |-> "app", uid |-> 1]
Port(name) == [name |-> name, uid |-> 1, keyed |-> TRUE]
Ports == {Port("tcp:80"), Port("tcp:81")}

\* The application is installed and runs, or not, with its ports or none; the
\* socket tables are read in full or only in part.
ReadOf(present, ports, full) ==
    [processes |-> IF present THEN {App} ELSE {},
     packages |-> IF present THEN {AppPackage} ELSE {},
     sockets |-> ports, socketsRead |-> full,
     rows |-> IF present THEN {[pid |-> 7, name |-> "app", uid |-> 1, user |-> TRUE,
                                ppid |-> NoPid]} ELSE {},
     tables |-> [rows |-> {[name |-> p.name, uid |-> 1, state |-> "LISTEN"] : p \in ports},
                 packages |-> IF present THEN (1 :> {"app"}) ELSE <<>>]]

SomeReads == {ReadOf(FALSE, {}, TRUE), ReadOf(TRUE, {}, FALSE), ReadOf(TRUE, Ports, TRUE)}

OneAudit == {[package |-> "app", flags |-> {"OVERLAY"}]}

BothPorts == {"tcp:80", "tcp:81"}

-----------------------------------------------------------------------------
(* The pure algorithms, against reference definitions. *)

SomeRows ==
    SUBSET {[pid |-> p, name |-> "app", uid |-> p, user |-> TRUE, ppid |-> q] :
               p \in 1 .. 3, q \in {NoPid, 1, 2, 9}}

\* A process table names a parent once for each pid.
ProcessTrees == {S \in SomeRows : Cardinality(S) <= 3 /\ \A r, s \in S : r.pid = s.pid => r = s}

\* From a process, by parents, to a root: within as many steps as there are rows.
Ancestors(row, table) ==
    LET up[n \in 0 .. 3] ==
            IF n = 0 THEN {row} ELSE up[n - 1] \cup {p \in table : \E q \in up[n - 1] : q.ppid = p.pid}
    IN  up[3]

\* The tree holds the processes with a root among their ancestors: only those
\* of a cycle of parents are in no tree.
ASSUME TreeHoldsRooted ==
    \A table \in ProcessTrees :
        /\ Reached(table) = {r \in table : Ancestors(r, table) \cap Roots(table) # {}}
        /\ Unresolved(table) \subseteq Roots(table)

SomeSnapshots ==
    {[items |-> [package |-> P]] :
        P \in SUBSET {[name |-> n, uid |-> u] : n \in {"app", "other"}, u \in {1, 2}}}

\* An owner is attributed in full only through a process whose UID agrees and
\* a package of that UID; the absence of a process is never filled in.
ASSUME AttributionIsProven ==
    \A uid \in {NoUid, 1, 2}, pid \in {NoPid, 1, 2}, map \in {<<>>, 1 :> {"app"}},
       snapshot \in SomeSnapshots, table \in {S \in ProcessTrees : \A r \in S : r.ppid = NoPid} :
        LET found == Attribute([uid |-> uid], pid, table, map, snapshot)
        IN  /\ found.state = "FULL" <=> found.process # {} /\ found.packages # {}
            /\ \A p \in found.process : p.pid = pid /\ (uid = NoUid \/ p.uid = uid)
            /\ \A n \in found.packages :
                  IF map = <<>>
                  THEN \E q \in snapshot.items.package : q.name = n /\ q.uid = found.uid
                  ELSE found.uid = 1 /\ n \in map[1]
            /\ found.state = "UNAVAILABLE" <=> found.process = {} /\ uid = NoUid

\* A name is first observed in the earliest read that saw it.
ASSUME FirstIsEarliest ==
    \A seen \in [1 .. 3 -> BOOLEAN] :
        LET checks == [i \in 1 .. 3 |->
                          [read |-> i, identities |-> IF seen[i] THEN {App} ELSE {}]]
        IN  FirstObserved("app", checks) =
                {i \in 1 .. 3 : seen[i] /\ \A j \in 1 .. i - 1 : ~seen[j]}

\* A package is under a UID only if it is under no other.
ASSUME UidIsUnique ==
    \A uids \in SUBSET (1 .. 3) :
        LET uid == UidOfPackage(uids) IN IF uid = NoUid THEN Cardinality(uids) # 1 ELSE uids = {uid}

=============================================================================
