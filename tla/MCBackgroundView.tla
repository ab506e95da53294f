-------------------------- MODULE MCBackgroundView --------------------------
(* A small instance of BackgroundView for TLC: two phones with the same two  *)
(* applications of the user's under different uids, which on the first phone *)
(* share one, and a system application.                                      *)
EXTENDS BackgroundView, TLC

Ps(pid, uid, name) == [layout |-> "four", pid |-> pid, uid |-> uid, name |-> name, words |-> 1]
Top(pid, cpu, memory, name) ==
    [kind |-> "row", pid |-> pid, cells |-> <<cpu, memory>>, name |-> name]
HeaderLine == [kind |-> "header"]
Sum(pid) == [kind |-> "untimed", pid |-> pid, name |-> NoName]

Processes ==
    {"chat", "chat:push", "mail", "launcher", "kworker"}
Services == [n \in Processes |-> IF n = "chat:push" THEN "chat" ELSE "none"]
Alphabet == [p \in {"chat", "launcher", "mail"} |->
                CASE p = "chat" -> 1 [] p = "launcher" -> 2 [] OTHER -> 3]

App(package, uid, category, path) ==
    [package |-> package, uid |-> uid, category |-> category, label |-> NoLabel, path |-> path]
Inventories ==
    [p \in Phone |->
        IF p = "a" THEN {App("chat", 11, "user", "chat.apk"), App("mail", 11, "user", "mail.apk"),
                         App("launcher", 5, "system", "launcher.apk")}
        ELSE {App("chat", 12, "user", "chat.apk"), App("mail", 11, "user", NoPath)}]

\* The first phone: a push service that top reports first, a process that ends
\* between ps and top, a kernel thread.
PsOfA == <<Ps(1, 11, "chat"), Ps(2, 11, "chat:push"), Ps(3, 5, "launcher"),
           Ps(4, 0, "kworker"), Ps(1, 5, "launcher")>>
TopOfA == <<Top(9, 9, 9, "mail"), HeaderLine, Top(2, 1, 2, "chat:push"), Top(1, NoMetric, 3, "chat"),
            Top(1, 7, 7, "mail"), Top(3, 5, 5, "launcher"), Top(7, 1, 1, "mail"), Sum(4)>>
PsOfB == <<Ps(1, 12, "mail"), Ps(2, 11, "mail"), Ps(5, 13, "chat")>>
TopOfB == <<HeaderLine, Top(1, 2000, 0 - 1, "chat"), Top(2, 4, 1, "mail"), Top(5, 4, 1, "chat")>>

Outputs ==
    [p \in Phone |->
        {IF p = "a" THEN [ps |-> PsOfA, top |-> TopOfA] ELSE [ps |-> PsOfB, top |-> TopOfB]}]

Resumed(package, valid) == <<[package |-> package, valid |-> valid]>>
Foregrounds ==
    [p \in Phone |-> IF p = "a" THEN {Resumed("chat", TRUE), Resumed("chat", FALSE)}
                     ELSE {<<>>}]

Apks ==
    [p \in Phone |->
        ("chat.apk" :> [manifest |-> TRUE, resources |-> p = "b", kind |-> "reference",
                        label |-> "Chat"])
        @@ (IF p = "a" THEN "mail.apk" :> [manifest |-> TRUE, resources |-> FALSE,
                                           kind |-> "literal", label |-> "Mail"]
            ELSE NoLabels)]

-----------------------------------------------------------------------------
(* The pure algorithms, against reference definitions. *)

Row(pid, uid, name) ==
    [pid |-> pid, uid |-> uid, name |-> name, cpu |-> NoMetric, memory |-> 1, category |-> "app"]

SomeInventories ==
    SUBSET {App(p, u, c, NoPath) : p \in {"chat", "mail"}, u \in {11, 12}, c \in {"user", "system"}}

\* An owner is one of the user's applications, and its UID is the process's;
\* a process whose name or service name one of them has is that one's.
ASSUME OwnerIsProven ==
    \A installed \in {S \in SomeInventories : \A a, b \in S : a.package = b.package => a = b},
       uid \in {11, 12, NoUid}, name \in Processes :
        LET owner == Owner(Row(1, uid, name), installed)
            group == {a \in installed : a.category = "user" /\ a.uid = uid}
        IN  /\ owner \subseteq group /\ Cardinality(owner) <= 1
            /\ uid # NoUid => (owner = {} <=> group = {})
            /\ \A a \in group : NameMatches(a.package, name) => owner = {a}

Metrics == {NoMetric, 0, 1, 5}
Shown(package, cpu, memory, total) ==
    [package |-> package, label |-> NoLabel, cpu |-> cpu, memory |-> memory,
     kb |-> Kilobytes(memory, total)]
SomeShown == {Shown(p, c, m, 4096) : p \in {"chat", "mail"}, c \in Metrics, m \in Metrics}

\* The table's order is total, and lists what is known before what is not.
ASSUME OrderIsTotal ==
    \A e, f \in SomeShown :
        /\ e # f /\ e.package # f.package => (ListedBefore(e, f) <=> ~ListedBefore(f, e))
        /\ e.memory # NoMetric /\ f.memory = NoMetric => ListedBefore(e, f)
        /\ MatchesFilter(e, {}) /\ (MatchesFilter(e, {f.package}) <=> e.package = f.package)

\* A share is shown in megabytes as soon as the total is known, never as more
\* than the total.
ASSUME MemoryIsShared ==
    \A share \in {NoMetric} \cup 0 .. 100, total \in {0, 1, 2048, 8192} :
        LET entry == [Shown("chat", 0, share, total) EXCEPT !.package = "chat"]
        IN  /\ entry.kb # NoMetric => entry.kb \in 0 .. total
            /\ (MemoryShown(entry)[1] = "megabytes") = (share # NoMetric /\ total > 0)
            /\ (MemoryShown(entry)[1] = "not available") = (share = NoMetric)

=============================================================================
