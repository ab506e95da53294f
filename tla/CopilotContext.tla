---------------------------- MODULE CopilotContext ---------------------------
(***************************************************************************)
(* What the Copilot may be told of a phone (copilot/intent.py, safety.py,  *)
(* candidates.py, context.py): every process, application and candidate is *)
(* classified before a language model sees it.  The window of this         *)
(* commit asks with the page and the connection only; the builders below   *)
(* are complete and tested, and nothing calls them yet.                    *)
(***************************************************************************)
EXTENDS Naturals, FiniteSets, Sequences

CONSTANTS
    NoPackage,       \* no foreground package, no package of a process
    AnyPackage,      \* user_packages is unknown
    MaxCandidates, MaxShown, MaxProtected, MaxSpared, MaxApps  \* how many of each are kept

ASSUME ContextAssumption ==
    MaxCandidates \in Nat /\ MaxShown \in Nat /\ MaxProtected \in Nat
    /\ MaxSpared \in Nat /\ MaxApps \in Nat

-----------------------------------------------------------------------------
(* What the user asks for: a query is the set of the rules it matches. *)

Rules == <<"gaming", "close_app", "overheat", "battery", "network", "cpu", "memory",
           "storage", "performance", "slow", "process", "diagnostic", "what_wrong", "health">>

\* classify_intent: the first rule that matches.
Intent(query) ==
    LET hits == {i \in DOMAIN Rules : Rules[i] \in query}
    IN  IF hits = {} THEN "general"
        ELSE Rules[CHOOSE i \in hits : \A j \in hits : i <= j]

Closing == {"gaming", "close_app"}

\* The first n of a set in an order.
Leading(S, n, Before(_, _)) == {x \in S : Cardinality({y \in S : Before(y, x)}) < n}

-----------------------------------------------------------------------------
(* The processes: [pid, name, order, valid, category, cpu, memory], the order *)
(* being that of the names. *)

\* classify_process
SafetyOf(p) ==
    CASE p.category = "kernel_thread" -> "critical_system"
      [] p.category = "system" -> "system_process"
      [] p.valid -> "safe_candidate"
      [] OTHER -> "user_app"

Known(name, users) == users = AnyPackage \/ name \in users

\* _force_stop_capability
MayForceStop(p, users) == p.valid /\ Known(p.name, users)

Busier(p, q) ==
    \/ p.cpu > q.cpu
    \/ p.cpu = q.cpu /\ p.memory > q.memory
    \/ p.cpu = q.cpu /\ p.memory = q.memory /\ p.pid < q.pid

\* sanitize_processes
SafeProcesses(processes, users) ==
    {[pid |-> p.pid, name |-> p.name, category |-> SafetyOf(p),
      package |-> IF p.valid THEN p.name ELSE NoPackage,
      capability |-> MayForceStop(p, users)] :
        p \in Leading({q \in processes : SafetyOf(q) \in {"safe_candidate", "user_app"}},
                      MaxShown, Busier)}

\* protected_processes: the busiest names of what is never a target.
ProtectedProcesses(processes) ==
    LET hits == {p \in processes : SafetyOf(p) \in {"system_process", "critical_system"}}
        Peak(p) == CHOOSE c \in {q.cpu : q \in hits} :
                      /\ \E q \in hits : q.name = p.name /\ SafetyOf(q) = SafetyOf(p) /\ q.cpu = c
                      /\ \A q \in hits : q.name = p.name /\ SafetyOf(q) = SafetyOf(p) => q.cpu <= c
        names == {[name |-> p.name, safety |-> SafetyOf(p), order |-> p.order, cpu |-> Peak(p)] :
                     p \in hits}
        Before(n, m) == n.cpu > m.cpu \/ (n.cpu = m.cpu /\ n.order < m.order)
    IN  {[name |-> n.name, safety |-> n.safety] : n \in Leading(names, MaxProtected, Before)}

\* _safe_apps: [package, category, enabled], the user's own first.
SafeApps(applications, users) ==
    LET User(a) == a.category = "user" \/ (users # AnyPackage /\ a.package \in users)
        Before(a, b) == \/ a.category = "user" /\ b.category # "user"
                        \/ (a.category = "user") = (b.category = "user") /\ a.order < b.order
    IN  {[package |-> a.package, category |-> a.category, capability |-> User(a)] :
            a \in Leading(applications, MaxApps, Before)}

-----------------------------------------------------------------------------
(* What could be closed: background entries are [package, at, order,       *)
(* valid, state, cpu, memory, kb], at being the place in the snapshot.     *)

UserPackage(e, users) == IF users = AnyPackage THEN e.valid ELSE e.package \in users

CategoryOf(e, inventory, users) ==
    IF e.package \in DOMAIN inventory THEN inventory[e.package]
    ELSE IF UserPackage(e, users) THEN "user" ELSE "unknown"

\* What the loop of build_candidates makes of an entry.
Verdict(e, foreground, inventory, users) ==
    CASE ~e.valid -> "skipped"
      [] e.valid /\ (\/ CategoryOf(e, inventory, users) = "system"
                     \/ ~UserPackage(e, users)
                     \/ e.package = foreground) -> "protected"
      [] OTHER -> "candidate"

Preferred(c, d) ==
    LET Class(e) == IF e.state = "background" THEN 0 ELSE 1
    IN  \/ Class(c) < Class(d)
        \/ Class(c) = Class(d) /\ c.memory > d.memory
        \/ Class(c) = Class(d) /\ c.memory = d.memory /\ c.cpu > d.cpu
        \/ Class(c) = Class(d) /\ c.memory = d.memory /\ c.cpu = d.cpu /\ c.order < d.order

\* _estimate_reclaimable, in KiB; 0 is no estimate.
Reclaimable(e, total) ==
    IF e.state # "background" THEN 0
    ELSE IF e.kb > 0 THEN e.kb ELSE (total * e.memory) \div 100

Entries(entries, foreground, inventory, users, verdict) ==
    {e \in entries : Verdict(e, foreground, inventory, users) = verdict}

\* build_candidates: nothing unless the question is about closing.
KillCandidates(intent, entries, foreground, inventory, users) ==
    IF intent \notin Closing THEN {}
    ELSE Leading(Entries(entries, foreground, inventory, users, "candidate"),
                 MaxCandidates, Preferred)

CandidateProtected(intent, entries, foreground, inventory, users) ==
    IF intent \notin Closing THEN {}
    ELSE LET Before(c, d) == c.at < d.at
         IN  {[name |-> e.package, safety |-> "system_process"] :
                 e \in Leading(Entries(entries, foreground, inventory, users, "protected"),
                               MaxSpared, Before)}

\* build_context
BuildContext(query, phone) ==
    LET intent == Intent(query)
        asked == intent \in Closing
    IN  [intent |-> intent,
         processes |-> SafeProcesses(phone.processes, phone.users),
         applications |-> SafeApps(phone.applications, phone.users),
         candidates |-> KillCandidates(intent, phone.entries, phone.foreground,
                                       phone.inventory, phone.users),
         protected |-> IF ~asked THEN {}
                       ELSE ProtectedProcesses(phone.processes)
                            \cup CandidateProtected(intent, phone.entries, phone.foreground,
                                                    phone.inventory, phone.users)]

-----------------------------------------------------------------------------
(* The messages of a request and the answer. *)

\* build_messages: the roles of what is sent; the history keeps its last ten.
Messages(emphasis, history, kept) ==
    [i \in 1 .. Cardinality(emphasis) + 2 |-> "system"]
        \o SubSeq(history, IF Len(history) > kept THEN Len(history) - kept + 1 ELSE 1,
                  Len(history))
        \o <<"user">>

\* parse_response: a line is text, the heading of a section, or an item; what
\* follows the suggestions or the confidence is not part of the answer.
Section(lines, i) ==
    LET heads == {j \in 1 .. i - 1 : lines[j] \in {"suggestions", "confidence", "see_also"}}
        last == CHOOSE j \in heads : \A k \in heads : k <= j
    IN  IF heads = {} THEN "answer"
        ELSE IF lines[last] = "suggestions" THEN "suggestions" ELSE "done"

ParseResponse(lines) ==
    LET Is(i, kinds, section) == lines[i] \in kinds /\ Section(lines, i) = section
        answer == {i \in DOMAIN lines : Is(i, {"text", "item"}, "answer")}
    IN  [answer |-> IF answer = {} THEN DOMAIN lines ELSE answer,
         suggestions |-> {i \in DOMAIN lines : Is(i, {"item"}, "suggestions")}]

=============================================================================
