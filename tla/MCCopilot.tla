------------------------------ MODULE MCCopilot ------------------------------
(* The instances of Copilot that TLC checks. *)
EXTENDS Copilot

-----------------------------------------------------------------------------
(* The pure algorithms, against reference definitions. *)

Entry(package, at, valid, state, memory) ==
    [package |-> package, at |-> at, order |-> at, valid |-> valid, state |-> state,
     cpu |-> 0, memory |-> memory, kb |-> 0]

\* Up to three entries: two applications and a package that may not be valid.
SomeEntries ==
    {S \in SUBSET ({Entry("a", 1, TRUE, s, m) : s \in {"background", "unknown"}, m \in 1 .. 2}
                   \cup {Entry("b", 2, TRUE, "background", 2)}
                   \cup {Entry("c", 3, v, "background", 3) : v \in BOOLEAN}) :
        \A e, f \in S : e.package = f.package => e = f}

SomeInventories == {<<>>, [p \in {"a"} |-> "system"], [p \in {"a", "b"} |-> "user"]}
SomeUsers == {AnyPackage, {}, {"a"}, {"a", "b"}}

\* No candidate is a system application, the one in the foreground, or not the
\* user's own; what is protected is no candidate.
ASSUME CandidatesAreTheUsers ==
    \A entries \in SomeEntries, foreground \in {NoPackage, "a"},
       inventory \in SomeInventories, users \in SomeUsers \ {AnyPackage} :
        LET found == KillCandidates("gaming", entries, foreground, inventory, users)
            spared == CandidateProtected("gaming", entries, foreground, inventory, users)
        IN  /\ \A c \in found : /\ c.valid /\ c.package # foreground /\ c.package \in users
                                /\ c.package \in DOMAIN inventory => inventory[c.package] = "user"
                                /\ Reclaimable(c, 100) >= 0
            /\ {c.package : c \in found} \cap {s.name : s \in spared} = {}

Process(pid, name, valid, category, cpu) ==
    [pid |-> pid, name |-> name, order |-> pid, valid |-> valid, category |-> category,
     cpu |-> cpu, memory |-> 0]

SomeProcesses ==
    SUBSET {Process(1, "init", FALSE, "system", 3), Process(2, "kworker", FALSE, "kernel_thread", 1),
            Process(3, "a", TRUE, "app", 2), Process(4, "sh", FALSE, "other", 2)}

\* A context never shows as a process, nor offers to close, what it protects.
ASSUME ContextSparesProtected ==
    \A processes \in SomeProcesses, entries \in SomeEntries, query \in SUBSET {"gaming", "cpu"} :
        LET context == BuildContext(query, [processes |-> processes, applications |-> {},
                            users |-> {"a", "b"}, entries |-> entries, foreground |-> NoPackage,
                            inventory |-> <<>>])
            spared == {s.name : s \in context.protected}
        IN  /\ {p.name : p \in context.processes} \cap spared = {}
            /\ \A p \in context.processes : p.category \in {"safe_candidate", "user_app"}
            /\ {c.package : c \in context.candidates} \cap spared = {}
            /\ context.candidates # {} => "gaming" \in query

\* A test blames the key for what only a key can cause, and calls nothing but an
\* answer a success.
ASSUME VerdictsBlameTheKey ==
    \A outcome \in Outcome :
        /\ TestVerdict(outcome) = "successful" <=> outcome = "ok"
        /\ TestVerdict(outcome) = "invalid key" <=> outcome \in {"denied", "forbidden"}
        /\ TestVerdict(outcome) = "timed out" <=> outcome = "timeout"

LineKinds == {"text", "item", "suggestions", "confidence"}

\* No line is both the answer and a suggestion, and an answer is never empty.
ASSUME ResponseSplits ==
    \A lines \in UNION {[1 .. n -> LineKinds] : n \in 1 .. 5} :
        LET parsed == ParseResponse(lines)
        IN  /\ parsed.answer # {}
            /\ parsed.answer # DOMAIN lines => parsed.answer \cap parsed.suggestions = {}
            /\ \A i \in parsed.suggestions : \E j \in 1 .. i - 1 : lines[j] = "suggestions"

\* However long the history, the request starts with the rules, ends with the
\* question, and quotes the newest messages.
ASSUME RequestIsBounded ==
    \A n \in 0 .. 12 :
        LET history == [i \in 1 .. n |-> IF i % 2 = 1 THEN "user" ELSE "assistant"]
            sent == Messages({"gaming"}, history, 10)
        IN  /\ Len(sent) = 4 + (IF n > 10 THEN 10 ELSE n)
            /\ sent[1] = "system" /\ sent[Len(sent)] = "user"
            /\ n > 0 => sent[Len(sent) - 1] = history[n]

=============================================================================
