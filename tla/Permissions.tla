----------------------------- MODULE Permissions -----------------------------
(***************************************************************************)
(* The permission audit of a package: the dump that dumpsys prints, read   *)
(* defensively (permissions/parser.py), and the combinations of granted    *)
(* permissions that are worth a second look (combinations.py).             *)
(*                                                                         *)
(* A line is [kind, section, name, state]: the header of a section, a      *)
(* dotted name with a colon after it (a permission), or something else.    *)
(* The state of a permission is what its granted= token says, if any.      *)
(***************************************************************************)
EXTENDS Naturals, Sequences

CONSTANTS
    PermissionName,  \* the permissions of Android and of applications
    Sms,             \* _SMS_PERMISSIONS
    Accessibility, DeviceAdmin, Overlay

ASSUME PermissionAssumption ==
    Sms \subseteq PermissionName /\ {Accessibility, DeviceAdmin, Overlay} \subseteq PermissionName

GrantState == {"granted", "denied", "unclear"}
Line ==
    [kind : {"header"}, section : {"install", "runtime"}]
    \cup [kind : {"permission"}, name : PermissionName, state : GrantState]
    \cup [kind : {"other"}]

HeadersBefore(dump, i) == {j \in 1 .. i - 1 : dump[j].kind = "header"}

\* The section a line is in: that of the last header above it.  Nothing ends a
\* section but the next header.
SectionAt(dump, i) ==
    LET last == CHOOSE j \in HeadersBefore(dump, i) : \A k \in HeadersBefore(dump, i) : k <= j
    IN  dump[last].section

\* parse_dumpsys_package: the places of the lines that become entries.
EntryLines(dump) ==
    {i \in DOMAIN dump : dump[i].kind = "permission" /\ HeadersBefore(dump, i) # {}}

EntryAt(dump, i) ==
    [name |-> dump[i].name, state |-> dump[i].state, section |-> SectionAt(dump, i)]

Entries(dump) == {EntryAt(dump, i) : i \in EntryLines(dump)}

ParseComplete(dump) == \E i \in DOMAIN dump : dump[i].kind = "header"

\* evaluate_combinations
GrantedNames(entries) == {e.name : e \in {f \in entries : f.state = "granted"}}

SmsFlag(granted) ==
    IF Sms \cap granted # {} /\ {Accessibility, DeviceAdmin} \subseteq granted
    THEN {[flag |-> "SMS_ACCESSIBILITY_DEVICE_ADMIN",
           matched |-> (Sms \cap granted) \cup {Accessibility, DeviceAdmin}]}
    ELSE {}

OverlayFlag(granted) ==
    IF {Overlay, Accessibility} \subseteq granted
    THEN {[flag |-> "OVERLAY_ACCESSIBILITY", matched |-> {Overlay, Accessibility}]}
    ELSE {}

EvaluateCombinations(entries) ==
    SmsFlag(GrantedNames(entries)) \cup OverlayFlag(GrantedNames(entries))

\* PermissionCollector.collect, without a failure of the command: a dump with no
\* section at all is an audit that is not complete.
AuditOf(dump) ==
    [complete |-> ParseComplete(dump), permissions |-> Entries(dump),
     flags |-> EvaluateCombinations(Entries(dump))]

=============================================================================
