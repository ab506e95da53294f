---------------------------- MODULE MCDashboard ----------------------------
(* Small instances of Dashboard for TLC. *)
EXTENDS Dashboard, TLC

\* cpu mirrors empty snapshots, memory keeps its last one, the foreground
\* signal is emptied by a loss.
Mirrored == <<"cpu", "foreground">>

Unbound == {NoSerial}
PluggedOrNot == {"absent", "device"}
OkOrHung == {"ok", "hung"}

Phones == Permutations(Serial)

-----------------------------------------------------------------------------
(* The pure algorithms, against reference definitions: what the device page *)
(* says of a phone, and which adb is asked.                                 *)

CONSTANT None
Info == INSTANCE DeviceInformation WITH Unknown <- None
Adb == INSTANCE Discovery WITH Nowhere <- None

Said ==
    [cpuinfo |-> [hardware |-> "hw", model_name |-> "core", processors |-> 6],
     getprop |-> ("ro.product.model" :> "m") @@ ("ro.build.version.security_patch" :> "p"),
     uptime |-> [seconds |-> 3], date |-> [seconds |-> 9],
     present |-> [range |-> <<[lo |-> 0, hi |-> 3]>>],
     online |-> [range |-> <<[lo |-> 0, hi |-> 1], [lo |-> 3, hi |-> 3]>>],
     ip_addr |-> [interfaces |-> {[name |-> "lo", type |-> "Loopback", v4 |-> {"local"}],
                                  [name |-> "wlan0", type |-> "Wi-Fi", v4 |-> {"home"}]}],
     ip_route |-> [lines |-> <<[default |-> TRUE, gateway |-> "router", interface |-> "wlan0"]>>],
     dumpsys_vpn |-> [state |-> "connected", interface |-> "tun0"],
     getenforce |-> [mode |-> "enforcing"], id |-> [uid |-> "2000"], su |-> [found |-> "none"],
     df |-> [volumes |-> {[mount |-> "/data", free |-> 1], [mount |-> "/sdcard", free |-> 2]}]]

Full ==
    [c \in Info!Command |->
        IF c \in DOMAIN Info!PlainFacts
        THEN [f \in Info!PlainFacts[c] |-> IF f = "machine" THEN "aarch64" ELSE f]
             @@ (IF c \in DOMAIN Said THEN Said[c] ELSE <<>>)
        ELSE Said[c]]

Failing(commands) == [c \in Info!Command |-> IF c \in commands THEN None ELSE Full[c]]
UpToTwo == {{c, d} : c, d \in Info!Command} \cup {{}}

\* Whichever commands fail, a fact of another one is read as if none had, a
\* fact of a failed one is unknown, and what is put together from several is
\* unknown, or as before, or from the source that stands in.
ASSUME FailuresStayLocal ==
    \A failed \in UpToTwo :
        LET says == Failing(failed)
            before == Info!DerivedFields(Full)
            after == Info!DerivedFields(says)
        IN  /\ Info!Usable(says) = ("getprop" \notin failed)
            /\ \A c \in DOMAIN Info!PlainFacts : \A f \in Info!PlainFacts[c] :
                  Info!PlainFields(says)[f] = IF c \in failed THEN None ELSE Info!PlainFields(Full)[f]
            /\ \A f \in DOMAIN after \ {"network_interfaces", "route", "vpn"} :
                  \/ after[f] \in {before[f], None}
                  \/ f = "cpu_core_count" /\ "present" \in failed /\ after[f] = 6
                  \/ f = "cpu_offline_cores" /\ "present" \in failed /\ after[f] = 3
            /\ after.boot_time = IF failed \cap {"uptime", "date"} # {} THEN None ELSE 6
            /\ failed \cap {"present", "online"} = {} => after.cpu_offline_cores = 1
            /\ {"id", "su"} \subseteq failed => Info!SecurityFields(says).root_status = None
            /\ Info!SecurityFields(says).root_status # "ROOT_EVIDENCE"

\* A bootloader is called locked, or unlocked, only if one source says so and
\* none the opposite; root is evident only from evidence.
ASSUME ContradictionsAreUnknown ==
    /\ \A flash \in {"1", "true", "0", "false", "", None}, state \in {"locked", "unlocked", "", None} :
          LET says == {v \in BOOLEAN : \/ flash \in (IF v THEN {"1", "true"} ELSE {"0", "false"})
                                       \/ state = (IF v THEN "locked" ELSE "unlocked")}
          IN  Info!BootloaderLocked(flash, state) =
                  IF Cardinality(says) = 1 THEN TRUE \in says ELSE None
    /\ \A uid \in {"0", "2000", None}, su \in {"path", "none", "text", None} :
          LET said == Info!RootStatus([Full EXCEPT !["id"] = [uid |-> uid], !["su"] = [found |-> su]])
          IN  /\ said = "ROOT_EVIDENCE" <=> uid = "0" \/ su = "path"
              /\ said = None <=> uid = None /\ su \in {"text", None}

\* The cores of a list without repetitions are counted.
Segments == {[lo |-> l, hi |-> h] : l \in 0 .. 3, h \in 0 .. 3}
ASSUME RangesCountCores ==
    \A list \in UNION {[1 .. n -> Segments] : n \in 1 .. 2} :
        LET cores == UNION {list[i].lo .. list[i].hi : i \in DOMAIN list}
            proper == \A i \in DOMAIN list : list[i].lo <= list[i].hi
            disjoint == \A i, j \in DOMAIN list :
                           i # j => (list[i].lo .. list[i].hi) \cap (list[j].lo .. list[j].hi) = {}
        IN  /\ proper /\ disjoint => Info!CpuRange(list) = Cardinality(cores)
            /\ ~proper => Info!CpuRange(list) = None

\* The adb that is found looks right and launches, no other before it does, an
\* explicit one that is usable wins, and no file is launched twice.
OneFile == [{"x", "y"} -> BOOLEAN \X BOOLEAN]
Places == [{"explicit", "beside the program", "PATH", "ANDROID_HOME"} -> {"x", "y", None}]
ASSUME FirstUsableWins ==
    \A kinds \in OneFile, places \in Places, packaged \in BOOLEAN :
        LET At(name) == IF name \notin DOMAIN places \/ places[name] = None THEN None
                        ELSE [place |-> places[name], looks |-> kinds[places[name]][1],
                              launches |-> kinds[places[name]][2]]
            files == [i \in {Adb!Order[j] : j \in DOMAIN Adb!Order} |-> At(i)]
            consulted == Adb!Consulted(packaged, FALSE)
            found == Adb!FindAdb(files, consulted)
            launched == Adb!Launched(files, consulted)
        IN  /\ found = None <=> \A i \in consulted : ~Adb!IsUsable(files[Adb!Order[i]])
            /\ Adb!IsUsable(files["explicit"]) => found = files["explicit"].place
            /\ \A i, j \in launched : i # j =>
                  files[Adb!Order[i]].place # files[Adb!Order[j]].place
            /\ Adb!AdbPath(files, consulted, places["explicit"]) =
                  IF found # None THEN found
                  ELSE IF places["explicit"] # None THEN places["explicit"] ELSE "adb"
=============================================================================
