-------------------------- MODULE DeviceInformation --------------------------
(***************************************************************************)
(* The identity of a phone (device/collector.py, device/parser.py): some   *)
(* thirty commands in a row, each of which may fail on its own, and the    *)
(* facts that are read from their outputs, one by one or from several.     *)
(*                                                                         *)
(* What a command says is a function from the facts in its output to their *)
(* values, empty for an output nothing can be made of; a command that      *)
(* raises says Unknown.  Properties are the facts of getprop: a key that   *)
(* is present may be "", which is not the same as absent.                  *)
(***************************************************************************)
EXTENDS Naturals, Sequences, FiniteSets
LOCAL INSTANCE SequencesExt

CONSTANT Unknown     \* None

\* The commands whose outputs are read for facts one by one, and those facts.
PlainFacts ==
    [uname_a |-> {"kernel_version", "machine"}, uname_r |-> {"kernel"},
     cpuinfo |-> {"cpu_features"},
     scaling_cur_freq |-> {"cpu_current_frequency"}, scaling_min_freq |-> {"cpu_min_frequency"},
     scaling_max_freq |-> {"cpu_max_frequency"}, scaling_governor |-> {"cpu_governor"},
     cpuinfo_max_freq |-> {"max_frequency"},
     wm_size |-> {"resolution", "display_width", "display_height", "override_resolution"},
     wm_density |-> {"density", "override_density"},
     dumpsys_display |-> {"refresh_rate", "supported_refresh_rates"},
     dumpsys_input |-> {"orientation", "orientation_degrees"},
     surface_flinger |-> {"gpu_vendor", "gpu_model"},
     charge_full_design |-> {"battery_design_capacity"}, cycle_count |-> {"battery_cycle_count"},
     mounts |-> {"storage_filesystem"}, android_id |-> {"android_id"},
     wlan_address |-> {"wifi_mac"}, bluetooth_address |-> {"bluetooth_mac"},
     dumpsys_wifi |-> {"wifi_enabled", "wifi_connected", "wifi_ssid", "wifi_bssid",
                       "wifi_frequency", "wifi_link_speed", "wifi_rssi"},
     dumpsys_connectivity |-> {"dns_servers", "active_transport"}]

\* The commands whose facts are put together with others.
Command ==
    DOMAIN PlainFacts
    \cup {"getprop", "uptime", "date", "present", "online", "ip_addr", "ip_route",
          "dumpsys_vpn", "getenforce", "id", "su", "df"}

\* _read: a failed command and an unusable output leave the same mark.
Fact(says, command, fact) ==
    IF says[command] = Unknown THEN Unknown
    ELSE IF fact \in DOMAIN says[command] THEN says[command][fact] ELSE Unknown

-----------------------------------------------------------------------------
(* Properties. *)

PropertyKeys ==
    [model |-> <<"ro.product.model">>,
     manufacturer |-> <<"ro.product.manufacturer">>,
     android_version |-> <<"ro.build.version.release">>,
     api_level |-> <<"ro.build.version.sdk">>,
     security_patch |-> <<"ro.build.version.security_patch", "ro.vendor.build.security_patch">>,
     build_number |-> <<"ro.build.display.id", "ro.build.version.incremental">>,
     baseband |-> <<"ro.build.version.baseband", "gsm.version.baseband", "ro.boot.baseband">>]

Property(says, key) == Fact(says, "getprop", key)
Filled(value) == value # Unknown /\ value # ""

\* _property_fields: the first key that is present decides, even by being empty.
PropertyField(says, field) ==
    LET keys == PropertyKeys[field]
        present == {i \in DOMAIN keys : Property(says, keys[i]) # Unknown}
        first == CHOOSE i \in present : \A j \in present : i <= j
    IN  IF present = {} \/ ~Filled(Property(says, keys[first])) THEN Unknown
        ELSE Property(says, keys[first])

FirstFilled(values) ==
    LET filled == {i \in DOMAIN values : Filled(values[i])}
    IN  IF filled = {} THEN Unknown ELSE values[CHOOSE i \in filled : \A j \in filled : i <= j]

\* _soc_name, _processor_name
SocName(says) ==
    LET maker == Property(says, "ro.soc.manufacturer")
        model == Property(says, "ro.soc.model")
    IN  IF Filled(maker) /\ Filled(model) THEN <<maker, model>>
        ELSE FirstFilled(<<model, Property(says, "ro.board.platform")>>)

ProcessorName(says) ==
    FirstFilled(<<Property(says, "ro.soc.model"), Fact(says, "cpuinfo", "hardware"),
                  Fact(says, "cpuinfo", "model_name")>>)

\* _cpu_abis: in order, each once.
CpuAbis(listed) ==
    LET kept == IF listed = Unknown THEN <<>>
                ELSE FoldLeft(LAMBDA abis, abi : IF abi = "" \/ Contains(abis, abi) THEN abis
                                                 ELSE Append(abis, abi), <<>>, listed)
    IN  IF kept = <<>> THEN Unknown ELSE kept

\* parse_bootloader_locked: two sources that disagree say nothing.
BootloaderLocked(flash, state) ==
    LET primary == CASE flash \in {"1", "true"} -> TRUE
                     [] flash \in {"0", "false"} -> FALSE [] OTHER -> Unknown
        secondary == CASE state = "locked" -> TRUE
                       [] state = "unlocked" -> FALSE [] OTHER -> Unknown
    IN  IF primary = Unknown THEN secondary
        ELSE IF secondary \in {Unknown, primary} THEN primary ELSE Unknown

\* parse_security_patch_date: here an empty value gives way to the vendor's.
PatchDate(says) ==
    LET patch == FirstFilled(<<Property(says, "ro.build.version.security_patch"),
                               Property(says, "ro.vendor.build.security_patch")>>)
    IN  IF patch = "malformed" THEN Unknown ELSE patch

\* parse_selinux_status, parse_verified_boot_state, parse_encryption_state, ...:
\* nothing but a value Android documents.
Canonical(value, values) == IF value \in values THEN value ELSE Unknown

-----------------------------------------------------------------------------
(* Facts of several commands. *)

\* parse_cpu_range: the segments of a list such as 0-3,8, each [lo, hi], or
\* Unknown for one that is no range.
CpuRange(segments) ==
    IF segments = Unknown \/ segments = <<>> THEN Unknown
    ELSE IF \E i \in DOMAIN segments : segments[i] = Unknown THEN Unknown
    ELSE IF \E i \in DOMAIN segments : segments[i].hi < segments[i].lo THEN Unknown
    ELSE FoldLeft(LAMBDA total, s : total + s.hi - s.lo + 1, 0, segments)

\* _sample_core_count, _derive_offline_cores
CoreCount(says) ==
    LET present == CpuRange(Fact(says, "present", "range"))
    IN  IF present # Unknown THEN present ELSE Fact(says, "cpuinfo", "processors")

OnlineCores(says) == CpuRange(Fact(says, "online", "range"))

OfflineCores(says) ==
    IF Unknown \in {CoreCount(says), OnlineCores(says)} \/ OnlineCores(says) > CoreCount(says)
    THEN Unknown ELSE CoreCount(says) - OnlineCores(says)

\* _sample_boot_time, derive_boot_time
BootTime(says) ==
    LET up == Fact(says, "uptime", "seconds")
        clock == Fact(says, "date", "seconds")
    IN  IF Unknown \in {up, clock} \/ clock < up THEN Unknown ELSE clock - up

\* derive_cpu_64bit
Is64Bit(machine) ==
    CASE machine \in {"aarch64", "arm64", "x86_64", "amd64"} -> TRUE
      [] machine \in {"armv7l", "armv6l", "armv5tejl", "i686", "i586", "i386"} -> FALSE
      [] OTHER -> Unknown

\* parse_ip_route: the lines are [default, gateway, interface]; the first usable
\* default route counts, a gateway that is no address makes a line unusable.
DefaultRoute(lines) ==
    LET usable == IF lines = Unknown THEN {}
                  ELSE {i \in DOMAIN lines : lines[i].default /\ lines[i].gateway # "malformed"}
    IN  IF usable = {} THEN [gateway |-> Unknown, interface |-> Unknown]
        ELSE LET line == lines[CHOOSE i \in usable : \A j \in usable : i <= j]
             IN  [gateway |-> line.gateway, interface |-> line.interface]

\* mark_default_route: interfaces are [name, type, v4].
Interfaces(says) ==
    LET listed == Fact(says, "ip_addr", "interfaces")
        route == DefaultRoute(Fact(says, "ip_route", "lines"))
    IN  IF listed = Unknown THEN Unknown
        ELSE {[name |-> i.name, type |-> i.type, v4 |-> i.v4,
               carries |-> route.interface # Unknown /\ i.name = route.interface] : i \in listed}

\* collect_ipv4_addresses
Ipv4Addresses(interfaces) ==
    LET found == IF interfaces = Unknown THEN {}
                 ELSE UNION {i.v4 : i \in {j \in interfaces : j.type # "Loopback"}}
    IN  IF found = {} THEN Unknown ELSE found

\* parse_vpn_state
Vpn(says) ==
    LET state == Fact(says, "dumpsys_vpn", "state")
    IN  IF state = Unknown THEN [active |-> Unknown, interface |-> Unknown]
        ELSE IF state # "connected" THEN [active |-> FALSE, interface |-> Unknown]
        ELSE [active |-> TRUE, interface |-> Fact(says, "dumpsys_vpn", "interface")]

\* parse_root_status: uid is that of the shell, su a path, "none" (the marker
\* the command prints), or a text that is neither.
RootStatus(says) ==
    LET uid == Fact(says, "id", "uid")
        su == Fact(says, "su", "found")
    IN  CASE uid = "0" \/ su = "path" -> "ROOT_EVIDENCE"
          [] uid # "0" /\ su # "path" /\ (uid # Unknown \/ su = "none") -> "NO_ROOT_EVIDENCE"
          [] OTHER -> Unknown

\* pick_internal_storage
InternalStorage(volumes) ==
    LET Mounted(mount) == {v \in volumes : v.mount = mount}
    IN  IF volumes = Unknown THEN Unknown
        ELSE IF Mounted("/data") # {} THEN CHOOSE v \in Mounted("/data") : TRUE
        ELSE IF Mounted("/data/user/0") # {} THEN CHOOSE v \in Mounted("/data/user/0") : TRUE
        ELSE Unknown

-----------------------------------------------------------------------------
\* DeviceInfoCollector.sample: getprop decides whether there is a snapshot.
Usable(says) == says["getprop"] # Unknown

PlainFields(says) ==
    [f \in UNION {PlainFacts[c] : c \in DOMAIN PlainFacts} |->
        Fact(says, CHOOSE c \in DOMAIN PlainFacts : f \in PlainFacts[c], f)]

DerivedFields(says) ==
    [soc |-> SocName(says), processor |-> ProcessorName(says),
     cpu_abis |-> CpuAbis(Property(says, "ro.product.cpu.abilist")),
     cpu_64bit |-> Is64Bit(Fact(says, "uname_a", "machine")),
     cpu_core_count |-> CoreCount(says), cpu_online_cores |-> OnlineCores(says),
     cpu_offline_cores |-> OfflineCores(says),
     uptime |-> Fact(says, "uptime", "seconds"), boot_time |-> BootTime(says),
     storage |-> InternalStorage(Fact(says, "df", "volumes")),
     network_interfaces |-> Interfaces(says), ipv4 |-> Ipv4Addresses(Interfaces(says)),
     route |-> DefaultRoute(Fact(says, "ip_route", "lines")), vpn |-> Vpn(says)]

SecurityFields(says) ==
    [selinux |-> Canonical(Fact(says, "getenforce", "mode"), {"enforcing", "permissive", "disabled"}),
     verified_boot |-> Canonical(Property(says, "ro.boot.verifiedbootstate"),
                                 {"green", "yellow", "orange", "red"}),
     bootloader_locked |-> BootloaderLocked(Property(says, "ro.boot.flash.locked"),
                                            Property(says, "ro.boot.vbmeta.device_state")),
     root_status |-> RootStatus(says),
     patch_date |-> PatchDate(says),
     encryption |-> Canonical(Property(says, "ro.crypto.state"), {"encrypted", "unencrypted"})]

PropertyFields(says) == [f \in DOMAIN PropertyKeys |-> PropertyField(says, f)]

=============================================================================
