--------------------------- MODULE AdbConnection ---------------------------
(***************************************************************************)
(* The ADB facade every worker shares (adb/connection.py): which device a  *)
(* command reaches, and which typed error it raises, as a function of what *)
(* is attached, of the health of the adb executable and of the serial the  *)
(* session is bound to.  Payloads are left out: a successful command is    *)
(* known only by the serial it was executed on.                            *)
(*                                                                         *)
(* The module has no state.  Its operators return SETS of results, since a *)
(* flaky link can end a command in several ways; MonitorWorker and         *)
(* ActionPipeline draw from them, one command at a time.                   *)
(***************************************************************************)
EXTENDS Naturals, FiniteSets

CONSTANTS
    Serial,     \* the serials of the phones the user owns
    NoSerial    \* Python's None: nothing bound, nothing held

ASSUME SerialAssumption == NoSerial \notin Serial

MaybeSerial == Serial \cup {NoSerial}

(***************************************************************************)
(* The second column of `adb devices`; "absent" is a serial not listed.    *)
(* Any other state adb can print ("recovery", "sideload") takes the path   *)
(* of "offline": _raise_for_state ends in ADBDisconnectedError for both.   *)
(***************************************************************************)
DeviceState == {"absent", "device", "offline", "unauthorized"}

(***************************************************************************)
(* The adb executable and its link.                                        *)
(*   ok       every command reaches the device                             *)
(*   missing  the path does not exist (FileNotFoundError)                  *)
(*   hung     no command answers within its timeout (TimeoutExpired)       *)
(*   broken   the executable cannot be started (any other OSError)         *)
(*   failing  adb runs but exits non-zero and prints no table              *)
(*   flaky    the table is right, a remote command may fail in any way     *)
(***************************************************************************)
AdbHealth == {"ok", "missing", "hung", "broken", "failing", "flaky"}

(***************************************************************************)
(* The exception classes of adb/exceptions.py, and "Other" for an          *)
(* exception from outside the hierarchy (a parser's ValueError).           *)
(***************************************************************************)
AdbError == {"NotFound", "NoDevice", "Ambiguous", "Disconnected",
             "Unauthorized", "Timeout", "Command", "Adb", "Other"}

(***************************************************************************)
(* A command's outcome: the serial it ran on, or the error it raised.      *)
(***************************************************************************)
Result == [serial : MaybeSerial, error : AdbError \cup {"none"}]

Ran(s) == [serial |-> s, error |-> "none"]
Raised(e) == [serial |-> NoSerial, error |-> e]
Failed(r) == r.error # "none"

(***************************************************************************)
(* ConnectionManager.execute: what starting adb raises by itself.          *)
(***************************************************************************)
ExecuteErrors(adb) ==
    CASE adb = "missing" -> {"NotFound"}
      [] adb = "hung"    -> {"Timeout"}
      [] adb = "broken"  -> {"Adb"}
      [] OTHER           -> {}

(***************************************************************************)
(* verify_available: `adb version` must start and exit with 0.             *)
(***************************************************************************)
VerifyErrors(adb) ==
    IF adb = "failing" THEN {"Adb"} ELSE ExecuteErrors(adb)

(***************************************************************************)
(* list_devices.  The exit code is not looked at: an adb that fails to     *)
(* print its table lists nothing.                                          *)
(***************************************************************************)
Listed(devices, adb) ==
    IF adb = "failing" THEN {}
    ELSE {s \in Serial : devices[s] # "absent"}

Authorized(devices, adb) ==
    {s \in Listed(devices, adb) : devices[s] = "device"}

(***************************************************************************)
(* _raise_for_state: the error a listed, unusable device raises.           *)
(***************************************************************************)
ErrorOfState(state) ==
    IF state = "unauthorized" THEN "Unauthorized" ELSE "Disconnected"

(***************************************************************************)
(* require_device on a table it could read.  A bound serial is the only    *)
(* candidate; unbound, exactly one authorized device is adopted.  With     *)
(* none authorized the first row of the table decides the error; rows come *)
(* in any order.                                                           *)
(***************************************************************************)

BoundResult(devices, adb, bound) ==
    IF bound \notin Listed(devices, adb) THEN Raised("Disconnected")
    ELSE IF devices[bound] = "device" THEN Ran(bound)
    ELSE Raised(ErrorOfState(devices[bound]))

UnboundResults(devices, adb) ==
    LET authorized == Authorized(devices, adb)
        listed     == Listed(devices, adb)
    IN  IF authorized # {}
        THEN IF \E s \in authorized : authorized = {s}
             THEN {Ran(s) : s \in authorized}
             ELSE {Raised("Ambiguous")}
        ELSE IF listed # {}
             THEN {Raised(ErrorOfState(devices[s])) : s \in listed}
             ELSE {Raised("NoDevice")}

RequireResults(devices, adb, bound) ==
    IF ExecuteErrors(adb) # {}
    THEN {Raised(e) : e \in ExecuteErrors(adb)}
    ELSE IF bound # NoSerial
         THEN {BoundResult(devices, adb, bound)}
         ELSE UnboundResults(devices, adb)

(***************************************************************************)
(* What the remote half of `adb -s SERIAL shell` can still raise on a      *)
(* flaky link: the device drops out in mid-command (_device_lost), is no   *)
(* longer authorized, does not answer in time, or the remote command exits *)
(* non-zero; a garbled answer makes the caller's parser raise.             *)
(***************************************************************************)
RemoteErrors(adb) ==
    IF adb = "flaky"
    THEN {"Disconnected", "Unauthorized", "Timeout", "Command", "Other"}
    ELSE {}

(***************************************************************************)
(* ConnectionManager.shell: resolve the device, then run the command there.*)
(***************************************************************************)
ShellResults(devices, adb, bound) ==
    LET resolved == RequireResults(devices, adb, bound)
    IN  IF \E r \in resolved : ~Failed(r)
        THEN resolved \cup {Raised(e) : e \in RemoteErrors(adb)}
        ELSE resolved
=============================================================================
