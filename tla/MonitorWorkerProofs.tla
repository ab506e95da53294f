------------------------ MODULE MonitorWorkerProofs ------------------------
(***************************************************************************)
(* Proofs about MonitorWorker and, behind it, Dashboard for any set of     *)
(* phones, any order of collectors and any number of changes and clicks.   *)
(***************************************************************************)
EXTENDS Dashboard, FiniteSetTheorems, TLAPS

(***************************************************************************)
(* What resolving a device yields: a typed error, or an attached serial,   *)
(* which is the bound one whenever there is one.                           *)
(***************************************************************************)
LEMMA RequireReachesBound ==
    ASSUME devices \in [Serial -> DeviceState], bound \in MaybeSerial,
           NEW r \in RequireResults(devices, adb, bound)
    PROVE  /\ Failed(r) => r.error \in AdbError
           /\ ~Failed(r) => /\ r.serial \in Serial
                            /\ bound # NoSerial => r.serial = bound
<1>1. CASE ExecuteErrors(adb) # {}
  <2>1. PICK e \in ExecuteErrors(adb) : r = Raised(e)
    BY <1>1 DEF RequireResults
  <2>2. e \in AdbError
    BY DEF ExecuteErrors, AdbError
  <2>3. QED
    BY <2>1, <2>2 DEF Raised, Failed, AdbError
<1>2. CASE ExecuteErrors(adb) = {} /\ bound # NoSerial
  <2>1. r = BoundResult(devices, adb, bound)
    BY <1>2 DEF RequireResults
  <2>2. bound \in Serial
    BY <1>2 DEF MaybeSerial
  <2>3. QED
    BY <2>1, <2>2 DEF BoundResult, Ran, Raised, Failed, ErrorOfState, AdbError
<1>3. CASE ExecuteErrors(adb) = {} /\ bound = NoSerial
  <2>1. r \in UnboundResults(devices, adb)
    BY <1>3 DEF RequireResults
  <2>2. CASE Authorized(devices, adb) # {}
    BY <1>3, <2>1, <2>2 DEF UnboundResults, Authorized, Listed, Ran, Raised, Failed, AdbError
  <2>3. CASE Authorized(devices, adb) = {}
    BY <1>3, <2>1, <2>3 DEF UnboundResults, Raised, Failed, ErrorOfState, AdbError
  <2>4. QED
    BY <2>2, <2>3
<1>4. QED
  BY <1>1, <1>2, <1>3

(***************************************************************************)
(* The same for a shell command: it runs on the bound serial or not at all.*)
(***************************************************************************)
LEMMA ShellReachesBound ==
    ASSUME devices \in [Serial -> DeviceState], bound \in MaybeSerial,
           NEW r \in ShellResults(devices, adb, bound)
    PROVE  /\ Failed(r) => r.error \in AdbError
           /\ ~Failed(r) => /\ r.serial \in Serial
                            /\ bound # NoSerial => r.serial = bound
<1>1. CASE r \in RequireResults(devices, adb, bound)
  BY <1>1, RequireReachesBound
<1>2. CASE r \notin RequireResults(devices, adb, bound)
  <2>1. PICK e \in RemoteErrors(adb) : r = Raised(e)
    BY <1>2 DEF ShellResults
  <2>2. QED
    BY <2>1 DEF RemoteErrors, Raised, Failed, AdbError
<1>3. QED
  BY <1>1, <1>2

(***************************************************************************)
(* Whatever became of it, a command is known by a serial or by none.       *)
(***************************************************************************)
LEMMA ShellSerial ==
    ASSUME devices \in [Serial -> DeviceState], bound \in MaybeSerial,
           NEW r \in ShellResults(devices, adb, bound)
    PROVE  r.serial \in MaybeSerial
<1>1. CASE ~Failed(r)
  BY <1>1, ShellReachesBound DEF MaybeSerial
<1>2. CASE Failed(r)
  BY <1>2 DEF ShellResults, RemoteErrors, RequireResults, BoundResult, UnboundResults,
     Failed, Ran, Raised, MaybeSerial
<1>3. QED
  BY <1>1, <1>2

-----------------------------------------------------------------------------
(***************************************************************************)
(* The strengthening that makes the safety invariants inductive: which     *)
(* steps of a handler run inside a session, and what _connect already      *)
(* knows about the device while it reads the label.                        *)
(***************************************************************************)
Sampling == pc \in {"collect", "publish"} => connected
Reporting == pc = "report" => ~connected
Targeted == pc \in {"label", "identity"} =>
                /\ target \in Serial
                /\ bound # NoSerial => bound = target
Bound == pc = "identity" => bound # NoSerial
AtRest == pc \notin {"label", "collect", "report"} => at = 1
LabelReads == pc = "label" => at \in 1 .. 3
Stated == tickErrors = {} => tickState = "CONNECTED"

IInv ==
    /\ TypeOK
    /\ Sampling /\ Reporting /\ Targeted /\ Bound /\ AtRest /\ LabelReads
    /\ Stated
    /\ ConnectedIsBound
    /\ NothingHeldOffline

\* The caches start empty, of no phone.
LEMMA EmptyTypes ==
    /\ EmptyCache \in [Collected -> MaybeSerial]
    /\ EmptyBase \in [Collected \cap DeltaCollector -> MaybeSerial]
    /\ \A c \in Collected : EmptyCache[c] = NoSerial
BY DEF EmptyCache, EmptyBase, MaybeSerial

\* Every error is shown as one of the states.
LEMMA StateTypes ==
    /\ \A e \in AdbError : ConnectState[e] \in State
    /\ \A e \in AdbError : CollectState[e] \in State
    /\ "CONNECTED" \in State
<1>1. \A e \in AdbError : ConnectState[e] \in State
  BY DEF AdbError, ConnectState, State, LossStates
<1>2. \A e \in AdbError : CollectState[e] \in State
  BY DEF AdbError, CollectState, State, LossStates
<1>3. QED
  BY <1>1, <1>2 DEF State

\* Nothing is bound, and nothing collected, before the first slot.
LEMMA InitInvariant == Init => IInv
<1> SUFFICES ASSUME Init PROVE IInv
  OBVIOUS
<1>1. TypeOK
  <2>1. devices \in [Serial -> DeviceState] /\ adb \in AdbHealth
    BY ParameterAssumption DEF Init
  <2>2. bound \in MaybeSerial /\ target \in MaybeSerial
    BY ParameterAssumption DEF Init, MaybeSerial
  <2>3. at \in 1 .. (Len(CollectorOrder) + 3) /\ changes \in 0 .. MaxChanges
        /\ clicks \in 0 .. MaxClicks
    BY ParameterAssumption DEF Init
  <2>4. inbox \in Seq(Slot)
    BY DEF Init
  <2>5. QED
    BY <2>1, <2>2, <2>3, <2>4, EmptyTypes, StateTypes DEF Init, TypeOK, Pc
<1>2. QED
  BY <1>1, EmptyTypes DEF Init, IInv, Sampling, Reporting, Targeted, Bound, AtRest,
     LabelReads, Stated, ConnectedIsBound, NothingHeldOffline

(***************************************************************************)
(* The steps outside _connect and tick.                                    *)
(***************************************************************************)
LEMMA EnvironmentInvariant ==
    ASSUME IInv, Environment
    PROVE  IInv'
<1> USE DEF envVars, userVars, sessionVars, tickVars, connectVars
<1>1. TypeOK'
  BY ParameterAssumption DEF IInv, TypeOK, Environment, DeviceChanges, AdbChanges
<1>2. QED
  BY <1>1 DEF IInv, Environment, DeviceChanges, AdbChanges, Sampling, Reporting,
     Targeted, Bound, AtRest, LabelReads, Stated, ConnectedIsBound, NothingHeldOffline

\* A click posts a slot.
LEMMA ClickInvariant ==
    ASSUME IInv, NEW slot \in Slot, Click(slot)
    PROVE  IInv'
<1> USE DEF envVars, userVars, sessionVars, tickVars, connectVars
<1>1. TypeOK'
  BY ParameterAssumption DEF IInv, TypeOK, Click
<1>2. QED
  BY <1>1 DEF IInv, Click, Sampling, Reporting, Targeted, Bound, AtRest, LabelReads, Stated,
     ConnectedIsBound, NothingHeldOffline

\* Stopping keeps the invariant.
LEMMA StopInvariant ==
    ASSUME IInv, Stop
    PROVE  IInv'
<1> USE DEF envVars, userVars, sessionVars, tickVars, connectVars
<1>1. TypeOK'
  BY DEF IInv, TypeOK, Stop
<1>2. QED
  BY <1>1 DEF IInv, Stop, Sampling, Reporting, Targeted, Bound, AtRest, LabelReads, Stated,
     ConnectedIsBound, NothingHeldOffline

\* So does the timer.
LEMMA TimerInvariant ==
    ASSUME IInv, TimerFires
    PROVE  IInv'
<1> USE DEF envVars, userVars, sessionVars, tickVars, connectVars
<1>1. TypeOK'
  BY ParameterAssumption DEF IInv, TypeOK, TimerFires, StartConnect, Pc, AtRest
<1>2. QED
  BY <1>1 DEF IInv, TimerFires, StartConnect, Sampling, Reporting, Targeted, Bound,
     AtRest, LabelReads, Stated, ConnectedIsBound, NothingHeldOffline

\* So does the slot that is handled.
LEMMA SlotInvariant ==
    ASSUME IInv, HandleSlot
    PROVE  IInv'
<1> USE DEF envVars, userVars, sessionVars, tickVars, connectVars,
            TakeSlot, ConnectUnlessStopped, StartConnect
<1>0. inbox # <<>> => /\ Tail(inbox) \in Seq(Slot)
                      /\ Head(inbox) \in Slot
  BY DEF IInv, TypeOK
<1>1. CASE Retry
  <2>1. TypeOK'
    BY <1>0, <1>1 DEF IInv, TypeOK, Retry, Pc
  <2>2. QED
    BY <1>1, <2>1 DEF IInv, Retry, Sampling, Reporting, Targeted, Bound, AtRest,
       LabelReads, Stated, ConnectedIsBound, NothingHeldOffline
<1>2. CASE SelectDevice
  <2>1. Head(inbox).serial \in Serial
    BY <1>0, <1>2 DEF SelectDevice, Slot
  <2>2. Head(inbox).serial # NoSerial
    BY <2>1, SerialAssumption
  <2>3. TypeOK'
    BY <1>0, <1>2, <2>1 DEF IInv, TypeOK, SelectDevice, Pc, MaybeSerial
  <2>4. QED
    BY <1>2, <2>2, <2>3 DEF IInv, SelectDevice, Sampling, Reporting, Targeted,
       Bound, AtRest, LabelReads, Stated, ConnectedIsBound, NothingHeldOffline
<1>3. CASE \E usable \in BOOLEAN : LocateAdb(usable)
  <2>1. TypeOK'
    BY <1>0, <1>3 DEF IInv, TypeOK, LocateAdb, Pc, AdbHealth, State
  <2>2. QED
    BY <1>3, <2>1 DEF IInv, LocateAdb, Sampling, Reporting, Targeted, Bound, AtRest,
       LabelReads, Stated, ConnectedIsBound, NothingHeldOffline
<1>4. QED
  BY <1>1, <1>2, <1>3 DEF HandleSlot

(***************************************************************************)
(* How _connect fails, gives up or returns.                                *)
(***************************************************************************)
LEMMA FailureInvariant ==
    ASSUME IInv, ConnectUnchanged,
           pc \in {"verify", "require", "label", "identity"},
           NEW e \in AdbError, ConnectFails(e)
    PROVE  IInv'
<1> USE DEF envVars, userVars, sessionVars, tickVars, connectVars,
            ConnectFails, ConnectUnchanged, InvalidateSnapshots, Signals
<1>1. Len(CollectorOrder) \in Nat /\ Len(CollectorOrder) > 0
  BY ParameterAssumption
<1>2. CASE e = "Ambiguous"
  <2>1. TypeOK'
    BY <1>2, EmptyTypes, StateTypes DEF IInv, TypeOK, Pc, MaybeSerial
  <2>2. QED
    BY <1>2, <2>1, EmptyTypes DEF IInv, Sampling, Reporting, Targeted, Bound, AtRest,
       LabelReads, Stated, ConnectedIsBound, NothingHeldOffline
<1>3. CASE e # "Ambiguous"
  <2>1. TypeOK'
    <3>1. cache' \in [Collected -> MaybeSerial] /\ reported' \in State
          /\ base' \in [Collected \cap DeltaCollector -> MaybeSerial]
      BY EmptyTypes, StateTypes
    <3>2. bound' \in MaybeSerial /\ connected' \in BOOLEAN
      BY DEF IInv, TypeOK, MaybeSerial
    <3>3. target' \in MaybeSerial /\ labelOf' \subseteq Serial /\ pc' = "idle"
          /\ at' \in 1 .. (Len(CollectorOrder) + 3)
          /\ interval' \in {"immediate", "retry", "sample"}
      BY <1>1, <1>3 DEF ConnectReturns, IInv, TypeOK, MaybeSerial
    <3>4. QED
      BY <3>1, <3>2, <3>3 DEF IInv, TypeOK, Pc
  <2>2. QED
    BY <1>3, <2>1, EmptyTypes DEF IInv, ConnectReturns, Sampling, Reporting, Targeted,
       Bound, AtRest, LabelReads, Stated, ConnectedIsBound, NothingHeldOffline
<1>4. QED
  BY <1>2, <1>3

\* So does a connect that gives up.
LEMMA AbortInvariant ==
    ASSUME IInv, ConnectUnchanged,
           pc \in {"verify", "require", "label"}, ConnectAborts
    PROVE  IInv'
<1> USE DEF envVars, userVars, sessionVars, tickVars, connectVars,
            ConnectAborts, ConnectUnchanged, ConnectReturns
<1>1. Len(CollectorOrder) \in Nat /\ Len(CollectorOrder) > 0
  BY ParameterAssumption
<1>2. TypeOK'
  BY <1>1 DEF IInv, TypeOK, Pc, MaybeSerial
<1>3. QED
  BY <1>2 DEF IInv, Sampling, Reporting, Targeted, Bound, AtRest, LabelReads, Stated,
     ConnectedIsBound, NothingHeldOffline

(***************************************************************************)
(* The steps of _connect.                                                  *)
(***************************************************************************)
LEMMA ConnectInvariant ==
    ASSUME IInv, Connect
    PROVE  IInv'
<1> USE DEF envVars, userVars, sessionVars, tickVars, connectVars,
            ConnectUnchanged, ConnectProceeds
<1>0. devices \in [Serial -> DeviceState] /\ bound \in MaybeSerial
      /\ Len(CollectorOrder) \in Nat /\ Len(CollectorOrder) > 0
  BY ParameterAssumption DEF IInv, TypeOK
<1>1. CASE VerifyAvailable
  <2>1. CASE VerifyErrors(adb) # {}
    <3>1. PICK e \in VerifyErrors(adb) : ConnectFails(e)
      BY <1>1, <2>1 DEF VerifyAvailable
    <3>2. e \in AdbError
      BY DEF VerifyErrors, ExecuteErrors, AdbError
    <3>3. QED
      BY <1>1, <3>1, <3>2, FailureInvariant DEF VerifyAvailable
  <2>2. CASE VerifyErrors(adb) = {} /\ stopped
    BY <1>1, <2>2, AbortInvariant DEF VerifyAvailable
  <2>3. CASE VerifyErrors(adb) = {} /\ ~stopped
    <3>1. TypeOK'
      BY <1>1, <2>3 DEF VerifyAvailable, IInv, TypeOK, Pc
    <3>2. QED
      BY <1>1, <2>3, <3>1 DEF VerifyAvailable, IInv, Sampling, Reporting, Targeted,
         Bound, AtRest, LabelReads, Stated, ConnectedIsBound, NothingHeldOffline
  <2>4. QED
    BY <2>1, <2>2, <2>3
<1>2. CASE RequireDevice
  <2>1. PICK r \in RequireResults(devices, adb, bound) :
           IF Failed(r) THEN ConnectFails(r.error)
           ELSE IF stopped THEN ConnectAborts
           ELSE /\ ConnectProceeds("label")
                /\ target' = r.serial
                /\ out' = <<>>
                /\ UNCHANGED <<bound, labelOf, at>>
    BY <1>2 DEF RequireDevice
  <2>2. CASE Failed(r)
    BY <1>0, <1>2, <2>1, <2>2, FailureInvariant, RequireReachesBound DEF RequireDevice
  <2>3. CASE ~Failed(r) /\ stopped
    BY <1>2, <2>1, <2>3, AbortInvariant DEF RequireDevice
  <2>4. CASE ~Failed(r) /\ ~stopped
    <3>1. r.serial \in Serial /\ (bound # NoSerial => r.serial = bound)
      BY <1>0, <2>4, RequireReachesBound
    <3>2. TypeOK'
      BY <1>2, <2>1, <2>4, <3>1 DEF RequireDevice, IInv, TypeOK, Pc, MaybeSerial
    <3>3. QED
      BY <1>2, <2>1, <2>4, <3>1, <3>2 DEF RequireDevice, IInv, Sampling, Reporting,
         Targeted, Bound, AtRest, LabelReads, Stated, ConnectedIsBound, NothingHeldOffline
  <2>5. QED
    BY <2>2, <2>3, <2>4
<1>3. CASE ReadLabel
  <2>1. PICK r \in ShellResults(devices, adb, bound) :
           IF Failed(r) THEN ConnectFails(r.error)
           ELSE IF at < 3
           THEN /\ ConnectProceeds("label")
                /\ at' = at + 1
                /\ labelOf' = labelOf \cup {r.serial}
                /\ out' = <<>>
                /\ UNCHANGED <<bound, target>>
           ELSE IF stopped THEN ConnectAborts
           ELSE /\ ConnectProceeds("identity")
                /\ at' = 1
                /\ labelOf' = {}
                /\ bound' = target
                /\ out' = <<LabelSignal(labelOf \cup {r.serial})>>
                /\ UNCHANGED target
    BY <1>3 DEF ReadLabel
  <2>2. CASE Failed(r)
    BY <1>0, <1>3, <2>1, <2>2, FailureInvariant, ShellReachesBound DEF ReadLabel
  <2>3. CASE ~Failed(r) /\ ~(at < 3) /\ stopped
    BY <1>3, <2>1, <2>3, AbortInvariant DEF ReadLabel
  <2>4. CASE ~Failed(r) /\ at < 3
    <3>1. r.serial \in Serial
      BY <1>0, <2>4, ShellReachesBound
    <3>2. TypeOK'
      BY <1>0, <1>3, <2>1, <2>4, <3>1 DEF ReadLabel, IInv, TypeOK, Pc, LabelReads
    <3>3. QED
      BY <1>3, <2>1, <2>4, <3>2 DEF ReadLabel, IInv, Sampling, Reporting, Targeted,
         Bound, AtRest, LabelReads, Stated, ConnectedIsBound, NothingHeldOffline
  <2>5. CASE ~Failed(r) /\ ~(at < 3) /\ ~stopped
    <3>1. target \in Serial /\ target # NoSerial /\ (bound # NoSerial => bound = target)
      BY <1>3, SerialAssumption DEF ReadLabel, IInv, Targeted
    <3>2. TypeOK'
      BY <1>0, <1>3, <2>1, <2>5, <3>1 DEF ReadLabel, IInv, TypeOK, Pc, MaybeSerial
    <3>3. QED
      BY <1>3, <2>1, <2>5, <3>1, <3>2 DEF ReadLabel, IInv, Sampling, Reporting,
         Targeted, Bound, AtRest, LabelReads, Stated, ConnectedIsBound, NothingHeldOffline
  <2>6. QED
    BY <2>2, <2>3, <2>4, <2>5
<1>4. CASE ReadIdentity
  <2>1. PICK r \in ShellResults(devices, adb, bound) :
           IF Failed(r) THEN ConnectFails(r.error)
           ELSE /\ connected' = TRUE
                /\ out' = <<StateSignal("CONNECTED"), SerialSignal(target)>>
                /\ reported' = "CONNECTED"
                /\ ConnectReturns(TRUE)
                /\ UNCHANGED <<bound, cache, base>>
    BY <1>4 DEF ReadIdentity
  <2>2. CASE Failed(r)
    BY <1>0, <1>4, <2>1, <2>2, FailureInvariant, ShellReachesBound DEF ReadIdentity
  <2>3. CASE ~Failed(r)
    <3>1. TypeOK'
      BY <1>0, <1>4, <2>1, <2>3, StateTypes
         DEF ReadIdentity, ConnectReturns, IInv, TypeOK, Pc, MaybeSerial
    <3>2. QED
      BY <1>4, <2>1, <2>3, <3>1 DEF ReadIdentity, ConnectReturns, IInv, Sampling,
         Reporting, Targeted, Bound, AtRest, LabelReads, Stated, ConnectedIsBound,
         NothingHeldOffline
  <2>4. QED
    BY <2>2, <2>3
<1>5. CASE ReportDevices
  <2>1. TypeOK'
    BY <1>0, <1>5 DEF ReportDevices, ConnectReturns, IInv, TypeOK, Pc, MaybeSerial
  <2>2. QED
    BY <1>5, <2>1 DEF ReportDevices, ConnectReturns, IInv, Sampling, Reporting,
       Targeted, Bound, AtRest, LabelReads, Stated, ConnectedIsBound, NothingHeldOffline
<1>6. QED
  BY <1>1, <1>2, <1>3, <1>4, <1>5 DEF Connect

(***************************************************************************)
(* The steps of tick.                                                      *)
(***************************************************************************)
LEMMA TickInvariant ==
    ASSUME IInv, Tick
    PROVE  IInv'
<1> USE DEF envVars, userVars, sessionVars, tickVars, connectVars
<1>0. devices \in [Serial -> DeviceState] /\ bound \in MaybeSerial
      /\ Len(CollectorOrder) \in Nat /\ Len(CollectorOrder) > 0
  BY ParameterAssumption DEF IInv, TypeOK
<1>1. CASE Collect
  <2> DEFINE c == CollectorOrder[at]
  <2>1. pc = "collect" /\ at \in 1 .. Len(CollectorOrder) /\ TickAdvances /\ connected
        /\ bound # NoSerial
    BY <1>1 DEF Collect, IInv, TypeOK, Sampling, ConnectedIsBound
  <2>2. c \in Collected
    BY <2>1 DEF Collected
  <2>3. PICK result \in ShellResults(devices, adb, bound) :
           LET r == Outcome(c, result)
           IN  IF Failed(r)
               THEN /\ tickState' = CollectState[r.error]
                    /\ tickErrors' = tickErrors \cup {CollectState[r.error]}
                    /\ UNCHANGED <<cache, previous, base>>
               ELSE /\ \E held \in {r.serial} \cup (IF c = "storage" THEN {NoSerial} ELSE {}) :
                          cache' = [cache EXCEPT ![c] = held]
                    /\ IF c \in DeltaCollector
                       THEN /\ base' = [base EXCEPT ![c] = previous[c]]
                            /\ previous' = [previous EXCEPT ![c] = r.serial]
                       ELSE UNCHANGED <<base, previous>>
                    /\ UNCHANGED tickVars
    BY <1>1 DEF Collect
  <2> DEFINE r == Outcome(c, result)
  <2>4. /\ Failed(r) => r.error \in AdbError
        /\ ~Failed(r) => r.serial = bound
    BY <1>0, <2>1, ShellReachesBound DEF Outcome, Ran, Failed
  <2>5. CASE Failed(r)
    <3>1. tickState' \in State /\ tickErrors' \subseteq State
          /\ tickErrors' # {} /\ UNCHANGED <<cache, previous, base>>
      BY <2>3, <2>4, <2>5, StateTypes DEF IInv, TypeOK
    <3>2. TypeOK'
      BY <1>0, <2>1, <3>1 DEF IInv, TypeOK, Pc, TickAdvances
    <3>3. QED
      BY <2>1, <3>1, <3>2 DEF TickAdvances, IInv, Sampling, Reporting, Targeted, Bound,
         AtRest, LabelReads, Stated, ConnectedIsBound, NothingHeldOffline
  <2>6. CASE ~Failed(r)
    <3>1. PICK held \in {bound, NoSerial} : cache' = [cache EXCEPT ![c] = held]
      BY <2>3, <2>4, <2>6
    <3>2. previous' \in [Collected \cap DeltaCollector -> MaybeSerial]
          /\ base' \in [Collected \cap DeltaCollector -> MaybeSerial]
      BY <1>0, <2>2, <2>3, <2>4, <2>6 DEF IInv, TypeOK
    <3>3. UNCHANGED tickVars
      BY <2>3, <2>6
    <3>4. cache' \in [Collected -> MaybeSerial]
      BY <1>0, <3>1 DEF IInv, TypeOK, MaybeSerial
    <3>5. TypeOK'
      BY <1>0, <2>1, <3>2, <3>3, <3>4 DEF IInv, TypeOK, Pc, TickAdvances
    <3>6. QED
      BY <2>1, <3>3, <3>5 DEF TickAdvances, IInv, Sampling, Reporting, Targeted, Bound,
         AtRest, LabelReads, Stated, ConnectedIsBound, NothingHeldOffline
  <2>7. QED
    BY <2>5, <2>6
<1>2. CASE CollectorRests
  <2>1. pc = "collect" /\ at \in 1 .. Len(CollectorOrder) /\ connected
    BY <1>2 DEF CollectorRests, IInv, TypeOK, Sampling
  <2>2. TypeOK'
    BY <1>0, <1>2, <2>1 DEF CollectorRests, TickAdvances, IInv, TypeOK, Pc
  <2>3. QED
    BY <1>2, <2>1, <2>2 DEF CollectorRests, TickAdvances, IInv, Sampling, Reporting,
       Targeted, Bound, AtRest, LabelReads, Stated, ConnectedIsBound, NothingHeldOffline
<1>3. CASE Publish
  <2>1. TypeOK'
    BY <1>0, <1>3, StateTypes DEF Publish, TickReturns, IInv, TypeOK, Pc
  <2>2. QED
    BY <1>3, <2>1 DEF Publish, TickReturns, IInv, Sampling, Reporting, Targeted, Bound,
       AtRest, LabelReads, Stated, ConnectedIsBound, NothingHeldOffline
<1>4. CASE PublishLoss
  <2>1. TypeOK'
    BY <1>0, <1>4, StateTypes, EmptyTypes
       DEF PublishLoss, TickReturns, InvalidateSnapshots, IInv, TypeOK, Pc, MaybeSerial
  <2>2. QED
    BY <1>4, <2>1, EmptyTypes DEF PublishLoss, TickReturns, InvalidateSnapshots, IInv,
       Sampling, Reporting, Targeted, Bound, AtRest, LabelReads, Stated, ConnectedIsBound,
       NothingHeldOffline
<1>5. QED
  BY <1>1, <1>2, <1>3, <1>4 DEF Tick

(***************************************************************************)
(* The last signals emitted are not part of the invariant.                 *)
(***************************************************************************)
LEMMA StutterInvariant ==
    ASSUME IInv, UNCHANGED monitorVars
    PROVE  IInv'
BY DEF monitorVars, envVars, userVars, sessionVars, tickVars, connectVars, IInv, TypeOK,
   Sampling, Reporting, Targeted, Bound, AtRest, LabelReads, Stated, ConnectedIsBound,
   NothingHeldOffline

\* Every step of the monitor keeps the invariant.
LEMMA StepInvariant == IInv /\ [Next]_vars => IInv'
<1> SUFFICES ASSUME IInv, [Next]_vars PROVE IInv'
  OBVIOUS
<1>1. CASE Environment
  BY <1>1, EnvironmentInvariant
<1>2. CASE \E slot \in Slot : Click(slot)
  BY <1>2, ClickInvariant
<1>3. CASE Stop
  BY <1>3, StopInvariant
<1>4. CASE TimerFires
  BY <1>4, TimerInvariant
<1>5. CASE HandleSlot
  BY <1>5, SlotInvariant
<1>6. CASE Connect
  BY <1>6, ConnectInvariant
<1>7. CASE Tick
  BY <1>7, TickInvariant
<1>8. CASE UNCHANGED vars
  BY <1>8, StutterInvariant DEF vars
<1>9. QED
  BY <1>1, <1>2, <1>3, <1>4, <1>5, <1>6, <1>7, <1>8 DEF Next, Worker

\* So it holds in every state.
LEMMA Invariant == Spec => []IInv
<1>1. QED
  BY InitInvariant, StepInvariant, PTL DEF Spec

-----------------------------------------------------------------------------
(***************************************************************************)
(* The worker's variables keep their types.                                *)
(***************************************************************************)
THEOREM TypeCorrect == Spec => []TypeOK
BY Invariant, PTL DEF IInv

(***************************************************************************)
(* Whenever the worker counts itself connected, a serial is bound: no      *)
(* command of a session resolves to whatever else is attached (_connect,   *)
(* _connect_failed, tick).                                                 *)
(***************************************************************************)
THEOREM SessionIsBound == Spec => []ConnectedIsBound
BY Invariant, PTL DEF IInv

(***************************************************************************)
(* Between two sessions no snapshot is held, whatever ended the first one  *)
(* (_invalidate_snapshots).                                                *)
(***************************************************************************)
THEOREM NothingSurvivesTheSession == Spec => []NothingHeldOffline
BY Invariant, PTL DEF IInv

(***************************************************************************)
(* Sessions open with the caches untouched; a collector writes what it read*)
(* from the phone of the session; a session that goes on with another phone*)
(* takes the pick of it.                                                   *)
(***************************************************************************)
LEMMA SessionSteps ==
    ASSUME IInv, Next, connected'
    PROVE  /\ ~connected => cache' = cache
           /\ connected =>
                /\ \A c \in Collected : cache'[c] \in {cache[c], NoSerial, bound}
                /\ bound' = bound \/ (SelectDevice /\ cache' = cache)
<1> USE DEF envVars, userVars, sessionVars, tickVars, connectVars
<1>1. CASE Environment \/ (\E slot \in Slot : Click(slot)) \/ Stop \/ TimerFires
  BY <1>1 DEF Environment, Click, Stop, TimerFires
<1>2. CASE HandleSlot
  BY <1>2 DEF HandleSlot, Retry, SelectDevice, LocateAdb, TakeSlot
<1>3. CASE CollectorRests \/ Publish \/ PublishLoss
  BY <1>3 DEF CollectorRests, Publish, PublishLoss, TickAdvances, TickReturns, IInv, Sampling
<1>4. CASE Collect
  <2> DEFINE col == CollectorOrder[at]
  <2>1. connected /\ bound' = bound /\ bound # NoSerial /\ pc = "collect"
    BY <1>4 DEF Collect, TickAdvances, IInv, Sampling, ConnectedIsBound
  <2>2. devices \in [Serial -> DeviceState] /\ bound \in MaybeSerial
        /\ cache \in [Collected -> MaybeSerial]
    BY DEF IInv, TypeOK
  <2>3. PICK result \in ShellResults(devices, adb, bound) :
           LET r == Outcome(col, result)
           IN  IF Failed(r) THEN UNCHANGED cache
               ELSE \E held \in {r.serial} \cup (IF col = "storage" THEN {NoSerial} ELSE {}) :
                       cache' = [cache EXCEPT ![col] = held]
    BY <1>4 DEF Collect
  <2> DEFINE r == Outcome(col, result)
  <2>4. ~Failed(r) => r.serial = bound
    BY <2>1, <2>2, ShellReachesBound DEF Outcome, Ran, Failed
  <2>5. cache' = cache \/ \E held \in {bound, NoSerial} : cache' = [cache EXCEPT ![col] = held]
    BY <2>3, <2>4
  <2>6. QED
    BY <2>1, <2>2, <2>5
<1>5. CASE Connect
  <2>1. ASSUME NEW e, ConnectFails(e) PROVE FALSE
    BY <2>1 DEF ConnectFails
  <2>2. CASE VerifyAvailable \/ RequireDevice \/ ReadIdentity \/ ReportDevices
    BY <2>1, <2>2 DEF VerifyAvailable, RequireDevice, ReadIdentity, ReportDevices,
       ConnectAborts, ConnectProceeds
  <2>3. CASE ReadLabel
    BY <2>1, <2>3 DEF ReadLabel, ConnectAborts, ConnectProceeds, IInv, Targeted,
       ConnectedIsBound
  <2>4. QED
    BY <1>5, <2>2, <2>3 DEF Connect
<1>6. QED
  BY <1>1, <1>2, <1>3, <1>4, <1>5 DEF Next, Worker, Tick

(***************************************************************************)
(* Snapshots of two phones are held only from a pick on that moves the pin *)
(* from one phone to another: no other step of the worker or of its        *)
(* environment makes a publication of tick mix phones.                     *)
(***************************************************************************)
LEMMA HeldStep ==
    ASSUME IInv, IInv', [Next]_vars, HeldFromBoundDevice, ~PinMoves
    PROVE  HeldFromBoundDevice'
<1>1. CASE UNCHANGED vars
  BY <1>1 DEF vars, monitorVars, sessionVars, HeldFromBoundDevice
<1>2. CASE ~connected'
  BY <1>2, EmptyTypes DEF IInv, NothingHeldOffline, HeldFromBoundDevice
<1>3. CASE Next /\ connected' /\ ~connected
  BY <1>3, SessionSteps, EmptyTypes DEF IInv, NothingHeldOffline, HeldFromBoundDevice
<1>4. CASE Next /\ connected' /\ connected
  <2>1. bound # NoSerial /\ bound' # NoSerial
    BY <1>4 DEF IInv, ConnectedIsBound
  <2>2. bound' = bound
    BY <2>1 DEF PinMoves
  <2>3. QED
    BY <1>4, <2>2, SessionSteps DEF HeldFromBoundDevice
<1>5. QED
  BY <1>1, <1>2, <1>3, <1>4

THEOREM OnePhoneAtATime ==
    Spec => HeldFromBoundDevice /\ OnlyPicksMixPhones
<1>1. Init => HeldFromBoundDevice
  BY EmptyTypes DEF Init, HeldFromBoundDevice
<1>2. IInv /\ IInv' /\ [Next]_vars =>
          [HeldFromBoundDevice /\ ~PinMoves => HeldFromBoundDevice']_vars
  BY HeldStep
<1>3. QED
  BY <1>1, <1>2, Invariant, PTL DEF Spec, OnlyPicksMixPhones

(***************************************************************************)
(* A live session is never handed to another phone but by the pick of that *)
(* phone (select_device).                                                  *)
(***************************************************************************)
THEOREM NoSwitch == Spec => SessionNeverSwitches
<1>1. ASSUME IInv, Next, connected, connected', bound' # bound
      PROVE  SelectDevice /\ Head(inbox) = [op |-> "select_device", serial |-> bound']
  <2>1. SelectDevice
    BY <1>1, SessionSteps
  <2>2. Head(inbox) \in Slot /\ Head(inbox).op = "select_device" /\ Head(inbox).serial = bound'
    BY <1>1, <2>1 DEF SelectDevice, TakeSlot, IInv, TypeOK
  <2>3. QED
    BY <2>1, <2>2 DEF Slot
<1>2. IInv /\ [Next]_vars =>
        [connected /\ connected' /\ bound' # bound =>
            SelectDevice /\ Head(inbox) = [op |-> "select_device", serial |-> bound']]_vars
  BY <1>1
<1>3. QED
  BY <1>2, Invariant, PTL DEF Spec, SessionNeverSwitches

(***************************************************************************)
(* Once stopped, an idle worker stays idle: stop, _on_timer and every slot.*)
(***************************************************************************)
THEOREM StopEndsTheLoop == Spec => StopIsFinal
<1>1. Next => (stopped /\ pc = "idle" => pc' = "idle")
  <2> SUFFICES ASSUME Next, stopped, pc = "idle" PROVE pc' = "idle"
    OBVIOUS
  <2>1. CASE Environment \/ (\E slot \in Slot : Click(slot)) \/ Stop
    BY <2>1 DEF Environment, Click, Stop
  <2>2. CASE HandleSlot
    BY <2>2 DEF HandleSlot, Retry, SelectDevice, LocateAdb, ConnectUnlessStopped
  <2>3. CASE TimerFires \/ Connect \/ Tick
    BY <2>3 DEF TimerFires, Connect, VerifyAvailable, RequireDevice, ReadLabel,
       ReadIdentity, ReportDevices, Tick, Collect, CollectorRests, Publish, PublishLoss,
       TickReturns
  <2>4. QED
    BY <2>1, <2>2, <2>3 DEF Next, Worker
<1>2. QED
  BY <1>1, PTL DEF Spec, StopIsFinal

(***************************************************************************)
(* A session never ends in silence, and what is published with its end is  *)
(* empty: _connect_failed and the loss branch of tick.                     *)
(***************************************************************************)
THEOREM EndOfSessionIsReported == Spec => LossIsReported
<1> DEFINE Reported ==
        /\ \E i \in DOMAIN out' : \E state \in State \ {"CONNECTED"} :
             out'[i] = StateSignal(state)
        /\ \A i \in DOMAIN out' :
             out'[i].signal = "snapshots" => out'[i].data = EmptyCache
<1>1. ASSUME IInv, Next, connected, ~connected' PROVE Reported
  <2> USE DEF envVars, userVars, sessionVars, tickVars, connectVars
  <2>1. ASSUME NEW e \in AdbError, ConnectFails(e) PROVE Reported
    <3>1. ConnectState[e] \in State \ {"CONNECTED"}
      BY DEF AdbError, ConnectState, State, LossStates
    <3>2. out' = <<StateSignal(ConnectState[e])>>
      BY <2>1 DEF ConnectFails, Signals
    <3>3. DOMAIN out' = {1} /\ out'[1] = StateSignal(ConnectState[e])
      BY <3>2
    <3>4. QED
      BY <3>1, <3>3 DEF StateSignal
  <2>2. CASE PublishLoss
    <3>1. tickState \in State \ {"CONNECTED"}
      BY <2>2 DEF PublishLoss, State, LossStates
    <3>2. out' = <<StateSignal(tickState), SnapshotSignal(EmptyCache, TRUE)>>
      BY <2>2 DEF PublishLoss
    <3>3. /\ DOMAIN out' = {1, 2} /\ out'[1] = StateSignal(tickState)
          /\ out'[2] = SnapshotSignal(EmptyCache, TRUE)
      BY <3>2
    <3>4. QED
      BY <3>1, <3>3 DEF StateSignal, SnapshotSignal
  <2>3. CASE Environment \/ (\E slot \in Slot : Click(slot)) \/ Stop \/ TimerFires \/ HandleSlot
    BY <1>1, <2>3 DEF Environment, Click, Stop, TimerFires, HandleSlot, Retry, SelectDevice,
       LocateAdb, TakeSlot
  <2>4. CASE Collect \/ CollectorRests \/ Publish
    BY <1>1, <2>4 DEF Collect, CollectorRests, Publish, TickAdvances, TickReturns
  <2>5. CASE Connect
    <3>1. \E e \in AdbError : ConnectFails(e)
      BY <1>1, <2>5, RequireReachesBound, ShellReachesBound DEF Connect, VerifyAvailable,
         RequireDevice, ReadLabel, ReadIdentity, ReportDevices, ConnectAborts,
         ConnectProceeds, VerifyErrors, ExecuteErrors, AdbError, IInv, TypeOK
    <3>2. QED
      BY <2>1, <3>1
  <2>6. QED
    BY <1>1, <2>2, <2>3, <2>4, <2>5 DEF Next, Worker, Tick
<1>2. IInv /\ [Next]_vars => [connected /\ ~connected' => Reported]_vars
  BY <1>1
<1>3. QED
  BY <1>2, Invariant, PTL DEF Spec, LossIsReported

(***************************************************************************)
(* A click may add a pick, a slot that is handled may take one away; no    *)
(* other step does either.                                                 *)
(***************************************************************************)
LEMMA PickedSteps ==
    ASSUME IInv, Next
    PROVE  \/ \E s \in Serial : /\ Picked' = Picked \cup {s}
                                /\ UNCHANGED <<bound, connected, cache>>
           \/ HandleSlot /\ Picked' \subseteq Picked
           \/ Picked' = Picked
<1> USE DEF envVars, userVars, sessionVars, tickVars, connectVars
<1>0. inbox \in Seq(Slot)
  BY DEF IInv, TypeOK
<1>1. CASE Environment \/ Stop \/ TimerFires \/ Connect \/ Tick
  <2>1. inbox' = inbox
    BY <1>1 DEF Environment, Stop, TimerFires, Connect, VerifyAvailable, RequireDevice,
       ReadLabel, ReadIdentity, ReportDevices, ConnectUnchanged, Tick, Collect,
       CollectorRests, Publish, PublishLoss, TickAdvances, TickReturns
  <2>2. QED
    BY <2>1 DEF Picked
<1>2. ASSUME NEW slot \in Slot, Click(slot) PROVE \/ Picked' = Picked
                                                  \/ \E s \in Serial : Picked' = Picked \cup {s}
  <2>1. inbox' = Append(inbox, slot)
    BY <1>2 DEF Click
  <2>2. \A x : (\E i \in DOMAIN inbox' : inbox'[i] = x)
                  <=> x = slot \/ \E i \in DOMAIN inbox : inbox[i] = x
    <3>1. DOMAIN inbox = 1 .. Len(inbox) /\ DOMAIN inbox' = 1 .. Len(inbox) + 1
          /\ Len(inbox) \in Nat /\ inbox'[Len(inbox) + 1] = slot
          /\ \A i \in DOMAIN inbox : inbox'[i] = inbox[i]
      BY <1>0, <2>1
    <3>2. \A i \in DOMAIN inbox' : i \in DOMAIN inbox \/ i = Len(inbox) + 1
      BY <3>1
    <3>3. DOMAIN inbox \subseteq DOMAIN inbox' /\ Len(inbox) + 1 \in DOMAIN inbox'
      BY <3>1
    <3>4. QED
      BY <3>1, <3>2, <3>3, Zenon
  <2>3. CASE slot.op = "select_device"
    <3>1. PICK s \in Serial : slot = [op |-> "select_device", serial |-> s]
      BY <2>3 DEF Slot
    <3>2. \A t \in Serial : slot = [op |-> "select_device", serial |-> t] <=> t = s
      BY <3>1
    <3>3. Picked' = Picked \cup {s}
      BY <2>2, <3>2 DEF Picked
    <3>4. QED
      BY <3>3
  <2>4. CASE slot.op # "select_device"
    <3>1. \A t \in Serial : slot # [op |-> "select_device", serial |-> t]
      BY <2>4
    <3>2. QED
      BY <2>2, <3>1 DEF Picked
  <2>5. QED
    BY <2>3, <2>4
<1>3. CASE \E slot \in Slot : Click(slot)
  <2>1. UNCHANGED <<bound, connected, cache>>
    BY <1>3 DEF Click
  <2>2. QED
    BY <1>2, <1>3, <2>1
<1>4. CASE HandleSlot
  <2>1. inbox # <<>> /\ inbox' = Tail(inbox)
    BY <1>4 DEF HandleSlot, Retry, SelectDevice, LocateAdb, TakeSlot
  <2>2. \A i \in DOMAIN inbox' : i + 1 \in DOMAIN inbox /\ inbox'[i] = inbox[i + 1]
    BY <1>0, <2>1
  <2>3. Picked' \subseteq Picked
    BY <2>2 DEF Picked
  <2>4. QED
    BY <1>4, <2>3
<1>5. QED
  BY <1>1, <1>3, <1>4 DEF Next, Worker

(***************************************************************************)
(* The worker implements TelemetrySession: nothing is held between two     *)
(* sessions, what is held is of the phone of the session, and only a pick  *)
(* the user made hands a live session to another phone.                    *)
(***************************************************************************)
THEOREM WorkerImplementsSession == Spec => ImplementsSession
<1>1. Init => Abstract!Init
  BY DEF Init, Abstract!Init, Session, Held, EmptyCache, Picked
<1>2. ASSUME IInv, IInv', Next
      PROVE  [Abstract!Next]_(Abstract!vars)
  <2>0. \/ Picked' = Picked
        \/ HandleSlot /\ Picked' \subseteq Picked
        \/ \E s \in Serial : /\ Picked' = Picked \cup {s}
                             /\ UNCHANGED <<bound, connected, cache>>
    BY <1>2, PickedSteps
  <2>1. CASE \E s \in Serial : /\ Picked' = Picked \cup {s}
                               /\ UNCHANGED <<bound, connected, cache>>
    <3>1. UNCHANGED <<Session, Held>>
      BY <2>1 DEF Session, Held
    <3>2. QED
      BY <2>1, <3>1 DEF Abstract!Next, Abstract!Pick
  <2>2. CASE HandleSlot /\ Picked' \subseteq Picked
    <3>1. UNCHANGED <<connected, cache>>
      BY <2>2 DEF HandleSlot, Retry, SelectDevice, LocateAdb, TakeSlot
    <3>2. UNCHANGED Held
      BY <3>1 DEF Held
    <3>3. CASE ~connected \/ bound' = bound
      <4>1. UNCHANGED Session
        BY <3>1, <3>3 DEF Session
      <4>2. QED
        BY <2>2, <3>2, <4>1 DEF Abstract!Next, Abstract!Heed
    <3>4. CASE connected /\ bound' # bound
      <4>1. SelectDevice
        BY <1>2, <3>1, <3>4, SessionSteps
      <4>2. Head(inbox) \in Slot /\ Head(inbox).op = "select_device"
            /\ Head(inbox).serial = bound' /\ inbox # <<>> /\ inbox \in Seq(Slot)
        BY <1>2, <4>1 DEF SelectDevice, TakeSlot, IInv, TypeOK
      <4>3. bound' \in Serial /\ Head(inbox) = [op |-> "select_device", serial |-> bound']
        BY <4>2 DEF Slot
      <4>4. 1 \in DOMAIN inbox /\ inbox[1] = Head(inbox)
        BY <4>2
      <4>5. bound' \in Picked
        BY <4>3, <4>4 DEF Picked
      <4>6. Session # NoSerial /\ Session' = bound'
        BY <1>2, <3>1, <3>4 DEF Session, IInv, ConnectedIsBound
      <4>7. Abstract!HandOver(bound')
        BY <2>2, <3>2, <4>5, <4>6 DEF Abstract!HandOver
      <4>8. QED
        BY <4>3, <4>7 DEF Abstract!Next
    <3>5. QED
      BY <3>3, <3>4
  <2>3. CASE Picked' = Picked /\ ~HandleSlot
    <3>1. CASE ~connected /\ ~connected'
      <4>1. Held = {} /\ Held' = {}
        BY <1>2, <3>1 DEF IInv, NothingHeldOffline, Held, EmptyCache
      <4>2. QED
        BY <2>3, <3>1, <4>1 DEF Abstract!vars, Session
    <3>2. CASE ~connected /\ connected'
      <4>1. Held = {} /\ Held' = {}
        BY <1>2, <3>2, SessionSteps DEF IInv, NothingHeldOffline, Held, EmptyCache
      <4>2. bound' \in Serial
        BY <1>2, <3>2 DEF IInv, TypeOK, ConnectedIsBound, MaybeSerial
      <4>3. Abstract!Open(bound')
        BY <2>3, <3>2, <4>1, <4>2 DEF Abstract!Open, Session
      <4>4. QED
        BY <4>2, <4>3 DEF Abstract!Next
    <3>3. CASE connected /\ ~connected'
      <4>1. Held' = {}
        BY <1>2, <3>3 DEF IInv, NothingHeldOffline, Held, EmptyCache
      <4>2. Abstract!Close
        BY <1>2, <2>3, <3>3, <4>1 DEF Abstract!Close, Session, IInv, ConnectedIsBound
      <4>3. QED
        BY <4>2 DEF Abstract!Next
    <3>4. CASE connected /\ connected'
      <4>1. /\ bound' = bound /\ bound # NoSerial
            /\ \A c \in Collected : cache'[c] \in {cache[c], NoSerial, bound}
        BY <1>2, <2>3, <3>4, SessionSteps DEF IInv, ConnectedIsBound, HandleSlot
      <4>2. Held' \subseteq Held \cup {bound}
        BY <4>1 DEF Held
      <4>3. Abstract!Sample
        BY <2>3, <3>4, <4>1, <4>2 DEF Abstract!Sample, Session
      <4>4. QED
        BY <4>3 DEF Abstract!Next
    <3>5. QED
      BY <3>1, <3>2, <3>3, <3>4
  <2>4. CASE Picked' = Picked /\ HandleSlot
    BY <2>2, <2>4
  <2>5. QED
    BY <2>0, <2>1, <2>2, <2>3, <2>4
<1>3. IInv /\ IInv' /\ [Next]_vars => [Abstract!Next]_(Abstract!vars)
  <2>1. CASE UNCHANGED vars
    BY <2>1 DEF vars, monitorVars, sessionVars, userVars, Abstract!vars, Session, Held, Picked
  <2>2. QED
    BY <1>2, <2>1
<1>4. QED
  BY <1>1, <1>3, Invariant, PTL DEF Spec, ImplementsSession, Abstract!Spec

-----------------------------------------------------------------------------
(***************************************************************************)
(* The window behind its queue (Dashboard).  A queued signal can end the   *)
(* session the window knows of, or name the phone of the next one: After   *)
(* is the serial in force once it has been handled.  A signal fits the     *)
(* serial in force before it if its snapshots are of that phone, and if it *)
(* names a phone only when that is the one in force or there is none.      *)
(*                                                                         *)
(* After a pick that moved the pin what is in force is Unknown, and nothing*)
(* is required of the signals, up to a loss that is queued behind the pick.*)
(***************************************************************************)
Unknown == CHOOSE u : u \notin MaybeSerial
InForce == MaybeSerial \cup {Unknown}

After(serial, s) ==
    IF IsLoss(s) THEN NoSerial
    ELSE IF s.signal = "serial_ready" /\ serial # Unknown THEN s.serial
    ELSE serial

Fits(serial, s) ==
    serial # Unknown =>
        /\ s.signal = "snapshots" => \A c \in Collected : s.data[c] \in {NoSerial, serial}
        /\ s.signal = "serial_ready" => serial \in {NoSerial, s.serial}

\* f[i] is the serial in force after the first i signals of the queue, of which
\* those from number d on were queued behind the pick.
Follows(f, queue, serial, d) ==
    /\ f \in [0 .. Len(queue) -> InForce]
    /\ f[0] = IF d = 0 THEN serial ELSE Unknown
    /\ \A i \in 1 .. Len(queue) :
          /\ f[i] = IF f[i - 1] = Unknown /\ i < d THEN Unknown ELSE After(f[i - 1], queue[i])
          /\ Fits(f[i - 1], queue[i])

\* The place in the queue, or just behind it, where the pick is.
Within(d, queue) == d \in 0 .. (Len(queue) + 1)

\* The serial the window will have when it has caught up, and the monitor's.
Agrees(serial) ==
    serial # Unknown =>
        /\ serial \in {NoSerial, bound}
        /\ connected => serial = bound
        /\ HeldFromBoundDevice

Coherent ==
    /\ PagesShowOnePhone
    /\ \E f \in [0 .. Len(toGui) -> InForce] :
          Follows(f, toGui, guiSerial, doubt) /\ Agrees(f[Len(toGui)])

DashboardInv ==
    /\ IInv
    /\ DashboardTypeOK
    /\ Coherent

\* What is unknown is no serial.
LEMMA UnknownIsNone == Unknown \notin MaybeSerial
BY NoSetContainsEverything DEF Unknown

(***************************************************************************)
(* A signal is a signal, and what it leaves in force is a serial or none.  *)
(***************************************************************************)
LEMMA SignalTypes ==
    /\ \A s \in State : StateSignal(s) \in Signal
    /\ \A s \in MaybeSerial : SerialSignal(s) \in Signal /\ InventorySignal(s) \in Signal
    /\ \A read \in SUBSET Serial : LabelSignal(read) \in Signal /\ DevicesSignal(read) \in Signal
    /\ \A data \in [Collected -> MaybeSerial] : \A lost \in BOOLEAN :
          SnapshotSignal(data, lost) \in Signal
BY DEF Signal, StateSignal, SerialSignal, InventorySignal, LabelSignal, DevicesSignal,
   SnapshotSignal

(***************************************************************************)
(* What is in force after a signal is a serial, none, or unknown.          *)
(***************************************************************************)
LEMMA AfterType ==
    \A s \in Signal : \A serial \in InForce : After(serial, s) \in InForce
BY DEF Signal, After, IsLoss, InForce, MaybeSerial

(***************************************************************************)
(* A signal that fits what is in force can join the queue.                 *)
(***************************************************************************)
LEMMA QueueGrows ==
    ASSUME NEW queue \in Seq(Signal), NEW serial, NEW s \in Signal,
           NEW d, Within(d, queue),
           NEW f, Follows(f, queue, serial, d), Fits(f[Len(queue)], s)
    PROVE  \E g : /\ Follows(g, Append(queue, s), serial, d)
                  /\ g[Len(Append(queue, s))] = After(f[Len(queue)], s)
<1> DEFINE n == Len(queue)
           q == Append(queue, s)
           g == [i \in 0 .. n + 1 |-> IF i = n + 1 THEN After(f[n], s) ELSE f[i]]
           first == IF d = 0 THEN serial ELSE Unknown
<1>1. /\ n \in Nat /\ Len(q) = n + 1 /\ q[n + 1] = s /\ d \in 0 .. (n + 1)
      /\ \A i \in 1 .. n : q[i] = queue[i]
  BY DEF Within
<1>2. \A i \in 0 .. n : f[i] \in InForce /\ g[i] = f[i]
  <2>1. f \in [0 .. n -> InForce]
    BY DEF Follows
  <2>2. QED
    BY <1>1, <2>1
<1>3. g[n + 1] = After(f[n], s)
  BY <1>1
<1>4. g \in [0 .. Len(q) -> InForce] /\ g[0] = first
  <2>1. f[n] \in InForce /\ f[0] = first /\ 0 \in 0 .. n
    BY <1>1 DEF Follows
  <2>2. After(f[n], s) \in InForce
    BY <2>1, AfterType
  <2>3. \A i \in 0 .. n + 1 : g[i] \in InForce
    BY <1>1, <1>2, <1>3, <2>2
  <2>4. g[0] = first
    BY <1>2, <2>1
  <2>5. QED
    BY <1>1, <2>3, <2>4
<1>5. ASSUME NEW i \in 1 .. Len(q)
      PROVE  /\ g[i] = IF g[i - 1] = Unknown /\ i < d THEN Unknown ELSE After(g[i - 1], q[i])
             /\ Fits(g[i - 1], q[i])
  <2>1. CASE i = n + 1
    <3>1. ~(i < d) /\ i - 1 = n /\ n \in 0 .. n
      BY <1>1, <2>1
    <3>2. g[i - 1] = f[n] /\ q[i] = s /\ g[i] = After(f[n], s)
      BY <1>1, <1>2, <1>3, <2>1, <3>1
    <3>3. QED
      BY <3>1, <3>2
  <2>2. CASE i \in 1 .. n
    <3>1. i \in 0 .. n /\ i - 1 \in 0 .. n
      BY <1>1, <2>2
    <3>2. g[i] = f[i] /\ g[i - 1] = f[i - 1] /\ q[i] = queue[i]
      BY <1>1, <1>2, <2>2, <3>1
    <3>3. QED
      BY <2>2, <3>2 DEF Follows
  <2>3. QED
    BY <1>1, <2>1, <2>2
<1> HIDE DEF g
<1>6. Follows(g, q, serial, d)
  BY <1>4, <1>5 DEF Follows
<1>7. QED
  BY <1>1, <1>3, <1>6

\* What is in force once a signal has been handled and no doubt is left.
Settled(serial, s) == IF doubt = 0 THEN After(serial, s) ELSE NoSerial

(***************************************************************************)
(* When its first signal is handled, the rest of the queue follows on from *)
(* what the signal leaves in force, and the doubt is one signal nearer to  *)
(* its end, or ends.                                                       *)
(***************************************************************************)
LEMMA QueueShrinks ==
    ASSUME NEW queue \in Seq(Signal), queue # <<>>, NEW serial, Within(doubt, queue),
           NEW f, Follows(f, queue, serial, doubt)
    PROVE  /\ doubt = 0 => Fits(serial, Head(queue))
           /\ \E g : /\ Follows(g, Tail(queue), Settled(serial, Head(queue)), Doubted(Head(queue)))
                     /\ g[Len(Tail(queue))] = f[Len(queue)]
<1> DEFINE n == Len(queue)
           q == Tail(queue)
           s == Head(queue)
           e == Doubted(s)
           next == Settled(serial, s)
           g == [i \in 0 .. n - 1 |-> f[i + 1]]
<1>1. n \in Nat \ {0} /\ Len(q) = n - 1 /\ s = queue[1] /\ doubt \in Nat /\ doubt <= n + 1
      /\ \A i \in 1 .. n - 1 : q[i] = queue[i + 1]
  BY DEF Within
<1>2. /\ f[1] = IF f[0] = Unknown /\ 1 < doubt THEN Unknown ELSE After(f[0], s)
      /\ Fits(f[0], s)
      /\ f[0] = IF doubt = 0 THEN serial ELSE Unknown
  BY <1>1 DEF Follows
<1>3. g \in [0 .. Len(q) -> InForce] /\ g[0] = f[1] /\ g[n - 1] = f[n]
  BY <1>1 DEF Follows
<1>4. /\ e \in 0 .. n
      /\ f[1] = IF e = 0 THEN next ELSE Unknown
      /\ \A i \in 1 .. n - 1 : i < e <=> i + 1 < doubt
  <2>1. CASE doubt = 0
    <3>1. e = 0
      BY <2>1 DEF Doubted
    <3>2. f[1] = next
      BY <1>2, <2>1, <3>1 DEF Settled
    <3>3. QED
      BY <1>1, <2>1, <3>1, <3>2
  <2>2. CASE doubt = 1 /\ IsLoss(s)
    <3>1. e = 0
      BY <2>2 DEF Doubted
    <3>2. f[1] = NoSerial /\ next = NoSerial
      BY <1>2, <2>2, <3>1 DEF After, Settled
    <3>3. QED
      BY <1>1, <2>2, <3>1, <3>2
  <2>3. CASE doubt = 1 /\ ~IsLoss(s)
    <3>1. e = 1
      BY <2>3 DEF Doubted
    <3>2. f[1] = Unknown
      BY <1>2, <2>3 DEF After
    <3>3. QED
      BY <1>1, <2>3, <3>1, <3>2
  <2>4. CASE doubt > 1
    <3>1. e = doubt - 1 /\ f[0] = Unknown
      BY <1>1, <1>2, <2>4 DEF Doubted
    <3>2. f[1] = Unknown
      BY <1>2, <2>4, <3>1
    <3>3. QED
      BY <1>1, <2>4, <3>1, <3>2
  <2>5. QED
    BY <1>1, <2>1, <2>2, <2>3, <2>4
<1>5. ASSUME NEW i \in 1 .. n - 1
      PROVE  /\ g[i] = IF g[i - 1] = Unknown /\ i < e THEN Unknown ELSE After(g[i - 1], q[i])
             /\ Fits(g[i - 1], q[i])
  <2>1. i + 1 \in 1 .. n /\ (i + 1) - 1 = i /\ i - 1 \in 0 .. n - 1 /\ i \in 0 .. n - 1
    BY <1>1
  <2>2. g[i] = f[i + 1] /\ g[i - 1] = f[i] /\ q[i] = queue[i + 1]
    BY <1>1, <2>1
  <2>3. /\ f[i + 1] = IF f[i] = Unknown /\ i + 1 < doubt THEN Unknown
                      ELSE After(f[i], queue[i + 1])
        /\ Fits(f[i], queue[i + 1])
    BY <2>1 DEF Follows
  <2>4. QED
    BY <1>4, <2>2, <2>3
<1> HIDE DEF g
<1>6. Follows(g, q, next, e)
  BY <1>1, <1>3, <1>4, <1>5 DEF Follows
<1>7. doubt = 0 => Fits(serial, s)
  BY <1>2
<1>8. QED
  BY <1>1, <1>3, <1>4, <1>6, <1>7

(***************************************************************************)
(* What a step of the monitor may post when serial is in force behind all  *)
(* that is queued: at most two signals, which fit, and which leave a serial*)
(* in force that agrees with the monitor's session.                        *)
(***************************************************************************)
Posts(serial) ==
    \/ out' = <<>> /\ Agrees(serial)'
    \/ \E a \in Signal :
          /\ out' = <<a>>
          /\ Fits(serial, a)
          /\ Agrees(After(serial, a))'
    \/ \E a, b \in Signal :
          /\ out' = <<a, b>>
          /\ Fits(serial, a) /\ Fits(After(serial, a), b)
          /\ Agrees(After(After(serial, a), b))'

\* What is held stays of one phone, and nothing is held without a session.
HeldKept ==
    /\ HeldFromBoundDevice => HeldFromBoundDevice'
    /\ ~connected' => HeldFromBoundDevice'

\* A step that moves nothing posts nothing the window could trip over.
LEMMA SilentPosts ==
    ASSUME HeldKept, NEW serial \in InForce, Agrees(serial), out' = <<>>,
           bound' = bound \/ (serial \in {NoSerial, Unknown} /\ ~connected),
           connected' = connected
    PROVE  Posts(serial)
BY DEF Posts, Agrees, HeldKept

\* A signal that names no phone and reports no loss leaves all in force.
LEMMA PlainPosts ==
    ASSUME HeldKept, NEW serial \in InForce, Agrees(serial), NEW a \in Signal,
           a.signal \in {"connection_changed", "device_info", "devices_available"}, ~IsLoss(a),
           out' = <<a>>, connected' = connected \/ ~connected', bound' = bound \/ ~connected,
           bound' = bound \/ bound = NoSerial
    PROVE  Posts(serial)
<1>1. After(serial, a) = serial /\ Fits(serial, a)
  BY DEF After, Fits
<1>2. Agrees(serial)'
  BY DEF Agrees, HeldKept
<1>3. QED
  BY <1>1, <1>2 DEF Posts

\* A failed connect posts what the window needs to agree again.
LEMMA FailurePosts ==
    ASSUME IInv, HeldKept, NEW serial \in InForce, Agrees(serial),
           NEW e \in AdbError, ConnectFails(e)
    PROVE  Posts(serial)
<1> DEFINE state == ConnectState[e]
           a == StateSignal(state)
<1>1. a \in Signal /\ state \in State
  BY StateTypes, SignalTypes
<1>2. /\ out' = <<a>> /\ reported' = state /\ connected' = FALSE
      /\ bound' = IF state \in LossStates THEN NoSerial ELSE bound
  BY DEF ConnectFails, Signals
<1>3. Fits(serial, a)
      /\ After(serial, a) = IF state \in LossStates THEN NoSerial ELSE serial
  BY DEF Fits, After, IsLoss, StateSignal
<1>4. Agrees(After(serial, a))'
  BY <1>2, <1>3 DEF Agrees, HeldKept
<1>5. QED
  BY <1>1, <1>2, <1>3, <1>4 DEF Posts

\* So does every step of a connect.
LEMMA ConnectPosts ==
    ASSUME IInv, HeldKept, NEW serial \in InForce, Agrees(serial), Connect
    PROVE  Posts(serial)
<1>0. devices \in [Serial -> DeviceState] /\ bound \in MaybeSerial
  BY DEF IInv, TypeOK
<1>1. ASSUME ConnectAborts PROVE Posts(serial)
  BY <1>1, SilentPosts DEF ConnectAborts, sessionVars
<1>2. ASSUME out' = <<>>, UNCHANGED <<bound, connected>> PROVE Posts(serial)
  BY <1>2, SilentPosts
<1>3. CASE VerifyAvailable
  <2>1. ASSUME NEW e \in VerifyErrors(adb), ConnectFails(e) PROVE Posts(serial)
    <3>1. e \in AdbError
      BY DEF VerifyErrors, ExecuteErrors, AdbError
    <3>2. QED
      BY <2>1, <3>1, FailurePosts
  <2>2. QED
    BY <1>1, <1>2, <1>3, <2>1 DEF VerifyAvailable, ConnectProceeds
<1>4. CASE RequireDevice
  <2>1. ASSUME NEW r \in RequireResults(devices, adb, bound), Failed(r), ConnectFails(r.error)
        PROVE  Posts(serial)
    BY <1>0, <2>1, RequireReachesBound, FailurePosts
  <2>2. QED
    BY <1>1, <1>2, <1>4, <2>1 DEF RequireDevice, ConnectProceeds
<1>5. ASSUME NEW r \in ShellResults(devices, adb, bound), Failed(r), ConnectFails(r.error)
      PROVE  Posts(serial)
  BY <1>0, <1>5, ShellReachesBound, FailurePosts
<1>6. CASE ReadLabel
  <2>1. PICK r \in ShellResults(devices, adb, bound) :
           IF Failed(r) THEN ConnectFails(r.error)
           ELSE IF at < 3
           THEN /\ ConnectProceeds("label")
                /\ out' = <<>>
                /\ UNCHANGED bound
           ELSE IF stopped THEN ConnectAborts
           ELSE /\ ConnectProceeds("identity")
                /\ bound' = target
                /\ out' = <<LabelSignal(labelOf \cup {r.serial})>>
    BY <1>6 DEF ReadLabel
  <2>2. CASE Failed(r)
    BY <1>5, <2>1, <2>2
  <2>3. CASE ~Failed(r) /\ at < 3
    BY <1>2, <2>1, <2>3 DEF ConnectProceeds
  <2>4. CASE ~Failed(r) /\ ~(at < 3) /\ stopped
    BY <1>1, <2>1, <2>4
  <2>5. CASE ~Failed(r) /\ ~(at < 3) /\ ~stopped
    <3>1. PICK a \in Signal : a = LabelSignal(labelOf \cup {r.serial})
      BY <1>0, <2>5, ShellReachesBound, SignalTypes DEF IInv, TypeOK
    <3>2. a.signal = "device_info" /\ ~IsLoss(a)
      BY <3>1 DEF LabelSignal, IsLoss
    <3>3. target \in Serial /\ (bound # NoSerial => bound = target)
      BY <1>6 DEF ReadLabel, IInv, Targeted
    <3>4. out' = <<a>> /\ bound' = target /\ UNCHANGED connected
      BY <2>1, <2>5, <3>1 DEF ConnectProceeds
    <3>5. connected => bound' = bound
      BY <3>3, <3>4 DEF IInv, ConnectedIsBound
    <3>6. QED
      BY <3>2, <3>3, <3>4, <3>5, PlainPosts
  <2>6. QED
    BY <2>2, <2>3, <2>4, <2>5
<1>7. CASE ReadIdentity
  <2>1. PICK r \in ShellResults(devices, adb, bound) :
           IF Failed(r) THEN ConnectFails(r.error)
           ELSE /\ connected' = TRUE
                /\ out' = <<StateSignal("CONNECTED"), SerialSignal(target)>>
                /\ reported' = "CONNECTED"
                /\ UNCHANGED <<bound, cache>>
    BY <1>7 DEF ReadIdentity
  <2>2. CASE Failed(r)
    BY <1>5, <2>1, <2>2
  <2>3. CASE ~Failed(r)
    <3>1. PICK t \in Serial : t = target /\ bound = t /\ bound' = t
      BY <1>7, <2>1, <2>3 DEF ReadIdentity, IInv, Targeted, Bound
    <3>2. PICK a \in Signal, b \in Signal : a = StateSignal("CONNECTED") /\ b = SerialSignal(t)
      BY StateTypes, SignalTypes DEF MaybeSerial
    <3>3. Fits(serial, a) /\ After(serial, a) = serial
      BY <3>2 DEF Fits, After, IsLoss, StateSignal, LossStates
    <3>4. Fits(serial, b)
      BY <3>1, <3>2 DEF Fits, SerialSignal, Agrees
    <3>5. After(serial, b) = IF serial = Unknown THEN Unknown ELSE t
      BY <3>2 DEF After, IsLoss, SerialSignal
    <3>6. Agrees(After(serial, b))'
      BY <2>1, <2>3, <3>1, <3>5 DEF Agrees, HeldKept
    <3>7. out' = <<a, b>>
      BY <2>1, <2>3, <3>1, <3>2
    <3>8. Fits(After(serial, a), b) /\ Agrees(After(After(serial, a), b))'
      BY <3>3, <3>4, <3>6
    <3>9. QED
      BY <3>3, <3>7, <3>8 DEF Posts
  <2>4. QED
    BY <2>2, <2>3
<1>8. CASE ReportDevices
  <2> DEFINE listed == IF ExecuteErrors(adb) # {} THEN {} ELSE Listed(devices, adb)
  <2>1. listed \in SUBSET Serial
    BY DEF Listed
  <2>2. PICK a \in Signal : a = DevicesSignal(listed)
    BY <2>1, SignalTypes
  <2>3. a.signal = "devices_available" /\ ~IsLoss(a)
    BY <2>2 DEF DevicesSignal, IsLoss
  <2>4. out' = <<a>> /\ UNCHANGED <<bound, connected>>
    BY <1>8, <2>2 DEF ReportDevices, sessionVars
  <2>5. QED
    BY <2>3, <2>4, PlainPosts
<1>9. QED
  BY <1>3, <1>4, <1>6, <1>7, <1>8 DEF Connect

\* So does every step of the monitor but a pick that moves the pin.
LEMMA StepPosts ==
    ASSUME IInv, IInv', ~PinMoves, NEW serial \in InForce, Agrees(serial), Next
    PROVE  Posts(serial)
<1> USE DEF sessionVars
<1>0. HeldKept
  BY HeldStep, EmptyTypes DEF HeldKept, IInv, NothingHeldOffline, HeldFromBoundDevice
<1>1. CASE Environment \/ (\E slot \in Slot : Click(slot)) \/ Stop \/ TimerFires \/ Retry
  BY <1>0, <1>1, SilentPosts DEF Environment, Click, Stop, TimerFires, Retry, TakeSlot
<1>2. CASE SelectDevice
  <2>1. bound' \in Serial
    <3>1. Head(inbox) \in Slot /\ Head(inbox).op = "select_device" /\ bound' = Head(inbox).serial
      BY <1>2 DEF SelectDevice, TakeSlot, IInv, TypeOK
    <3>2. QED
      BY <3>1 DEF Slot
  <2>2. bound' = bound \/ bound = NoSerial
    BY <2>1, SerialAssumption DEF PinMoves
  <2>3. bound' = bound \/ (serial \in {NoSerial, Unknown} /\ ~connected)
    BY <2>2 DEF Agrees, IInv, ConnectedIsBound
  <2>4. out' = <<>> /\ UNCHANGED connected
    BY <1>2 DEF SelectDevice, TakeSlot
  <2>5. QED
    BY <1>0, <2>3, <2>4, SilentPosts
<1>3. CASE \E usable \in BOOLEAN : LocateAdb(usable)
  <2>1. PICK a \in Signal : a = StateSignal("ADB_MISSING")
    BY SignalTypes DEF State
  <2>2. a.signal = "connection_changed" /\ ~IsLoss(a)
    BY <2>1 DEF StateSignal, IsLoss, LossStates
  <2>3. UNCHANGED <<bound, connected>> /\ (out' = <<>> \/ out' = <<a>>)
    BY <1>3, <2>1, Zenon DEF LocateAdb, TakeSlot
  <2>4. QED
    BY <1>0, <2>2, <2>3, SilentPosts, PlainPosts
<1>4. CASE Connect
  BY <1>0, <1>4, ConnectPosts
<1>5. CASE Collect \/ CollectorRests
  BY <1>0, <1>5, SilentPosts DEF Collect, CollectorRests, TickAdvances
<1>6. CASE Publish
  <2> DEFINE a == StateSignal(tickState)
             b == SnapshotSignal(cache, FALSE)
  <2>1. a \in Signal /\ b \in Signal
    BY SignalTypes DEF IInv, TypeOK
  <2>2. out' = <<a, b>> /\ UNCHANGED <<bound, connected>> /\ connected
    BY <1>6 DEF Publish, TickReturns, IInv, Sampling
  <2>3. tickState \notin LossStates
    BY <1>6 DEF Publish, IInv, Stated, LossStates
  <2>4. Fits(serial, a) /\ After(serial, a) = serial
    BY <2>3 DEF Fits, After, IsLoss, StateSignal
  <2>5. serial # Unknown => \A c \in Collected : cache[c] \in {NoSerial, serial}
    BY <2>2 DEF Agrees, HeldFromBoundDevice
  <2>6. Fits(serial, b) /\ After(serial, b) = serial
    BY <2>5 DEF Fits, After, IsLoss, SnapshotSignal
  <2>7. Agrees(serial)'
    BY <1>0, <2>2 DEF Agrees, HeldKept
  <2>8. QED
    BY <2>1, <2>2, <2>4, <2>6, <2>7 DEF Posts
<1>7. CASE PublishLoss
  <2> DEFINE a == StateSignal(tickState)
             b == SnapshotSignal(EmptyCache, TRUE)
  <2>1. a \in Signal /\ b \in Signal
    BY SignalTypes, EmptyTypes DEF IInv, TypeOK
  <2>2. /\ out' = <<a, b>> /\ bound' = NoSerial /\ connected' = FALSE
        /\ tickState \in LossStates
    BY <1>7 DEF PublishLoss
  <2>3. Fits(serial, a) /\ After(serial, a) = NoSerial
    BY <2>2 DEF Fits, After, IsLoss, StateSignal
  <2>4. Fits(NoSerial, b) /\ After(NoSerial, b) = NoSerial
    BY EmptyTypes DEF Fits, After, IsLoss, SnapshotSignal
  <2>5. Agrees(NoSerial)'
    BY <1>0, <2>2 DEF Agrees, HeldKept
  <2>6. QED
    BY <2>1, <2>2, <2>3, <2>4, <2>5 DEF Posts
<1>8. QED
  BY <1>1, <1>2, <1>3, <1>4, <1>5, <1>6, <1>7 DEF Next, Worker, HandleSlot, Tick

(***************************************************************************)
(* What the monitor posts joins the queue without breaking it.             *)
(***************************************************************************)
LEMMA PostsFollow ==
    ASSUME NEW queue \in Seq(Signal), NEW serial, NEW d, Within(d, queue),
           NEW f, Follows(f, queue, serial, d),
           Posts(f[Len(queue)]), NEW longer, longer = queue \o out'
    PROVE  \E h : Follows(h, longer, serial, d) /\ Agrees(h[Len(longer)])'
<1> DEFINE s == f[Len(queue)]
<1>1. CASE out' = <<>> /\ Agrees(s)'
  <2>1. longer = queue
    BY <1>1
  <2>2. QED
    BY <1>1, <2>1
<1>2. ASSUME NEW a \in Signal, out' = <<a>>, Fits(s, a), Agrees(After(s, a))'
      PROVE  \E h : Follows(h, longer, serial, d) /\ Agrees(h[Len(longer)])'
  <2>1. longer = Append(queue, a)
    BY <1>2
  <2>2. PICK g : /\ Follows(g, Append(queue, a), serial, d)
                 /\ g[Len(Append(queue, a))] = After(s, a)
    BY <1>2, QueueGrows
  <2>3. QED
    BY <1>2, <2>1, <2>2
<1>3. ASSUME NEW a \in Signal, NEW b \in Signal, out' = <<a, b>>, Fits(s, a),
             Fits(After(s, a), b), Agrees(After(After(s, a), b))'
      PROVE  \E h : Follows(h, longer, serial, d) /\ Agrees(h[Len(longer)])'
  <2> DEFINE q == Append(queue, a)
  <2>1. longer = Append(q, b) /\ q \in Seq(Signal) /\ Within(d, q)
    BY <1>3 DEF Within
  <2>2. PICK g : Follows(g, q, serial, d) /\ g[Len(q)] = After(s, a)
    BY <1>3, QueueGrows
  <2> HIDE DEF q
  <2>3. PICK h : /\ Follows(h, Append(q, b), serial, d)
                 /\ h[Len(Append(q, b))] = After(After(s, a), b)
    BY <1>3, <2>1, <2>2, QueueGrows
  <2>4. QED
    BY <1>3, <2>1, <2>3
<1>4. QED
  BY <1>1, <1>2, <1>3 DEF Posts

(***************************************************************************)
(* Whatever the monitor emits is a signal.                                 *)
(***************************************************************************)
LEMMA OutType ==
    ASSUME IInv, Next
    PROVE  out' \in Seq(Signal)
<1> DEFINE Out == Seq(Signal)
<1>a. <<>> \in Out /\ (\A a \in Signal : <<a>> \in Out) /\ \A a, b \in Signal : <<a, b>> \in Out
  OBVIOUS
<1> HIDE DEF Out
<1> SUFFICES out' \in Out
  BY DEF Out
<1>0. devices \in [Serial -> DeviceState] /\ bound \in MaybeSerial
  BY DEF IInv, TypeOK
<1>1. ASSUME NEW e \in AdbError, ConnectFails(e) PROVE out' \in Out
  BY <1>a, <1>1, StateTypes, SignalTypes DEF ConnectFails, Signals
<1>2. ASSUME ConnectAborts PROVE out' \in Out
  BY <1>a, <1>2 DEF ConnectAborts
<1>3. CASE Environment \/ (\E slot \in Slot : Click(slot)) \/ Stop \/ TimerFires
  BY <1>a, <1>3 DEF Environment, Click, Stop, TimerFires
<1>4. CASE HandleSlot
  <2>1. "ADB_MISSING" \in State
    BY DEF State
  <2>2. QED
    BY <1>a, <1>4, <2>1, SignalTypes DEF HandleSlot, Retry, SelectDevice, LocateAdb
<1>5. CASE VerifyAvailable
  <2>1. \A e \in VerifyErrors(adb) : e \in AdbError
    BY DEF VerifyErrors, ExecuteErrors, AdbError
  <2>2. QED
    BY <1>a, <1>1, <1>2, <1>5, <2>1 DEF VerifyAvailable
<1>6. CASE RequireDevice
  BY <1>a, <1>0, <1>1, <1>2, <1>6, RequireReachesBound DEF RequireDevice
<1>7. CASE ReadLabel
  <2>1. ASSUME NEW r \in ShellResults(devices, adb, bound), ~Failed(r)
        PROVE  LabelSignal(labelOf \cup {r.serial}) \in Signal
    BY <1>0, <2>1, ShellReachesBound, SignalTypes DEF IInv, TypeOK
  <2>2. QED
    BY <1>a, <1>0, <1>1, <1>2, <1>7, <2>1, ShellReachesBound DEF ReadLabel
<1>8. CASE ReadIdentity
  <2>1. StateSignal("CONNECTED") \in Signal /\ SerialSignal(target) \in Signal
    BY <1>8, StateTypes, SignalTypes DEF ReadIdentity, IInv, TypeOK
  <2>2. QED
    BY <1>a, <1>0, <1>1, <1>8, <2>1, ShellReachesBound DEF ReadIdentity
<1>9. CASE ReportDevices
  BY <1>a, <1>9, SignalTypes DEF ReportDevices, Listed
<1>10. CASE Collect \/ CollectorRests
  BY <1>a, <1>10 DEF Collect, CollectorRests, TickAdvances
<1>11. CASE Publish
  <2>1. StateSignal(tickState) \in Signal /\ SnapshotSignal(cache, FALSE) \in Signal
    BY SignalTypes DEF IInv, TypeOK
  <2>2. QED
    BY <1>a, <1>11, <2>1 DEF Publish
<1>12. CASE PublishLoss
  <2>1. StateSignal(tickState) \in Signal /\ SnapshotSignal(EmptyCache, TRUE) \in Signal
    BY SignalTypes, EmptyTypes DEF IInv, TypeOK
  <2>2. QED
    BY <1>a, <1>12, <2>1 DEF PublishLoss
<1>13. QED
  BY <1>3, <1>4, <1>5, <1>6, <1>7, <1>8, <1>9, <1>10, <1>11, <1>12 DEF Next, Worker, Connect, Tick

\* The connections on their way can be counted.
LEMMA ConnectionsType ==
    ASSUME NEW signals \in Seq(Signal)
    PROVE  Connections(signals) \in Nat
<1>1. IsFiniteSet(DOMAIN signals)
  BY FS_Interval
<1>2. IsFiniteSet({i \in DOMAIN signals : signals[i] = StateSignal("CONNECTED")})
  BY <1>1, FS_Subset
<1>3. QED
  BY <1>2, FS_CardinalityType DEF Connections

(***************************************************************************)
(* The steps of the composition.                                           *)
(***************************************************************************)
LEMMA DashboardInitially == DashboardInit => DashboardInv
<1> SUFFICES ASSUME DashboardInit PROVE DashboardInv
  OBVIOUS
<1>1. IInv
  BY InitInvariant DEF DashboardInit
<1>2. DashboardTypeOK
  BY <1>1, LagAssumption, EmptyTypes DEF DashboardInit, DashboardTypeOK, IInv, MaybeSerial
<1>3. Coherent
  <2> DEFINE f == [i \in 0 .. Len(toGui) |-> NoSerial]
  <2>1. Len(toGui) = 0 /\ guiSerial = NoSerial /\ doubt = 0
    BY DEF DashboardInit
  <2>2. f \in [0 .. Len(toGui) -> InForce] /\ f[0] = NoSerial
    BY <2>1 DEF InForce, MaybeSerial
  <2>3. Follows(f, toGui, guiSerial, doubt)
    BY <2>1, <2>2 DEF Follows
  <2>4. Agrees(NoSerial)
    BY EmptyTypes DEF DashboardInit, Init, Agrees, HeldFromBoundDevice
  <2>5. PagesShowOnePhone
    BY EmptyTypes DEF DashboardInit, PagesShowOnePhone
  <2>6. QED
    BY <2>1, <2>2, <2>3, <2>4, <2>5 DEF Coherent
<1>4. QED
  BY <1>1, <1>2, <1>3 DEF DashboardInv

\* Only a pick moves the pin from one phone to another.
LEMMA PinMoved ==
    ASSUME IInv, Next, bound # NoSerial, bound' # NoSerial, bound' # bound
    PROVE  SelectDevice
<1> USE DEF sessionVars
<1>1. ASSUME NEW e, ConnectFails(e) PROVE FALSE
  BY <1>1 DEF ConnectFails
<1>2. CASE Environment \/ (\E slot \in Slot : Click(slot)) \/ Stop \/ TimerFires \/ HandleSlot
  BY <1>2 DEF Environment, Click, Stop, TimerFires, HandleSlot, Retry, LocateAdb
<1>3. CASE Connect
  BY <1>1, <1>3 DEF Connect, VerifyAvailable, RequireDevice, ReadLabel, ReadIdentity,
     ReportDevices, ConnectAborts, ConnectProceeds, IInv, Targeted
<1>4. CASE Tick
  BY <1>4 DEF Tick, Collect, CollectorRests, Publish, PublishLoss, TickAdvances
<1>5. QED
  BY <1>2, <1>3, <1>4 DEF Next, Worker

\* A step of the monitor keeps the window following it.
LEMMA MonitorStepKeeps ==
    ASSUME DashboardInv, MonitorStep
    PROVE  DashboardInv'
<1>1. IInv /\ IInv'
  BY StepInvariant DEF DashboardInv, MonitorStep
<1>2. /\ toGui \in Seq(Signal) /\ out' \in Seq(Signal)
      /\ toGui' = toGui \o out' /\ Len(toGui) + Len(out') <= MaxLag
  BY <1>1, OutType DEF DashboardInv, DashboardTypeOK, MonitorStep, Post
<1>3. toGui' \in Seq(Signal) /\ Len(toGui') <= MaxLag
  BY <1>2
<1>4. refreshes' \in 0 .. MaxRefreshes
  <2>1. PICK n \in Nat : n = Connections(out')
    BY <1>2, ConnectionsType
  <2>2. refreshes' = Least(refreshes + n, MaxRefreshes) /\ refreshes \in 0 .. MaxRefreshes
    BY <2>1 DEF DashboardInv, DashboardTypeOK, MonitorStep, Post
  <2>3. QED
    BY <2>2, LagAssumption DEF Least
<1>5. doubt' \in 0 .. (Len(toGui') + 1)
  <2>1. doubt \in 0 .. (Len(toGui) + 1)
    BY DEF DashboardInv, DashboardTypeOK
  <2>2. Len(toGui) \in Nat /\ Len(toGui') \in Nat /\ Len(toGui) <= Len(toGui')
    BY <1>2
  <2>3. QED
    BY <2>1, <2>2 DEF MonitorStep
<1>6. DashboardTypeOK'
  BY <1>1, <1>3, <1>4, <1>5 DEF DashboardInv, DashboardTypeOK, MonitorStep, windowVars, IInv
<1>7. CASE ~PinMoves
  <2>1. PICK f : Follows(f, toGui, guiSerial, doubt) /\ Agrees(f[Len(toGui)])
    BY DEF DashboardInv, Coherent
  <2>2. Within(doubt, toGui)
    BY DEF Within, DashboardInv, DashboardTypeOK
  <2>a. f[Len(toGui)] \in InForce
    <3>1. f \in [0 .. Len(toGui) -> InForce] /\ Len(toGui) \in Nat
      BY <1>2, <2>1 DEF Follows
    <3>2. QED
      BY <3>1
  <2>3. Posts(f[Len(toGui)])
    BY <1>1, <1>7, <2>1, <2>a, StepPosts DEF MonitorStep
  <2>4. PICK q : q = toGui'
    OBVIOUS
  <2>5. PICK h : Follows(h, q, guiSerial, doubt) /\ Agrees(h[Len(q)])'
    BY <1>2, <2>1, <2>2, <2>3, <2>4, PostsFollow
  <2>6. h \in [0 .. Len(q) -> InForce]
    BY <2>5 DEF Follows
  <2>7. UNCHANGED <<guiSerial, mirror, doubt>>
    BY <1>7 DEF MonitorStep, windowVars
  <2>8. Follows(h, toGui', guiSerial', doubt') /\ Agrees(h[Len(q)])'
    BY <2>4, <2>5, <2>7
  <2>9. PagesShowOnePhone'
    BY <2>7 DEF DashboardInv, Coherent, PagesShowOnePhone
  <2>10. Coherent'
    BY <2>4, <2>6, <2>8, <2>9 DEF Coherent
  <2>11. QED
    BY <1>1, <1>6, <2>10 DEF DashboardInv
<1>8. CASE PinMoves
  <2>1. out' = <<>>
    <3>1. bound' # NoSerial /\ bound' # bound /\ bound # NoSerial
      BY <1>8 DEF PinMoves
    <3>2. SelectDevice
      BY <1>1, <3>1, PinMoved DEF MonitorStep
    <3>3. QED
      BY <3>2 DEF SelectDevice
  <2>2. toGui' = toGui /\ doubt' = Len(toGui) + 1
    BY <1>2, <1>8, <2>1 DEF MonitorStep
  <2>3. PICK n \in Nat : n = Len(toGui)
    BY <1>2
  <2>4. PICK f : Follows(f, toGui, guiSerial, doubt)
    BY DEF DashboardInv, Coherent
  <2> DEFINE g == [i \in 0 .. n |-> Unknown]
  <2>5. g \in [0 .. n -> InForce] /\ \A i \in 0 .. n : g[i] = Unknown
    BY DEF InForce
  <2> HIDE DEF g
  <2>6. ASSUME NEW i \in 1 .. n
        PROVE  /\ g[i] = IF g[i - 1] = Unknown /\ i < n + 1 THEN Unknown
                         ELSE After(g[i - 1], toGui[i])
               /\ Fits(g[i - 1], toGui[i])
    <3>1. g[i] = Unknown /\ g[i - 1] = Unknown /\ i < n + 1
      BY <2>3, <2>5
    <3>2. QED
      BY <3>1 DEF Fits
  <2>7. Follows(g, toGui, guiSerial', n + 1)
    BY <2>3, <2>5, <2>6 DEF Follows
  <2>8. Agrees(g[n])'
    BY <2>5 DEF Agrees
  <2>9. doubt' # 0
    BY <2>2, <2>3
  <2>10. Coherent'
    BY <2>2, <2>3, <2>5, <2>7, <2>8, <2>9 DEF Coherent, PagesShowOnePhone
  <2>11. QED
    BY <1>1, <1>6, <2>10 DEF DashboardInv
<1>9. QED
  BY <1>7, <1>8

(***************************************************************************)
(* An inventory read changes neither what is in force nor the session.     *)
(***************************************************************************)
LEMMA RefreshKeeps ==
    ASSUME DashboardInv, RefreshInventory
    PROVE  DashboardInv'
<1>1. IInv' /\ IInv /\ UNCHANGED <<bound, connected, cache, guiSerial, mirror, doubt>>
  BY StutterInvariant DEF DashboardInv, RefreshInventory, windowVars, monitorVars, sessionVars
<1>2. PICK r \in ShellResults(devices, adb, bound) :
         toGui' = Append(toGui, InventorySignal(r.serial))
  BY DEF RefreshInventory
<1>3. r.serial \in MaybeSerial
  BY <1>1, ShellSerial DEF IInv, TypeOK
<1>4. PICK s \in Signal : s = InventorySignal(r.serial)
  BY <1>3, SignalTypes
<1>5. toGui \in Seq(Signal) /\ toGui' = Append(toGui, s) /\ Len(toGui) < MaxLag
  BY <1>2, <1>4 DEF DashboardInv, DashboardTypeOK, RefreshInventory
<1>6. DashboardTypeOK'
  <2>1. /\ toGui' \in Seq(Signal) /\ Len(toGui') <= MaxLag
        /\ Len(toGui) \in Nat /\ Len(toGui') = Len(toGui) + 1
    BY <1>5, LagAssumption
  <2>2. refreshes' \in 0 .. MaxRefreshes /\ doubt' \in 0 .. (Len(toGui') + 1)
    BY <1>1, <2>1, LagAssumption DEF DashboardInv, DashboardTypeOK, RefreshInventory
  <2>3. QED
    BY <1>1, <2>1, <2>2 DEF DashboardInv, DashboardTypeOK, RefreshInventory, windowVars, IInv
<1>7. Coherent'
  <2>1. PICK f : Follows(f, toGui, guiSerial, doubt) /\ Agrees(f[Len(toGui)])
    BY DEF DashboardInv, Coherent
  <2>2. Fits(f[Len(toGui)], s) /\ After(f[Len(toGui)], s) = f[Len(toGui)]
    BY <1>4 DEF Fits, After, IsLoss, InventorySignal
  <2>3. Within(doubt, toGui)
    BY DEF Within, DashboardInv, DashboardTypeOK
  <2>4. PICK h : /\ Follows(h, Append(toGui, s), guiSerial, doubt)
                 /\ h[Len(Append(toGui, s))] = After(f[Len(toGui)], s)
    BY <1>5, <2>1, <2>2, <2>3, QueueGrows
  <2>5. PICK q : q = toGui'
    OBVIOUS
  <2>6. Follows(h, q, guiSerial, doubt) /\ Agrees(h[Len(q)])
    BY <1>5, <2>1, <2>2, <2>4, <2>5
  <2>7. h \in [0 .. Len(q) -> InForce]
    BY <2>6 DEF Follows
  <2>8. Follows(h, toGui', guiSerial', doubt') /\ Agrees(h[Len(q)])'
    BY <1>1, <2>5, <2>6 DEF Agrees, HeldFromBoundDevice
  <2>9. PagesShowOnePhone'
    BY <1>1 DEF DashboardInv, Coherent, PagesShowOnePhone
  <2>10. QED
    BY <2>5, <2>7, <2>8, <2>9 DEF Coherent
<1>8. QED
  BY <1>1, <1>6, <1>7 DEF DashboardInv

(***************************************************************************)
(* The window handles one signal: the rest of the queue follows on from    *)
(* the serial the signal leaves in force, which is the window's now.       *)
(***************************************************************************)
LEMMA WindowKeeps ==
    ASSUME DashboardInv, Window
    PROVE  DashboardInv'
<1> DEFINE s == Head(toGui)
<1>1. /\ toGui # <<>> /\ toGui' = Tail(toGui) /\ out' = <<>>
      /\ UNCHANGED <<monitorVars, refreshes>>
  BY DEF Window, UpdateConnection, OnSerialReady, UpdateSnapshots, OnInventoryReady,
     UpdateDevice, Delivered
<1>2. IInv /\ IInv' /\ UNCHANGED <<bound, connected, cache>>
  BY <1>1, StutterInvariant DEF DashboardInv, monitorVars, sessionVars
<1>3. toGui \in Seq(Signal) /\ s \in Signal /\ Len(toGui) <= MaxLag
  BY <1>1 DEF DashboardInv, DashboardTypeOK
<1>4. toGui' \in Seq(Signal) /\ Len(toGui') <= MaxLag
  BY <1>1, <1>3, LagAssumption
<1> USE DEF DashboardInv, DashboardTypeOK
<1>5. /\ guiState' \in State \cup {"none"} /\ guiSerial' \in MaybeSerial
      /\ page' \in {"setup", "dashboard"} /\ mirror' \in [Collected -> MaybeSerial]
      /\ inventory' \in MaybeSerial
  <2>1. CASE UpdateConnection
    <3>1. s.state \in State
      BY <1>3, <2>1 DEF UpdateConnection, Delivered, Signal
    <3>2. QED
      BY <2>1, <3>1, EmptyTypes DEF UpdateConnection, ClearMirrors, MaybeSerial
  <2>2. CASE OnSerialReady \/ OnInventoryReady
    <3>1. s.serial \in MaybeSerial
      BY <1>3, <2>2 DEF OnSerialReady, OnInventoryReady, Delivered, Signal
    <3>2. QED
      BY <2>2, <3>1 DEF OnSerialReady, OnInventoryReady
  <2>3. CASE UpdateSnapshots
    <3>1. s.data \in [Collected -> MaybeSerial]
      BY <1>3, <2>3 DEF UpdateSnapshots, Delivered, Signal
    <3>2. QED
      BY <2>3, <3>1 DEF UpdateSnapshots
  <2>4. CASE UpdateDevice
    BY <2>4 DEF UpdateDevice, windowVars
  <2>5. QED
    BY <2>1, <2>2, <2>3, <2>4 DEF Window
<1>6. DashboardTypeOK'
  <2>1. doubt' = Doubted(s)
    BY DEF Window, UpdateConnection, OnSerialReady, UpdateSnapshots, OnInventoryReady,
       UpdateDevice, Delivered
  <2>2. Len(toGui) \in Nat \ {0} /\ Len(toGui') = Len(toGui) - 1
    BY <1>1, <1>3
  <2>3. doubt' \in 0 .. (Len(toGui') + 1)
    BY <2>1, <2>2 DEF Doubted
  <2>4. QED
    BY <1>1, <1>2, <1>4, <1>5, <2>3 DEF IInv
<1>7. Coherent'
  <2>1. guiSerial' = After(guiSerial, s)
    <3>1. guiSerial # Unknown
      BY UnknownIsNone
    <3>2. CASE UpdateConnection
      BY <3>1, <3>2 DEF UpdateConnection, Delivered, ClearMirrors, After, IsLoss
    <3>3. CASE OnSerialReady
      BY <3>1, <3>3 DEF OnSerialReady, Delivered, After, IsLoss
    <3>4. CASE UpdateSnapshots \/ OnInventoryReady \/ UpdateDevice
      BY <3>1, <3>4 DEF UpdateSnapshots, OnInventoryReady, UpdateDevice, Delivered,
         windowVars, After, IsLoss
    <3>5. QED
      BY <3>2, <3>3, <3>4 DEF Window
  <2>2. PICK q, serial, e : q = toGui' /\ serial = guiSerial' /\ e = doubt'
    OBVIOUS
  <2>3. /\ e = Doubted(s)
        /\ e = 0 => serial = Settled(guiSerial, s)
    <3>1. e = Doubted(s)
      BY <2>2 DEF Window, UpdateConnection, OnSerialReady, UpdateSnapshots,
         OnInventoryReady, UpdateDevice, Delivered
    <3>2. e = 0 /\ doubt # 0 => IsLoss(s)
      BY <1>3, <3>1 DEF Doubted
    <3>3. IsLoss(s) => After(guiSerial, s) = NoSerial
      BY UnknownIsNone DEF After
    <3>4. QED
      BY <2>1, <2>2, <3>1, <3>2, <3>3 DEF Settled
  <2>4. PICK f : Follows(f, toGui, guiSerial, doubt) /\ Agrees(f[Len(toGui)])
    BY DEF Coherent
  <2>5. /\ Within(doubt, toGui) /\ toGui # <<>>
        /\ Follows(f, toGui, guiSerial, doubt) /\ toGui \in Seq(Signal)
    BY <1>1, <1>3, <2>4 DEF Within
  <2> HIDE DEF DashboardInv, DashboardTypeOK
  <2>a. doubt = 0 => Fits(guiSerial, s)
    BY <2>5, QueueShrinks
  <2>b. PICK g : /\ Follows(g, Tail(toGui), Settled(guiSerial, s), Doubted(s))
                 /\ g[Len(Tail(toGui))] = f[Len(toGui)]
    BY <2>5, QueueShrinks
  <2>6. Follows(g, Tail(toGui), serial, e) /\ g[Len(Tail(toGui))] = f[Len(toGui)]
    BY <2>3, <2>b DEF Follows
  <2> USE DEF DashboardInv, DashboardTypeOK
  <2>7. PagesShowOnePhone'
    <3> SUFFICES ASSUME doubt' = 0 PROVE \A c \in Collected : mirror'[c] \in {NoSerial, guiSerial'}
      BY DEF PagesShowOnePhone
    <3>1. CASE IsLoss(s)
      BY <3>1, EmptyTypes DEF IsLoss, Window, UpdateConnection, OnSerialReady,
         UpdateSnapshots, OnInventoryReady, UpdateDevice, Delivered, ClearMirrors
    <3>2. CASE ~IsLoss(s)
      <4>1. doubt = 0
        BY <1>3, <2>2, <2>3, <3>2 DEF Doubted
      <4>2. Fits(guiSerial, s) /\ guiSerial # Unknown
        BY <2>a, <4>1, UnknownIsNone
      <4>3. \A c \in Collected : mirror[c] \in {NoSerial, guiSerial}
        BY <4>1 DEF Coherent, PagesShowOnePhone
      <4>4. CASE UpdateConnection
        BY <3>2, <4>3, <4>4 DEF UpdateConnection, Delivered, IsLoss
      <4>5. CASE OnSerialReady
        BY <4>2, <4>3, <4>5 DEF OnSerialReady, Delivered, Fits
      <4>6. CASE UpdateSnapshots
        <5>1. \A c \in Collected : s.data[c] \in {NoSerial, guiSerial}
          BY <4>2, <4>6 DEF UpdateSnapshots, Delivered, Fits
        <5>2. QED
          BY <4>3, <4>6, <5>1 DEF UpdateSnapshots, Delivered
      <4>7. CASE OnInventoryReady \/ UpdateDevice
        BY <4>3, <4>7 DEF OnInventoryReady, UpdateDevice, Delivered, windowVars
      <4>8. QED
        BY <4>4, <4>5, <4>6, <4>7 DEF Window
    <3>3. QED
      BY <3>1, <3>2
  <2>8. Follows(g, q, serial, e) /\ g[Len(q)] = f[Len(toGui)]
    BY <1>1, <2>2, <2>6
  <2>9. g \in [0 .. Len(q) -> InForce]
    BY <2>8 DEF Follows
  <2>10. Follows(g, toGui', guiSerial', doubt') /\ Agrees(g[Len(q)])'
    BY <1>2, <2>2, <2>4, <2>8 DEF Agrees, HeldFromBoundDevice
  <2>11. QED
    BY <2>2, <2>7, <2>9, <2>10 DEF Coherent
<1>8. QED
  BY <1>2, <1>6, <1>7

\* So does every step of the two.
LEMMA DashboardStep == DashboardInv /\ [DashboardNext]_dashboardVars => DashboardInv'
<1> SUFFICES ASSUME DashboardInv, [DashboardNext]_dashboardVars PROVE DashboardInv'
  OBVIOUS
<1>1. CASE MonitorStep
  BY <1>1, MonitorStepKeeps
<1>2. CASE RefreshInventory
  BY <1>2, RefreshKeeps
<1>3. CASE Window
  BY <1>3, WindowKeeps
<1>4. CASE UNCHANGED dashboardVars
  <2>1. UNCHANGED <<monitorVars, toGui, refreshes, windowVars, doubt>>
    BY <1>4 DEF dashboardVars, vars
  <2>2. IInv'
    BY <2>1, StutterInvariant DEF DashboardInv
  <2>3. UNCHANGED <<bound, connected, cache>>
    BY <2>1 DEF monitorVars, sessionVars
  <2>4. DashboardTypeOK'
    BY <2>1, <2>2 DEF windowVars, DashboardInv, DashboardTypeOK, IInv
  <2>5. Coherent => Coherent'
    BY <2>1, <2>3 DEF windowVars, Coherent, Follows, Agrees, PagesShowOnePhone,
       HeldFromBoundDevice
  <2>6. QED
    BY <2>2, <2>4, <2>5 DEF DashboardInv
<1>5. QED
  BY <1>1, <1>2, <1>3, <1>4 DEF DashboardNext

\* So the window follows the monitor in every state.
LEMMA DashboardInvariant == DashboardSpec => []DashboardInv
<1>1. QED
  BY DashboardInitially, DashboardStep, PTL DEF DashboardSpec

(***************************************************************************)
(* The window's variables and its queue keep their types and bounds.       *)
(***************************************************************************)
THEOREM DashboardTypeCorrect == DashboardSpec => []DashboardTypeOK
BY DashboardInvariant, PTL DEF DashboardInv

(***************************************************************************)
(* The telemetry on the pages is that of the phone they name, however far  *)
(* the window lags behind the monitor (update_connection, on_serial_ready, *)
(* update_snapshots): of a pick that moves the pin between two phones it   *)
(* recovers with the next loss that reaches the window.                    *)
(***************************************************************************)
THEOREM OnePhoneOnThePages == DashboardSpec => []PagesShowOnePhone
<1>1. DashboardInv => PagesShowOnePhone
  BY DEF DashboardInv, Coherent
<1>2. QED
  BY <1>1, DashboardInvariant, PTL

(***************************************************************************)
(* A window that has caught up with a live session files what it stores    *)
(* under the serial the session is bound to, unless a pick has moved the   *)
(* pin since the last loss.                                                *)
(***************************************************************************)
THEOREM CaughtUpWindowAgrees == DashboardSpec => []WindowCatchesUp
<1>1. ASSUME DashboardInv, doubt = 0, toGui = <<>>, connected PROVE guiSerial = bound
  <2>1. PICK f : Follows(f, toGui, guiSerial, doubt) /\ Agrees(f[Len(toGui)])
    BY <1>1 DEF DashboardInv, Coherent
  <2>2. Len(toGui) = 0 /\ f[0] = guiSerial
    BY <1>1, <2>1 DEF Follows
  <2>3. guiSerial # Unknown
    BY <1>1, UnknownIsNone DEF DashboardInv, DashboardTypeOK
  <2>4. QED
    BY <1>1, <2>1, <2>2, <2>3 DEF Agrees
<1>2. DashboardInv => WindowCatchesUp
  BY <1>1 DEF WindowCatchesUp
<1>3. QED
  BY <1>2, DashboardInvariant, PTL

=============================================================================
