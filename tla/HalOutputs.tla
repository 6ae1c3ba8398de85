----------------------------- MODULE HalOutputs -----------------------------
(***************************************************************************)
(* The path of a sample through the motion library (drivers/sensors/       *)
(* mlsdk/mllite): features are enabled before inv_start_mpl                *)
(* (start_manager.c), which registers their callbacks with the data        *)
(* builder; the HAL (MPLSensor.cpp) builds samples and executes, and then  *)
(* asks the outputs (hal_outputs.c) for events, all of that in the poll    *)
(* thread, while IPC threads tell the data builder, without a lock that    *)
(* the poll thread takes, of sensors that were turned off.                 *)
(*                                                                         *)
(* What the fusion features in the binary part of the library do is known  *)
(* from the functions they are given: they store quaternions and           *)
(* corrections.                                                            *)
(***************************************************************************)
EXTENDS ResultsHolder

CONSTANTS
    Features,     \* sequence of callbacks, in the order the HAL enables them
    Built,        \* the sensors that deliver samples here
    Accuracy,     \* accuracies of compass samples that come calibrated
    RateMs        \* sensor -> the rates it may be set to, in ms

Entry == [func : Callback, priority : Nat, required : SUBSET Sensor]   \* of the table

ASSUME HalAssumption ==
    /\ Features \in Seq(Entry)
    /\ "results" \in Callback
    /\ Built \subseteq Sensor
    /\ \A s \in Sensor : RateMs[s] \subseteq Nat

HalEntry     == [func |-> "hal", priority |-> 900, required |-> Motion]
ResultsEntry == [func |-> "results", priority |-> 800, required |-> Motion]

VARIABLES
    startCb,    \* the start notifications, each the entry it registers
    started,    \* entries of startCb that inv_start_mpl has called, -1 before
    rate,       \* sample_rate_ms
    hal,        \* struct hal_output_t
    asking,     \* the handler executeOnData calls next, 0 outside it
    reported    \* sensors whose last sample was reported as an update

halVars == <<startCb, started, rate, hal, asking, reported>>
vars == <<message, dataVars, rh, halVars>>

Updates == {"gyro", "accel", "compass"}

\* inv_init_mpl, then inv_init_hal_outputs
Init ==
    /\ MessageInit
    /\ DataInit
    /\ ResultsInit
    /\ startCb = <<ResultsEntry>>
    /\ started = -1
    /\ rate \in [Sensor -> UNION {RateMs[s] : s \in Sensor}]
    /\ \A s \in Sensor : rate[s] \in RateMs[s]
    /\ hal = [new |-> {}, nineAxis |-> FALSE, nav |-> Product("unit", "unit"),
              filter |-> FALSE, compass |-> <<Plain("compass", 0), "none">>, accuracyMag |-> 0]
    /\ asking = 0
    /\ reported = Updates

-----------------------------------------------------------------------------
(* Start-up: inv_constructor_default_enable and inv_start_mpl.             *)

\* inv_register_mpl_start_notification for the next feature; the HAL goes on
\* to inv_start_mpl after the first feature that cannot be enabled
EnableFeature ==
    /\ started = -1
    /\ Len(startCb) <= Len(Features)
    /\ startCb' = Append(startCb, Features[Len(startCb)])
    /\ UNCHANGED <<message, dataVars, rh, started, rate, hal, asking, reported>>

\* inv_execute_mpl_start_notification: each start function registers its callback
StartMpl ==
    /\ started = -1
    /\ started' = 0
    /\ UNCHANGED <<message, dataVars, rh, startCb, rate, hal, asking, reported>>

StartNext ==
    /\ started \in 0 .. Len(startCb) - 1
    /\ LET entry == startCb[started + 1]
       IN Register(entry.func, entry.priority, entry.required)
    /\ started' = started + 1
    /\ UNCHANGED <<message, sensors, save, disturbance, softIron, exec, rh>>
    /\ UNCHANGED <<startCb, rate, hal, asking, reported>>

Running == started = Len(startCb)

-----------------------------------------------------------------------------
(* The poll thread: samples.                                               *)

Ready == Running /\ exec.kk = 0 /\ asking = 0

Builder(s, x) ==
    CASE s = "gyro"    -> BuildGyro(x)
      [] s = "accel"   -> BuildAccel(x)
      [] s = "compass" -> BuildCompass(x) \/ \E a \in Accuracy : BuildCalibrated("compass", x, a)
      [] s = "temp"    -> BuildTemp(x)
      [] s = "quat"    -> BuildQuat(x, {"biasApplied"})

Build(s) ==
    /\ Ready
    /\ s \in Built
    /\ \E x \in Sample : Builder(s, x)
    /\ reported' = reported \ {s}
    /\ UNCHANGED <<message, process, disturbance, exec, rh, startCb, started, rate, hal, asking>>

Begin ==
    /\ Ready
    /\ ExecuteBegin
    /\ UNCHANGED <<message, process, sensors, save, disturbance, softIron, rh, halVars>>

SkipCallback ==
    /\ Skip
    /\ UNCHANGED <<message, process, sensors, save, disturbance, softIron, rh, halVars>>

-----------------------------------------------------------------------------
(* The callbacks.                                                          *)

RunQuaternion ==
    /\ Calls("quaternion")
    /\ \E q \in Quat : StoreGamingQuaternion(q)
    /\ Return("quaternion")
    /\ UNCHANGED <<message, process, sensors, save, disturbance, softIron, halVars>>

RunCorrection ==
    /\ Calls("correction")
    /\ \E q \in Quat : SetCompassCorrection(q)
    /\ Return("correction")
    /\ UNCHANGED <<message, process, sensors, save, disturbance, softIron, halVars>>

\* inv_generate_results
RunResults ==
    /\ Calls("results")
    /\ Return("results")
    /\ UNCHANGED <<message, process, sensors, save, disturbance, softIron, rh, halVars>>

\* the sensor 9-axis output is tied to: the first of the fastest that are on, gyro by default
Faster(use, s) == IF IsOn(s) /\ use.sr > rate[s] THEN [sensor |-> s, sr |-> rate[s]] ELSE use

UseSensor ==
    LET gyro == [sensor |-> "gyro", sr |-> IF IsOn("gyro") THEN rate["gyro"] ELSE 1000]
    IN Faster(Faster(Faster(gyro, "accel"), "compass"), "quat").sensor

NineAxisOn == IsOn("accel") /\ IsOn("compass") /\ (IsOn("quat") \/ IsOn("gyro"))

\* a new sample that is not contiguous seeds the filter, a raw one goes through it
Seeds   == IsNew("compass") /\ "contiguous" \notin sensors.compass.status
Filters == IsNew("compass") /\ "raw" \in sensors.compass.status

\* inv_generate_hal_outputs
RunHal ==
    /\ Calls("hal")
    /\ rh' = Navigated
    /\ hal' = [new         |-> {s \in Updates : IsNew(s)},
               nineAxis    |-> NineAxisOn /\ IsNew(UseSensor),
               nav         |-> rh'.nav,
               filter      |-> hal.filter \/ Seeds \/ Filters,
               compass     |-> IF IsNew("compass") THEN sensors.compass.calibrated ELSE hal.compass,
               accuracyMag |-> MagAccuracy]
    /\ Return("hal")
    /\ UNCHANGED <<message, process, sensors, save, disturbance, softIron>>
    /\ UNCHANGED <<startCb, started, rate, asking, reported>>

CheckNew ==
    /\ ReadNew
    /\ UNCHANGED <<message, process, sensors, save, disturbance, softIron, rh, halVars>>

End ==
    /\ ExecuteEnd
    /\ asking' = 1
    /\ UNCHANGED <<message, process, save, disturbance, softIron, rh>>
    /\ UNCHANGED <<startCb, started, rate, hal, reported>>

-----------------------------------------------------------------------------
(* The poll thread: MPLSensor::executeOnData after inv_execute_on_data.    *)

Handlers == <<"gyro", "accel", "compass", "fused">>     \* in the order they are called

\* the handler of s is next, and s is enabled
Asks(s) == asking \in DOMAIN Handlers /\ Handlers[asking] = s

Asked == asking' = IF asking = Len(Handlers) THEN 0 ELSE asking + 1

Report(s) == reported' = IF s \in hal.new THEN reported \cup {s} ELSE reported

\* inv_get_sensor_type_gyroscope, _gyroscope_raw, _accelerometer
GetUpdate(s) ==
    /\ Asks(s)
    /\ s \in {"gyro", "accel"}
    /\ Report(s)
    /\ Asked
    /\ UNCHANGED <<message, dataVars, rh, startCb, started, rate, hal>>

\* inv_get_sensor_type_magnetic_field: forgets the status
GetMagneticField_StatusKept ==
    /\ Asks("compass")
    /\ Report("compass")
    /\ Asked
    /\ UNCHANGED <<message, dataVars, rh, startCb, started, rate, hal>>
GetMagneticField ==
    /\ Asks("compass")
    /\ Report("compass")
    /\ hal' = [hal EXCEPT !.new = @ \ {"compass"}]
    /\ Asked
    /\ UNCHANGED <<message, dataVars, rh, startCb, started, rate>>

\* inv_get_sensor_type_orientation, _rotation_vector, _linear_acceleration, _gravity: events
\* from the quaternion the outputs hold
GetFused ==
    /\ Asks("fused")
    /\ Asked
    /\ UNCHANGED <<message, dataVars, rh, startCb, started, rate, hal, reported>>

\* the sensor of the handler is not enabled
NotAsked ==
    /\ asking # 0
    /\ Asked
    /\ UNCHANGED <<message, dataVars, rh, startCb, started, rate, hal, reported>>

-----------------------------------------------------------------------------
(* IPC threads (MPLSensor::enable).                                        *)

\* inv_*_was_turned_off, at any time
TurnOff(s) ==
    /\ Running
    /\ s \in Built \ {"temp"}
    /\ sensors[s].status # {}
    /\ WasTurnedOff(s)
    /\ UNCHANGED <<message, process, save, disturbance, softIron, exec, rh>>
    /\ UNCHANGED <<startCb, started, rate, hal, asking, reported>>

Next ==
    \/ EnableFeature \/ StartMpl \/ StartNext
    \/ \E s \in Sensor : Build(s)
    \/ Begin \/ SkipCallback
    \/ RunQuaternion \/ RunCorrection \/ RunResults \/ RunHal
    \/ CheckNew \/ End
    \/ \E s \in Updates : GetUpdate(s)
    \/ GetMagneticField \/ GetFused \/ NotAsked
    \/ \E s \in Sensor : TurnOff(s)

Spec == Init /\ [][Next]_vars
-----------------------------------------------------------------------------
(* Properties.                                                             *)

TypeOK ==
    /\ \A i \in DOMAIN process :
        /\ process[i].func \in Callback
        /\ process[i].required \subseteq Sensor
    /\ Len(process) <= MaxDataCb
    /\ \A s \in Sensor : sensors[s].status \subseteq Flag
    /\ exec.kk \in 0 .. Len(process) + 2
    /\ exec.mode \subseteq Sensor
    /\ rh.gam \in Quat /\ rh.correction \in Quat
    /\ started \in -1 .. Len(startCb)
    /\ hal.new \subseteq Updates /\ reported \subseteq Sensor

\* inv_execute_on_data: a new sample of gyro, accel, compass or temperature loses its mark
\* only after every callback registered for that sensor has been called.
SampleSeenByAll ==
    [][\A s \in Sensor \ {"quat"} :
        (IsNew(s) /\ End /\ ~IsNew(s)') =>
            \A i \in DOMAIN process :
                s \in process[i].required => process[i].func \in exec.called]_vars

\* results_holder.c, hal_outputs.c: in whichever order the features were enabled, the outputs
\* come after the fusion, and the quaternion that fused sensors are reported from is the
\* product of what the features of the same execution stored.
HalQuatIsCurrent ==
    (hal.nineAxis /\ asking # 0) => hal.nav = Product(rh.correction, rh.gam)

\* data_builder.c:827: whatever the order in which features are enabled, the callbacks stand in
\* the order of their priorities, each of them once, so that none runs before its input.
TableOrdered ==
    \A i, j \in DOMAIN process :
        i < j => /\ process[i].priority < process[j].priority
                 /\ process[i].func # process[j].func

\* inv_get_sensor_type_magnetic_field: a compass sample is reported as an update once, also
\* where the callback of the outputs does not run between two calls.
MagReportedOnce == [][(GetMagneticField /\ "compass" \in hal.new) => "compass" \notin reported]_vars

=============================================================================
