---------------------------- MODULE DataBuilder ----------------------------
(***************************************************************************)
(* The data builder of the motion library (drivers/sensors/mlsdk/mllite/   *)
(* data_builder.c): the samples of the sensors with their status bits, the *)
(* calibration that is saved, and the table of callbacks which             *)
(* inv_execute_on_data calls for new data.                                 *)
(*                                                                         *)
(* A reading is a member of Sample (for the compass, with the soft iron    *)
(* matrix it went through), a bias a member of Bias; calibrated data are a *)
(* pair of a reading and of the bias taken off it (or "outside":           *)
(* calibrated before it came here).  Orientation, scale and timestamps are *)
(* left out.  Callbacks run one per step.                                  *)
(***************************************************************************)
EXTENDS MessageLayer, Integers, Sequences, FiniteSets

CONSTANTS
    Callback,     \* the functions that can be registered
    MaxDataCb,    \* INV_MAX_DATA_CB
    Sample,       \* readings; 0 is what cleared memory holds
    Bias,         \* biases; "none" is what cleared memory holds
    Matrix        \* soft iron matrices

ASSUME DataBuilderAssumption ==
    /\ MaxDataCb \in Nat
    /\ 0 \in Sample
    /\ "none" \in Bias
    /\ "identity" \in Matrix

Motion == {"gyro", "accel", "compass"}      \* the sensors that have a bias
Sensor == Motion \cup {"temp", "quat"}
Flag   == {"new", "contiguous", "calibrated", "raw", "on", "biasApplied"}
Degree27 == 27                              \* gyro_temp without a reading

\* a reading as sensor s holds it
Plain(s, x) == IF s = "compass" THEN <<x, "identity">> ELSE x

VARIABLES
    process,      \* the table: callbacks in the order of their priorities
    sensors,      \* sensor -> status, raw, calibrated, accuracy
    save,         \* what is saved: biases, accuracies, gyro_temp, gyro_bias_tc_set
    disturbance,  \* compass_disturbance
    softIron,     \* the matrix, whether it is applied, raw and trans
    exec          \* inv_execute_on_data: entry, mode, callbacks called, sensors seen new

dataVars == <<process, sensors, save, disturbance, softIron, exec>>

Cleared(s) ==
    [status |-> {}, raw |-> Plain(s, 0), calibrated |-> <<Plain(s, 0), "none">>, accuracy |-> 0]
Idle == [kk |-> 0, mode |-> {}, called |-> {}, fresh |-> {}]

ResetSoftIron ==
    [matrix |-> "identity", enable |-> FALSE, raw |-> 0, trans |-> <<0, "identity">>]

\* inv_init_data_builder
DataInit ==
    /\ process = <<>>
    /\ sensors = [s \in Sensor |-> Cleared(s)]
    /\ save = [bias |-> [s \in Motion |-> "none"], accuracy |-> [s \in Motion |-> 0],
               gyroTemp |-> 0, tcSet |-> FALSE]
    /\ disturbance = FALSE
    /\ softIron = ResetSoftIron
    /\ exec = Idle

-----------------------------------------------------------------------------
(* The table of callbacks.                                                 *)

Taken(f, priority) ==
    \E k \in DOMAIN process : process[k].func = f \/ process[k].priority = priority

Place_Last(priority) == Len(process) + 1
Place(priority) ==
    CHOOSE k \in 1 .. Len(process) + 1 :
        /\ \A i \in 1 .. k - 1 : process[i].priority < priority
        /\ k <= Len(process) => process[k].priority >= priority

Inserted(k, entry) ==
    [i \in 1 .. Len(process) + 1 |->
        IF i < k THEN process[i] ELSE IF i = k THEN entry ELSE process[i - 1]]

\* inv_register_data_cb: refused where the function or the priority is taken, or the table full
Register(f, priority, required) ==
    IF Taken(f, priority) \/ Len(process) >= MaxDataCb
    THEN process' = process
    ELSE process' = Inserted(Place(priority),
                             [func |-> f, priority |-> priority, required |-> required])

-----------------------------------------------------------------------------
(* Calibration.                                                            *)

\* inv_apply_calibration
Calibrated(sensor, bias) ==
    [sensor EXCEPT !.calibrated = <<sensor.raw, bias>>, !.status = @ \cup {"calibrated"}]

ApplyBias_NotRedone(s, bias, accuracy) ==
    sensors' = [sensors EXCEPT ![s].accuracy = accuracy]
\* the bias counts as applied where it is the one in force
ApplyBias(s, bias, accuracy) ==
    sensors' = [sensors EXCEPT ![s] =
        [IF bias = save.bias[s] THEN sensors[s] ELSE Calibrated(sensors[s], bias)
            EXCEPT !.accuracy = accuracy]]

\* inv_set_compass_bias
SetCompassBias(bias, accuracy) ==
    /\ ApplyBias("compass", bias, accuracy)
    /\ save' = [save EXCEPT !.bias.compass = bias, !.accuracy.compass = accuracy]
    /\ SetMessage({"newCompassBias"}, {})

\* inv_set_accel_bias
SetAccelBias(bias, accuracy) ==
    /\ ApplyBias("accel", bias, accuracy)
    /\ save' = [save EXCEPT !.bias.accel = bias, !.accuracy.accel = accuracy]
    /\ SetMessage({"newAccelBias"}, {})

\* inv_set_accel_bias_mask: calibrates whatever the bias was
SetAccelBiasMask(bias, accuracy) ==
    /\ sensors' = [sensors EXCEPT !.accel =
                      [Calibrated(@, bias) EXCEPT !.accuracy = accuracy]]
    /\ save' = [save EXCEPT !.bias.accel = bias, !.accuracy.accel = accuracy]
    /\ SetMessage({"newAccelBias"}, {})

\* inv_set_accel_accuracy, and the setters of the bias without a bias
SetAccelAccuracy(accuracy) ==
    /\ sensors' = [sensors EXCEPT !.accel.accuracy = accuracy]
    /\ save' = [save EXCEPT !.accuracy.accel = accuracy]
    /\ SetMessage({"newAccelBias"}, {})

\* inv_set_gyro_bias: remembers the temperature
SetGyroBias(bias, accuracy) ==
    /\ ApplyBias("gyro", bias, accuracy)
    /\ save' = [save EXCEPT !.bias.gyro = bias, !.accuracy.gyro = accuracy, !.tcSet = TRUE,
                    !.gyroTemp = IF sensors.temp.raw # 0 THEN sensors.temp.raw ELSE Degree27]
    /\ SetMessage({"newGyroBias"}, {})

\* inv_get_gyro_bias_tc_set: asking clears the flag
GetGyroBiasTcSet == save' = [save EXCEPT !.tcSet = FALSE]

\* inv_set_compass_disturbance
SetCompassDisturbance(dist) == disturbance' = dist

\* inv_get_mag_accuracy, and the accuracy inv_get_compass_set gives
MagAccuracy == IF disturbance THEN 0 ELSE sensors.compass.accuracy

-----------------------------------------------------------------------------
(* Soft iron correction of the compass.                                    *)

SetSoftIronMatrix(matrix) == softIron' = [softIron EXCEPT !.matrix = matrix]
EnableSoftIron(on)        == softIron' = [softIron EXCEPT !.enable = on]

\* inv_set_compass_soft_iron_input_data
SoftIron(x) ==
    [softIron EXCEPT !.raw = x,
        !.trans = <<x, IF softIron.enable THEN softIron.matrix ELSE "identity">>]

-----------------------------------------------------------------------------
(* Building samples.                                                       *)

Fresh(sensor, flags) == [sensor EXCEPT !.status = @ \cup {"new", "on"} \cup flags]

FromRaw(s, x) == Fresh(Calibrated([sensors[s] EXCEPT !.raw = x], save.bias[s]), {"raw"})

FromOutside(s, x, accuracy) ==
    Fresh([sensors[s] EXCEPT !.calibrated = <<Plain(s, x), "outside">>, !.accuracy = accuracy],
          {"calibrated"})

\* inv_build_gyro
BuildGyro(x) ==
    /\ sensors' = [sensors EXCEPT !.gyro = FromRaw("gyro", x)]
    /\ UNCHANGED <<save, softIron>>

\* inv_build_accel, without INV_CALIBRATED in the status it is given
BuildAccel(x) ==
    /\ sensors' = [sensors EXCEPT !.accel = FromRaw("accel", x)]
    /\ UNCHANGED <<save, softIron>>

\* inv_build_compass, without INV_CALIBRATED: the reading goes through the soft iron matrix
BuildCompass(x) ==
    /\ softIron' = SoftIron(x)
    /\ sensors' = [sensors EXCEPT !.compass = FromRaw("compass", softIron'.trans)]
    /\ UNCHANGED save

\* inv_build_accel and inv_build_compass with INV_CALIBRATED and an accuracy
BuildCalibrated(s, x, accuracy) ==
    /\ sensors' = [sensors EXCEPT ![s] = FromOutside(s, x, accuracy)]
    /\ save' = [save EXCEPT !.accuracy[s] = accuracy]
    /\ UNCHANGED softIron

\* inv_build_temp: .raw stands for calibrated[0]
BuildTemp(x) ==
    /\ sensors' = [sensors EXCEPT !.temp = Fresh([@ EXCEPT !.raw = x], {"raw"})]
    /\ UNCHANGED <<save, softIron>>

\* inv_build_quat; a bias once applied stays applied until the sensor is turned off
BuildQuat(x, flags) ==
    /\ sensors' = [sensors EXCEPT !.quat =
                      Fresh([@ EXCEPT !.raw = x], {"raw"} \cup (flags \cap {"biasApplied"}))]
    /\ UNCHANGED <<save, softIron>>

\* inv_*_was_turned_off
WasTurnedOff(s) == sensors' = [sensors EXCEPT ![s].status = {}]

IsOn(s)  == "on" \in sensors[s].status
IsNew(s) == "new" \in sensors[s].status

-----------------------------------------------------------------------------
(* inv_execute_on_data.                                                    *)

Mode_Contiguous == {s \in Sensor : {"new", "contiguous"} \subseteq sensors[s].status}
\* INV_QUAT_NEW is not a status bit: its value is the one of INV_CONTIGUOUS
Mode ==
    {s \in Sensor \ {"quat"} : IsNew(s)}
        \cup {s \in {"quat"} : "contiguous" \in sensors[s].status}

ExecuteBegin ==
    /\ exec.kk = 0
    /\ exec' = [Idle EXCEPT !.kk = 1, !.mode = Mode]

\* the entry the loop stands at asks for data there are
Calls(f) ==
    /\ exec.kk \in DOMAIN process
    /\ process[exec.kk].func = f
    /\ process[exec.kk].required \cap exec.mode # {}

Return(f) == exec' = [exec EXCEPT !.kk = @ + 1, !.called = @ \cup {f}]

Skip ==
    /\ exec.kk \in DOMAIN process
    /\ process[exec.kk].required \cap exec.mode = {}
    /\ exec' = [exec EXCEPT !.kk = @ + 1]

\* inv_set_contiguous tests a status before it changes it
ReadNew ==
    /\ exec.kk = Len(process) + 1
    /\ exec' = [exec EXCEPT !.kk = @ + 1, !.fresh = {s \in Sensor : IsNew(s)}]

SetContiguous(fresh) ==
    [s \in Sensor |->
        [sensors[s] EXCEPT !.status =
            (IF s \in fresh THEN @ \cup {"contiguous"} ELSE @) \ {"new"}]]

ExecuteEnd ==
    /\ exec.kk = Len(process) + 2
    /\ sensors' = SetContiguous(exec.fresh)
    /\ exec' = Idle
=============================================================================
