---------------------------- MODULE Calibration ----------------------------
(***************************************************************************)
(* What the motion library has learnt about its sensors, across restarts   *)
(* and crashes: the storage manager (drivers/sensors/mlsdk/mllite/         *)
(* storage_manager.c), which gathers the blocks of the data builder and of *)
(* the features into one image, and the calibration file                   *)
(* (mllite/linux/ml_stored_data.c), read when the HAL is created and       *)
(* written by MPLSensor::storeCalibration on an IPC thread while the poll  *)
(* thread goes on learning.                                                *)
(*                                                                         *)
(* The file is in the data directory, and a factory copy may be in the     *)
(* protected one; in the factory's own mode both names lead to the factory *)
(* directory (common/init.cal.rc, init.cal_fct.rc).  A checksum stands for *)
(* the bytes it was taken of.                                              *)
(***************************************************************************)
EXTENDS ResultsHolder

CONSTANTS
    Features,        \* keys of the blocks of features, in the order they register
    NumBoxes,        \* NUM_STORAGE_BOXES
    Learnable,       \* accuracies that are learnt
    MaxCalls,        \* BOUND: calls that change what is known
    MaxBoots         \* BOUND: lives of the process

ASSUME CalibrationAssumption ==
    /\ Features \in Seq(STRING \ {"db"})
    /\ NumBoxes \in Nat \ {0}
    /\ Learnable \subseteq 0 .. 3
    /\ MaxCalls \in Nat
    /\ MaxBoots \in Nat

VARIABLES
    pc,         \* "off", or where the life of the process is
    dir,        \* directory of the default path; the protected one is "factory"
    files,      \* directory -> "missing", or a file and how much of its image is in it
    boxes,      \* the storage manager's keys, in the order of registration
    learnt,     \* key of a feature's block -> what the feature knows
    image,      \* the image that is being loaded or put together
    at,         \* block that loading or saving has come to
    calls,
    boots

fileVars == <<pc, dir, files, boxes, learnt, image, at>>
vars     == <<message, dataVars, rh, fileVars, calls, boots>>

Directory == {"data", "factory"}
FeatureKey == {Features[i] : i \in DOMAIN Features}

File(n, i) == [size |-> n, image |-> i]
Missing    == File("missing", <<>>)
Empty      == File("empty", <<>>)
Part       == File("part", <<>>)      \* cut off: what is there never passes for the whole

Memory(key) == IF key = "db" THEN save ELSE learnt[key]
Unlearnt    == [key \in FeatureKey |-> 0]

Init ==
    /\ MessageInit /\ DataInit /\ ResultsInit
    /\ pc = "off"
    /\ dir = "factory"
    /\ files = [d \in Directory |-> Missing]
    /\ boxes = <<>>
    /\ learnt = Unlearnt
    /\ image = <<>>
    /\ at = 0
    /\ calls = 0
    /\ boots = 0

-----------------------------------------------------------------------------
(* Boot: the constructor of MPLSensor.                                     *)

\* inv_register_load_store
RegisterLoadStore(key) ==
    boxes' = IF (\E k \in DOMAIN boxes : boxes[k] = key) \/ Len(boxes) >= NumBoxes
             THEN boxes ELSE Append(boxes, key)

\* inv_pop_cal_*_path, inv_init_mpl: everything starts from cleared memory
Boot ==
    /\ pc = "off" /\ boots < MaxBoots
    /\ boots' = boots + 1
    /\ dir' \in Directory
    /\ pc' = "features"
    /\ boxes' = <<"db">>
    /\ UNCHANGED <<message, dataVars, rh, files, learnt, image, at, calls>>

\* a feature is enabled and registers its block; those after a failure are not
EnableFeature ==
    /\ pc = "features"
    /\ Len(boxes) <= Len(Features)
    /\ RegisterLoadStore(Features[Len(boxes)])
    /\ UNCHANGED <<message, dataVars, rh, pc, dir, files, learnt, image, at, calls, boots>>

\* inv_copy_cal with the length inv_load_calibration gives it, 0: the default file is
\* created where there is none and a protected one, and nothing is copied
CopyCal ==
    /\ pc = "features"
    /\ \/ files[dir] # Missing /\ pc' = "read" /\ UNCHANGED files
       \/ /\ files[dir] = Missing /\ files["factory"] # Missing
          /\ pc' = "read"
          /\ files' = [files EXCEPT ![dir] = Empty]
       \/ files[dir] = Missing /\ pc' = "running" /\ UNCHANGED files     \* fopen fails
    /\ UNCHANGED <<message, dataVars, rh, dir, boxes, learnt, image, at, calls, boots>>

\* inv_read_cal, or it fails
ReadCal ==
    /\ pc = "read"
    /\ \/ pc' = "check" /\ image' = files[dir].image
       \/ pc' = "running" /\ UNCHANGED image
    /\ UNCHANGED <<message, dataVars, rh, dir, files, boxes, learnt, at, calls, boots>>

CheckImage_PartAccepted ==
    /\ pc = "check"
    /\ IF files[dir].size \in {"part", "whole"}
       THEN pc' = "load" /\ at' = 1 /\ UNCHANGED image
       ELSE pc' = "running" /\ image' = <<>> /\ UNCHANGED at
    /\ UNCHANGED <<message, dataVars, rh, dir, files, boxes, learnt, calls, boots>>
\* inv_load_mpl_states: less than a header is refused.  The size in the header is believed:
\* the checksum of a shorter file is taken of what lies behind it, which does not match it.
CheckImage ==
    /\ pc = "check"
    /\ IF files[dir].size = "whole"
       THEN pc' = "load" /\ at' = 1 /\ UNCHANGED image
       ELSE pc' = "running" /\ image' = <<>> /\ UNCHANGED at
    /\ UNCHANGED <<message, dataVars, rh, dir, files, boxes, learnt, calls, boots>>

FindEntry(key) == \E k \in DOMAIN boxes : boxes[k] = key

\* inv_db_load_func
DbLoad(data) ==
    /\ save' = data
    /\ sensors' = [s \in Sensor |->
           IF s \in Motion THEN [sensors[s] EXCEPT !.accuracy = data.accuracy[s]] ELSE sensors[s]]
    /\ IF data.accuracy.compass = 3 THEN SetCompassBiasFound(TRUE) ELSE UNCHANGED rh
    /\ UNCHANGED learnt

\* a block: those nobody registered are skipped
LoadBlock ==
    /\ pc = "load"
    /\ at \in DOMAIN image
    /\ at' = at + 1
    /\ \/ /\ image[at].key = "db"
          /\ DbLoad(image[at].data)
       \/ /\ image[at].key # "db"
          /\ learnt' = IF FindEntry(image[at].key)
                       THEN [learnt EXCEPT ![image[at].key] = image[at].data] ELSE learnt
          /\ UNCHANGED <<save, sensors, rh>>
    /\ UNCHANGED <<message, process, disturbance, softIron, exec>>
    /\ UNCHANGED <<pc, dir, files, boxes, image, calls, boots>>

LoadEnd ==
    /\ pc = "load"
    /\ at = Len(image) + 1
    /\ pc' = "running"
    /\ image' = <<>> /\ at' = 0
    /\ UNCHANGED <<message, dataVars, rh, dir, files, boxes, learnt, calls, boots>>

-----------------------------------------------------------------------------
(* The poll thread: samples, and what the features do with them.           *)

\* the HAL is created, then it is polled; putting the image together goes on meanwhile
\* (what is called during fwrite might as well be called after it)
Polled == pc \in {"running", "save", "accuracies"} /\ calls < MaxCalls

Call == Polled /\ calls' = calls + 1 /\ UNCHANGED <<fileVars, boots, process, exec>>

Sampled ==
    /\ Call
    /\ \E x \in Sample \ {0} :
        \/ BuildGyro(x)
        \/ BuildAccel(x)
        \/ BuildCompass(x)
        \/ \E s \in {"accel", "compass"}, a \in Learnable : BuildCalibrated(s, x, a)
        \/ BuildTemp(x)
        \/ BuildQuat(x, {"biasApplied"})
    /\ UNCHANGED <<message, disturbance, rh>>

BiasLearnt ==
    /\ Call
    /\ \E bias \in Bias, a \in Learnable :
        \/ SetGyroBias(bias, a)
        \/ SetAccelBias(bias, a)
        \/ SetAccelBiasMask(bias, a)
        \/ SetCompassBias(bias, a)
    /\ UNCHANGED <<disturbance, softIron, rh>>

AccuracyLearnt ==
    /\ Call
    /\ \E a \in Learnable : SetAccelAccuracy(a)
    /\ UNCHANGED <<disturbance, softIron, rh>>

\* another feature learns something
FeatureLearns ==
    /\ Polled
    /\ calls' = calls + 1
    /\ \E key \in FeatureKey : FindEntry(key) /\ learnt' = [learnt EXCEPT ![key] = 1]
    /\ UNCHANGED <<message, dataVars, rh, pc, dir, files, boxes, image, at, boots>>

\* gyro temperature compensation takes the flag
TakeTcSet ==
    /\ Call
    /\ save.tcSet
    /\ GetGyroBiasTcSet
    /\ UNCHANGED <<message, sensors, disturbance, softIron, rh>>

Disturbed ==
    /\ Call
    /\ SetCompassDisturbance(~disturbance)
    /\ UNCHANGED <<message, sensors, save, softIron, rh>>

SoftIronSet ==
    /\ Call
    /\ \/ \E m \in Matrix : SetSoftIronMatrix(m)
       \/ EnableSoftIron(~softIron.enable)
    /\ UNCHANGED <<message, sensors, save, disturbance, rh>>

MotionFound ==
    /\ Call
    /\ \E state \in {"motion", "noMotion"} : SetMotionState(state)
    /\ UNCHANGED <<sensors, save, disturbance, softIron>>

\* MPLSensor::executeOnData takes the messages
MessagesTaken ==
    /\ Polled
    /\ message # {}
    /\ TakeMessages
    /\ UNCHANGED <<dataVars, rh, fileVars, calls, boots>>

SensorOff ==
    /\ Call
    /\ \E s \in Motion : sensors[s].status # {} /\ WasTurnedOff(s)
    /\ UNCHANGED <<message, save, disturbance, softIron, rh>>

-----------------------------------------------------------------------------
(* inv_store_calibration on an IPC thread.                                 *)

StoreStep == UNCHANGED <<message, dataVars, rh, dir, boxes, learnt, calls, boots>>

\* inv_save_mpl_states
Store ==
    /\ pc = "running"
    /\ pc' = "save"
    /\ image' = <<>>
    /\ at' = 1
    /\ UNCHANGED <<files>> /\ StoreStep

\* inv_db_save_func copies the biases first and the accuracies last
SaveBiases ==
    /\ pc = "save"
    /\ at \in DOMAIN boxes /\ boxes[at] = "db"
    /\ image' = Append(image, [key |-> "db", data |-> save])
    /\ pc' = "accuracies"
    /\ UNCHANGED <<at, files>> /\ StoreStep

SaveAccuracies ==
    /\ pc = "accuracies"
    /\ image' = [image EXCEPT ![at].data.accuracy = save.accuracy]
    /\ at' = at + 1
    /\ pc' = "save"
    /\ UNCHANGED <<files>> /\ StoreStep

SaveFeature ==
    /\ pc = "save"
    /\ at \in DOMAIN boxes /\ boxes[at] # "db"
    /\ image' = Append(image, [key |-> boxes[at], data |-> learnt[boxes[at]]])
    /\ at' = at + 1
    /\ UNCHANGED <<pc, files>> /\ StoreStep

\* inv_write_cal, fopen; where it fails the file is as it was
Truncate ==
    /\ pc = "save"
    /\ at = Len(boxes) + 1
    /\ \/ /\ files' = [files EXCEPT ![dir] = Empty]
          /\ pc' = "write"
          /\ UNCHANGED <<image, at>>
       \/ /\ pc' = "running"
          /\ image' = <<>> /\ at' = 0
          /\ UNCHANGED files
    /\ StoreStep

\* fwrite and fclose; on a full device part of the image gets there
Write ==
    /\ pc = "write"
    /\ pc' = "running"
    /\ \E f \in {Part, File("whole", image)} : files' = [files EXCEPT ![dir] = f]
    /\ image' = <<>> /\ at' = 0
    /\ StoreStep

ClearMemory ==
    /\ message' = {}
    /\ process' = <<>>
    /\ sensors' = [s \in Sensor |-> Cleared(s)]
    /\ save' = [bias |-> [s \in Motion |-> "none"], accuracy |-> [s \in Motion |-> 0],
                gyroTemp |-> 0, tcSet |-> FALSE]
    /\ disturbance' = FALSE
    /\ softIron' = ResetSoftIron
    /\ exec' = Idle
    /\ rh' = [gam |-> "unit", correction |-> "unit", nav |-> Product("unit", "unit"),
              status |-> {}, motion |-> "none", counter |-> 0, compassBias |-> FALSE]

\* the process ends at any point; what fwrite was at is written in part or not
Crash ==
    /\ pc # "off"
    /\ pc' = "off"
    /\ \/ UNCHANGED files
       \/ pc = "write" /\ files' = [files EXCEPT ![dir] = Part]
    /\ image' = <<>> /\ at' = 0
    /\ boxes' = <<>>
    /\ learnt' = Unlearnt
    /\ ClearMemory
    /\ dir' = "factory"
    /\ UNCHANGED <<calls, boots>>

Next ==
    \/ Boot \/ EnableFeature \/ CopyCal \/ ReadCal \/ CheckImage \/ LoadBlock \/ LoadEnd
    \/ Sampled \/ BiasLearnt \/ AccuracyLearnt \/ FeatureLearns \/ TakeTcSet
    \/ Disturbed \/ SoftIronSet \/ MotionFound \/ MessagesTaken \/ SensorOff
    \/ Store \/ SaveBiases \/ SaveAccuracies \/ SaveFeature \/ Truncate \/ Write
    \/ Crash

Spec == Init /\ [][Next]_vars

-----------------------------------------------------------------------------
(* Properties.                                                             *)

TypeOK ==
    /\ message \subseteq Message
    /\ \A s \in Sensor : sensors[s].status \subseteq Flag /\ sensors[s].accuracy \in 0 .. 3
    /\ save.bias \in [Motion -> Bias] /\ save.accuracy \in [Motion -> 0 .. 3]
    /\ save.gyroTemp \in Sample \cup {Degree27} /\ save.tcSet \in BOOLEAN
    /\ softIron.matrix \in Matrix /\ softIron.enable \in BOOLEAN
    /\ rh.motion \in MotionState /\ rh.counter \in 0 .. MaxCounter
    /\ \A d \in Directory : files[d].size \in {"missing", "empty", "part", "whole"}
    /\ Len(boxes) <= NumBoxes
    /\ learnt \in [FeatureKey -> {0, 1}]
    /\ at \in 0 .. NumBoxes + 1

\* data_builder.c: whatever the order of samples, of biases learnt, of a calibration loaded
\* and of sensors turned off, calibrated data are the last reading less the bias in force.
CalibratedUsesBias ==
    \A s \in Motion :
        ("calibrated" \in sensors[s].status /\ sensors[s].calibrated[2] # "outside")
            => sensors[s].calibrated = <<sensors[s].raw, save.bias[s]>>

\* storage_manager.c and ml_stored_data.c: what a life of the process starts from is, block
\* by block, the image in its directory if that was written whole, whichever features
\* registered then and now, and cleared memory otherwise.  A write that is cut off loses the
\* image before it too: nothing is loaded then.
Stored(key) ==
    LET file == files[dir]
        blocks == IF file.size = "whole" THEN {file.image[i] : i \in DOMAIN file.image} ELSE {}
    IN {b.data : b \in {x \in blocks : x.key = key}}

RoundTrip ==
    [][LoadEnd => \A k \in DOMAIN boxes :
        IF Stored(boxes[k]) = {} THEN boxes[k] # "db" /\ Memory(boxes[k]) = 0
        ELSE Memory(boxes[k]) \in Stored(boxes[k])]_vars

\* results_holder.c, message_layer.c: a message that waits never contradicts the state of
\* motion, however many changes there were since messages were last taken.
MessageIsCurrent == message \cap {"motion", "noMotion"} \subseteq {rh.motion}
=============================================================================
