------------------------- MODULE CalibrationProofs -------------------------
(***************************************************************************)
(* Proofs about the data builder and the calibration file: calibrated data *)
(* always use the bias in force, for every number of readings, biases,     *)
(* features and lives of the process.                                      *)
(***************************************************************************)
EXTENDS Calibration, TLAPS

Accuracy == 0 .. 3
Reading  == Sample \cup (Sample \X Matrix)
Held     == [status : SUBSET Flag, raw : Reading,
             calibrated : Reading \X (Bias \cup {"outside"}), accuracy : Accuracy]
Saved    == [bias : [Motion -> Bias], accuracy : [Motion -> Accuracy],
             gyroTemp : Reading \cup {Degree27}, tcSet : BOOLEAN]
Soft     == [matrix : Matrix, enable : BOOLEAN, raw : Sample, trans : Sample \X Matrix]

\* one sensor of CalibratedUsesBias
Uses(h, bias) ==
    ("calibrated" \in h.status /\ h.calibrated[2] # "outside") => h.calibrated = <<h.raw, bias>>

SensorsOK == sensors \in [Sensor -> Held] /\ \A s \in Motion : Uses(sensors[s], save.bias[s])
DataOK    == SensorsOK /\ save \in Saved /\ softIron \in Soft

USE DataBuilderAssumption, CalibrationAssumption

-----------------------------------------------------------------------------
(* A step of the data builder changes one sensor, and the saved bias of no *)
(* other.                                                                  *)

LEMMA OneSensor ==
    ASSUME SensorsOK, save \in Saved, save' \in Saved,
           NEW s \in Sensor, NEW h \in Held,
           sensors' = [sensors EXCEPT ![s] = h],
           \A m \in Motion \ {s} : save'.bias[m] = save.bias[m],
           s \in Motion => Uses(h, save'.bias[s])
    PROVE  SensorsOK'
<1>1. sensors' \in [Sensor -> Held]
  BY DEF SensorsOK
<1>2. ASSUME NEW m \in Motion PROVE Uses(sensors'[m], save'.bias[m])
  <2>1. CASE m = s
    BY <2>1 DEF SensorsOK
  <2>2. CASE m # s
    BY <1>2, <2>2 DEF SensorsOK, Sensor
  <2> QED
    BY <2>1, <2>2
<1> QED
  BY <1>1, <1>2 DEF SensorsOK

LEMMA CalibratedOK ==
    ASSUME NEW h \in Held, NEW b \in Bias
    PROVE  Calibrated(h, b) \in Held /\ Uses(Calibrated(h, b), b)
  BY DEF Calibrated, Held, Uses, Flag

LEMMA FreshOK ==
    ASSUME NEW h \in Held, NEW flags \in SUBSET (Flag \ {"calibrated"})
    PROVE  /\ Fresh(h, flags) \in Held
           /\ \A b : Uses(h, b) => Uses(Fresh(h, flags), b)
  BY DEF Fresh, Held, Uses, Flag

LEMMA FromRawOK ==
    ASSUME DataOK, NEW s \in Motion, NEW x \in Reading
    PROVE  FromRaw(s, x) \in Held /\ Uses(FromRaw(s, x), save.bias[s])
<1> DEFINE h == [sensors[s] EXCEPT !.raw = x]
<1>1. h \in Held /\ save.bias[s] \in Bias
  <2>1. sensors[s] \in Held
    BY DEF DataOK, SensorsOK, Sensor
  <2>2. h \in Held
    BY <2>1 DEF Held
  <2>3. save.bias[s] \in Bias
    BY DEF DataOK, Saved
  <2> QED
    BY <2>2, <2>3
<1>2. Calibrated(h, save.bias[s]) \in Held /\ Uses(Calibrated(h, save.bias[s]), save.bias[s])
  BY <1>1, CalibratedOK
<1>3. {"raw"} \in SUBSET (Flag \ {"calibrated"})
  BY DEF Flag
<1>4. FromRaw(s, x) = Fresh(Calibrated(h, save.bias[s]), {"raw"})
  BY DEF FromRaw
<1> HIDE DEF h
<1> QED
  BY <1>2, <1>3, <1>4, FreshOK

LEMMA BuildOK ==
    ASSUME DataOK, NEW x \in Sample, BuildGyro(x) \/ BuildAccel(x) \/ BuildCompass(x)
    PROVE  DataOK'
<1>1. CASE BuildGyro(x)
  <2>1. FromRaw("gyro", x) \in Held /\ Uses(FromRaw("gyro", x), save.bias["gyro"])
    BY FromRawOK DEF Motion, Reading
  <2>2. SensorsOK'
    BY <1>1, <2>1, OneSensor DEF BuildGyro, DataOK, Sensor, Motion
  <2> QED
    BY <1>1, <2>2 DEF BuildGyro, DataOK
<1>2. CASE BuildAccel(x)
  <2>1. FromRaw("accel", x) \in Held /\ Uses(FromRaw("accel", x), save.bias["accel"])
    BY FromRawOK DEF Motion, Reading
  <2>2. SensorsOK'
    BY <1>2, <2>1, OneSensor DEF BuildAccel, DataOK, Sensor, Motion
  <2> QED
    BY <1>2, <2>2 DEF BuildAccel, DataOK
<1>3. CASE BuildCompass(x)
  <2>1. softIron' \in Soft
    BY <1>3 DEF BuildCompass, SoftIron, DataOK, Soft
  <2>2. softIron'.trans \in Reading
    BY <2>1 DEF Soft, Reading
  <2>3. /\ FromRaw("compass", softIron'.trans) \in Held
        /\ Uses(FromRaw("compass", softIron'.trans), save.bias["compass"])
    BY <2>2, FromRawOK DEF Motion
  <2>4. SensorsOK'
    BY <1>3, <2>3, OneSensor DEF BuildCompass, DataOK, Sensor, Motion
  <2> QED
    BY <1>3, <2>1, <2>4 DEF BuildCompass, DataOK
<1> QED
  BY <1>1, <1>2, <1>3

LEMMA BuildCalibratedOK ==
    ASSUME DataOK, NEW x \in Sample, NEW s \in {"accel", "compass"}, NEW a \in Learnable,
           BuildCalibrated(s, x, a)
    PROVE  DataOK'
<1>1. save' \in Saved /\ save'.bias = save.bias
  BY DEF BuildCalibrated, DataOK, Saved, Accuracy, Motion
<1>2. Plain(s, x) \in Reading
  BY DEF Plain, Reading
<1> DEFINE h == [sensors[s] EXCEPT !.calibrated = <<Plain(s, x), "outside">>, !.accuracy = a]
<1>3. h \in Held
  <2>1. sensors[s] \in Held
    BY DEF DataOK, SensorsOK, Sensor, Motion
  <2>2. a \in Accuracy
    BY DEF Accuracy
  <2> QED
    BY <1>2, <2>1, <2>2 DEF Held
<1>4. FromOutside(s, x, a) \in Held /\ FromOutside(s, x, a).calibrated[2] = "outside"
  BY <1>3 DEF FromOutside, Fresh, Held, Flag
<1>5. SensorsOK'
  BY <1>1, <1>4, OneSensor DEF BuildCalibrated, DataOK, Sensor, Motion, Uses
<1> QED
  BY <1>1, <1>5 DEF BuildCalibrated, DataOK

LEMMA BuildOtherOK ==
    ASSUME DataOK, NEW x \in Sample, BuildTemp(x) \/ BuildQuat(x, {"biasApplied"})
    PROVE  DataOK'
<1>1. CASE BuildTemp(x)
  <2> DEFINE h == [sensors.temp EXCEPT !.raw = x]
  <2>1. h \in Held
    <3>1. sensors.temp \in Held
      BY DEF DataOK, SensorsOK, Sensor
    <3> QED
      BY <3>1 DEF Held, Reading
  <2>2. Fresh(h, {"raw"}) \in Held
    BY <2>1, FreshOK DEF Flag
  <2>3. sensors' = [sensors EXCEPT !["temp"] = Fresh([sensors.temp EXCEPT !.raw = x], {"raw"})]
    BY <1>1 DEF BuildTemp, DataOK, SensorsOK, Sensor
  <2>4. "temp" \in Sensor /\ "temp" \notin Motion /\ save' = save
    BY <1>1 DEF BuildTemp, Sensor, Motion
  <2>5. SensorsOK'
    BY <2>2, <2>3, <2>4, OneSensor DEF DataOK
  <2> QED
    BY <1>1, <2>5 DEF BuildTemp, DataOK
<1>2. CASE BuildQuat(x, {"biasApplied"})
  <2> DEFINE flags == {"raw"} \cup ({"biasApplied"} \cap {"biasApplied"})
  <2> DEFINE h == [sensors.quat EXCEPT !.raw = x]
  <2>1. h \in Held
    <3>1. sensors.quat \in Held
      BY DEF DataOK, SensorsOK, Sensor
    <3> QED
      BY <3>1 DEF Held, Reading
  <2>2. Fresh(h, flags) \in Held
    BY <2>1, FreshOK DEF Flag
  <2>3. sensors' = [sensors EXCEPT !["quat"] = Fresh([sensors.quat EXCEPT !.raw = x], flags)]
    BY <1>2 DEF BuildQuat, DataOK, SensorsOK, Sensor
  <2>4. "quat" \in Sensor /\ "quat" \notin Motion /\ save' = save
    BY <1>2 DEF BuildQuat, Sensor, Motion
  <2>5. SensorsOK'
    BY <2>2, <2>3, <2>4, OneSensor DEF DataOK
  <2> QED
    BY <1>2, <2>5 DEF BuildQuat, DataOK
<1> QED
  BY <1>1, <1>2

-----------------------------------------------------------------------------
(* A bias that is learnt is applied to the reading it is learnt on.        *)

LEMMA ApplyBiasOK ==
    ASSUME DataOK, NEW s \in Motion, NEW b \in Bias, NEW a \in Accuracy,
           ApplyBias(s, b, a), save' \in Saved, save'.bias = [save.bias EXCEPT ![s] = b]
    PROVE  SensorsOK'
<1> DEFINE g == IF b = save.bias[s] THEN sensors[s] ELSE Calibrated(sensors[s], b)
           h == [g EXCEPT !.accuracy = a]
<1>1. sensors[s] \in Held /\ Uses(sensors[s], save.bias[s])
  BY DEF DataOK, SensorsOK, Sensor
<1>2. g \in Held /\ Uses(g, b)
  BY <1>1, CalibratedOK
<1>3. h \in Held /\ Uses(h, b)
  <2> HIDE DEF g
  <2> QED
    BY <1>2 DEF Held, Uses
<1>4. sensors' = [sensors EXCEPT ![s] = h]
  BY DEF ApplyBias
<1>5. save'.bias[s] = b /\ \A m \in Motion \ {s} : save'.bias[m] = save.bias[m]
  BY DEF DataOK, Saved
<1> HIDE DEF h
<1> QED
  BY <1>3, <1>4, <1>5, OneSensor DEF DataOK, Sensor

LEMMA BiasLearntOK ==
    ASSUME DataOK, BiasLearnt
    PROVE  DataOK'
<1> PICK b \in Bias, a \in Learnable :
        \/ SetGyroBias(b, a)
        \/ SetAccelBias(b, a)
        \/ SetAccelBiasMask(b, a)
        \/ SetCompassBias(b, a)
  BY DEF BiasLearnt
<1>1. a \in Accuracy /\ softIron' = softIron
  BY DEF Accuracy, BiasLearnt
<1>2. CASE SetGyroBias(b, a)
  <2>1. sensors.temp.raw \in Reading
    BY DEF DataOK, SensorsOK, Held, Sensor
  <2>2. save' \in Saved /\ save'.bias = [save.bias EXCEPT !["gyro"] = b]
    BY <1>1, <1>2, <2>1 DEF SetGyroBias, DataOK, Saved, Motion
  <2> QED
    BY <1>1, <1>2, <2>2, ApplyBiasOK DEF SetGyroBias, DataOK, Motion
<1>3. CASE SetAccelBias(b, a)
  <2>1. save' \in Saved /\ save'.bias = [save.bias EXCEPT !["accel"] = b]
    BY <1>1, <1>3 DEF SetAccelBias, DataOK, Saved, Motion
  <2> QED
    BY <1>1, <1>3, <2>1, ApplyBiasOK DEF SetAccelBias, DataOK, Motion
<1>4. CASE SetCompassBias(b, a)
  <2>1. save' \in Saved /\ save'.bias = [save.bias EXCEPT !["compass"] = b]
    BY <1>1, <1>4 DEF SetCompassBias, DataOK, Saved, Motion
  <2> QED
    BY <1>1, <1>4, <2>1, ApplyBiasOK DEF SetCompassBias, DataOK, Motion
<1>5. CASE SetAccelBiasMask(b, a)
  <2> DEFINE h == [Calibrated(sensors.accel, b) EXCEPT !.accuracy = a]
  <2>1. save' \in Saved /\ save'.bias = [save.bias EXCEPT !["accel"] = b]
    BY <1>1, <1>5 DEF SetAccelBiasMask, DataOK, Saved, Motion
  <2>2. Calibrated(sensors.accel, b) \in Held /\ Uses(Calibrated(sensors.accel, b), b)
    BY CalibratedOK DEF DataOK, SensorsOK, Sensor, Motion
  <2>3. h \in Held /\ Uses(h, b)
    BY <1>1, <2>2 DEF Held, Uses
  <2>4. sensors' = [sensors EXCEPT !["accel"] = h]
    BY <1>5 DEF SetAccelBiasMask
  <2>5. save'.bias["accel"] = b /\ \A m \in Motion \ {"accel"} : save'.bias[m] = save.bias[m]
    BY <2>1 DEF DataOK, Saved, Motion
  <2> HIDE DEF h
  <2>6. "accel" \in Sensor
    BY DEF Sensor, Motion
  <2>7. SensorsOK'
    BY <2>1, <2>3, <2>4, <2>5, <2>6, OneSensor DEF DataOK
  <2> QED
    BY <1>1, <2>1, <2>7 DEF DataOK
<1> QED
  BY <1>2, <1>3, <1>4, <1>5

LEMMA AccuracyLearntOK ==
    ASSUME DataOK, AccuracyLearnt
    PROVE  DataOK'
<1> PICK a \in Learnable : SetAccelAccuracy(a)
  BY DEF AccuracyLearnt
<1> DEFINE h == [sensors.accel EXCEPT !.accuracy = a]
<1>1. a \in Accuracy /\ "accel" \in Motion /\ "accel" \in Sensor
  BY DEF Accuracy, Motion, Sensor
<1>2. save' \in Saved /\ save'.bias = save.bias
  BY <1>1 DEF SetAccelAccuracy, DataOK, Saved
<1>3. sensors.accel \in Held /\ Uses(sensors.accel, save.bias["accel"])
  BY <1>1 DEF DataOK, SensorsOK
<1>4. h \in Held /\ Uses(h, save'.bias["accel"])
  BY <1>1, <1>2, <1>3 DEF Held, Uses
<1>5. sensors' = [sensors EXCEPT !["accel"] = h]
  BY DEF SetAccelAccuracy
<1> HIDE DEF h
<1>6. SensorsOK'
  BY <1>1, <1>2, <1>4, <1>5, OneSensor DEF DataOK
<1> QED
  BY <1>2, <1>6 DEF DataOK, AccuracyLearnt

LEMMA SensorOffOK ==
    ASSUME DataOK, NEW s \in Motion, WasTurnedOff(s), save' = save, softIron' = softIron
    PROVE  DataOK'
<1> DEFINE h == [sensors[s] EXCEPT !.status = {}]
<1>1. s \in Sensor /\ h \in Held /\ Uses(h, save'.bias[s])
  BY DEF DataOK, SensorsOK, Held, Uses, Sensor
<1>2. sensors' = [sensors EXCEPT ![s] = h]
  BY DEF WasTurnedOff
<1> HIDE DEF h
<1>3. SensorsOK'
  BY <1>1, <1>2, OneSensor DEF DataOK
<1> QED
  BY <1>3 DEF DataOK

LEMMA SampledOK ==
    ASSUME DataOK, Sampled
    PROVE  DataOK'
<1> PICK x \in Sample \ {0} :
        \/ BuildGyro(x)
        \/ BuildAccel(x)
        \/ BuildCompass(x)
        \/ \E s \in {"accel", "compass"}, a \in Learnable : BuildCalibrated(s, x, a)
        \/ BuildTemp(x)
        \/ BuildQuat(x, {"biasApplied"})
  BY DEF Sampled
<1> QED
  BY BuildOK, BuildCalibratedOK, BuildOtherOK

-----------------------------------------------------------------------------
(* The files hold images of calibrations that were saved, and a new life   *)
(* of the process loads one before any sample has come.                    *)

Block == [key : {"db"}, data : Saved] \cup [key : FeatureKey, data : {0, 1}]
FileSet == [size : {"missing", "empty", "part", "whole"}, image : Seq(Block)]
Starting == {"off", "features", "read", "check", "load"}

ImageOK ==
    /\ dir \in Directory
    /\ files \in [Directory -> FileSet]
    /\ boxes \in Seq(FeatureKey \cup {"db"})
    /\ learnt \in [FeatureKey -> {0, 1}]
    /\ image \in Seq(Block)
    /\ at \in Nat
    /\ pc = "features" => Len(boxes) > 0
    /\ pc = "save" => Len(image) = at - 1
    /\ pc = "accuracies" => Len(image) = at /\ at > 0 /\ image[at].key = "db"

NothingBuilt == pc \in Starting => \A s \in Sensor : sensors[s].status = {}

CInv == DataOK /\ ImageOK /\ NothingBuilt

LEMMA CInvInit == Init => CInv
<1> SUFFICES ASSUME Init PROVE CInv
  OBVIOUS
<1>1. \A s \in Sensor : Cleared(s) \in Held /\ Cleared(s).status = {}
  BY DEF Cleared, Held, Plain, Reading, Accuracy, Flag
<1>2. DataOK
  BY <1>1 DEF Init, DataInit, DataOK, SensorsOK, Saved, Soft, ResetSoftIron, Uses, Sensor, Motion,
              Accuracy, Reading, Degree27
<1>3. ImageOK
  BY DEF Init, ImageOK, Directory, Missing, File, FileSet, Unlearnt
<1>4. NothingBuilt
  BY <1>1 DEF Init, DataInit, NothingBuilt
<1> QED
  BY <1>2, <1>3, <1>4 DEF CInv

\* the poll thread: samples and what is learnt
LEMMA PollKeeps ==
    ASSUME CInv,
           \/ Sampled \/ BiasLearnt \/ AccuracyLearnt \/ FeatureLearns \/ TakeTcSet
           \/ Disturbed \/ SoftIronSet \/ MotionFound \/ MessagesTaken \/ SensorOff
    PROVE  CInv'
<1> USE DEF CInv
<1>1. pc' = pc /\ pc \notin Starting
  BY DEF Sampled, BiasLearnt, AccuracyLearnt, FeatureLearns, TakeTcSet, Disturbed, SoftIronSet,
         MotionFound, MessagesTaken, SensorOff, Call, Polled, fileVars, Starting
<1>2. ImageOK'
  <2>1. CASE FeatureLearns
    BY <2>1 DEF FeatureLearns, ImageOK
  <2>2. CASE ~FeatureLearns
    <3>1. UNCHANGED fileVars
      BY <2>2 DEF Sampled, BiasLearnt, AccuracyLearnt, TakeTcSet, Disturbed, SoftIronSet,
                  MotionFound, MessagesTaken, SensorOff, Call
    <3> QED
      BY <3>1 DEF fileVars, ImageOK
  <2> QED
    BY <2>1, <2>2
<1>3. DataOK'
  <2>1. CASE Sampled \/ BiasLearnt \/ AccuracyLearnt
    BY <2>1, SampledOK, BiasLearntOK, AccuracyLearntOK
  <2>2. CASE FeatureLearns \/ Disturbed \/ MotionFound \/ MessagesTaken
    BY <2>2 DEF FeatureLearns, Disturbed, MotionFound, MessagesTaken, dataVars, DataOK, SensorsOK
  <2>3. CASE TakeTcSet
    <3>1. save' \in Saved /\ save'.bias = save.bias
      BY <2>3 DEF TakeTcSet, GetGyroBiasTcSet, DataOK, Saved
    <3> QED
      BY <2>3, <3>1 DEF TakeTcSet, DataOK, SensorsOK
  <2>4. CASE SoftIronSet
    <3>1. softIron' \in Soft
      BY <2>4 DEF SoftIronSet, SetSoftIronMatrix, EnableSoftIron, DataOK, Soft
    <3> QED
      BY <2>4, <3>1 DEF SoftIronSet, DataOK, SensorsOK
  <2>5. CASE SensorOff
    BY <2>5, SensorOffOK DEF SensorOff
  <2> QED
    BY <2>1, <2>2, <2>3, <2>4, <2>5
<1> QED
  BY <1>1, <1>2, <1>3 DEF NothingBuilt

\* the life of the process: what is loaded replaces what is saved before any sample is built
LEMMA BootKeeps ==
    ASSUME CInv,
           Boot \/ EnableFeature \/ CopyCal \/ ReadCal \/ CheckImage \/ LoadBlock \/ LoadEnd
    PROVE  CInv'
<1> USE DEF CInv
<1>1. CASE Boot \/ CopyCal \/ ReadCal \/ CheckImage \/ LoadEnd
  <2>1. DataOK' /\ (pc \in Starting => NothingBuilt')
    BY <1>1 DEF Boot, CopyCal, ReadCal, CheckImage, LoadEnd, dataVars, DataOK, SensorsOK, NothingBuilt
  <2>2. pc \in Starting
    BY <1>1 DEF Boot, CopyCal, ReadCal, CheckImage, LoadEnd, Starting
  <2>3. ImageOK'
    <3>1. CASE Boot
      BY <3>1 DEF Boot, ImageOK
    <3>2. CASE CopyCal
      <4>1. Empty \in FileSet
        BY DEF Empty, File, FileSet
      <4>2. files' \in [Directory -> FileSet]
        BY <3>2, <4>1 DEF CopyCal, ImageOK
      <4> QED
        BY <3>2, <4>2 DEF CopyCal, ImageOK
    <3>3. CASE ReadCal
      BY <3>3 DEF ReadCal, ImageOK, FileSet
    <3>4. CASE CheckImage \/ LoadEnd
      <4>1. (image' = image \/ image' = <<>>) /\ at' \in {at, 0, 1}
        BY <3>4 DEF CheckImage, LoadEnd
      <4>2. pc' \in {"load", "running"}
        BY <3>4 DEF CheckImage, LoadEnd
      <4>3. UNCHANGED <<dir, files, boxes, learnt>>
        BY <3>4 DEF CheckImage, LoadEnd
      <4>4. <<>> \in Seq(Block)
        OBVIOUS
      <4>5. image' \in Seq(Block)
        BY <4>1, <4>4 DEF ImageOK
      <4>6. at' \in Nat
        BY <4>1 DEF ImageOK
      <4> QED
        BY <4>2, <4>3, <4>5, <4>6 DEF ImageOK
    <3> QED
      BY <1>1, <3>1, <3>2, <3>3, <3>4
  <2> QED
    BY <2>1, <2>2, <2>3
<1>2. CASE EnableFeature
  <2>1. Len(boxes) \in 1 .. Len(Features)
    BY <1>2 DEF EnableFeature, ImageOK
  <2>2. Features[Len(boxes)] \in FeatureKey
    BY <2>1 DEF FeatureKey
  <2>3. boxes' \in Seq(FeatureKey \cup {"db"}) /\ Len(boxes') > 0
    BY <1>2, <2>1, <2>2 DEF EnableFeature, RegisterLoadStore, ImageOK
  <2>4. ImageOK'
    BY <1>2, <2>3 DEF EnableFeature, ImageOK
  <2> QED
    BY <1>2, <2>4 DEF EnableFeature, dataVars, DataOK, SensorsOK, NothingBuilt
<1>3. CASE LoadBlock
  <2>1. image[at] \in Block /\ pc' = pc /\ pc = "load"
    BY <1>3 DEF LoadBlock, ImageOK
  <2>2. \A s \in Sensor : sensors[s].status = {}
    BY <2>1 DEF NothingBuilt, Starting
  <2>3. CASE image[at].key = "db" /\ DbLoad(image[at].data)
    <3>1. save' \in Saved
      BY <2>1, <2>3 DEF DbLoad, Block, FeatureKey
    <3>2. \A s \in Sensor : sensors'[s] \in Held /\ sensors'[s].status = {}
      <4> SUFFICES ASSUME NEW s \in Sensor PROVE sensors'[s] \in Held /\ sensors'[s].status = {}
        OBVIOUS
      <4>1. sensors[s] \in Held
        BY DEF DataOK, SensorsOK
      <4>2. s \in Motion => save'.accuracy[s] \in Accuracy
        BY <3>1 DEF Saved
      <4>3. sensors'[s] = IF s \in Motion THEN [sensors[s] EXCEPT !.accuracy = save'.accuracy[s]]
                                          ELSE sensors[s]
        BY <2>3 DEF DbLoad
      <4> QED
        BY <2>2, <4>1, <4>2, <4>3 DEF Held
    <3>3. SensorsOK' /\ NothingBuilt'
      BY <2>3, <3>2 DEF DbLoad, SensorsOK, Uses, NothingBuilt, Sensor
    <3>4. DataOK'
      BY <1>3, <3>1, <3>3 DEF LoadBlock, DataOK
    <3>5. ImageOK'
      BY <1>3, <2>1, <2>3 DEF LoadBlock, DbLoad, ImageOK
    <3> QED
      BY <3>3, <3>4, <3>5
  <2>4. CASE image[at].key # "db" /\ UNCHANGED <<save, sensors, rh>>
    <3>1. image[at].data \in {0, 1}
      BY <2>1, <2>4 DEF Block
    <3>2. learnt' \in [FeatureKey -> {0, 1}]
      BY <1>3, <2>4, <3>1 DEF LoadBlock, ImageOK
    <3>3. ImageOK'
      BY <1>3, <2>1, <3>2 DEF LoadBlock, ImageOK
    <3> QED
      BY <1>3, <2>1, <2>4, <3>3 DEF LoadBlock, DataOK, SensorsOK, NothingBuilt
  <2> QED
    BY <1>3, <2>3, <2>4 DEF LoadBlock
<1> QED
  BY <1>1, <1>2, <1>3

\* saving: an image is put together block by block, then written or cut off
LEMMA StoreKeeps ==
    ASSUME CInv, Store \/ SaveBiases \/ SaveAccuracies \/ SaveFeature \/ Truncate \/ Write
    PROVE  CInv'
<1> USE DEF CInv
<1>1. UNCHANGED <<sensors, save, softIron, dir, boxes, learnt>>
  BY DEF Store, SaveBiases, SaveAccuracies, SaveFeature, Truncate, Write, StoreStep, dataVars
<1>2. DataOK'
  BY <1>1 DEF DataOK, SensorsOK
<1>3. pc' \notin Starting /\ pc' # "features"
  BY DEF Store, SaveBiases, SaveAccuracies, SaveFeature, Truncate, Write, Starting
<1>4. <<>> \in Seq(Block)
  OBVIOUS
<1>5. ImageOK'
  <2>1. CASE Store
    BY <1>1, <1>4, <2>1 DEF Store, ImageOK
  <2>2. CASE SaveBiases
    <3> DEFINE b == [key |-> "db", data |-> save]
    <3>1. b \in Block
      BY DEF DataOK, Block
    <3>2. image' = Append(image, b) /\ Len(image) = at - 1 /\ at' = at
      BY <2>2 DEF SaveBiases, ImageOK
    <3>3. image' \in Seq(Block) /\ Len(image') = at /\ image'[at] = b
      BY <3>1, <3>2 DEF ImageOK
    <3>4. at > 0 /\ pc' = "accuracies" /\ files' = files
      BY <2>2 DEF SaveBiases, ImageOK
    <3> QED
      BY <1>1, <3>2, <3>3, <3>4 DEF ImageOK
  <2>3. CASE SaveAccuracies
    <3>1. Len(image) = at /\ at > 0 /\ image[at] \in Block /\ image[at].key = "db"
      BY <2>3 DEF SaveAccuracies, ImageOK
    <3>2. image[at] \in [key : {"db"}, data : Saved]
      BY <3>1 DEF Block, FeatureKey
    <3>3. [image[at] EXCEPT !.data.accuracy = save.accuracy] \in Block
      BY <3>2 DEF Block, DataOK, Saved
    <3>4. image' = [image EXCEPT ![at] = [image[at] EXCEPT !.data.accuracy = save.accuracy]]
      BY <2>3 DEF SaveAccuracies
    <3>5. image' \in Seq(Block) /\ Len(image') = Len(image)
      BY <3>1, <3>3, <3>4 DEF ImageOK
    <3>6. at' = at + 1 /\ pc' = "save" /\ files' = files
      BY <2>3 DEF SaveAccuracies
    <3> QED
      BY <1>1, <3>1, <3>5, <3>6 DEF ImageOK
  <2>4. CASE SaveFeature
    <3> DEFINE b == [key |-> boxes[at], data |-> learnt[boxes[at]]]
    <3>1. boxes[at] \in FeatureKey
      BY <2>4 DEF SaveFeature, ImageOK
    <3>2. b \in Block
      BY <3>1 DEF Block, ImageOK
    <3>3. image' = Append(image, b) /\ Len(image) = at - 1
      BY <2>4 DEF SaveFeature, ImageOK
    <3>4. image' \in Seq(Block) /\ Len(image') = at
      BY <3>2, <3>3 DEF ImageOK
    <3>5. at' = at + 1 /\ pc' = "save" /\ files' = files
      BY <2>4 DEF SaveFeature
    <3> QED
      BY <1>1, <3>4, <3>5 DEF ImageOK
  <2>5. CASE Truncate \/ Write
    <3>1. Empty \in FileSet /\ Part \in FileSet /\ File("whole", image) \in FileSet
      BY <1>4 DEF Empty, Part, File, FileSet, ImageOK
    <3>2. files' \in [Directory -> FileSet]
      BY <2>5, <3>1 DEF Truncate, Write, ImageOK
    <3>3. (image' = image \/ image' = <<>>) /\ at' \in {at, 0}
      BY <2>5 DEF Truncate, Write
    <3>4. image' \in Seq(Block)
      BY <1>4, <3>3 DEF ImageOK
    <3>5. at' \in Nat
      BY <3>3 DEF ImageOK
    <3>6. pc' \in {"write", "running"}
      BY <2>5 DEF Truncate, Write
    <3> QED
      BY <1>1, <3>2, <3>4, <3>5, <3>6 DEF ImageOK
  <2> QED
    BY <2>1, <2>2, <2>3, <2>4, <2>5
<1> QED
  BY <1>2, <1>3, <1>5 DEF NothingBuilt

LEMMA CrashKeeps == ASSUME CInv, Crash PROVE CInv'
<1> USE DEF CInv
<1>1. \A s \in Sensor : Cleared(s) \in Held /\ Cleared(s).status = {}
  BY DEF Cleared, Held, Plain, Reading, Accuracy, Flag
<1>2. DataOK' /\ NothingBuilt'
  BY <1>1 DEF Crash, ClearMemory, DataOK, SensorsOK, Saved, Soft, ResetSoftIron, Uses, Sensor,
              Motion, Accuracy, Reading, Degree27, NothingBuilt
<1>3. Part \in FileSet
  BY DEF Part, File, FileSet
<1>4. files' \in [Directory -> FileSet]
  BY <1>3 DEF Crash, ImageOK
<1>5. ImageOK'
  BY <1>4 DEF Crash, ImageOK, Directory, Unlearnt
<1> QED
  BY <1>2, <1>5

LEMMA CInvStep == CInv /\ [Next]_vars => CInv'
<1> SUFFICES ASSUME CInv, [Next]_vars PROVE CInv'
  OBVIOUS
<1>1. CASE UNCHANGED vars
  BY <1>1 DEF vars, dataVars, fileVars, CInv, DataOK, SensorsOK, ImageOK, NothingBuilt
<1>2. CASE Next
  BY <1>2, PollKeeps, BootKeeps, StoreKeeps, CrashKeeps DEF Next
<1> QED
  BY <1>1, <1>2

(* data_builder.c: at every step of every execution calibrated data are the *)
(* last reading less the bias in force.                                     *)
THEOREM CalibrationInForce == Spec => []CalibratedUsesBias
<1>1. CInv => CalibratedUsesBias
  BY DEF CInv, DataOK, SensorsOK, Uses, CalibratedUsesBias
<1> QED
  BY <1>1, CInvInit, CInvStep, PTL DEF Spec

-----------------------------------------------------------------------------
(* Messages of motion.                                                     *)

Results == [gam : Quat, correction : Quat, nav : Quat \X Quat,
            status : SUBSET {"sixAxisQuatSet", "compassCorrectionSet"},
            motion : MotionState, counter : Int, compassBias : BOOLEAN]

MInv == rh \in Results /\ MessageIsCurrent

LEMMA MInvInit == Init => MInv
  BY ResultsAssumption DEF Init, MessageInit, ResultsInit, MInv, Results, MotionState, Product,
     MessageIsCurrent

\* only a change of the state of motion sends its message, and it takes back the other one
LEMMA MotionFoundOK ==
    ASSUME MInv, MotionFound
    PROVE  MInv'
<1> PICK state \in {"motion", "noMotion"} : SetMotionState(state)
  BY DEF MotionFound
<1>1. rh \in Results
  BY DEF MInv
<1>2. CASE state = rh.motion
  <2> DEFINE c == IF state # "noMotion" THEN 0
                  ELSE IF rh.counter < MaxCounter THEN rh.counter + 1 ELSE rh.counter
  <2>1. c \in Int
    BY <1>1 DEF Results
  <2>2. rh' = [rh EXCEPT !.counter = c] /\ message' = message
    BY <1>2 DEF SetMotionState
  <2> HIDE DEF c
  <2>3. rh' \in Results /\ rh'.motion = rh.motion
    BY <1>1, <2>1, <2>2 DEF Results
  <2> QED
    BY <2>2, <2>3 DEF MInv, MessageIsCurrent
<1>3. CASE state # rh.motion
  <2>1. rh' = [rh EXCEPT !.counter = 0, !.motion = state]
    BY <1>3 DEF SetMotionState
  <2>2. state \in MotionState /\ 0 \in Int
    BY DEF MotionState
  <2>3. rh' \in Results /\ rh'.motion = state
    BY <1>1, <2>1, <2>2 DEF Results
  <2>4. message' = (message \ {"motion", "noMotion"}) \cup {state}
    BY <1>3 DEF SetMotionState, SetMessage
  <2> QED
    BY <2>3, <2>4 DEF MInv, MessageIsCurrent
<1> QED
  BY <1>2, <1>3

LEMMA MInvStep == MInv /\ [Next]_vars => MInv'
<1> SUFFICES ASSUME MInv, [Next]_vars PROVE MInv'
  OBVIOUS
<1>1. CASE MotionFound
  BY <1>1, MotionFoundOK
<1>2. CASE BiasLearnt \/ AccuracyLearnt
  <2>1. rh' = rh /\ message' \subseteq message \cup {"newGyroBias", "newCompassBias", "newAccelBias"}
    BY <1>2 DEF BiasLearnt, AccuracyLearnt, SetGyroBias, SetAccelBias, SetAccelBiasMask,
                SetCompassBias, SetAccelAccuracy, SetMessage
  <2> QED
    BY <2>1 DEF MInv, MessageIsCurrent
<1>3. CASE Sampled \/ FeatureLearns \/ TakeTcSet \/ Disturbed \/ SoftIronSet \/ SensorOff
  BY <1>3 DEF Sampled, FeatureLearns, TakeTcSet, Disturbed, SoftIronSet, SensorOff, MInv,
              MessageIsCurrent
<1>4. CASE MessagesTaken
  BY <1>4 DEF MessagesTaken, TakeMessages, MInv, MessageIsCurrent
<1>5. CASE Boot \/ EnableFeature \/ CopyCal \/ ReadCal \/ CheckImage \/ LoadEnd
  BY <1>5 DEF Boot, EnableFeature, CopyCal, ReadCal, CheckImage, LoadEnd, MInv, MessageIsCurrent
<1>6. CASE LoadBlock
  <2>1. message' = message /\ (rh' = rh \/ rh' = [rh EXCEPT !.compassBias = TRUE])
    BY <1>6 DEF LoadBlock, DbLoad, SetCompassBiasFound
  <2>2. rh' \in Results /\ rh'.motion = rh.motion
    BY <2>1 DEF MInv, Results
  <2> QED
    BY <2>1, <2>2 DEF MInv, MessageIsCurrent
<1>7. CASE Store \/ SaveBiases \/ SaveAccuracies \/ SaveFeature \/ Truncate \/ Write
  BY <1>7 DEF Store, SaveBiases, SaveAccuracies, SaveFeature, Truncate, Write, StoreStep, MInv,
              MessageIsCurrent
<1>8. CASE Crash
  BY <1>8, ResultsAssumption DEF Crash, ClearMemory, MInv, Results, MotionState, Product,
                                 MessageIsCurrent
<1>9. CASE UNCHANGED vars
  BY <1>9 DEF vars, MInv, MessageIsCurrent
<1> QED
  BY <1>1, <1>2, <1>3, <1>4, <1>5, <1>6, <1>7, <1>8, <1>9 DEF Next

(* results_holder.c: a message of motion that waits is about the state of  *)
(* motion there is, whatever came in between.                              *)
THEOREM WaitingMessageIsCurrent == Spec => []MessageIsCurrent
<1>1. MInv => MessageIsCurrent
  BY DEF MInv
<1> QED
  BY <1>1, MInvInit, MInvStep, PTL DEF Spec

-----------------------------------------------------------------------------
(* The round trip.  A file that is whole starts with the block of the data *)
(* builder; while it is loaded, a block holds what the part of the image   *)
(* that is behind has for it, or what memory was cleared to.               *)

Behind(key) == {i \in DOMAIN image : i < at /\ image[i].key = key}
Restored(key) ==
    IF Behind(key) = {} THEN key # "db" => learnt[key] = 0
                        ELSE \E i \in Behind(key) : Memory(key) = image[i].data
StartsWithDb(im) == Len(im) > 0 /\ im[1].key = "db"

FilesOK  == \A d \in Directory : files[d].size = "whole" => StartsWithDb(files[d].image)
BoxesOK  == pc # "off" => Len(boxes) > 0 /\ boxes[1] = "db"
SavingOK == /\ pc = "save" /\ at > 1 => image[1].key = "db"
            /\ pc = "accuracies" => image[1].key = "db"
            /\ pc = "write" => StartsWithDb(image)
LoadOK   == /\ pc \in Starting \ {"load"} => learnt = Unlearnt
            /\ pc \in {"check", "load"} => image = files[dir].image
            /\ pc = "load" => files[dir].size = "whole" /\ at > 0
            /\ pc = "load" =>
                  \A key \in FeatureKey \cup {"db"} : FindEntry(key) => Restored(key)

TripInv == CInv /\ FilesOK /\ BoxesOK /\ SavingOK /\ LoadOK

LEMMA TripInit == Init => TripInv
<1> SUFFICES ASSUME Init PROVE TripInv
  OBVIOUS
<1>1. FilesOK /\ BoxesOK /\ SavingOK /\ LoadOK
  BY DEF Init, FilesOK, BoxesOK, SavingOK, LoadOK, Missing, File
<1> QED
  BY <1>1, CInvInit DEF TripInv

\* what is not loading or saving touches none of this
LEMMA TripPoll ==
    ASSUME TripInv,
           \/ Sampled \/ BiasLearnt \/ AccuracyLearnt \/ FeatureLearns \/ TakeTcSet
           \/ Disturbed \/ SoftIronSet \/ MotionFound \/ MessagesTaken \/ SensorOff
    PROVE  FilesOK' /\ BoxesOK' /\ SavingOK' /\ LoadOK'
<1>1. UNCHANGED <<pc, dir, files, boxes, image, at>> /\ pc \notin Starting
  BY DEF Sampled, BiasLearnt, AccuracyLearnt, FeatureLearns, TakeTcSet, Disturbed, SoftIronSet,
         MotionFound, MessagesTaken, SensorOff, Call, Polled, fileVars, Starting
<1> QED
  BY <1>1 DEF TripInv, FilesOK, BoxesOK, SavingOK, LoadOK, Starting

LEMMA TripBoot ==
    ASSUME TripInv, Boot \/ EnableFeature \/ CopyCal \/ ReadCal \/ LoadEnd
    PROVE  FilesOK' /\ BoxesOK' /\ SavingOK' /\ LoadOK'
<1> USE DEF TripInv
<1>1. CASE Boot
  BY <1>1 DEF Boot, FilesOK, BoxesOK, SavingOK, LoadOK, Starting
<1>2. CASE EnableFeature
  <2>1. boxes \in Seq(FeatureKey \cup {"db"}) /\ Len(boxes) > 0 /\ boxes[1] = "db"
    BY <1>2 DEF EnableFeature, CInv, ImageOK, BoxesOK
  <2>2. Len(boxes') > 0 /\ boxes'[1] = "db"
    BY <1>2, <2>1 DEF EnableFeature, RegisterLoadStore
  <2> QED
    BY <1>2, <2>2 DEF EnableFeature, FilesOK, BoxesOK, SavingOK, LoadOK, Starting
<1>3. CASE CopyCal
  <2>1. files' = files \/ files' = [files EXCEPT ![dir] = Empty]
    BY <1>3 DEF CopyCal
  <2>2. FilesOK'
    <3>1. Empty.size # "whole" /\ files \in [Directory -> FileSet]
      BY DEF Empty, File, CInv, ImageOK
    <3>2. \A d \in Directory : files'[d] = files[d] \/ files'[d].size # "whole"
      BY <2>1, <3>1
    <3> QED
      BY <3>2 DEF FilesOK
  <2>3. pc = "features" /\ pc' \in {"read", "running"} /\ UNCHANGED <<boxes, learnt>>
    BY <1>3 DEF CopyCal
  <2> QED
    BY <2>2, <2>3 DEF BoxesOK, SavingOK, LoadOK, Starting
<1>4. CASE ReadCal
  BY <1>4 DEF ReadCal, FilesOK, BoxesOK, SavingOK, LoadOK, Starting
<1>5. CASE LoadEnd
  BY <1>5 DEF LoadEnd, FilesOK, BoxesOK, SavingOK, LoadOK, Starting
<1> QED
  BY <1>1, <1>2, <1>3, <1>4, <1>5

\* nothing is behind when loading begins
LEMMA TripCheck ==
    ASSUME TripInv, CheckImage
    PROVE  FilesOK' /\ BoxesOK' /\ SavingOK' /\ LoadOK'
<1> USE DEF TripInv
<1>1. FilesOK' /\ BoxesOK' /\ SavingOK'
  BY DEF CheckImage, FilesOK, BoxesOK, SavingOK
<1>2. CASE files[dir].size = "whole"
  <2>1. pc' = "load" /\ at' = 1 /\ UNCHANGED <<dir, files, boxes, learnt, image, save>>
    BY <1>2 DEF CheckImage, dataVars
  <2>2. image \in Seq(Block) /\ boxes \in Seq(FeatureKey \cup {"db"})
    BY DEF CInv, ImageOK
  <2>3. \A key : Behind(key)' = {}
    BY <2>1, <2>2 DEF Behind
  <2>4. learnt = Unlearnt
    BY DEF CheckImage, LoadOK, Starting
  <2>5. \A key \in FeatureKey \cup {"db"} : Restored(key)'
    BY <2>1, <2>3, <2>4 DEF Restored, Unlearnt
  <2> QED
    BY <1>1, <1>2, <2>1, <2>5 DEF CheckImage, LoadOK, Starting
<1>3. CASE files[dir].size # "whole"
  BY <1>1, <1>3 DEF CheckImage, LoadOK, Starting
<1> QED
  BY <1>2, <1>3

\* a block that is loaded is behind from then on; the others stay as they were
LEMMA TripLoad ==
    ASSUME TripInv, LoadBlock
    PROVE  FilesOK' /\ BoxesOK' /\ SavingOK' /\ LoadOK'
<1> USE DEF TripInv
<1>1. /\ UNCHANGED <<pc, dir, files, boxes, image>>
      /\ pc = "load" /\ at \in DOMAIN image /\ at' = at + 1
  BY DEF LoadBlock
<1>2. FilesOK' /\ BoxesOK' /\ SavingOK'
  BY <1>1 DEF FilesOK, BoxesOK, SavingOK
<1>3. image \in Seq(Block) /\ boxes \in Seq(FeatureKey \cup {"db"}) /\ at \in Nat
  BY DEF CInv, ImageOK
<1>4. ASSUME NEW key PROVE Behind(key)' = Behind(key) \cup (IF image[at].key = key THEN {at} ELSE {})
  BY <1>1, <1>3 DEF Behind
<1>5. ASSUME NEW key \in FeatureKey \cup {"db"}, FindEntry(key)
      PROVE  Restored(key)'
  <2>1. Restored(key)
    BY <1>1, <1>5 DEF LoadOK
  <2>2. CASE image[at].key = key
    <3>1. Memory(key)' = image[at].data
      <4>1. CASE key = "db"
        BY <2>2, <4>1 DEF LoadBlock, DbLoad, Memory
      <4>2. CASE key # "db"
        BY <1>5, <2>2, <4>2 DEF LoadBlock, Memory, CInv, ImageOK
      <4> QED
        BY <4>1, <4>2
    <3>2. at \in Behind(key)'
      BY <1>4, <2>2
    <3> QED
      BY <1>1, <3>1, <3>2 DEF Restored
  <2>3. CASE image[at].key # key
    <3>1. Memory(key)' = Memory(key) /\ (key # "db" => learnt'[key] = learnt[key])
      <4>1. CASE key = "db"
        BY <2>3, <4>1 DEF LoadBlock, Memory
      <4>2. CASE key # "db"
        BY <1>5, <2>3, <4>2 DEF LoadBlock, DbLoad, Memory, CInv, ImageOK
      <4> QED
        BY <4>1, <4>2
    <3>2. Behind(key)' = Behind(key)
      BY <1>4, <2>3
    <3> QED
      BY <1>1, <2>1, <3>1, <3>2 DEF Restored
  <2> QED
    BY <2>2, <2>3
<1>6. LoadOK'
  <2>1. \A key : FindEntry(key)' <=> FindEntry(key)
    BY <1>1 DEF FindEntry
  <2>2. \A key \in FeatureKey \cup {"db"} : FindEntry(key)' => Restored(key)'
    BY <1>5, <2>1
  <2> QED
    BY <1>1, <1>3, <2>2 DEF LoadOK, Starting
<1> QED
  BY <1>2, <1>6

\* the block of the data builder is the first to be put into an image, and nothing replaces it
LEMMA TripStore ==
    ASSUME TripInv, Store \/ SaveBiases \/ SaveAccuracies \/ SaveFeature \/ Truncate \/ Write
    PROVE  FilesOK' /\ BoxesOK' /\ SavingOK' /\ LoadOK'
<1> USE DEF TripInv
<1>1. UNCHANGED <<dir, boxes>> /\ pc # "off" /\ pc' \notin Starting
  BY DEF Store, SaveBiases, SaveAccuracies, SaveFeature, Truncate, Write, StoreStep, Starting
<1>2. BoxesOK' /\ LoadOK'
  BY <1>1 DEF BoxesOK, LoadOK, Starting
<1>3. image \in Seq(Block) /\ at \in Nat /\ files \in [Directory -> FileSet]
  BY DEF CInv, ImageOK
<1>4. CASE Store
  BY <1>2, <1>4 DEF Store, FilesOK, SavingOK
<1>5. CASE SaveBiases
  <2>1. Len(image) = at - 1 /\ image' = Append(image, [key |-> "db", data |-> save])
    BY <1>5 DEF SaveBiases, CInv, ImageOK
  <2>2. image'[1].key = "db"
    BY <1>3, <1>5, <2>1 DEF SaveBiases, SavingOK
  <2> QED
    BY <1>2, <1>5, <2>2 DEF SaveBiases, FilesOK, SavingOK
<1>6. CASE SaveAccuracies
  <2>1. Len(image) = at /\ at > 0 /\ image[1].key = "db"
    BY <1>6 DEF SaveAccuracies, CInv, ImageOK, SavingOK
  <2>2. image[at] \in Block /\ image[1] \in Block
    BY <1>3, <2>1
  <2>3. image'[1].key = "db"
    BY <1>3, <1>6, <2>1, <2>2 DEF SaveAccuracies, Block
  <2> QED
    BY <1>2, <1>6, <2>3 DEF SaveAccuracies, FilesOK, SavingOK
<1>7. CASE SaveFeature
  <2>1. Len(image) = at - 1 /\ at # 1
    BY <1>7 DEF SaveFeature, CInv, ImageOK, BoxesOK
  <2>2. image[1].key = "db" /\ Len(image) > 0
    BY <1>3, <1>7, <2>1 DEF SaveFeature, SavingOK
  <2>3. image'[1].key = "db"
    BY <1>3, <1>7, <2>2 DEF SaveFeature
  <2> QED
    BY <1>2, <1>7, <2>3 DEF SaveFeature, FilesOK, SavingOK
<1>8. CASE Truncate
  <2>1. boxes \in Seq(FeatureKey \cup {"db"}) /\ Len(boxes) > 0 /\ Len(image) = at - 1
    BY <1>8 DEF Truncate, CInv, ImageOK, BoxesOK
  <2>2. StartsWithDb(image)
    BY <1>3, <1>8, <2>1 DEF Truncate, SavingOK, StartsWithDb
  <2>3. Empty.size # "whole"
    BY DEF Empty, File
  <2>4. FilesOK'
    <3>1. files' = files \/ files' = [files EXCEPT ![dir] = Empty]
      BY <1>8 DEF Truncate
    <3>2. \A d \in Directory : files'[d] = files[d] \/ files'[d].size # "whole"
      BY <1>3, <2>3, <3>1
    <3> QED
      BY <3>2 DEF FilesOK
  <2>5. SavingOK'
    BY <1>8, <2>2 DEF Truncate, SavingOK
  <2> QED
    BY <1>2, <2>4, <2>5
<1>9. CASE Write
  <2>1. StartsWithDb(image) /\ pc' = "running"
    BY <1>9 DEF Write, SavingOK
  <2>2. PICK f \in {Part, File("whole", image)} : files' = [files EXCEPT ![dir] = f]
    BY <1>9 DEF Write
  <2>3. f.size = "whole" => StartsWithDb(f.image)
    BY <2>1, <2>2 DEF Part, File
  <2>4. \A d \in Directory : files'[d] = files[d] \/ files'[d] = f
    BY <1>3, <2>2
  <2>5. FilesOK'
    BY <2>3, <2>4 DEF FilesOK
  <2> QED
    BY <1>2, <2>1, <2>5 DEF SavingOK
<1> QED
  BY <1>4, <1>5, <1>6, <1>7, <1>8, <1>9

LEMMA TripCrash == ASSUME TripInv, Crash PROVE FilesOK' /\ BoxesOK' /\ SavingOK' /\ LoadOK'
<1> USE DEF TripInv
<1>1. files \in [Directory -> FileSet] /\ Part.size # "whole"
  BY DEF CInv, ImageOK, Part, File
<1>2. files' = files \/ files' = [files EXCEPT ![dir] = Part]
  BY DEF Crash
<1>3. \A d \in Directory : files'[d] = files[d] \/ files'[d].size # "whole"
  BY <1>1, <1>2
<1>4. FilesOK'
  BY <1>3 DEF FilesOK
<1> QED
  BY <1>4 DEF Crash, BoxesOK, SavingOK, LoadOK, Starting

LEMMA TripStep == TripInv /\ [Next]_vars => TripInv'
<1> SUFFICES ASSUME TripInv, [Next]_vars PROVE TripInv'
  OBVIOUS
<1>1. CInv'
  BY CInvStep DEF TripInv
<1>2. CASE UNCHANGED vars
  <2>1. UNCHANGED <<pc, dir, files, boxes, learnt, image, at, save>>
    BY <1>2 DEF vars, dataVars, fileVars
  <2>2. FilesOK' /\ BoxesOK' /\ SavingOK'
    BY <2>1 DEF TripInv, FilesOK, BoxesOK, SavingOK
  <2>3. LoadOK'
    BY <2>1 DEF TripInv, LoadOK, Restored, Behind, Memory, FindEntry
  <2> QED
    BY <1>1, <2>2, <2>3 DEF TripInv
<1>3. CASE Next
  BY <1>1, <1>3, TripPoll, TripBoot, TripCheck, TripLoad, TripStore, TripCrash DEF Next, TripInv
<1> QED
  BY <1>2, <1>3

(* storage_manager.c, ml_stored_data.c: wherever the process ended, a life   *)
(* of the process starts from the image in its directory, block by block, if *)
(* the last write of it was whole, and from cleared memory if it was cut off *)
(* or a block is not in it.                                                  *)
THEOREM CalibrationRoundTrip == Spec => RoundTrip
<1>1. ASSUME TripInv, LoadEnd, NEW k \in DOMAIN boxes
      PROVE  IF Stored(boxes[k]) = {} THEN boxes[k] # "db" /\ Memory(boxes[k]) = 0
             ELSE Memory(boxes[k]) \in Stored(boxes[k])
  <2> DEFINE key == boxes[k]
  <2>1. /\ image = files[dir].image /\ files[dir].size = "whole" /\ StartsWithDb(image)
        /\ image \in Seq(Block) /\ at = Len(image) + 1
    BY <1>1 DEF LoadEnd, TripInv, LoadOK, FilesOK, CInv, ImageOK
  <2>2. Restored(key)
    <3>1. boxes[k] \in FeatureKey \cup {"db"} /\ FindEntry(boxes[k])
      BY <1>1 DEF TripInv, CInv, ImageOK, FindEntry
    <3> QED
      BY <1>1, <3>1 DEF LoadEnd, TripInv, LoadOK
  <2>3. Behind(key) = {i \in DOMAIN image : image[i].key = key}
    BY <2>1 DEF Behind
  <2>4. Stored(key) = {image[i].data : i \in Behind(key)}
    BY <2>1, <2>3 DEF Stored
  <2>5. key = "db" => 1 \in Behind(key)
    BY <2>1, <2>3 DEF StartsWithDb
  <2>6. Stored(key) = {} <=> Behind(key) = {}
    BY <2>4
  <2>7. CASE Behind(key) = {}
    BY <2>2, <2>5, <2>6, <2>7 DEF Restored, Memory
  <2>8. CASE Behind(key) # {}
    BY <2>2, <2>4, <2>6, <2>8 DEF Restored
  <2> QED
    BY <2>7, <2>8
<1>2. TripInv => (LoadEnd => \A k \in DOMAIN boxes :
          IF Stored(boxes[k]) = {} THEN boxes[k] # "db" /\ Memory(boxes[k]) = 0
          ELSE Memory(boxes[k]) \in Stored(boxes[k]))
  BY <1>1
<1> QED
  BY <1>2, TripInit, TripStep, PTL DEF Spec, RoundTrip
=============================================================================
