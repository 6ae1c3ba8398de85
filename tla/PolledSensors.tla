---------------------------- MODULE PolledSensors ----------------------------
(***************************************************************************)
(* One light or proximity driver without an input device: the classes of   *)
(* drivers/sensors/lightsensor.cpp, max44005.cpp and ltr558als.cpp, which  *)
(* the T124 HAL makes, and those of cm3218.cpp, tcs3772.cpp and            *)
(* isl29018.cpp.  A thread of the framework calls enable and setDelay,     *)
(* the thread in pollEvents calls readEvents (SensorPoll), with no lock.   *)
(*                                                                         *)
(* Every class looks at a sysfs file when a delay has passed and reports   *)
(* what it reads if that is news.  They differ in the files enable writes, *)
(* in what counts as news, and in when the delay begins again.             *)
(***************************************************************************)
EXTENDS Integers, FiniteSets

CONSTANTS
    Classes,        \* the classes of this instance
    Readings,       \* what the raw file may say
    ProxThresholds, \* values of mProxThreshold
    LtrThreshold,   \* ltr558Prox: the threshold for a least reading; with none, the file's
    UINT_MAX,       \* also IGNORE_PROX_THRESH
    MaxFailures     \* BOUND: reads and writes of files that fail

OfBase   == {"AmbientLightSensor", "ProximitySensor"}
InSteps  == {"Cm3218Light", "Tcs3772Light", "Tcs3772Prox"}
OfMax    == {"Max44005Light", "Max44005Prox"}
OfLtr    == {"ltr558Light", "ltr558Prox"}
OfIsl    == {"Isl29018Light", "Isl29018Prox"}
Lights   == {"AmbientLightSensor", "Cm3218Light", "Tcs3772Light", "Max44005Light",
             "ltr558Light", "Isl29018Light"}

ASSUME PolledAssumption ==
    /\ Classes \subseteq OfBase \cup InSteps \cup OfMax \cup OfLtr \cup OfIsl
    /\ Readings \subseteq Nat /\ 0 \in Readings
    /\ LtrThreshold \in [Readings \cup {UINT_MAX} -> Nat]
    /\ \A v \in Readings : v < UINT_MAX
    /\ MaxFailures \in Nat

VARIABLES
    device,          \* its class, threshold and the files it has found
    power,           \* files that hold a 1
    mEnabled,
    mLastValue,
    due,             \* mPollingDelay has passed since mLastns
    minValue,        \* ltr558Prox
    mAlready_warned, \* ltr558Prox, Isl29018Prox
    reading,         \* what the raw file says
    ctl,             \* the call of enable
    rd,              \* where readEvents is
    shown,           \* the last event since the sensor was enabled
    baseband,        \* the GPIO of the modem
    failures,        \* reads and writes that have failed
    writeFailed      \* history: one of them was a write of enable

reader == <<minValue, mAlready_warned, rd, baseband>>
setup  == <<device, reading>>
vars   == <<device, power, mEnabled, mLastValue, due, minValue, mAlready_warned, reading,
            ctl, rd, shown, baseband, failures, writeFailed>>

None == -1     \* mLastValue; an event that has not come
Idle == [pc |-> "idle"]

Is(classes) == device.class \in classes

-----------------------------------------------------------------------------
(* The files.  LightSensorBase takes the first directory whose compulsory  *)
(* files are there and whose files, as far as they are there, may be used. *)

Optional    == {"regulator", "enable"}
Sysfs       == Optional \cup {"raw"}          \* raw stands for all that are compulsory
Directories == [Sysfs -> {"absent", "denied", "there"}]

num_valid_sysfs(dir) ==
    Cardinality({f \in Sysfs : dir[f] = "there" \/ (dir[f] = "absent" /\ f \in Optional)})

\* a pointer to a path: the constructor sets it only if the file is there
Pointers(dir, f) == IF dir[f] = "there" THEN {"file"} ELSE {"null", "garbage"}

Found ==
    UNION {[regulator : Pointers(dir, "regulator"), enable : Pointers(dir, "enable"),
            raw : {"file"}] :
              dir \in {d \in Directories : num_valid_sysfs(d) = Cardinality(Sysfs)}}

\* the classes that are made with a threshold; ProximitySensor also without one
Thresholded == {"Tcs3772Prox", "Max44005Prox", "Isl29018Prox", "ProximitySensor"}

\* the pointers of the other classes: they name a file, or the class has none
Given(class) ==
    [regulator |-> IF class \in InSteps THEN "file" ELSE "null",
     enable    |-> IF class \in OfIsl THEN "null" ELSE "file",
     raw       |-> "file"]

Devices ==
    {[class |-> c, threshold |-> t, path |-> p, rawWritable |-> w] :
        c \in Classes, t \in ProxThresholds, w \in BOOLEAN,
        p \in Found \cup {Given(c2) : c2 \in Classes}}

Init ==
    /\ device \in {d \in Devices :
           /\ IF d.class \in OfBase THEN d.path \in Found ELSE d.path = Given(d.class)
           \* nobody asks otherwise
           /\ d.rawWritable => d.class \in OfBase /\ \A f \in Optional : d.path[f] = "null"
           /\ \/ d.threshold = UINT_MAX <=> d.class \notin Thresholded
              \/ d.class = "ProximitySensor"}
    /\ power = {}
    /\ mEnabled = FALSE
    /\ mLastValue = IF Is(InSteps) THEN 0 ELSE None
    /\ due = FALSE
    /\ minValue = UINT_MAX
    /\ mAlready_warned = FALSE
    /\ reading \in Readings
    /\ ctl = Idle
    /\ rd = Idle
    /\ shown = None
    /\ baseband = None
    /\ failures = 0
    /\ writeFailed = FALSE

-----------------------------------------------------------------------------
(* enable.                                                                 *)

\* the files of an enable; LightSensorBase writes the raw file if it has no other
Writes ==
    LET paths == {f \in Optional : device.path[f] # "null"}
    IN IF paths = {} /\ Is(OfBase) /\ device.rawWritable THEN {"raw"} ELSE paths

\* the regulator comes first on the way up and last on the way down
First == IF ctl.en THEN "regulator" ELSE "enable"

Turn(f) == ctl.pc = "write" /\ f \in ctl.todo /\ (First \in ctl.todo => f = First)

\* ltr558als and isl29018 do not ask whether that is news
Enable(en) ==
    /\ ctl = Idle
    /\ Is(OfLtr \cup OfIsl) \/ en # mEnabled
    /\ ctl' = [pc |-> "write", en |-> en, todo |-> Writes, ret |-> 1]
    /\ UNCHANGED <<setup, reader, power, mEnabled, mLastValue, due, shown, failures, writeFailed>>

Written(f, ret) ==
    ctl' = [ctl EXCEPT !.todo = @ \ {f}, !.ret = ret]

WriteIntToFile(f) ==
    /\ Turn(f)
    /\ device.path[f] = "file"
    /\ power' = IF ctl.en THEN power \cup {f} ELSE power \ {f}
    /\ Written(f, ctl.ret)
    /\ UNCHANGED <<setup, reader, mEnabled, mLastValue, due, shown, failures, writeFailed>>

\* a path that names no file, or a file that cannot be written
Fails(f, result) ==
    /\ IF device.path[f] = "garbage"
       THEN result = -1 /\ UNCHANGED failures
       ELSE failures < MaxFailures /\ failures' = failures + 1
    /\ writeFailed' = TRUE
    /\ UNCHANGED <<setup, reader, power, mEnabled, mLastValue, due, shown>>

\* mutant: every class goes on after a failure
WriteFails_Overlooked(f, result) ==
    /\ Turn(f)
    /\ Fails(f, result)
    /\ Written(f, IF result = 0 THEN 0 ELSE ctl.ret)

\* `ret &= -1' leaves ret as it was; a write of nothing gives 0.  The other classes return
WriteFails(f, result) ==
    /\ Turn(f)
    /\ Fails(f, result)
    /\ IF Is(OfBase) THEN Written(f, IF result = 0 THEN 0 ELSE ctl.ret) ELSE ctl' = Idle

\* nothing is known of what the sensor says, and the delay begins anew; 0 as the time of the
\* last look has passed long ago, and mPollingDelay may still be what memory held
Forget_LastKept == due' \in BOOLEAN /\ shown' = None /\ UNCHANGED mLastValue
Forget          == due' \in BOOLEAN /\ shown' = None /\ mLastValue' = None

EnableReturns ==
    /\ ctl.pc = "write" /\ ctl.todo = {}
    /\ mEnabled' = IF ctl.ret = 1 THEN ctl.en ELSE mEnabled
    /\ IF ctl.en THEN Forget ELSE UNCHANGED <<mLastValue, due, shown>>
    /\ ctl' = Idle
    /\ UNCHANGED <<setup, reader, power, failures, writeFailed>>

EnableStep ==
    \/ \E f \in Sysfs : WriteIntToFile(f) \/ \E result \in {-1, 0} : WriteFails(f, result)
    \/ EnableReturns

-----------------------------------------------------------------------------
(* readEvents.                                                             *)

\* what an event says of a reading: 0 is near, 1 is far
Distance(v) ==
    IF Is(Lights) \/ (Is({"ProximitySensor"}) /\ device.threshold = UINT_MAX) THEN v
    ELSE IF Is({"ltr558Prox"})
    THEN IF v - minValue > LtrThreshold[minValue] THEN 0 ELSE 1
    ELSE IF v > device.threshold THEN 0 ELSE 1

\* ltr558als and isl29018 keep what they have reported, not what they have read
Kept(v) == IF Is({"ltr558Prox", "Isl29018Prox"}) THEN Distance(v) ELSE v

equals(v) ==
    /\ mLastValue # None
    /\ ~Is({"AmbientLightSensor"})
    /\ Distance(v) = IF Is({"ltr558Prox", "Isl29018Prox"}) THEN mLastValue
                                                           ELSE Distance(mLastValue)

ReadEvents ==
    /\ rd = Idle
    /\ mEnabled /\ due
    /\ due' = ~Is(OfLtr \cup OfIsl)
    /\ rd' = [pc |-> "file"]
    /\ UNCHANGED <<setup, power, mEnabled, mLastValue, minValue, mAlready_warned, ctl, shown,
                   baseband, failures, writeFailed>>

Value(v) ==
    /\ minValue' = IF Is({"ltr558Prox"}) /\ v < minValue THEN v ELSE minValue
    /\ rd' = [pc |-> "compare", value |-> v]

ReadIntFromFile ==
    /\ rd.pc = "file"
    /\ Value(reading)
    /\ due' = (due /\ ~Is(OfBase))
    /\ UNCHANGED <<setup, power, mEnabled, mLastValue, mAlready_warned, ctl, shown, baseband,
                   failures, writeFailed>>

\* once ltr558Prox and Isl29018Prox have warned, a failed read counts as a reading of 0
ReadFails ==
    /\ rd.pc = "file"
    /\ failures < MaxFailures
    /\ failures' = failures + 1
    /\ IF mAlready_warned THEN Value(0) ELSE rd' = Idle /\ UNCHANGED minValue
    /\ mAlready_warned' = Is({"ltr558Prox", "Isl29018Prox"})
    /\ UNCHANGED <<setup, power, mEnabled, mLastValue, due, ctl, shown, baseband, writeFailed>>

NoNews ==
    /\ rd.pc = "compare"
    /\ equals(rd.value)
    /\ rd' = Idle
    /\ UNCHANGED <<setup, power, mEnabled, mLastValue, due, minValue, mAlready_warned, ctl, shown,
                   baseband, failures, writeFailed>>

News ==
    /\ rd.pc = "compare"
    /\ ~equals(rd.value)
    /\ rd' = [pc |-> "toEvent", value |-> rd.value]
    /\ UNCHANGED <<setup, power, mEnabled, mLastValue, due, minValue, mAlready_warned, ctl, shown,
                   baseband, failures, writeFailed>>

ToEvent ==
    /\ rd.pc = "toEvent"
    /\ mLastValue' = Kept(rd.value)
    /\ due' = (due /\ ~Is(OfMax \cup InSteps))
    /\ rd' = [pc |-> "return", event |-> Distance(rd.value)]
    /\ UNCHANGED <<setup, power, mEnabled, minValue, mAlready_warned, ctl, shown, baseband,
                   failures, writeFailed>>

\* the framework has the event; ProximitySensor has told the modem of it
ReturnEvent ==
    /\ rd.pc = "return"
    /\ shown' = rd.event
    /\ baseband' = IF ~Is({"ProximitySensor"}) THEN None
                   ELSE IF rd.event > 0 THEN 1 ELSE 0
    /\ rd' = Idle
    /\ UNCHANGED <<setup, power, mEnabled, mLastValue, due, minValue, mAlready_warned, ctl,
                   failures, writeFailed>>

ReadStep ==
    ReadEvents \/ ReadIntFromFile \/ NoNews \/ News \/ ToEvent \/ ReturnEvent

-----------------------------------------------------------------------------
(* Time and the world.                                                     *)

DelayPasses ==
    /\ mEnabled /\ ~due
    /\ due' = TRUE
    /\ UNCHANGED <<setup, reader, power, mEnabled, mLastValue, ctl, shown, failures, writeFailed>>

\* a longer delay than before, after all
SetDelay ==
    /\ due
    /\ due' = FALSE
    /\ UNCHANGED <<setup, reader, power, mEnabled, mLastValue, ctl, shown, failures, writeFailed>>

ReadingChanges(v) ==
    /\ v # reading
    /\ reading' = v
    /\ UNCHANGED <<device, reader, power, mEnabled, mLastValue, due, ctl, shown, failures,
                   writeFailed>>

Next ==
    \/ \E en \in BOOLEAN : Enable(en)
    \/ EnableStep
    \/ ReadStep \/ ReadFails
    \/ DelayPasses \/ SetDelay
    \/ \E v \in Readings : ReadingChanges(v)

(* enable returns, the thread in pollEvents calls readEvents again, and    *)
(* time passes: the framework does not set the delay again for ever.       *)
Spec     == Init /\ [][Next]_vars
FairSpec == Spec /\ WF_vars(EnableStep) /\ WF_vars(ReadStep) /\ SF_vars(ReadEvents)
                 /\ WF_vars(DelayPasses)

-----------------------------------------------------------------------------
(* Properties.                                                             *)

TypeOK ==
    /\ device \in Devices
    /\ power \subseteq Sysfs
    /\ {mEnabled, due, mAlready_warned, writeFailed} \subseteq BOOLEAN
    /\ {mLastValue, shown} \subseteq Readings \cup {None, 0, 1}
    /\ minValue \in Readings \cup {UINT_MAX}
    /\ reading \in Readings
    /\ baseband \in {None, 0, 1}
    /\ failures \in 0 .. MaxFailures

\* lightsensor.cpp:186, cm3218.cpp:73: a chip is never switched on while its regulator is off,
\* and never left on by a driver that takes itself to be disabled, whichever write fails; in
\* LightSensorBase, which forgets failures, as long as none has failed.
PowerSequence ==
    (Is(OfBase) => ~writeFailed) =>
        /\ "enable" \in power /\ device.path["regulator"] = "file" => "regulator" \in power
        /\ ctl = Idle /\ ~mEnabled => power \cap {"enable", "raw"} = {}

\* lightsensor.cpp:253, max44005.cpp:78, ltr558als.cpp:222: whatever enabling, failed reads and
\* delays came before, once a sensor stays enabled and its reading stays the same the framework
\* has been told of it since it enabled the sensor, and so has the modem.
Followed ==
    \A v \in Readings :
        <>[](mEnabled /\ ctl = Idle /\ reading = v) =>
            <>[](/\ shown = Distance(v)
                 /\ Is({"ProximitySensor"}) => baseband = IF Distance(v) > 0 THEN 1 ELSE 0)
=============================================================================
