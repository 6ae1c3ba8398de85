----------------------------- MODULE MplSensor -----------------------------
(***************************************************************************)
(* MPLSensor: the motion sensors of the HAL (MPLSensor.cpp).  The control  *)
(* thread runs enable() and setDelay(), which the sensor service calls one *)
(* after the other; the poll thread runs readEvents(), and with it the     *)
(* choice of the accelerometer's rate.  enable() holds mMplMutex, under    *)
(* which the poll thread takes only its bytes: everything else of the two  *)
(* threads interleaves, on the local sensor mask, the window of the last   *)
(* acceleration values, the flag of the variable rate and the rate of the  *)
(* chip's one FIFO.                                                        *)
(*                                                                         *)
(* A sysfs write may fail, and so may the open before it.  Times are in    *)
(* milliseconds; one axis of the acceleration stands for the three.        *)
(***************************************************************************)
EXTENDS Integers, FiniteSetsExt

CONSTANTS
    Handles,            \* the sensors the sensor service uses
    Delays,             \* the delays it asks for, in ms
    IntSpan,            \* 2^32 ns, in ms: (int) keeps a delay modulo this
    MinDelay,           \* 10: 100 Hz
    DefaultPoll,        \* 40: DEFAULT_POLL_PERIOD
    IdlePoll,           \* 400: IDLE_POLL_PERIOD
    DefaultRate,        \* DEFAULT_MPL_GYRO_RATE and ..._COMPASS_RATE
    WindowSize,         \* ACCEL_WINDOW_SIZE
    Threshold,          \* ACCEL_THRESHOLD
    Positions,          \* the values the accelerometer measures
    mIntegratedAccel,   \* the accelerometer is the MPU's own
    HasCompass,         \* mCompassSensor is not NULL
    MaxCalls            \* calls of the sensor service

Fusion == {"Orientation", "RotationVector", "LinearAccel", "Gravity"}
Plain3 == [Gyro |-> "gyro", Accelerometer |-> "accel", MagneticField |-> "compass"]
Sensors == {"gyro", "accel", "compass"}

ASSUME HandlesAssumption == Handles \subseteq Fusion \cup DOMAIN Plain3
ASSUME DelaysAssumption ==
    Delays \subseteq Nat /\ {IntSpan, MinDelay, DefaultPoll, IdlePoll, WindowSize} \subseteq Nat \ {0}
ASSUME PositionsAssumption ==
    Positions \subseteq Int /\ \E a, b \in Positions : \A v \in Positions : a <= v /\ v <= b
ASSUME CompassAssumption == HasCompass \in BOOLEAN

VARIABLES
    cpc,        \* where the control thread is
    call,       \* its call: what, on or off, whether every write worked, storing failed
    calls,      \* how many calls it has made
    wanted,     \* the delay update_delay() has found
    lock,       \* mMplMutex is the control thread's
    mEnabled, mLocalSensorMask, mDelays,
    fifo,       \* what ..._fifo_enable of each sensor says
    on,         \* the status the motion library has of each sensor
    gyroRate,   \* the gyro's sample rate in the motion library
    bandwidth,  \* its accelerometer bandwidth is known
    mAccelVariableRate, mPollPeriod,
    mHaveGoodMpuCal,
    stored,     \* this call has stored the calibration
    mAccelWindow, mAccelWindowIndex, mWindowFull, mAccelWindowSum,
    ppc, frame, \* where the poll thread is and what it has yet to build
    position,   \* what the accelerometer measured last
    torn,       \* the sum of the window was never set, or reset amid an update
    late        \* sensors built by a sample that was tested before the mask changed

controlVars == <<cpc, call, calls, wanted, lock>>
powerVars == <<fifo, on, stored>>
rateVars == <<gyroRate, bandwidth, mAccelVariableRate, mPollPeriod>>
windowVars == <<mAccelWindow, mAccelWindowIndex, mWindowFull, mAccelWindowSum>>
pollVars == <<ppc, frame, position>>
calVars == <<mHaveGoodMpuCal>>
requestVars == <<mEnabled, mLocalSensorMask, mDelays>>
ghosts == <<torn, late>>
vars == <<controlVars, powerVars, rateVars, windowVars, pollVars, calVars, requestVars, ghosts>>

NoCall == [what |-> "none", en |-> FALSE, ok |-> TRUE, good |-> FALSE, saveFailed |-> FALSE]

Window == 0 .. WindowSize - 1
Garbage == WindowSize * (Max(Positions) + Threshold + 1)

(* The poll thread is between reading the flag of the variable rate and    *)
(* the end of updateAccelWindow().                                         *)
InWindow == ppc \in {"window", "decide", "idleRate", "fastReset", "fastRate"}

Init ==
    /\ cpc = "idle" /\ call = NoCall
    /\ calls = 0 /\ wanted = 0 /\ lock = FALSE
    /\ mEnabled = {} /\ mLocalSensorMask = Sensors /\ mDelays = [h \in Handles |-> 0]
    /\ fifo \in [Sensors -> BOOLEAN] /\ ~fifo["compass"]
    /\ on = [s \in Sensors |-> FALSE]
    /\ gyroRate = DefaultRate /\ bandwidth = FALSE
    /\ mAccelVariableRate = FALSE
    /\ mPollPeriod \in {0, IdlePoll + 1}                   \* not initialised
    /\ mHaveGoodMpuCal = FALSE /\ stored = FALSE
    /\ mAccelWindow = [i \in Window |-> Min(Positions)] /\ mAccelWindowIndex = 0
    /\ mWindowFull = FALSE
    /\ mAccelWindowSum \in {0, Garbage}                      \* not initialised either
    /\ ppc = "wait" /\ frame = {} /\ position = Min(Positions)
    /\ torn = (mAccelWindowSum # 0) /\ late = {}

----------------------------------------------------------------------------
(* The control thread: enable().                                           *)

(* computeLocalSensorMask(): all three sensors for anything fused, else    *)
(* the sensors asked for.                                                  *)
LocalMask_GyroStays(enabled) ==
    IF enabled \cap Fusion # {} THEN Sensors
    ELSE {Plain3[h] : h \in enabled} \cup (mLocalSensorMask \cap {"gyro"})
LocalMask(enabled) ==
    IF enabled \cap Fusion # {} THEN Sensors
    ELSE {Plain3[h] : h \in enabled}

Enable(h, en) ==
    /\ cpc = "idle" /\ calls < MaxCalls
    /\ en # (h \in mEnabled)
    /\ mEnabled' = IF en THEN mEnabled \cup {h} ELSE mEnabled \ {h}
    /\ call' = [what |-> h, en |-> en, ok |-> TRUE, good |-> mHaveGoodMpuCal,
                saveFailed |-> FALSE]
    /\ mLocalSensorMask' = LocalMask(mEnabled')
    /\ lock' = TRUE /\ calls' = calls + 1 /\ cpc' = "gyro" /\ stored' = FALSE
    /\ UNCHANGED <<wanted, mDelays, fifo, on, rateVars, windowVars, pollVars, calVars, ghosts>>

After(s) == CASE s = "gyro" -> "accel" [] s = "accel" -> IF HasCompass THEN "compass" ELSE "store" [] s = "compass" -> "store"

(* enableGyro(1), enableAccel(1), enableCompass(1).  A node that does not  *)
(* open gives a positive errno, which enableSensors() takes for success; a *)
(* write that fails makes it return at once.                               *)
SwitchOn(s) ==
    /\ cpc = s /\ s \in mLocalSensorMask
    /\ \/ /\ fifo' = [fifo EXCEPT ![s] = TRUE]
          /\ cpc' = After(s) /\ UNCHANGED call
       \/ /\ s # "compass"
          /\ cpc' = After(s) /\ call' = [call EXCEPT !.ok = FALSE] /\ UNCHANGED fifo
       \/ /\ cpc' = "sensorsDone" /\ call' = [call EXCEPT !.ok = FALSE] /\ UNCHANGED fifo
    /\ UNCHANGED <<calls, wanted, lock, on, stored, requestVars, rateVars, windowVars, pollVars,
                   calVars, ghosts>>

(* enableGyro(0) and enableAccel(0) write two nodes: the library is told   *)
(* as soon as the first has opened, and the result is the second node's.   *)
(* enableCompass(0) tells the library whatever the driver says.            *)
SwitchOff(s) ==
    /\ cpc = s /\ s \notin mLocalSensorMask
    /\ \/ /\ s # "compass"                                  \* the first node does not open
          /\ cpc' = After(s) /\ call' = [call EXCEPT !.ok = FALSE]
          /\ UNCHANGED <<fifo, on>>
       \/ \E written \in BOOLEAN, second \in {"written", "not opened", "not written"} :
             /\ s = "compass" => second = "written"
             /\ fifo' = IF written THEN [fifo EXCEPT ![s] = FALSE] ELSE fifo
             /\ on' = [on EXCEPT ![s] = FALSE]
             /\ cpc' = IF second = "not written" THEN "sensorsDone" ELSE After(s)
             /\ call' = [call EXCEPT !.ok = @ /\ written /\ second = "written"]
    /\ late' = late \ {s}
    /\ UNCHANGED <<calls, wanted, lock, stored, requestVars, rateVars, windowVars, pollVars, calVars,
                   torn>>

(* The end of enableSensors(): the calibration is stored once nothing is   *)
(* on, if it is good or mAccelAccuracy, which any sample may change, is 2. *)
(* inv_store_calibration() may fail, which is only logged.                 *)
NothingOn ==
    mLocalSensorMask \cap ({"gyro", "accel"} \cup IF HasCompass THEN {"compass"} ELSE {}) = {}

StoreCalibration ==
    /\ cpc = "store"
    /\ \/ /\ ~NothingOn \/ ~mHaveGoodMpuCal
          /\ UNCHANGED <<stored, call>>
       \/ /\ NothingOn
          /\ stored' = TRUE /\ UNCHANGED call
       \/ /\ NothingOn
          /\ call' = [call EXCEPT !.saveFailed = TRUE] /\ UNCHANGED stored
    /\ cpc' = "sensorsDone"
    /\ UNCHANGED <<calls, wanted, lock, fifo, on, requestVars, rateVars, windowVars, pollVars,
                   calVars, ghosts>>

ResetAccelWindow_KeepsSum ==
    /\ mWindowFull' = FALSE /\ mAccelWindowIndex' = 0
    /\ UNCHANGED <<mAccelWindow, mAccelWindowSum>>
ResetAccelWindow ==
    /\ mWindowFull' = FALSE /\ mAccelWindowIndex' = 0 /\ mAccelWindowSum' = 0
    /\ UNCHANGED mAccelWindow

ResetForLinearAccel ==
    /\ cpc = "sensorsDone"
    /\ IF call.what = "LinearAccel" /\ call.en
       THEN ResetAccelWindow /\ torn' = InWindow
       ELSE UNCHANGED <<windowVars, torn>>
    /\ cpc' = IF call.en THEN "unlock" ELSE "delay"
    /\ UNCHANGED <<call, calls, wanted, lock, powerVars, requestVars, rateVars, pollVars, calVars, late>>

Unlock ==
    /\ cpc = "unlock"
    /\ lock' = FALSE /\ cpc' = "idle"
    /\ call' = [NoCall EXCEPT !.en = call.en]
    /\ UNCHANGED <<calls, wanted, powerVars, requestVars, rateVars, windowVars, pollVars,
                   calVars, ghosts>>

----------------------------------------------------------------------------
(* The control thread: setDelay() and update_delay().                      *)

SetDelay(h, ms) ==
    /\ cpc = "idle" /\ calls < MaxCalls
    /\ mDelays' = [mDelays EXCEPT ![h] = Max({ms, MinDelay})]
    /\ call' = [NoCall EXCEPT !.what = "setDelay"]
    /\ calls' = calls + 1 /\ cpc' = "delay"
    /\ UNCHANGED <<wanted, lock, mEnabled, mLocalSensorMask, powerVars, rateVars, windowVars, pollVars,
                   calVars, ghosts>>

DelayDone == IF lock THEN "unlock" ELSE "idle"

(* (int)wanted / 1000LL: the low 32 bits of the nanoseconds, signed.       *)
ToInt(ms) == LET low == ms % IntSpan IN IF 2 * low >= IntSpan THEN low - IntSpan ELSE low

(* 1000000L / rate is not 0.                                               *)
Hertz(ms) == ms # 0 /\ ms \in -1000 .. 1000

Shortest_AlsoDisabled == IF mEnabled = {} THEN 0 ELSE Min({mDelays[h] : h \in Handles})
Shortest == IF mEnabled = {} THEN 0 ELSE Min({mDelays[h] : h \in mEnabled})

(* update_delay() up to the flag.  inv_set_accel_sample_rate() divides by  *)
(* the rate while it has no bandwidth: with a rate of 0 the process dies   *)
(* where the division traps, and goes on where it does not.                *)
UpdateRates ==
    /\ cpc = "delay"
    /\ IF mEnabled = {}
       THEN cpc' = DelayDone /\ call' = (IF lock THEN call ELSE NoCall)
            /\ UNCHANGED <<wanted, gyroRate, bandwidth, mAccelVariableRate>>
       ELSE LET r == ToInt(Shortest) IN
            /\ wanted' = Shortest
            /\ gyroRate' = r
            /\ bandwidth' = (bandwidth \/ Hertz(r))
            /\ mAccelVariableRate' = FALSE /\ UNCHANGED call
            /\ cpc' \in {"nodes"} \cup IF r = 0 /\ ~bandwidth THEN {"dead"} ELSE {}
    /\ UNCHANGED <<calls, lock, powerVars, requestVars, mPollPeriod, windowVars,
                   pollVars, calVars, ghosts>>

(* writeAccelFifoRate(): the period changes only with the node.            *)
WriteAccelFifoRate(ms, ok) ==
    IF ok
    THEN mPollPeriod' = ms /\ bandwidth' = (bandwidth \/ Hertz(ToInt(ms)))
    ELSE UNCHANGED <<mPollPeriod, bandwidth>>

(* The rest of update_delay(): gyro_delay or the compass's delay, or, when *)
(* only the accelerometer is enabled, its own rate, which then varies.     *)
UpdateNodes ==
    /\ cpc = "nodes"
    /\ cpc' = DelayDone /\ wanted' = 0
    /\ \E ok \in BOOLEAN :
         /\ call' = IF lock THEN [call EXCEPT !.ok = @ /\ ok] ELSE NoCall
         /\ IF mEnabled = {"Accelerometer"}
            THEN WriteAccelFifoRate(wanted, ok) /\ mAccelVariableRate' = mIntegratedAccel
            ELSE UNCHANGED <<mPollPeriod, bandwidth, mAccelVariableRate>>
    /\ UNCHANGED <<calls, lock, powerVars, requestVars, gyroRate, windowVars, pollVars, calVars, ghosts>>

----------------------------------------------------------------------------
(* The poll thread: readEvents() and readCompassEvents().                  *)

(* One frame of the reader's ring, which is taken while mMplMutex is free, *)
(* with what is on in the chip, or a sample of the compass, which needs no *)
(* lock.                                                                   *)
Fill ==
    /\ ppc = "wait" /\ cpc # "dead"
    /\ \/ ~lock /\ frame' = {s \in {"gyro", "accel"} : fifo[s]}
       \/ frame' = {s \in {"compass"} : fifo[s]}
    /\ frame' # {}
    /\ ppc' = "test"
    /\ UNCHANGED <<controlVars, powerVars, requestVars, rateVars, windowVars, position, calVars, ghosts>>

(* The test of the local mask, and the call of inv_build_...() after it.   *)
First == IF "gyro" \in frame THEN "gyro" ELSE IF "accel" \in frame THEN "accel" ELSE "compass"

Test ==
    /\ ppc = "test" /\ cpc # "dead"
    /\ IF First \in mLocalSensorMask
       THEN ppc' = "build" /\ UNCHANGED frame
       ELSE /\ frame' = frame \ {First}
            /\ ppc' = IF First = "compass" THEN "wait"      \* nothing is executed
                      ELSE IF frame \ {First} # {} THEN "test" ELSE "execute"
    /\ UNCHANGED <<controlVars, powerVars, requestVars, rateVars, windowVars, position, calVars, ghosts>>

Build ==
    /\ ppc = "build" /\ cpc # "dead"
    /\ on' = [on EXCEPT ![First] = TRUE]
    /\ late' = IF First \in mLocalSensorMask THEN late \ {First} ELSE late \cup {First}
    /\ frame' = frame \ {First}
    /\ ppc' = IF frame \ {First} # {} THEN "test" ELSE "execute"
    /\ UNCHANGED <<controlVars, fifo, stored, requestVars, rateVars, windowVars, position, calVars, torn>>

(* executeOnData(): the library runs, a no-motion message makes the        *)
(* calibration good, and the handlers of the enabled sensors are called.   *)
(* accelHandler() puts the value, at a variable rate, in the window.       *)
ExecuteOnData ==
    /\ ppc = "execute" /\ cpc # "dead"
    /\ mHaveGoodMpuCal' \in {mHaveGoodMpuCal, TRUE}
    /\ ppc' = IF "Accelerometer" \in mEnabled /\ mAccelVariableRate THEN "window" ELSE "wait"
    /\ UNCHANGED <<controlVars, powerVars, requestVars, rateVars, windowVars, frame, position, ghosts>>

(* updateAccelWindow(): the value takes the oldest one's place.            *)
AddToWindow(v) ==
    /\ ppc = "window" /\ cpc # "dead"
    /\ position' = v
    /\ mAccelWindow' = [mAccelWindow EXCEPT ![mAccelWindowIndex] = v]
    /\ mAccelWindowSum' = mAccelWindowSum + v
         - (IF mWindowFull THEN mAccelWindow[mAccelWindowIndex] ELSE 0)
    /\ mWindowFull' = (mWindowFull \/ mAccelWindowIndex = WindowSize - 1)
    /\ ppc' = "decide"
    /\ UNCHANGED <<controlVars, powerVars, requestVars, rateVars, mAccelWindowIndex, frame, calVars,
                   ghosts>>

Far(a, b) == a - b > Threshold \/ b - a > Threshold

IsDeviceOrientationStable_NoIdleCase ==
    /\ mPollPeriod >= DefaultPoll /\ mWindowFull
    /\ LET d == WindowSize * mAccelWindow[mAccelWindowIndex] - mAccelWindowSum
       IN  ~(d > WindowSize * Threshold \/ -d > WindowSize * Threshold)
IsDeviceOrientationStable ==
    LET i == mAccelWindowIndex
        previous == (i + WindowSize - 1) % WindowSize
    IN  /\ mPollPeriod >= DefaultPoll
        /\ IF mPollPeriod = IdlePoll
           THEN ~Far(mAccelWindow[i], mAccelWindow[previous])
           ELSE /\ mWindowFull
                /\ LET d == WindowSize * mAccelWindow[i] - mAccelWindowSum
                   IN  ~(d > WindowSize * Threshold \/ -d > WindowSize * Threshold)

NextIndex == (mAccelWindowIndex + 1) % WindowSize

Decide ==
    /\ ppc = "decide" /\ cpc # "dead"
    /\ mAccelWindowIndex' = NextIndex
    /\ ppc' = CASE IsDeviceOrientationStable /\ mPollPeriod # IdlePoll -> "idleRate"
                [] ~IsDeviceOrientationStable /\ mPollPeriod # mDelays["Accelerometer"] -> "fastReset"
                [] OTHER -> "wait"
    /\ UNCHANGED <<controlVars, powerVars, requestVars, rateVars, mAccelWindow, mWindowFull,
                   mAccelWindowSum, frame, position, calVars, ghosts>>

(* A device that lies still is polled at the slow rate (the motion         *)
(* threshold written with it only keeps frames back until it moves); one   *)
(* that moves gets an empty window and the rate asked for.                 *)
IdleRate ==
    /\ ppc = "idleRate" /\ cpc # "dead"
    /\ \E ok \in BOOLEAN : WriteAccelFifoRate(IdlePoll, ok)
    /\ ppc' = "wait"
    /\ UNCHANGED <<controlVars, powerVars, requestVars, gyroRate, mAccelVariableRate, windowVars, frame,
                   position, calVars, ghosts>>

FastReset ==
    /\ ppc = "fastReset" /\ cpc # "dead"
    /\ ResetAccelWindow /\ torn' = FALSE
    /\ ppc' = "fastRate"
    /\ UNCHANGED <<controlVars, powerVars, requestVars, rateVars, frame, position, calVars, late>>

FastRate(ok) ==
    /\ ppc = "fastRate" /\ cpc # "dead"
    /\ WriteAccelFifoRate(mDelays["Accelerometer"], ok)
    /\ ppc' = "wait"
    /\ UNCHANGED <<controlVars, powerVars, requestVars, gyroRate, mAccelVariableRate, windowVars, frame,
                   position, calVars, ghosts>>

----------------------------------------------------------------------------
ControlStep ==
    \/ \E s \in Sensors : SwitchOn(s) \/ SwitchOff(s)
    \/ StoreCalibration \/ ResetForLinearAccel \/ UpdateRates \/ UpdateNodes \/ Unlock

Request == \E h \in Handles : (\E en \in BOOLEAN : Enable(h, en)) \/ \E ms \in Delays : SetDelay(h, ms)

PollStep ==
    \/ Fill \/ Test \/ Build \/ ExecuteOnData
    \/ \E v \in Positions : AddToWindow(v)
    \/ Decide \/ IdleRate \/ FastReset
    \/ \E ok \in BOOLEAN : FastRate(ok)

Next == Request \/ ControlStep \/ PollStep

(* Both threads run: a call goes on to its end, the poll thread takes what *)
(* the kernel has, and a sysfs write does not fail for ever.               *)
Fairness == WF_vars(ControlStep) /\ WF_vars(PollStep) /\ SF_vars(FastRate(TRUE))

Spec == Init /\ [][Next]_vars /\ Fairness

----------------------------------------------------------------------------
(* The state's types, and when enable() holds the lock.                    *)
TypeOK ==
    /\ cpc \in {"idle", "store", "sensorsDone", "delay", "nodes", "unlock", "dead"} \cup Sensors
    /\ mEnabled \subseteq Handles /\ mLocalSensorMask \subseteq Sensors
    /\ mDelays \in [Handles -> {0} \cup {Max({d, MinDelay}) : d \in Delays}]
    /\ {fifo, on} \subseteq [Sensors -> BOOLEAN] /\ gyroRate \in Int
    /\ {bandwidth, mAccelVariableRate, mHaveGoodMpuCal, stored, mWindowFull, lock}
          \subseteq BOOLEAN
    /\ lock <=> cpc \in {"store", "sensorsDone", "unlock"} \cup Sensors
              \/ (cpc \in {"delay", "nodes", "dead"} /\ call.what # "setDelay")
    /\ mAccelWindow \in [Window -> Positions] /\ mAccelWindowIndex \in Window
    /\ mAccelWindowSum \in Int /\ frame \subseteq Sensors /\ late \subseteq Sensors

(* An enable() whose writes all worked leaves each sensor on if and only   *)
(* if something enabled needs it, whatever earlier calls failed to do;     *)
(* the library takes no sensor that is off for one that is on, but for a   *)
(* sample that was tested before the mask changed; and when it leaves      *)
(* nothing on, it has stored a calibration known to be good before, unless *)
(* inv_store_calibration() has failed.                                     *)
PowerFollowsMask ==
    [][cpc = "unlock" /\ call.ok =>
         /\ \A s \in Sensors : (s = "compass" => HasCompass) =>
              /\ fifo[s] <=> \E h \in mEnabled : h \in Fusion \/ Plain3[h] = s
              /\ on[s] => fifo[s] \/ s \in late
         /\ mEnabled = {} /\ call.good => stored \/ call.saveFailed]_vars

(* The sum the stability test uses is that of the values in the window,    *)
(* through wrap-around, resets and failed writes, unless it was read from  *)
(* memory nobody set or reset by enable() amid an update.                  *)
Total(w, n) == LET s[i \in 0 .. n] == IF i = 0 THEN 0 ELSE s[i - 1] + w[i - 1] IN s[n]

SumIsWindow ==
    ppc # "decide" /\ ~torn =>
       mAccelWindowSum = Total(mAccelWindow, IF mWindowFull THEN WindowSize ELSE mAccelWindowIndex)

(* After setDelay() or a disable(), the library's gyro rate is the least   *)
(* delay of the sensors that are enabled: neither one that is off nor one  *)
(* raised since then shortens it.                                          *)
RateIsMinimum ==
    cpc = "idle" /\ mEnabled # {} /\ ~call.en =>
       gyroRate = Min({mDelays[h] : h \in mEnabled})

(* A device that keeps moving is not left at the idle rate: a rate that    *)
(* could not be written is tried again.                                    *)
Idling == mAccelVariableRate /\ mPollPeriod = IdlePoll /\ mDelays["Accelerometer"] # IdlePoll

KeepsMoving == []<><<\E v \in Positions : AddToWindow(v) /\ Far(v, position)>>_vars

LeavesIdle == KeepsMoving => (Idling ~> ~Idling)
=============================================================================
