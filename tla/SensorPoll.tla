----------------------------- MODULE SensorPoll -----------------------------
(***************************************************************************)
(* sensors_poll_context_t of t124/sensors/sensors.cpp: a thread of the     *)
(* framework enables sensors and sets their rates while another sits in    *)
(* pollEvents.  Nothing locks what they share; a pipe wakes the second     *)
(* thread when the first has changed something.                            *)
(*                                                                         *)
(* Drivers with a file descriptor make poll() return when the kernel has   *)
(* events for them.  The others (light, proximity) have to be looked at    *)
(* every polltime milliseconds.                                            *)
(***************************************************************************)
EXTENDS Integers, Sequences, FiniteSets

CONSTANTS
    Polled,      \* drivers whose pollfd.fd is -1
    FdDrivers,   \* drivers with an input device
    Order,       \* all of them, in the order of mSensors
    PollTimes,   \* delays the framework asks for
    Indefinite,  \* UINT_MAX, which poll() takes as -1
    Room,        \* events the framework's buffer holds
    MaxQueued,   \* BOUND: events a driver has in the kernel
    PipeSize,    \* bytes the wake pipe holds
    MaxCalls     \* BOUND: calls of activate and setDelay

Drivers == Polled \cup FdDrivers

ASSUME PollAssumption ==
    /\ Polled \cap FdDrivers = {}
    /\ Order \in Seq(Drivers)
    /\ PollTimes \subseteq Nat /\ Indefinite \in Nat
    /\ \A ms \in PollTimes : ms < Indefinite
    /\ Room \in Nat \ {0} /\ PipeSize \in Nat \ {0}

VARIABLES
    drains,             \* drivers that read while disabled: mpl and compass, not an NvsInput
    mEnabled,           \* in each driver
    hasPendingEvents,   \* a polled driver's delay has passed: it would look
    queued,             \* events the kernel has for a driver
    isSensorEnabled,
    requestedPollTime,
    polltime,
    wakePipe,           \* bytes in the wake pipe
    ctl,                \* the call of the controlling thread
    calls,
    pc,                 \* where pollEvents is
    todo,               \* drivers still to be looked at in this pass
    count,              \* room left
    nbEvents,
    timeout,            \* the argument of poll() while it waits, else 0
    revents             \* drivers whose POLLIN is set

driverVars == <<drains, mEnabled, hasPendingEvents, queued>>
timeVars   == <<isSensorEnabled, requestedPollTime, polltime>>
ctlVars    == <<ctl, calls>>
pollVars   == <<pc, todo, count, nbEvents, timeout, revents>>
vars       == <<driverVars, timeVars, wakePipe, ctlVars, pollVars>>

Idle == [pc |-> "idle"]

Init ==
    /\ drains \in SUBSET FdDrivers
    /\ mEnabled = [d \in Drivers |-> FALSE]
    /\ hasPendingEvents = [d \in Polled |-> FALSE]
    /\ queued = [d \in FdDrivers |-> 0]
    /\ isSensorEnabled = [d \in Polled |-> FALSE]
    /\ requestedPollTime = [d \in Polled |-> Indefinite]
    /\ polltime = Indefinite
    /\ wakePipe = 0
    /\ ctl = Idle
    /\ calls = 0
    /\ pc = "idle"
    /\ todo = <<>>
    /\ count = Room
    /\ nbEvents = 0
    /\ timeout = 0
    /\ revents = {}

-----------------------------------------------------------------------------
(* The controlling thread.                                                 *)

\* write to the nonblocking pipe: a full one drops the byte
Wake == wakePipe' = IF wakePipe < PipeSize THEN wakePipe + 1 ELSE wakePipe

\* setPollTime up to the wake message: the minimum of all requests
SetPollTime(req) ==
    /\ requestedPollTime' = req
    /\ polltime' = CHOOSE ms \in {Indefinite} \cup {req[d] : d \in Polled} :
                      \A d \in Polled : ms <= req[d]

Call ==
    /\ ctl = Idle
    /\ calls < MaxCalls
    /\ calls' = calls + 1
    /\ UNCHANGED <<driverVars, timeVars, wakePipe, pollVars>>

Activate(d, on) == Call /\ ctl' = [pc |-> "enable", driver |-> d, on |-> on]
SetDelay(d, ms) == Call /\ ctl' = [pc |-> IF d \in Polled THEN "delayTime" ELSE "delay",
                                  driver |-> d, ms |-> ms]

\* what a polled driver's clock says of d after a call: anything, if it is on
Due(d, on) ==
    \E due \in BOOLEAN :
        hasPendingEvents' = [p \in Polled |-> IF p = d THEN due /\ on ELSE hasPendingEvents[p]]

\* mSensors[index]->enable returns 0: it has done as told, or could not write
\* to its enable file, which ltr558Prox and NvsInput do not always report
Enable ==
    /\ ctl.pc = "enable"
    /\ \E on \in {ctl.on, mEnabled[ctl.driver]} :
          /\ mEnabled' = [mEnabled EXCEPT ![ctl.driver] = on]
          /\ Due(ctl.driver, on)
    /\ ctl' = [ctl EXCEPT !.pc = "wake"]
    /\ UNCHANGED <<drains, queued, timeVars, wakePipe, calls, pollVars>>

\* enable fails: activate returns the error and changes nothing
EnableFails ==
    /\ ctl.pc = "enable"
    /\ ctl' = Idle
    /\ UNCHANGED <<driverVars, timeVars, wakePipe, calls, pollVars>>

\* activate sends its own wake message before updateSensorActivate
WakeFirst ==
    /\ ctl.pc = "wake"
    /\ Wake
    /\ ctl' = IF ctl.driver \in Polled THEN [ctl EXCEPT !.pc = "activateTime"] ELSE Idle
    /\ UNCHANGED <<driverVars, timeVars, calls, pollVars>>

\* updateSensorActivate
UpdateSensorActivate ==
    /\ ctl.pc = "activateTime"
    /\ isSensorEnabled' = [isSensorEnabled EXCEPT ![ctl.driver] = ctl.on]
    /\ SetPollTime(IF ctl.on THEN requestedPollTime
                             ELSE [requestedPollTime EXCEPT ![ctl.driver] = Indefinite])
    /\ ctl' = [pc |-> "wakePoll", then |-> Idle]
    /\ UNCHANGED <<driverVars, wakePipe, calls, pollVars>>

\* updateSensorPollTime
UpdateSensorPollTime ==
    /\ ctl.pc = "delayTime"
    /\ SetPollTime(IF isSensorEnabled[ctl.driver] /\ requestedPollTime[ctl.driver] > ctl.ms
                   THEN [requestedPollTime EXCEPT ![ctl.driver] = ctl.ms]
                   ELSE requestedPollTime)
    /\ ctl' = [pc |-> "wakePoll", then |-> [ctl EXCEPT !.pc = "delay"]]
    /\ UNCHANGED <<driverVars, isSensorEnabled, wakePipe, calls, pollVars>>

\* mutant: setPollTime sends no wake message
WakePoll_Silent ==
    /\ ctl.pc = "wakePoll"
    /\ ctl' = ctl.then
    /\ UNCHANGED <<driverVars, timeVars, wakePipe, calls, pollVars>>

\* the wake message of setPollTime
WakePoll ==
    /\ ctl.pc = "wakePoll"
    /\ Wake
    /\ ctl' = ctl.then
    /\ UNCHANGED <<driverVars, timeVars, calls, pollVars>>

\* mSensors[index]->setDelay; the new delay may or may not have passed yet
SetDriverDelay ==
    /\ ctl.pc = "delay"
    /\ Due(ctl.driver, mEnabled[ctl.driver])
    /\ ctl' = Idle
    /\ UNCHANGED <<drains, mEnabled, queued, timeVars, wakePipe, calls, pollVars>>

ControlStep ==
    \/ Enable \/ EnableFails \/ WakeFirst \/ UpdateSensorActivate
    \/ UpdateSensorPollTime \/ WakePoll \/ SetDriverDelay

-----------------------------------------------------------------------------
(* pollEvents.                                                             *)

PollEvents ==
    /\ pc = "idle"
    /\ pc' = "scan"
    /\ todo' = Order
    /\ count' = Room
    /\ nbEvents' = 0
    /\ UNCHANGED <<driverVars, timeVars, wakePipe, ctlVars, timeout, revents>>

\* readEvents returned nb, at most 0 when there is no room
Took(d, nb) ==
    /\ count' = IF nb > 0 THEN count - nb ELSE count
    /\ nbEvents' = IF nb > 0 THEN nbEvents + nb ELSE nbEvents
    /\ revents' = IF nb < count' THEN revents \ {d} ELSE revents

NextDriver ==
    /\ pc = "scan"
    /\ todo # <<>>
    /\ todo' = Tail(todo)
    /\ UNCHANGED <<timeVars, wakePipe, ctlVars, pc, timeout, drains, mEnabled>>

\* the driver has nothing to read, as far as pollEvents can see
PassDriver ==
    /\ NextDriver
    /\ LET d == Head(todo)
       IN  d \notin revents /\ (d \in Polled => ~hasPendingEvents[d])
    /\ UNCHANGED <<hasPendingEvents, queued, count, nbEvents, revents>>

Smaller(a, b) == IF a < b THEN a ELSE b

Reads(d) == mEnabled[d] \/ d \in drains

\* an input device: as many events as there are and as there is room for, or none where the
\* driver returns because it is disabled
ReadQueued ==
    /\ NextDriver
    /\ LET d == Head(todo)
       IN  /\ d \in revents
           /\ \E nb \in IF count = 0 THEN {-1, 0}
                        ELSE {IF Reads(d) THEN Smaller(queued[d], count) ELSE 0} :
                 /\ Took(d, nb)
                 /\ queued' = [queued EXCEPT ![d] = IF nb > 0 THEN @ - nb ELSE @]
    /\ UNCHANGED hasPendingEvents

\* a polled driver: the value may not have changed since it was last read,
\* and the read may fail, which in some drivers counts as a look
ReadPolled ==
    /\ NextDriver
    /\ LET d == Head(todo)
       IN  /\ d \in Polled
           /\ hasPendingEvents[d]
           /\ \E nb \in {0, 1} :
                 /\ nb <= count
                 /\ Took(d, nb)
                 /\ Due(d, nb = 0)
                 /\ count = 0 => hasPendingEvents'[d]
    /\ UNCHANGED queued

\* mutant: the poll times of the polled drivers are left out of account
CallPoll_NoTimeout ==
    /\ pc = "scan"
    /\ todo = <<>>
    /\ IF count > 0
       THEN pc' = "poll" /\ timeout' = IF nbEvents > 0 THEN 0 ELSE Indefinite
       ELSE pc' = "idle" /\ UNCHANGED timeout
    /\ UNCHANGED <<driverVars, timeVars, wakePipe, ctlVars, todo, count, nbEvents, revents>>

\* mutant: poll() is skipped as soon as there is something to return
CallPoll_ReturnsEarly ==
    /\ pc = "scan"
    /\ todo = <<>>
    /\ IF nbEvents = 0
       THEN pc' = "poll" /\ timeout' = polltime
       ELSE pc' = "idle" /\ UNCHANGED timeout
    /\ UNCHANGED <<driverVars, timeVars, wakePipe, ctlVars, todo, count, nbEvents, revents>>

\* poll() is called with the polltime of this moment, if there is room
CallPoll ==
    /\ pc = "scan"
    /\ todo = <<>>
    /\ IF count > 0
       THEN pc' = "poll" /\ timeout' = IF nbEvents > 0 THEN 0 ELSE polltime
       ELSE pc' = "idle" /\ UNCHANGED timeout
    /\ UNCHANGED <<driverVars, timeVars, wakePipe, ctlVars, todo, count, nbEvents, revents>>

\* poll() returns, a wake message is taken out, and the loop is left or not
PollReturns ==
    /\ pc = "poll"
    /\ revents' = {d \in FdDrivers : queued[d] > 0}
    /\ LET n == Cardinality(revents') + (IF wakePipe > 0 THEN 1 ELSE 0)
       IN  /\ n = 0 => timeout # Indefinite
           /\ IF n # 0 \/ nbEvents = 0
              THEN pc' = "scan" /\ todo' = Order
              ELSE pc' = "idle" /\ UNCHANGED todo
    /\ wakePipe' = IF wakePipe > 0 THEN wakePipe - 1 ELSE 0
    /\ timeout' = 0
    /\ UNCHANGED <<driverVars, timeVars, ctlVars, count, nbEvents>>

\* EINTR: what has been read is returned, wake messages stay in the pipe
PollInterrupted ==
    /\ pc = "poll"
    /\ pc' = "idle"
    /\ timeout' = 0
    /\ UNCHANGED <<driverVars, timeVars, wakePipe, ctlVars, todo, count, nbEvents, revents>>

PollStep ==
    \/ PollEvents \/ PassDriver \/ ReadQueued \/ ReadPolled \/ CallPoll \/ PollReturns

-----------------------------------------------------------------------------
(* Time and the kernel.                                                    *)

DelayPasses(d) ==
    /\ mEnabled[d]
    /\ ~hasPendingEvents[d]
    /\ hasPendingEvents' = [hasPendingEvents EXCEPT ![d] = TRUE]
    /\ UNCHANGED <<drains, mEnabled, queued, timeVars, wakePipe, ctlVars, pollVars>>

EventArrives(d) ==
    /\ mEnabled[d]
    /\ queued[d] < MaxQueued
    /\ queued' = [queued EXCEPT ![d] = @ + 1]
    /\ UNCHANGED <<drains, mEnabled, hasPendingEvents, timeVars, wakePipe, ctlVars, pollVars>>

Next ==
    \/ \E d \in Drivers : \/ \E on \in BOOLEAN : Activate(d, on)
                          \/ \E ms \in PollTimes : SetDelay(d, ms)
    \/ ControlStep
    \/ PollStep \/ PollInterrupted
    \/ \E d \in Polled : DelayPasses(d)
    \/ \E d \in FdDrivers : EventArrives(d)

(* Both threads run, and the framework always calls pollEvents again.  A   *)
(* signal does not interrupt every poll().  Nothing makes an event arrive  *)
(* or a call be made.                                                      *)
Spec     == Init /\ [][Next]_vars
FairSpec == Spec /\ WF_vars(ControlStep) /\ WF_vars(PollStep) /\ SF_vars(PollReturns)

-----------------------------------------------------------------------------
(* Properties.                                                             *)

TypeOK ==
    /\ drains \subseteq FdDrivers
    /\ mEnabled \in [Drivers -> BOOLEAN]
    /\ hasPendingEvents \in [Polled -> BOOLEAN]
    /\ queued \in [FdDrivers -> 0 .. MaxQueued]
    /\ isSensorEnabled \in [Polled -> BOOLEAN]
    /\ requestedPollTime \in [Polled -> PollTimes \cup {Indefinite}]
    /\ polltime \in PollTimes \cup {Indefinite}
    /\ wakePipe \in 0 .. PipeSize
    /\ calls \in 0 .. MaxCalls
    /\ pc \in {"idle", "scan", "poll"}
    /\ count \in 0 .. Room
    /\ nbEvents \in 0 .. Room
    /\ timeout \in PollTimes \cup {0, Indefinite}
    /\ revents \subseteq FdDrivers

(* No wake-up is lost: pollEvents does not sleep for longer than the       *)
(* present polltime without a byte in the wake pipe, or one about to be    *)
(* written, to end its sleep; not even when the pipe has been full.        *)
NoStaleSleep ==
    pc = "poll" /\ timeout > polltime => wakePipe > 0 \/ ctl.pc = "wakePoll"

LooksAt(d) == pc = "scan" /\ todo # <<>> /\ Head(todo) = d

(* A polled sensor with a poll time of its own is looked at again and      *)
(* again, whatever other sensors are asked to do meanwhile.                *)
PolledAreServed ==
    \A d \in Polled :
        isSensorEnabled[d] /\ requestedPollTime[d] # Indefinite
            ~> LooksAt(d) \/ ~isSensorEnabled[d]

(* Events in an input device are read, also when another driver has filled *)
(* the framework's buffer and POLLIN has been cleared unread, unless its   *)
(* driver is disabled and returns unread.                                  *)
QueuedAreRead ==
    \A d \in FdDrivers : queued[d] = MaxQueued ~> queued[d] < MaxQueued \/ ~Reads(d)

=============================================================================
