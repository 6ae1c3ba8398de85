------------------------------ MODULE NvsInput ------------------------------
(***************************************************************************)
(* A driver with an input device (drivers/sensors/nvs_input.cpp, and       *)
(* CompassSensor.cpp on top of it), read by pollEvents of                  *)
(* t124/sensors/sensors.cpp through an InputEventCircularReader while the  *)
(* controlling thread enables and disables it.                             *)
(*                                                                         *)
(* The device reports a sample as Axes axis events and an EV_SYN.  Events  *)
(* are numbered in the order of reporting; type, axis and sample of an     *)
(* event follow from its number.  The events of sample s have the time s,  *)
(* its axis events the value s.                                            *)
(***************************************************************************)
EXTENDS EventReader

CONSTANTS
    Axes,         \* axis events per sample
    Rooms,        \* room pollEvents may have for the driver's events
    MaxSamples,   \* BOUND: samples the device reports
    MaxQueued     \* BOUND: events the kernel holds

ASSUME InputAssumption ==
    /\ Axes \in Nat \ {0}
    /\ Rooms \subseteq Nat
    /\ MaxSamples \in Nat
    /\ Event = 1 .. MaxSamples * (Axes + 1)
    /\ MaxQueued \in Nat

VARIABLES
    compass,         \* the driver is the compass: one sample a call
    mEnabled,
    mPendingEvent,   \* axis -> value
    kernel,          \* events read() can return
    reported,        \* events the device has reported
    pc,              \* "idle" in poll(), else inside readEvents
    revents,         \* POLLIN was set by the last poll() and not cleared since
    count,           \* room left
    nb,              \* events returned
    sample           \* last sample handed to the framework

driverVars == <<compass, mEnabled, mPendingEvent>>
deviceVars == <<kernel, reported>>
pollVars   == <<pc, revents, count, nb>>
vars       == <<readerVars, driverVars, deviceVars, pollVars, sample>>

Axis        == 0 .. Axes - 1
SampleOf(e) == (e - 1) \div (Axes + 1) + 1
IsSyn(e)    == e % (Axes + 1) = 0
AxisOf(e)   == (e - 1) % (Axes + 1)

Init ==
    /\ ReaderInit
    /\ compass \in BOOLEAN
    /\ mEnabled = FALSE
    /\ mPendingEvent = [a \in Axis |-> 0]
    /\ kernel = <<>>
    /\ reported = 0
    /\ pc = "idle"
    /\ revents = FALSE
    /\ count = 0
    /\ nb = 0
    /\ sample = [data |-> [a \in Axis |-> 0], timestamp |-> 0]

-----------------------------------------------------------------------------
(* The device and the controlling thread.                                  *)

\* the kernel makes a whole sample readable at once
Report ==
    /\ mEnabled
    /\ reported + Axes + 1 <= MaxSamples * (Axes + 1)
    /\ Len(kernel) + Axes + 1 <= MaxQueued
    /\ kernel' = kernel \o [i \in 1 .. Axes + 1 |-> reported + i]
    /\ reported' = reported + Axes + 1
    /\ UNCHANGED <<readerVars, driverVars, pollVars, sample>>

\* enable; where writing the enable file fails nothing changes
Enable(on) ==
    /\ mEnabled' = on
    /\ UNCHANGED <<readerVars, compass, mPendingEvent, deviceVars, pollVars, sample>>

-----------------------------------------------------------------------------
(* pollEvents and readEvents.                                              *)

\* poll() has set POLLIN, or it is still set from a pass that had no room left
CallReadEvents(room) ==
    /\ pc = "idle"
    /\ revents \/ kernel # <<>>
    /\ pc' = "fill"
    /\ count' = room
    /\ nb' = 0
    /\ UNCHANGED <<readerVars, driverVars, deviceVars, revents, sample>>

\* an error, or 0 with room for more: revents is cleared
ReturnNothing == pc' = "idle" /\ revents' = FALSE /\ UNCHANGED <<count, nb>>

\* mutant: room for one event is taken for none
NoRoom_OffByOne == count <= 1

NoRoom == count < 1

\* no room: -EINVAL; not enabled: 0
Refuse ==
    /\ pc = "fill"
    /\ NoRoom \/ (~compass /\ ~mEnabled)
    /\ ReturnNothing
    /\ UNCHANGED <<readerVars, driverVars, deviceVars, sample>>


Accepted == pc = "fill" /\ ~NoRoom /\ (compass \/ mEnabled)

Least(a, b) == IF a < b THEN a ELSE b

\* fill; with a full ring it reads nothing
Fill ==
    /\ Accepted
    /\ kernel # <<>> \/ mFreeSpace = 0
    /\ LET n == Least(Len(kernel), mFreeSpace)
       IN  /\ FillWith(SubSeq(kernel, 1, n))
           /\ kernel' = SubSeq(kernel, n + 1, Len(kernel))
    /\ pc' = "loop"
    /\ UNCHANGED <<driverVars, reported, revents, count, nb, sample>>

\* EAGAIN: readEvents returns the error, whatever is in the ring
FillFails ==
    /\ Accepted
    /\ mFreeSpace > 0
    /\ kernel = <<>>
    /\ ReturnNothing
    /\ UNCHANGED <<readerVars, driverVars, deviceVars, sample>>

Front == mBuffer[mCurr]

\* processEvent
ProcessEvent ==
    /\ pc = "loop"
    /\ count > 0 /\ Available > 0 /\ ~IsSyn(Front)
    /\ mPendingEvent' = [mPendingEvent EXCEPT ![AxisOf(Front)] = SampleOf(Front)]
    /\ Advance
    /\ UNCHANGED <<compass, mEnabled, deviceVars, pollVars, sample>>

\* the time of the EV_SYN; mCompassTimestamp is that of the last axis event
Time == IF compass THEN mPendingEvent[Axes - 1] ELSE SampleOf(Front)

\* EV_SYN: the pending event is stamped and stored.  readSample is done then;
\* the fusion library makes any number of events of its sample
EmitSample ==
    /\ pc = "loop"
    /\ count > 0 /\ Available > 0 /\ IsSyn(Front)
    /\ sample' = [data |-> mPendingEvent, timestamp |-> Time]
    /\ \E n \in IF compass THEN 0 .. count ELSE {1} : nb' = nb + n /\ count' = count - n
    /\ pc' = IF compass THEN "done" ELSE pc
    /\ Advance
    /\ UNCHANGED <<driverVars, deviceVars, revents>>

Finished == pc = "done" \/ (pc = "loop" /\ (count = 0 \/ Available = 0))

\* mutant: the loop takes the event it has no room for out of the ring
ReturnEvents_Skips ==
    /\ Finished
    /\ IF Available > 0 THEN Advance ELSE UNCHANGED readerVars
    /\ pc' = "idle"
    /\ revents' \in {nb >= count, count = 0}
    /\ UNCHANGED <<driverVars, deviceVars, count, nb, sample>>

\* if (nb < count) revents = 0; then poll() sets it anew, unless this driver
\* or a later one has used all the room
ReturnEvents ==
    /\ Finished
    /\ pc' = "idle"
    /\ revents' \in {nb >= count, count = 0}
    /\ UNCHANGED <<readerVars, driverVars, deviceVars, count, nb, sample>>

PollStep ==
    \/ \E room \in Rooms : CallReadEvents(room)
    \/ Refuse \/ Fill \/ FillFails
    \/ ProcessEvent \/ EmitSample \/ ReturnEvents

Next ==
    \/ Report
    \/ \E on \in BOOLEAN : Enable(on)
    \/ PollStep

(* The framework calls pollEvents again and again, with room for an event  *)
(* now and then; the device need not report.                               *)
Fairness ==
    /\ WF_vars(PollStep)
    /\ SF_vars(\E room \in Rooms \ {0} : CallReadEvents(room))

Spec     == Init /\ [][Next]_vars
FairSpec == Spec /\ Fairness

-----------------------------------------------------------------------------
(* Properties.                                                             *)

TypeOK ==
    /\ ReaderTypeOK
    /\ compass \in BOOLEAN
    /\ mEnabled \in BOOLEAN
    /\ mPendingEvent \in [Axis -> 0 .. MaxSamples]
    /\ kernel \in Seq(Event)
    /\ reported \in 0 .. MaxSamples * (Axes + 1)
    /\ pc \in {"idle", "fill", "loop", "done"}
    /\ revents \in BOOLEAN
    /\ count \in Nat
    /\ nb \in Nat
    /\ sample \in [data : [Axis -> 0 .. MaxSamples], timestamp : 0 .. MaxSamples]

(* The ring is a bounded queue of what the kernel held: no event is lost,   *)
(* repeated or overtaken, wherever mHead and mCurr stand when a read runs  *)
(* past the end of the ring, and also when mHead is left standing exactly  *)
(* at the end.                                                             *)
Fifo == INSTANCE EventFifo WITH
            Capacity <- NumEvents, source <- kernel, queue <- Queue

ImplementsFifo == Fifo!Spec

(* What the framework gets is what the device reported: the values of a    *)
(* sample belong to its timestamp and samples come in order, one by one,   *)
(* also when read() cuts a sample in two, the framework's buffer is full   *)
(* in the middle, or the sensor is disabled and enabled in between.        *)
SamplesIntact ==
    [][sample' # sample =>
          /\ sample'.timestamp = sample.timestamp + 1
          /\ \A a \in Axis : sample'.data[a] = sample'.timestamp]_vars

(* What the kernel holds for an enabled sensor is read, also when the ring *)
(* or the framework's buffer cannot take all of it.                        *)
KernelIsRead ==
    kernel # <<>> ~> (kernel = <<>> \/ ~mEnabled)

=============================================================================
