-------------------------- MODULE SensorPollProofs --------------------------
(* That pollEvents does not oversleep, for any sensors, any poll times and *)
(* a wake pipe of any size.                                                *)
EXTENDS SensorPoll, TLAPS, WellFoundedInduction

(* A nonempty set of natural numbers has a least member.                   *)
LEMMA LeastNumber ==
    ASSUME NEW T \in SUBSET Nat, T # {}
    PROVE  \E x \in T : \A y \in T : x <= y
<1>1. IsWellFoundedOn(OpToRel(<, Nat), Nat)
  BY NatLessThanWellFounded
<1>2. OpToRel(<, Nat) = {ss \in Nat \X Nat : ss[1] < ss[2]}
  BY DEF OpToRel
<1>3. IsWellFoundedOn({ss \in Nat \X Nat : ss[1] < ss[2]}, Nat)
  BY <1>1, <1>2
<1>4. PICK x \in T : \A y \in T : ~(<<y, x>> \in {ss \in Nat \X Nat : ss[1] < ss[2]})
  BY <1>3, WFMin
<1>5. ASSUME NEW y \in T PROVE x <= y
  <2>1. x \in Nat /\ y \in Nat
    OBVIOUS
  <2>2. ~(<<y, x>>[1] < <<y, x>>[2])
    BY <1>4, <2>1
  <2> QED
    BY <2>1, <2>2
<1> QED
  BY <1>5

(* The call of the controlling thread, by where it is.                     *)
AfterWake == {Idle} \cup [pc : {"delay"}, driver : Drivers, ms : PollTimes]

Calls ==
    AfterWake
        \cup [pc : {"enable", "wake", "activateTime"}, driver : Drivers, on : BOOLEAN]
        \cup [pc : {"delayTime"}, driver : Polled, ms : PollTimes]

Controls == Calls \cup [pc : {"wakePoll"}, then : AfterWake]

(* What the length of a sleep depends on.                                  *)
TimesOK ==
    /\ requestedPollTime \in [Polled -> PollTimes \cup {Indefinite}]
    /\ polltime \in PollTimes \cup {Indefinite}
    /\ timeout \in PollTimes \cup {0, Indefinite}
    /\ wakePipe \in Nat
    /\ ctl \in Controls
    /\ ctl.pc = "activateTime" => ctl.driver \in Polled

PInv == TimesOK /\ NoStaleSleep

LEMMA PInvInit == Init => PInv
  BY PollAssumption DEF Init, PInv, TimesOK, NoStaleSleep, Controls, Calls, AfterWake, Idle

(* setPollTime finds the minimum, and it is one of the requests.           *)
LEMMA SetPollTimeOK ==
    ASSUME NEW req \in [Polled -> PollTimes \cup {Indefinite}], SetPollTime(req)
    PROVE  /\ requestedPollTime' \in [Polled -> PollTimes \cup {Indefinite}]
           /\ polltime' \in PollTimes \cup {Indefinite}
<1> DEFINE Times == {Indefinite} \cup {req[d] : d \in Polled}
<1>1. Times \in SUBSET Nat /\ Times # {}
  BY PollAssumption
<1>2. PICK ms \in Times : \A y \in Times : ms <= y
  BY <1>1, LeastNumber
<1>3. \E x \in Times : \A d \in Polled : x <= req[d]
  BY <1>2
<1>4. polltime' \in Times
  BY <1>3 DEF SetPollTime
<1> QED
  BY <1>4 DEF SetPollTime

(* Each step keeps the types and loses no wake-up.  Wake adds a byte or    *)
(* finds the pipe full; either way there is one to end the next sleep.     *)
LEMMA WakeOK ==
    ASSUME wakePipe \in Nat, Wake
    PROVE  wakePipe' \in Nat /\ wakePipe' > 0
  BY PollAssumption DEF Wake

LEMMA ControlKeeps ==
    ASSUME PInv, ControlStep
    PROVE  PInv'
<1> USE PollAssumption DEF PInv
<1>1. CASE Enable \/ EnableFails \/ SetDriverDelay
  BY <1>1 DEF Enable, EnableFails, SetDriverDelay, timeVars, pollVars, TimesOK, NoStaleSleep,
              Controls, Calls, AfterWake, Idle
<1>2. CASE WakeFirst
  BY <1>2, WakeOK DEF WakeFirst, timeVars, pollVars, TimesOK, NoStaleSleep, Controls, Calls, AfterWake, Idle
<1>3. CASE UpdateSensorActivate
  <2>1. ctl.driver \in Polled
    BY <1>3 DEF UpdateSensorActivate, TimesOK
  <2>2. PICK req \in [Polled -> PollTimes \cup {Indefinite}] : SetPollTime(req)
    BY <1>3, <2>1 DEF UpdateSensorActivate, TimesOK
  <2>3. ctl' = [pc |-> "wakePoll", then |-> Idle]
    BY <1>3 DEF UpdateSensorActivate
  <2>4. ctl' \in Controls /\ ctl'.pc = "wakePoll"
    BY <2>3 DEF Controls, Calls, AfterWake
  <2> QED
    BY <1>3, <2>2, <2>4, SetPollTimeOK DEF UpdateSensorActivate, pollVars, TimesOK, NoStaleSleep
<1>4. CASE UpdateSensorPollTime
  <2>1. ctl \in [pc : {"delayTime"}, driver : Polled, ms : PollTimes]
    BY <1>4 DEF UpdateSensorPollTime, TimesOK, Controls, Calls, AfterWake, Idle
  <2>2. PICK req \in [Polled -> PollTimes \cup {Indefinite}] : SetPollTime(req)
    BY <1>4, <2>1 DEF UpdateSensorPollTime, TimesOK
  <2>3. ctl' = [pc |-> "wakePoll", then |-> [ctl EXCEPT !.pc = "delay"]]
    BY <1>4 DEF UpdateSensorPollTime
  <2>4. [ctl EXCEPT !.pc = "delay"] \in [pc : {"delay"}, driver : Drivers, ms : PollTimes]
    BY <2>1 DEF Drivers
  <2>5. ctl' \in Controls /\ ctl'.pc = "wakePoll"
    BY <2>3, <2>4 DEF Controls, Calls, AfterWake
  <2>6. wakePipe' = wakePipe /\ timeout' = timeout
    BY <1>4 DEF UpdateSensorPollTime, pollVars
  <2>7. TimesOK'
    BY <2>2, <2>5, <2>6, SetPollTimeOK DEF TimesOK
  <2> QED
    BY <2>5, <2>7 DEF NoStaleSleep
<1>5. CASE WakePoll
  <2>1. ctl \in [pc : {"wakePoll"}, then : AfterWake]
    BY <1>5 DEF WakePoll, TimesOK, Controls, Calls, AfterWake, Idle
  <2>2. ctl' \in Controls
    BY <1>5, <2>1 DEF WakePoll, Controls, Calls, AfterWake
  <2>3. ctl'.pc # "activateTime"
    BY <1>5, <2>1 DEF WakePoll, AfterWake, Idle
  <2>4. wakePipe' \in Nat /\ wakePipe' > 0
    BY <1>5, WakeOK DEF WakePoll, TimesOK
  <2>5. UNCHANGED <<isSensorEnabled, requestedPollTime, polltime, timeout>>
    BY <1>5 DEF WakePoll, timeVars, pollVars
  <2>6. TimesOK'
    BY <2>3, <2>2, <2>4, <2>5 DEF TimesOK
  <2> QED
    BY <2>4, <2>6 DEF NoStaleSleep
<1> QED
  BY <1>1, <1>2, <1>3, <1>4, <1>5 DEF ControlStep

LEMMA PollKeeps ==
    ASSUME PInv, PollStep \/ PollInterrupted
    PROVE  PInv'
<1> USE PollAssumption DEF PInv
<1>1. CASE PollEvents \/ PassDriver \/ ReadQueued \/ ReadPolled
  BY <1>1 DEF PollEvents, PassDriver, ReadQueued, ReadPolled, NextDriver, timeVars, ctlVars,
              TimesOK, NoStaleSleep
<1>2. CASE CallPoll
  <2>1. timeout' \in {timeout, 0, polltime}
    BY <1>2 DEF CallPoll
  <2>2. pc' = "poll" => timeout' \in {0, polltime}
    BY <1>2 DEF CallPoll
  <2>3. polltime \in Nat /\ polltime' = polltime
    BY <1>2 DEF CallPoll, timeVars, TimesOK
  <2>4. NoStaleSleep'
    BY <2>2, <2>3 DEF NoStaleSleep
  <2> QED
    BY <1>2, <2>1, <2>4 DEF CallPoll, timeVars, ctlVars, TimesOK
<1>3. CASE PollReturns \/ PollInterrupted
  BY <1>3 DEF PollReturns, PollInterrupted, timeVars, ctlVars, TimesOK, NoStaleSleep
<1> QED
  BY <1>1, <1>2, <1>3 DEF PollStep

LEMMA PInvStep ==
    ASSUME PInv, [Next]_vars
    PROVE  PInv'
<1> USE DEF PInv
<1>1. ASSUME NEW d \in Drivers, NEW on \in BOOLEAN, Activate(d, on) PROVE PInv'
  BY <1>1 DEF Activate, Call, timeVars, pollVars, TimesOK, NoStaleSleep, Controls, Calls, AfterWake, Idle
<1>2. ASSUME NEW d \in Drivers, NEW ms \in PollTimes, SetDelay(d, ms) PROVE PInv'
  BY <1>2 DEF SetDelay, Call, timeVars, pollVars, TimesOK, NoStaleSleep, Controls, Calls, AfterWake, Idle
<1>3. ASSUME NEW d, DelayPasses(d) \/ EventArrives(d) PROVE PInv'
  BY <1>3 DEF DelayPasses, EventArrives, timeVars, ctlVars, pollVars, TimesOK, NoStaleSleep
<1>4. CASE UNCHANGED vars
  BY <1>4 DEF vars, timeVars, ctlVars, pollVars, TimesOK, NoStaleSleep
<1> QED
  BY <1>1, <1>2, <1>3, <1>4, ControlKeeps, PollKeeps DEF Next

(* sensors.cpp:218: whatever the two threads do, and however full the wake *)
(* pipe is, pollEvents does not sleep past a shorter poll time.            *)
THEOREM NoOversleeping == Spec => []NoStaleSleep
<1>1. PInv /\ [Next]_vars => PInv'
  BY PInvStep
<1>2. PInv => NoStaleSleep
  BY DEF PInv
<1> QED
  BY <1>1, <1>2, PInvInit, PTL DEF Spec
=============================================================================
