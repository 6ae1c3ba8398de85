-------------------------- MODULE PolledSensorsProofs --------------------------
(***************************************************************************)
(* Chips of polled sensors are powered in order: for drivers of any class, *)
(* whatever files they have found, and any number of writes that fail.     *)
(***************************************************************************)
EXTENDS PolledSensors, TLAPS

-----------------------------------------------------------------------------
(***************************************************************************)
(* PowerSequence speaks of the moments between calls of enable(), and of   *)
(* files other than those a call has yet to write.  What ties the two      *)
(* together is what a call has left to do: a disable switches the chip off *)
(* before the regulator, an enable switches it on after, and a call that   *)
(* ends early has not come to the chip.                                    *)
(***************************************************************************)

\* LightSensorBase goes on after a failure; the property is about calls without one then
Sound == Is(OfBase) => ~writeFailed

Chip == {"enable", "raw"}

CallOK ==
    /\ mEnabled \in BOOLEAN
    /\ ctl # Idle =>
          /\ ctl \in [pc : {"write"}, en : BOOLEAN, todo : SUBSET Sysfs, ret : {0, 1}]
          /\ ctl.todo \subseteq Writes

\* only files are switched
FilesOK ==
    /\ power \subseteq Writes
    /\ \A f \in power \cap Optional : device.path[f] = "file"

OrderOK ==
    /\ "enable" \in power /\ device.path["regulator"] = "file" => "regulator" \in power
    /\ ctl = Idle /\ ~mEnabled => power \cap Chip = {}
    /\ ctl # Idle =>
          /\ ctl.ret = 1
          /\ ctl.en /\ device.path["regulator"] = "file" /\ "regulator" \notin ctl.todo =>
                "regulator" \in power
          /\ ~ctl.en => power \cap Chip \subseteq ctl.todo
          /\ ~mEnabled => power \cap Chip \cap ctl.todo = {}
          /\ ~mEnabled /\ power \cap Chip # {} => ctl.en /\ ctl.todo = {}

SequenceInv == CallOK /\ FilesOK /\ (Sound => OrderOK)

\* enable() has every file there is to write
LEMMA WritesAll ==
    /\ Writes \subseteq Sysfs
    /\ \A f \in Optional : device.path[f] = "file" => f \in Writes
    /\ "raw" \in Writes => Writes = {"raw"}
  BY DEF Writes, Sysfs, Optional

LEMMA SequenceInit == Init => SequenceInv
<1> SUFFICES ASSUME Init PROVE SequenceInv
  OBVIOUS
<1>1. power = {} /\ ctl = Idle /\ mEnabled = FALSE
  BY DEF Init
<1> QED
  BY <1>1 DEF SequenceInv, CallOK, FilesOK, OrderOK

\* what a call in progress is
LEMMA InCall ==
    ASSUME SequenceInv, ctl.pc = "write"
    PROVE  /\ ctl # Idle
           /\ ctl \in [pc : {"write"}, en : BOOLEAN, todo : SUBSET Sysfs, ret : {0, 1}]
           /\ ctl.todo \subseteq Writes
<1>1. Idle.pc = "idle"
  BY DEF Idle
<1> QED
  BY <1>1 DEF SequenceInv, CallOK

LEMMA BeginInOrder ==
    ASSUME SequenceInv, NEW en \in BOOLEAN, Enable(en)
    PROVE  SequenceInv'
<1>1. /\ ctl = Idle
      /\ ctl' = [pc |-> "write", en |-> en, todo |-> Writes, ret |-> 1]
      /\ UNCHANGED <<device, power, mEnabled, writeFailed>>
  BY DEF Enable, setup
<1>2. Writes' = Writes /\ (Sound' <=> Sound)
  BY <1>1 DEF Writes, Is, Sound
<1>3. ctl' # Idle
  BY <1>1 DEF Idle
<1>4. CallOK'
  BY <1>1, <1>2, WritesAll DEF SequenceInv, CallOK
<1>5. FilesOK'
  BY <1>1, <1>2 DEF SequenceInv, FilesOK
<1>6. Sound => OrderOK'
  BY <1>1, <1>3, WritesAll DEF SequenceInv, FilesOK, OrderOK, Optional
<1> QED
  BY <1>2, <1>4, <1>5, <1>6 DEF SequenceInv

\* a file is written, or is not and the driver goes on or gives up
LEMMA WriteInOrder ==
    ASSUME SequenceInv, NEW f \in Sysfs, WriteIntToFile(f)
    PROVE  SequenceInv'
<1>1. /\ ctl.pc = "write" /\ f \in ctl.todo /\ (First \in ctl.todo => f = First)
      /\ device.path[f] = "file"
      /\ power' = IF ctl.en THEN power \cup {f} ELSE power \ {f}
      /\ ctl' = [ctl EXCEPT !.todo = ctl.todo \ {f}, !.ret = ctl.ret]
      /\ UNCHANGED <<device, mEnabled, writeFailed>>
  BY DEF WriteIntToFile, Turn, Written, setup
<1>2. Writes' = Writes /\ (Sound' <=> Sound)
  BY <1>1 DEF Writes, Is, Sound
<1>3. /\ ctl # Idle /\ ctl.todo \subseteq Writes
      /\ ctl \in [pc : {"write"}, en : BOOLEAN, todo : SUBSET Sysfs, ret : {0, 1}]
  BY <1>1, InCall
<1>4. /\ ctl' \in [pc : {"write"}, en : BOOLEAN, todo : SUBSET Sysfs, ret : {0, 1}]
      /\ ctl'.todo = ctl.todo \ {f} /\ ctl'.ret = ctl.ret /\ ctl'.en = ctl.en
      /\ ctl'.pc = "write"
  BY <1>1, <1>3
<1>5. ctl' # Idle
  BY <1>4 DEF Idle
<1>6. CallOK'
  BY <1>1, <1>2, <1>3, <1>4 DEF SequenceInv, CallOK
<1>7. FilesOK'
  BY <1>1, <1>2, <1>3 DEF SequenceInv, FilesOK
<1>8. ASSUME Sound PROVE OrderOK'
  <2>1. OrderOK /\ FilesOK
    BY <1>8 DEF SequenceInv
  <2>2. CASE ctl.en
    <3>1. First = "regulator" /\ power' = power \cup {f}
      BY <1>1, <2>2 DEF First
    <3>2. "enable" \in power' /\ device.path["regulator"] = "file" => "regulator" \in power'
      BY <1>1, <1>3, <2>1, <2>2, <3>1 DEF OrderOK
    <3>3. ~mEnabled => power' \cap Chip \cap ctl'.todo = {}
      BY <1>4, <2>1, <1>3, <3>1 DEF OrderOK
    <3>4. ~mEnabled /\ power' \cap Chip # {} => ctl'.todo = {}
      <4>1. CASE f = "regulator"
        BY <1>1, <1>3, <1>4, <2>1, <3>1, <4>1 DEF OrderOK, Chip
      <4>2. CASE f # "regulator"
        <5>1. "regulator" \notin ctl.todo
          BY <1>1, <3>1, <4>2
        <5>2. ctl.todo = {f}
          BY <1>1, <1>3, <4>2, <5>1, WritesAll DEF Sysfs, Optional
        <5> QED
          BY <1>4, <5>2
      <4> QED
        BY <4>1, <4>2
    <3>5. device.path["regulator"] = "file" /\ "regulator" \notin ctl'.todo => "regulator" \in power'
      BY <1>3, <1>4, <2>1, <2>2, <3>1 DEF OrderOK
    <3> QED
      BY <1>1, <1>3, <1>4, <1>5, <2>1, <2>2, <3>2, <3>3, <3>4, <3>5 DEF OrderOK
  <2>3. CASE ~ctl.en
    <3>1. First = "enable" /\ power' = power \ {f}
      BY <1>1, <2>3 DEF First
    <3>2. power' \cap Chip \subseteq ctl'.todo
      BY <1>3, <1>4, <2>1, <2>3, <3>1 DEF OrderOK
    <3>3. "enable" \in power' /\ device.path["regulator"] = "file" => "regulator" \in power'
      BY <1>1, <1>3, <2>1, <2>3, <3>1 DEF OrderOK, Chip
    <3>4. ~mEnabled => power' \cap Chip = {}
      BY <1>3, <2>1, <2>3, <3>1 DEF OrderOK
    <3> QED
      BY <1>1, <1>3, <1>4, <1>5, <2>1, <2>3, <3>2, <3>3, <3>4 DEF OrderOK
  <2> QED
    BY <2>2, <2>3
<1> QED
  BY <1>2, <1>6, <1>7, <1>8 DEF SequenceInv

LEMMA FailInOrder ==
    ASSUME SequenceInv, NEW f \in Sysfs, NEW result \in {-1, 0}, WriteFails(f, result)
    PROVE  SequenceInv'
<1>1. /\ ctl.pc = "write" /\ f \in ctl.todo
      /\ writeFailed' = TRUE
      /\ UNCHANGED <<device, power, mEnabled>>
  BY DEF WriteFails, Turn, Fails, setup
<1>2. Writes' = Writes /\ (Sound' <=> ~Is(OfBase))
  BY <1>1 DEF Writes, Is, Sound
<1>3. /\ ctl # Idle /\ ctl.todo \subseteq Writes
      /\ ctl \in [pc : {"write"}, en : BOOLEAN, todo : SUBSET Sysfs, ret : {0, 1}]
  BY <1>1, InCall
<1>4. FilesOK'
  BY <1>1, <1>2 DEF SequenceInv, FilesOK
<1>5. CASE Is(OfBase)
  <2>1. PICK ret \in {0, 1} : ctl' = [ctl EXCEPT !.todo = ctl.todo \ {f}, !.ret = ret]
    BY <1>3, <1>5 DEF WriteFails, Written
  <2>2. ctl' \in [pc : {"write"}, en : BOOLEAN, todo : SUBSET Sysfs, ret : {0, 1}]
        /\ ctl'.todo = ctl.todo \ {f}
    BY <1>3, <2>1
  <2>3. CallOK'
    BY <1>1, <1>2, <1>3, <2>2 DEF SequenceInv, CallOK
  <2> QED
    BY <1>2, <1>4, <1>5, <2>3 DEF SequenceInv
<1>6. CASE ~Is(OfBase)
  <2>1. ctl' = Idle
    BY <1>6 DEF WriteFails
  <2>2. CallOK'
    BY <1>1, <2>1 DEF SequenceInv, CallOK
  <2>3. OrderOK
    BY <1>6 DEF SequenceInv, Sound
  <2>4. ~mEnabled => power \cap Chip = {}
    BY <1>1, <1>3, <2>3 DEF OrderOK
  <2>5. OrderOK'
    BY <1>1, <2>1, <2>3, <2>4 DEF OrderOK
  <2> QED
    BY <1>4, <2>2, <2>5 DEF SequenceInv
<1> QED
  BY <1>5, <1>6

LEMMA ReturnInOrder ==
    ASSUME SequenceInv, EnableReturns
    PROVE  SequenceInv'
<1>1. /\ ctl.pc = "write" /\ ctl.todo = {} /\ ctl' = Idle
      /\ mEnabled' = IF ctl.ret = 1 THEN ctl.en ELSE mEnabled
      /\ UNCHANGED <<device, power, writeFailed>>
  BY DEF EnableReturns, setup
<1>2. Writes' = Writes /\ (Sound' <=> Sound)
  BY <1>1 DEF Writes, Is, Sound
<1>3. /\ ctl # Idle
      /\ ctl \in [pc : {"write"}, en : BOOLEAN, todo : SUBSET Sysfs, ret : {0, 1}]
  BY <1>1, InCall
<1>4. CallOK'
  BY <1>1, <1>3 DEF SequenceInv, CallOK
<1>5. FilesOK'
  BY <1>1, <1>2 DEF SequenceInv, FilesOK
<1>6. Sound => OrderOK'
  BY <1>1, <1>3 DEF SequenceInv, OrderOK
<1> QED
  BY <1>2, <1>4, <1>5, <1>6 DEF SequenceInv

LEMMA OthersInOrder ==
    ASSUME SequenceInv, UNCHANGED <<device, power, mEnabled, ctl, writeFailed>>
    PROVE  SequenceInv'
<1>1. Writes' = Writes /\ (Sound' <=> Sound)
  BY DEF Writes, Is, Sound
<1> QED
  BY <1>1 DEF SequenceInv, CallOK, FilesOK, OrderOK

LEMMA SequenceStep == SequenceInv /\ [Next]_vars => SequenceInv'
<1> SUFFICES ASSUME SequenceInv, [Next]_vars PROVE SequenceInv'
  OBVIOUS
<1>1. CASE \E en \in BOOLEAN : Enable(en)
  BY <1>1, BeginInOrder
<1>2. CASE EnableStep
  BY <1>2, WriteInOrder, FailInOrder, ReturnInOrder DEF EnableStep
<1>3. CASE ReadStep
  BY <1>3, OthersInOrder
  DEF ReadStep, ReadEvents, ReadIntFromFile, NoNews, News, ToEvent, ReturnEvent, setup
<1>4. CASE ReadFails
  BY <1>4, OthersInOrder DEF ReadFails, setup
<1>5. CASE DelayPasses \/ SetDelay
  BY <1>5, OthersInOrder DEF DelayPasses, SetDelay, setup
<1>6. CASE \E v \in Readings : ReadingChanges(v)
  BY <1>6, OthersInOrder DEF ReadingChanges
<1>7. CASE UNCHANGED vars
  BY <1>7, OthersInOrder DEF vars
<1> QED
  BY <1>1, <1>2, <1>3, <1>4, <1>5, <1>6, <1>7 DEF Next

(* lightsensor.cpp:186, cm3218.cpp:73: no chip is on without the regulator *)
(* its driver has found, or while the driver takes itself to be disabled,  *)
(* whichever files there are, however enable() is called and whatever      *)
(* fails; in LightSensorBase, until a write fails.                         *)
THEOREM PoweredInOrder == Spec => []PowerSequence
<1>1. SequenceInv => PowerSequence
  BY DEF SequenceInv, Sound, OrderOK, Chip, PowerSequence
<1> QED
  BY <1>1, SequenceInit, SequenceStep, PTL DEF Spec
=============================================================================
