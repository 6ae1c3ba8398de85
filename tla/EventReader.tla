----------------------------- MODULE EventReader -----------------------------
(***************************************************************************)
(* InputEventCircularReader (drivers/sensors/InputEventReader.cpp): a ring *)
(* of numEvents input events in a buffer of twice that size, so that one   *)
(* read() can run past the end of the ring; what it put there is then      *)
(* copied to the start.  Pointers are indices into mBuffer.                *)
(***************************************************************************)
EXTENDS Integers, Sequences

CONSTANTS
    NumEvents,   \* numEvents; mBufferEnd - mBuffer
    Event,       \* input events
    NoEvent      \* content of a slot nothing has been read into

ASSUME ReaderAssumption ==
    /\ NumEvents \in Nat \ {0}
    /\ NoEvent \notin Event

VARIABLES mBuffer, mHead, mCurr, mFreeSpace

readerVars == <<mBuffer, mHead, mCurr, mFreeSpace>>

Slot == 0 .. 2 * NumEvents - 1

ReaderInit ==
    /\ mBuffer = [i \in Slot |-> NoEvent]
    /\ mHead = 0
    /\ mCurr = 0
    /\ mFreeSpace = NumEvents

Available == NumEvents - mFreeSpace

(* What read() leaves in slot i when it writes es to mHead.                *)
Written(es, i) ==
    IF i \in mHead .. mHead + Len(es) - 1 THEN es[i - mHead + 1] ELSE mBuffer[i]

(* How far es reach past the end of the ring.                              *)
Over(es) == mHead + Len(es) - NumEvents

\* mutant: the events past the end are not copied to the start
FillWith_NotCopied(es) ==
    /\ mFreeSpace' = mFreeSpace - Len(es)
    /\ mHead' = IF Over(es) > 0 THEN Over(es) ELSE mHead + Len(es)
    /\ mBuffer' = [i \in Slot |-> Written(es, i)]
    /\ UNCHANGED mCurr

\* fill, after read() has returned es
FillWith(es) ==
    /\ mFreeSpace' = mFreeSpace - Len(es)
    /\ mHead' = IF Over(es) > 0 THEN Over(es) ELSE mHead + Len(es)
    /\ mBuffer' = [i \in Slot |-> IF i < Over(es) THEN Written(es, NumEvents + i)
                                                  ELSE Written(es, i)]
    /\ UNCHANGED mCurr

\* next
Advance ==
    /\ mCurr' = IF mCurr + 1 >= NumEvents THEN 0 ELSE mCurr + 1
    /\ mFreeSpace' = mFreeSpace + 1
    /\ UNCHANGED <<mBuffer, mHead>>

-----------------------------------------------------------------------------

(* mHead may stand at the end of the ring but not beyond it, so that a     *)
(* read() of all the free space never leaves mBuffer.                      *)
ReaderTypeOK ==
    /\ mBuffer \in [Slot -> Event \cup {NoEvent}]
    /\ mHead \in 0 .. NumEvents
    /\ mCurr \in 0 .. NumEvents - 1
    /\ mFreeSpace \in 0 .. NumEvents

(* The slot i events after the one mCurr points to.                        *)
SlotAt(i) == IF mCurr + i < NumEvents THEN mCurr + i ELSE mCurr + i - NumEvents

(* The ring as a queue, oldest event first.                                *)
Queue == [i \in 1 .. Available |-> mBuffer[SlotAt(i - 1)]]
=============================================================================
