--------------------------- MODULE NvsInputProofs ---------------------------
(* Theorems about EventReader and NvsInput, for a ring of any size and any  *)
(* number of axes.                                                         *)
EXTENDS NvsInput, SequenceTheorems, TLAPS

-----------------------------------------------------------------------------
(* How events are numbered.                                                *)

LEMMA SampleLength ==
    /\ Axes \in Nat /\ Axes > 0
    /\ Axes + 1 \in Nat /\ Axes + 1 > 0
    /\ MaxSamples \in Nat
  BY InputAssumption

LEMMA Division ==
    ASSUME NEW n \in Nat, NEW d \in Nat, d > 0
    PROVE  /\ n \div d \in Nat
           /\ n % d \in 0 .. d - 1
           /\ n = d * (n \div d) + (n % d)
<1>1. n \div d \in Nat /\ n % d \in 0 .. d - 1
  OBVIOUS
<1>2. n = d * (n \div d) + (n % d)
  BY Z3
<1> QED
  BY <1>1, <1>2

LEMMA QuotientAndRemainder ==
    ASSUME NEW n \in Nat, NEW d \in Nat, d > 0,
           NEW q \in Nat, NEW r \in 0 .. d - 1, n = d * q + r
    PROVE  n \div d = q /\ n % d = r
<1>1. n \div d = q
  OBVIOUS
<1>2. n = d * (n \div d) + (n % d) /\ n % d \in Int
  BY Division
<1>3. d * q \in Int
  OBVIOUS
<1> QED
  BY <1>1, <1>2, <1>3

LEMMA NextQuotient ==
    ASSUME NEW n \in Nat, NEW d \in Nat, d > 0
    PROVE  /\ n % d = d - 1 => (n + 1) % d = 0 /\ (n + 1) \div d = n \div d + 1
           /\ n % d # d - 1 => (n + 1) % d = (n % d) + 1 /\ (n + 1) \div d = n \div d
<1>1. PICK q \in Nat, r \in 0 .. d - 1 :
          n = d * q + r /\ n \div d = q /\ n % d = r
  BY Division
<1>2. CASE r = d - 1
  <2>1. n + 1 = d * (q + 1) + 0
    BY <1>1, <1>2
  <2>2. q + 1 \in Nat /\ 0 \in 0 .. d - 1 /\ n + 1 \in Nat
    BY <1>1
  <2>3. (n + 1) \div d = q + 1 /\ (n + 1) % d = 0
    BY ONLY <2>1, <2>2, QuotientAndRemainder, d \in Nat, d > 0
  <2> QED
    BY <1>1, <1>2, <2>3
<1>3. CASE r # d - 1
  <2>1. n + 1 = d * q + (r + 1)
    BY <1>1
  <2>2. r + 1 \in 0 .. d - 1 /\ n + 1 \in Nat
    BY <1>1, <1>3
  <2>3. (n + 1) \div d = q /\ (n + 1) % d = r + 1
    BY <2>1, <2>2, QuotientAndRemainder
  <2> QED
    BY <1>1, <1>3, <2>3
<1> QED
  BY <1>2, <1>3

LEMMA Numbering ==
    ASSUME NEW e \in Nat \ {0}
    PROVE  /\ AxisOf(e) \in 0 .. Axes
           /\ SampleOf(e) \in Nat \ {0}
           /\ IsSyn(e) <=> AxisOf(e) = Axes
           /\ IsSyn(e) => AxisOf(e + 1) = 0 /\ SampleOf(e + 1) = SampleOf(e) + 1
           /\ ~IsSyn(e) => AxisOf(e + 1) = AxisOf(e) + 1 /\ SampleOf(e + 1) = SampleOf(e)
<1>1. PICK n \in Nat : e = n + 1
  <2>1. e - 1 \in Nat /\ e = (e - 1) + 1
    OBVIOUS
  <2> QED
    BY <2>1
<1>2. PICK d \in Nat : d = Axes + 1 /\ d > 0 /\ Axes = d - 1 /\ Axes \in Nat
  BY SampleLength
<1>3. /\ AxisOf(e) = n % d /\ SampleOf(e) = n \div d + 1 /\ e % (Axes + 1) = (n + 1) % d
      /\ AxisOf(e + 1) = (n + 1) % d /\ SampleOf(e + 1) = (n + 1) \div d + 1
  <2>1. e - 1 = n /\ (e + 1) - 1 = n + 1
    BY <1>1
  <2> QED
    BY <1>1, <1>2, <2>1 DEF AxisOf, SampleOf
<1>4. n \div d \in Nat /\ n % d \in 0 .. d - 1 /\ (n + 1) % d \in Nat
  <2>1. n + 1 \in Nat
    OBVIOUS
  <2> QED
    BY <1>2, <2>1, Division
<1>5. /\ n % d = d - 1 => (n + 1) % d = 0 /\ (n + 1) \div d = n \div d + 1
      /\ n % d # d - 1 => (n + 1) % d = (n % d) + 1 /\ (n + 1) \div d = n \div d
  BY <1>2, NextQuotient
<1>6. e % (Axes + 1) = 0 <=> n % d = d - 1
  BY <1>3, <1>4, <1>5
<1> QED
  BY <1>2, <1>3, <1>4, <1>5, <1>6 DEF IsSyn

LEMMA FirstEvent == AxisOf(1) = 0 /\ SampleOf(1) = 1
<1>1. PICK d \in Nat : d = Axes + 1 /\ d > 0
  BY SampleLength
<1>2. 0 = d * 0 + 0 /\ 0 \in 0 .. d - 1
  BY <1>1
<1>3. 0 \div d = 0 /\ 0 % d = 0
  BY <1>1, <1>2, QuotientAndRemainder
<1> QED
  BY <1>1, <1>3 DEF AxisOf, SampleOf

(* No event belongs to a sample that is not reported.                      *)
LEMMA SampleBound ==
    ASSUME NEW e \in Event
    PROVE  e \in Nat \ {0} /\ SampleOf(e) \in 1 .. MaxSamples
<1>1. PICK d \in Nat : d = Axes + 1 /\ d > 0
  BY SampleLength
<1>2. e \in Nat \ {0} /\ e <= MaxSamples * d /\ MaxSamples \in Nat
  BY <1>1, SampleLength, InputAssumption
<1>3. PICK n \in Nat : e = n + 1
  <2>1. e - 1 \in Nat /\ e = (e - 1) + 1
    BY <1>2
  <2> QED
    BY <2>1
<1>4. PICK q \in Nat, r \in 0 .. d - 1 : n = d * q + r /\ n \div d = q
  BY <1>1, Division
<1>5. q < MaxSamples
  <2>1. d * q < MaxSamples * d
    BY <1>1, <1>2, <1>3, <1>4
  <2>2. ASSUME q >= MaxSamples PROVE FALSE
    <3>1. q = MaxSamples + (q - MaxSamples) /\ q - MaxSamples \in Nat
      BY <1>2, <2>2
    <3>2. d * (q - MaxSamples) \in Nat
      BY <3>1
    <3>3. d * q = MaxSamples * d + d * (q - MaxSamples)
      BY <1>2, <3>1
    <3> QED
      BY <1>2, <2>1, <3>2, <3>3
  <2> QED
    BY <1>2, <2>2
<1>6. SampleOf(e) = q + 1
  BY <1>1, <1>3, <1>4, (n + 1) - 1 = n DEF SampleOf
<1> QED
  BY <1>2, <1>5, <1>6

-----------------------------------------------------------------------------
(* The ring.                                                               *)

(* mHead is Available events ahead of mCurr, going round at the end.  It    *)
(* stays at the end of an empty ring when mCurr has gone round already.    *)
HeadFollows ==
    \/ mHead = mCurr + Available
    \/ mHead + NumEvents = mCurr + Available
    \/ mHead = mCurr + Available + NumEvents

RingInv == ReaderTypeOK /\ HeadFollows

QueueIsSeq ==
    /\ Available \in 0 .. NumEvents
    /\ Queue \in Seq(Event \cup {NoEvent})
    /\ Len(Queue) = Available

LEMMA QueueIsSequence == RingInv => QueueIsSeq
<1> SUFFICES ASSUME RingInv PROVE QueueIsSeq
  OBVIOUS
<1>1. Available \in 0 .. NumEvents
  BY ReaderAssumption DEF RingInv, ReaderTypeOK, Available
<1>2. \A i \in 1 .. Available : SlotAt(i - 1) \in Slot
  BY <1>1, ReaderAssumption DEF RingInv, ReaderTypeOK, Slot, SlotAt
<1>3. Queue \in [1 .. Available -> Event \cup {NoEvent}]
  BY <1>2 DEF Queue, RingInv, ReaderTypeOK
<1> QED
  BY <1>1, <1>3 DEF Queue, QueueIsSeq

LEMMA RingInit == ReaderInit => RingInv /\ Queue = <<>>
<1> SUFFICES ASSUME ReaderInit PROVE RingInv /\ Queue = <<>>
  OBVIOUS
<1>1. RingInv /\ Available = 0
  BY ReaderAssumption
  DEF ReaderInit, RingInv, ReaderTypeOK, HeadFollows, Available, Slot
<1>2. Queue \in Seq(Event \cup {NoEvent}) /\ Len(Queue) = 0
  BY <1>1, QueueIsSequence DEF QueueIsSeq
<1> QED
  BY <1>1, <1>2

(* next drops the oldest event.                                            *)
LEMMA AdvanceTakes ==
    ASSUME RingInv, Available > 0, Advance
    PROVE  RingInv' /\ Queue' = Tail(Queue) /\ Queue # <<>>
<1>1. NumEvents \in Nat /\ NumEvents > 0
  BY ReaderAssumption
<1>2. /\ mHead \in 0 .. NumEvents /\ mCurr \in 0 .. NumEvents - 1
      /\ mFreeSpace \in 0 .. NumEvents /\ Available \in 1 .. NumEvents
  BY <1>1 DEF RingInv, ReaderTypeOK, Available
<1>3. RingInv'
  BY <1>1, <1>2 DEF RingInv, ReaderTypeOK, HeadFollows, Available, Advance
<1>4. Available' = Available - 1
  BY <1>1, <1>2 DEF Available, Advance
<1>5. /\ Queue \in Seq(Event \cup {NoEvent}) /\ Len(Queue) = Available
      /\ Queue' \in Seq(Event \cup {NoEvent}) /\ Len(Queue') = Available - 1
  <2>1. RingInv' => QueueIsSeq'
    BY QueueIsSequence, PTL
  <2> QED
    BY <1>3, <1>4, <2>1, QueueIsSequence DEF QueueIsSeq
<1>6. \A i \in 1 .. Available - 1 : Queue'[i] = Queue[i + 1]
  <2> SUFFICES ASSUME NEW i \in 1 .. Available - 1
               PROVE  Queue'[i] = Queue[i + 1]
    OBVIOUS
  <2>1. SlotAt(i - 1)' = SlotAt(i)
    BY <1>1, <1>2 DEF SlotAt, Advance
  <2>2. Queue'[i] = mBuffer'[SlotAt(i - 1)']
    BY <1>4 DEF Queue
  <2>3. i + 1 \in 1 .. Available /\ (i + 1) - 1 = i
    BY <1>2
  <2>4. Queue[i + 1] = mBuffer[SlotAt(i)]
    BY <2>3 DEF Queue
  <2> QED
    BY <2>1, <2>2, <2>4 DEF Advance
<1> QED
  BY <1>2, <1>3, <1>5, <1>6

(* fill appends what it has read, without touching the events in the ring. *)
LEMMA FillAppends ==
    ASSUME RingInv, NEW es \in Seq(Event), Len(es) <= mFreeSpace, FillWith(es)
    PROVE  /\ RingInv'
           /\ Queue' = Queue \o es
           /\ Available' = Available + Len(es)
<1> DEFINE n    == Len(es)
           over == mHead + n - NumEvents
<1>1. /\ NumEvents \in Nat /\ NumEvents > 0
      /\ mHead \in 0 .. NumEvents /\ mCurr \in 0 .. NumEvents - 1
      /\ mFreeSpace \in 0 .. NumEvents /\ Available \in 0 .. NumEvents
      /\ n \in Nat /\ n <= mFreeSpace
      /\ Available = NumEvents - mFreeSpace
  BY ReaderAssumption DEF RingInv, ReaderTypeOK, Available
<1>2. /\ mFreeSpace' = mFreeSpace - n
      /\ mHead' = IF over > 0 THEN over ELSE mHead + n
      /\ mBuffer' = [i \in Slot |-> IF i < over THEN Written(es, NumEvents + i)
                                                ELSE Written(es, i)]
      /\ mCurr' = mCurr
  BY DEF FillWith, Over
<1>3. mBuffer' \in [Slot -> Event \cup {NoEvent}]
  <2>1. \A i \in Slot : Written(es, i) \in Event \cup {NoEvent}
    BY <1>1 DEF Written, RingInv, ReaderTypeOK
  <2>2. \A i \in Slot : i < over => NumEvents + i \in Slot
    BY <1>1 DEF Slot
  <2> QED
    BY <1>2, <2>1, <2>2
<1>4. RingInv' /\ Available' = Available + n
  <2>1. mFreeSpace' \in 0 .. NumEvents /\ mHead' \in 0 .. NumEvents
    BY <1>1, <1>2
  <2>2. Available' = Available + n
    BY <1>1, <1>2 DEF Available
  <2>3. HeadFollows'
    BY <1>1, <1>2, <2>2 DEF HeadFollows, RingInv
  <2> QED
    BY <1>1, <1>2, <1>3, <2>1, <2>2, <2>3 DEF RingInv, ReaderTypeOK
<1>5. /\ Queue \in Seq(Event \cup {NoEvent}) /\ Len(Queue) = Available
      /\ Queue' \in Seq(Event \cup {NoEvent}) /\ Len(Queue') = Available + n
  <2>1. RingInv' => QueueIsSeq'
    BY QueueIsSequence, PTL
  <2> QED
    BY <1>4, <2>1, QueueIsSequence DEF QueueIsSeq
<1>6. \A i \in 1 .. Available + n : Queue'[i] = mBuffer'[SlotAt(i - 1)]
  BY <1>1, <1>2, <1>4 DEF Queue, SlotAt
<1>7. ASSUME NEW i \in 1 .. Available
      PROVE  Queue'[i] = Queue[i]
  <2> DEFINE s == SlotAt(i - 1)
  <2>1. s \in Slot /\ s >= over /\ s \notin mHead .. mHead + n - 1
    BY <1>1 DEF SlotAt, Slot, HeadFollows, RingInv
  <2>2. mBuffer'[s] = mBuffer[s]
    BY <1>1, <1>2, <2>1, SMTT(30) DEF Written
  <2>3. Queue'[i] = mBuffer'[s]
    BY <1>1, <1>6
  <2> QED
    BY <2>2, <2>3 DEF Queue
<1>8. ASSUME NEW k \in 1 .. n
      PROVE  Queue'[Available + k] = es[k]
  <2> DEFINE s == SlotAt(Available + k - 1)
  <2>1. Queue'[Available + k] = mBuffer'[s]
    BY <1>1, <1>6
  <2>2. CASE s = mHead + k - 1 /\ s < NumEvents
    <3>1. s \in Slot /\ ~(s < over)
      BY <1>1, <2>2 DEF Slot
    <3>2. Written(es, s) = es[k]
      BY <1>1, <2>2 DEF Written
    <3> HIDE DEF s, over
    <3> QED
      BY <1>2, <2>1, <3>1, <3>2
  <2>3. CASE s + NumEvents = mHead + k - 1
    <3>1. s \in Slot /\ s < over
      BY <1>1, <2>3 DEF Slot, SlotAt
    <3>2. Written(es, NumEvents + s) = es[k]
      BY <1>1, <2>3, <3>1, SMTT(30) DEF Written, Slot
    <3> HIDE DEF s, over
    <3> QED
      BY <1>2, <2>1, <3>1, <3>2
  <2> QED
    BY <1>1, <2>2, <2>3 DEF SlotAt, HeadFollows, RingInv
<1>9. /\ Queue \o es \in Seq(Event \cup {NoEvent})
      /\ Len(Queue \o es) = Available + n
      /\ \A i \in 1 .. Available + n :
            (Queue \o es)[i] = IF i <= Available THEN Queue[i] ELSE es[i - Available]
  <2>1. es \in Seq(Event \cup {NoEvent})
    BY SeqMonotonic
  <2> QED
    BY <1>5, <2>1, ConcatProperties
<1> HIDE DEF n, over
<1>10. ASSUME NEW i \in 1 .. Available + n
       PROVE  Queue'[i] = (Queue \o es)[i]
  <2>1. CASE i <= Available
    <3>1. i \in 1 .. Available
      BY <1>1, <2>1
    <3> QED
      BY <1>7, <1>9, <2>1, <3>1
  <2>2. CASE ~(i <= Available)
    <3>1. i - Available \in 1 .. n /\ i = Available + (i - Available)
      BY <1>1, <2>2
    <3>2. Queue'[Available + (i - Available)] = es[i - Available]
      BY <1>8, <3>1
    <3> QED
      BY <1>9, <2>2, <3>1, <3>2
  <2> QED
    BY <2>1, <2>2
<1>11. Queue' = Queue \o es
  BY <1>5, <1>9, <1>10, SeqEqual
<1> QED
  BY <1>4, <1>11 DEF n

LEMMA RingUnchanged ==
    ASSUME UNCHANGED readerVars
    PROVE  Queue' = Queue /\ Available' = Available /\ (RingInv => RingInv')
<1>1. Available' = Available
  BY DEF readerVars, Available
<1>2. Queue' = Queue
  BY <1>1 DEF readerVars, Queue, SlotAt
<1> QED
  BY <1>1, <1>2 DEF readerVars, RingInv, ReaderTypeOK, HeadFollows

-----------------------------------------------------------------------------
(* The inductive invariant of NvsInput.                                    *)

(* The number of the last event taken out of the ring.                     *)
Processed == reported - Len(kernel) - Available

(* The ring and the kernel hold the events after that, in order.           *)
StreamInOrder ==
    /\ Processed \in Nat
    /\ \A i \in 1 .. Available : Queue[i] = Processed + i
    /\ \A i \in 1 .. Len(kernel) : kernel[i] = Processed + Available + i

(* The pending event has the axes of the new sample that have come so far, *)
(* and the others from the last sample.                                    *)
HalfBuilt ==
    LET next == Processed + 1
    IN  /\ sample.timestamp = SampleOf(next) - 1
        /\ \A a \in Axis : mPendingEvent[a] = IF a < AxisOf(next) THEN SampleOf(next)
                                                               ELSE SampleOf(next) - 1

NInv == TypeOK /\ HeadFollows /\ StreamInOrder /\ HalfBuilt

LEMMA Facts ==
    ASSUME NInv
    PROVE  /\ RingInv /\ Available \in 0 .. NumEvents
           /\ kernel \in Seq(Event) /\ Len(kernel) \in Nat
           /\ Processed \in Nat /\ reported \in Nat
           /\ reported = Processed + Available + Len(kernel)
           /\ NumEvents \in Nat /\ mFreeSpace \in 0 .. NumEvents
           /\ Available = NumEvents - mFreeSpace
<1>1. RingInv /\ kernel \in Seq(Event) /\ Len(kernel) \in Nat
  BY DEF NInv, TypeOK, RingInv
<1>2. Available \in 0 .. NumEvents
  BY <1>1, QueueIsSequence DEF QueueIsSeq
<1>3. /\ Processed \in Nat /\ reported \in Nat
      /\ reported = Processed + Available + Len(kernel)
  BY <1>1, <1>2, InputAssumption, SampleLength DEF NInv, StreamInOrder, Processed, TypeOK
<1> QED
  BY <1>1, <1>2, <1>3, ReaderAssumption DEF RingInv, ReaderTypeOK, Available

(* What readEvent points to is the event after the last one processed.     *)
LEMMA FrontIsNext ==
    ASSUME NInv, Available > 0
    PROVE  Front = Processed + 1 /\ Front \in Event
<1>1. Queue[1] = Processed + 1
  BY Facts DEF NInv, StreamInOrder
<1>2. Queue[1] = Front
  <2>1. SlotAt(0) = mCurr
    BY ReaderAssumption DEF NInv, TypeOK, ReaderTypeOK, SlotAt
  <2>2. 1 \in 1 .. Available /\ 1 - 1 = 0
    BY Facts
  <2> QED
    BY <2>1, <2>2 DEF Queue, Front
<1>3. Processed + 1 \in 1 .. MaxSamples * (Axes + 1)
  <2>1. MaxSamples * (Axes + 1) \in Nat
    BY SampleLength
  <2>2. reported <= MaxSamples * (Axes + 1)
    BY <2>1 DEF NInv, TypeOK
  <2> QED
    BY <2>1, <2>2, Facts
<1> QED
  BY <1>1, <1>2, <1>3, InputAssumption

(* Actions that leave the ring, the kernel and the pending event alone.    *)
LEMMA StreamUnchanged ==
    ASSUME NInv, TypeOK',
           UNCHANGED <<readerVars, mPendingEvent, kernel, reported, sample>>
    PROVE  NInv'
<1>1. Queue' = Queue /\ Available' = Available /\ RingInv'
  BY Facts, RingUnchanged
<1>2. Processed' = Processed
  BY <1>1 DEF Processed
<1>3. StreamInOrder'
  BY <1>1, <1>2 DEF NInv, StreamInOrder
<1>4. HalfBuilt'
  BY <1>2 DEF NInv, HalfBuilt
<1> QED
  BY <1>1, <1>3, <1>4 DEF NInv, RingInv

LEMMA ReportStep ==
    ASSUME NInv, Report
    PROVE  NInv' /\ Fifo!Arrive /\ sample' = sample
<1> DEFINE new == [i \in 1 .. Axes + 1 |-> reported + i]
<1>1. Queue' = Queue /\ Available' = Available /\ RingInv'
  BY Facts, RingUnchanged DEF Report
<1>2. new \in Seq(Event) /\ Len(new) = Axes + 1
  <2>1. \A i \in 1 .. Axes + 1 : reported + i \in Event
    <3>1. PICK m \in Nat : m = MaxSamples * (Axes + 1) /\ Event = 1 .. m
      BY SampleLength, InputAssumption
    <3>2. reported + Axes + 1 <= m
      BY <3>1 DEF Report
    <3>3. reported \in Nat /\ Axes \in Nat /\ m \in Int
      BY SampleLength, Facts
    <3>4. \A i \in 1 .. Axes + 1 : reported + i \in 1 .. m
      BY <3>2, <3>3
    <3> QED
      BY <3>1, <3>4
  <2>2. new \in [1 .. Axes + 1 -> Event]
    BY <2>1
  <2> QED
    BY <2>2, SampleLength, SeqDef
<1>3. /\ kernel' = kernel \o new
      /\ kernel' \in Seq(Event)
      /\ Len(kernel') = Len(kernel) + Axes + 1
      /\ \A i \in 1 .. Len(kernel) + Axes + 1 :
            kernel'[i] = IF i <= Len(kernel) THEN kernel[i] ELSE new[i - Len(kernel)]
  <2>1. kernel' = kernel \o new
    BY DEF Report
  <2> HIDE DEF new
  <2>2. /\ kernel \o new \in Seq(Event)
        /\ Len(kernel \o new) = Len(kernel) + Len(new)
        /\ \A i \in 1 .. Len(kernel) + Len(new) :
              (kernel \o new)[i] = IF i <= Len(kernel) THEN kernel[i] ELSE new[i - Len(kernel)]
    <3>1. kernel \in Seq(Event) /\ new \in Seq(Event)
      BY <1>2, Facts
    <3> QED
      BY <3>1, ConcatProperties, Zenon
  <2>3. Len(kernel) + Len(new) = Len(kernel) + Axes + 1
    BY <1>2, Facts, SampleLength
  <2> QED
    BY <2>1, <2>2, <2>3
<1>4. reported' = reported + Axes + 1 /\ Processed' = Processed
  <2>1. reported' = reported + Axes + 1
    BY DEF Report
  <2>2. Available' = Available /\ Len(kernel') = Len(kernel) + Axes + 1
    BY <1>1, <1>3
  <2>3. Processed' = reported' - Len(kernel') - Available'
    BY DEF Processed
  <2>4. Processed' = (reported + Axes + 1) - (Len(kernel) + Axes + 1) - Available
    BY <2>1, <2>2, <2>3
  <2>5. /\ Available \in Int /\ Len(kernel) \in Int /\ reported \in Int /\ Axes \in Int
        /\ Processed = reported - Len(kernel) - Available
    BY Facts, SampleLength DEF Processed
  <2> QED
    BY <2>1, <2>4, <2>5
<1>5. StreamInOrder'
  <2>1. ASSUME NEW i \in 1 .. Len(kernel')
        PROVE  kernel'[i] = Processed + Available + i
    <3>1. CASE i <= Len(kernel)
      BY <1>3, <3>1, Facts, SampleLength DEF NInv, StreamInOrder
    <3>2. CASE ~(i <= Len(kernel))
      <4>1. i - Len(kernel) \in 1 .. Axes + 1
        BY <1>3, <3>2, Facts, SampleLength
      <4>2. new[i - Len(kernel)] = reported + (i - Len(kernel))
        BY <4>1
      <4>3. kernel'[i] = new[i - Len(kernel)]
        BY <1>3, <3>2, Facts, SampleLength
      <4> QED
        BY <4>1, <4>2, <4>3, Facts
    <3> QED
      BY <3>1, <3>2
  <2> QED
    BY <1>1, <1>4, <2>1, Facts DEF NInv, StreamInOrder
<1>6. HalfBuilt'
  BY <1>4 DEF NInv, HalfBuilt, Report, driverVars
<1>7. TypeOK'
  <2>1. reported' \in 0 .. MaxSamples * (Axes + 1)
    <3>1. PICK m \in Nat : m = MaxSamples * (Axes + 1)
      BY SampleLength
    <3>2. reported + Axes + 1 <= m
      BY <3>1 DEF Report
    <3>3. reported \in Nat /\ Axes \in Nat
      BY SampleLength, Facts
    <3> QED
      BY <1>4, <3>1, <3>2, <3>3
  <2> QED
    BY <1>1, <1>3, <2>1 DEF NInv, TypeOK, RingInv, Report, driverVars, pollVars
<1>8. Fifo!Arrive
  <2>1. SubSeq(kernel', 1, Len(kernel)) = kernel
    <3>1. \A i \in 1 .. Len(kernel) : kernel'[i] \in Event /\ kernel'[i] = kernel[i]
      BY <1>3, Facts, SampleLength
    <3>2. /\ SubSeq(kernel', 1, Len(kernel)) \in Seq(Event)
          /\ Len(SubSeq(kernel', 1, Len(kernel))) = Len(kernel)
          /\ \A i \in 1 .. Len(kernel) : SubSeq(kernel', 1, Len(kernel))[i] = kernel'[i]
      BY <1>3, Facts, SampleLength
    <3> QED
      BY <3>1, <3>2, Facts, SeqEqual
  <2>2. Len(kernel) < Len(kernel')
    BY <1>3, Facts, SampleLength
  <2> QED
    BY <1>1, <1>3, <2>1, <2>2 DEF Fifo!Arrive
<1> QED
  BY <1>1, <1>5, <1>6, <1>7, <1>8 DEF NInv, RingInv, Report

LEMMA FillStep ==
    ASSUME NInv, Fill
    PROVE  NInv' /\ (Fifo!Move \/ UNCHANGED <<kernel, Queue>>) /\ sample' = sample
<1> DEFINE n    == Least(Len(kernel), mFreeSpace)
           es   == SubSeq(kernel, 1, n)
           rest == SubSeq(kernel, n + 1, Len(kernel))
<1>1. n \in 0 .. Len(kernel) /\ n <= mFreeSpace
  BY Facts DEF Least
<1>2. /\ es \in Seq(Event) /\ Len(es) = n
      /\ \A i \in 1 .. n : es[i] = kernel[i]
  <2> HIDE DEF n
  <2>1. \A i \in 1 .. n : kernel[i] \in Event
    BY <1>1, Facts
  <2> QED
    BY <1>1, <2>1, Facts
<1>3. /\ rest \in Seq(Event) /\ Len(rest) = Len(kernel) - n
      /\ \A i \in 1 .. Len(kernel) - n : rest[i] = kernel[n + i]
  <2> HIDE DEF n
  <2>1. \A i \in n + 1 .. Len(kernel) : kernel[i] \in Event
    BY <1>1, Facts
  <2> QED
    BY <1>1, <2>1, Facts
<1>4. FillWith(es) /\ kernel' = rest
  BY DEF Fill
<1> HIDE DEF n, es, rest
<1>5. RingInv' /\ Queue' = Queue \o es /\ Available' = Available + n
  BY <1>1, <1>2, <1>4, Facts, FillAppends
<1>6. Processed' = Processed
  <2>1. Processed' = reported - (Len(kernel) - n) - (Available + n)
    BY <1>3, <1>4, <1>5 DEF Fill, Processed
  <2>2. Processed = reported - Len(kernel) - Available
    BY DEF Processed
  <2> QED
    BY <1>1, <2>1, <2>2, Facts
<1>7. StreamInOrder'
  <2>1. ASSUME NEW i \in 1 .. Available + n
        PROVE  (Queue \o es)[i] = Processed + i
    <3>1. /\ Queue \in Seq(Event \cup {NoEvent}) /\ Len(Queue) = Available
          /\ es \in Seq(Event \cup {NoEvent})
      BY <1>2, Facts, QueueIsSequence, SeqMonotonic DEF QueueIsSeq
    <3>2. (Queue \o es)[i] = IF i <= Available THEN Queue[i] ELSE es[i - Available]
      BY <1>2, <3>1, ConcatProperties
    <3>3. CASE i <= Available
      BY <3>2, <3>3, Facts DEF NInv, StreamInOrder
    <3>4. CASE ~(i <= Available)
      <4>1. i - Available \in 1 .. n /\ i - Available \in 1 .. Len(kernel)
        BY <1>1, <3>4, Facts, SMTT(30)
      <4>2. kernel[i - Available] = Processed + Available + (i - Available)
        BY <4>1 DEF NInv, StreamInOrder
      <4>3. es[i - Available] = kernel[i - Available]
        BY <1>2, <4>1
      <4>4. Processed \in Int /\ i \in Int /\ Available \in Int
        BY Facts, <1>1
      <4>5. Processed + Available + (i - Available) = Processed + i
        BY <4>4
      <4> QED
        BY <3>2, <3>4, <4>2, <4>3, <4>5
    <3> QED
      BY <3>3, <3>4
  <2>2. ASSUME NEW i \in 1 .. Len(kernel) - n
        PROVE  rest[i] = Processed + (Available + n) + i
    <3>1. n + i \in 1 .. Len(kernel)
      BY <1>1, Facts
    <3>2. kernel[n + i] = Processed + Available + (n + i)
      BY <3>1 DEF NInv, StreamInOrder
    <3> QED
      BY <1>1, <1>3, <3>2, Facts, SMTT(30)
  <2>3. Processed \in Nat
    BY Facts
  <2> QED
    BY <1>3, <1>4, <1>5, <1>6, <2>1, <2>2, <2>3 DEF StreamInOrder
<1>8. HalfBuilt'
  BY <1>6 DEF NInv, HalfBuilt, Fill, driverVars
<1>9. TypeOK'
  BY <1>3, <1>4, <1>5 DEF NInv, TypeOK, RingInv, Fill, driverVars
<1>10. Fifo!Move \/ UNCHANGED <<kernel, Queue>>
  <2>1. CASE n = 0
    <3>1. es = <<>> /\ rest = kernel
      BY <1>2, <1>3, <2>1, Facts DEF es, rest
    <3>2. Queue \o <<>> = Queue
      BY Facts, QueueIsSequence, ConcatEmptySeq DEF QueueIsSeq
    <3> QED
      BY <1>4, <1>5, <3>1, <3>2
  <2>2. CASE n # 0
    <3>1. n \in 1 .. Len(kernel) /\ Len(Queue) + n <= NumEvents
      BY <1>1, <2>2, Facts, QueueIsSequence DEF QueueIsSeq
    <3> QED
      BY <1>4, <1>5, <3>1 DEF Fifo!Move, es, rest
  <2> QED
    BY <2>1, <2>2
<1> QED
  BY <1>5, <1>7, <1>8, <1>9, <1>10 DEF NInv, RingInv, Fill

(* Either way of taking an event out of the ring.                          *)
LEMMA TakeStep ==
    ASSUME NInv, Available > 0, Advance, UNCHANGED <<kernel, reported>>
    PROVE  /\ RingInv' /\ StreamInOrder' /\ Fifo!Take
           /\ Processed' = Processed + 1
<1>1. RingInv' /\ Queue' = Tail(Queue) /\ Queue # <<>>
  BY Facts, AdvanceTakes
<1>2. Available' = Available - 1
  BY Facts DEF Available, Advance
<1>3. Processed' = Processed + 1
  BY <1>2, Facts, SMTT(30) DEF Processed
<1>4. StreamInOrder'
  <2>1. ASSUME NEW i \in 1 .. Available - 1
        PROVE  Tail(Queue)[i] = Processed + 1 + i
    <3>1. Queue \in Seq(Event \cup {NoEvent}) /\ Len(Queue) = Available
      BY Facts, QueueIsSequence DEF QueueIsSeq
    <3>2. Tail(Queue)[i] = Queue[i + 1]
      BY <1>1, <3>1, HeadTailProperties, Facts
    <3>3. i + 1 \in 1 .. Available
      BY Facts
    <3>4. Queue[i + 1] = Processed + (i + 1)
      BY <3>3 DEF NInv, StreamInOrder
    <3>5. Processed \in Int /\ i \in Int
      BY Facts
    <3>6. Processed + (i + 1) = Processed + 1 + i
      BY <3>5
    <3> QED
      BY <3>2, <3>4, <3>6
  <2>2. ASSUME NEW i \in 1 .. Len(kernel)
        PROVE  kernel[i] = Processed + 1 + (Available - 1) + i
    <3>1. kernel[i] = Processed + Available + i
      BY DEF NInv, StreamInOrder
    <3> QED
      BY <3>1, Facts
  <2>3. Processed' \in Nat
    BY <1>3, Facts
  <2>4. \A i \in 1 .. Available' : Queue'[i] = Processed' + i
    BY <1>1, <1>2, <1>3, <2>1
  <2>5. \A i \in 1 .. Len(kernel') : kernel'[i] = Processed' + Available' + i
    BY <1>2, <1>3, <2>2
  <2> QED
    BY <2>3, <2>4, <2>5 DEF StreamInOrder
<1> QED
  BY <1>1, <1>3, <1>4 DEF Fifo!Take

LEMMA ProcessEventStep ==
    ASSUME NInv, ProcessEvent
    PROVE  NInv' /\ Fifo!Take /\ sample' = sample
<1> DEFINE e == Processed + 1
<1>1. /\ RingInv' /\ StreamInOrder' /\ Fifo!Take /\ Processed' = Processed + 1
  BY TakeStep DEF ProcessEvent, deviceVars
<1>2. e \in Event /\ Front = e /\ ~IsSyn(e)
  BY FrontIsNext DEF ProcessEvent
<1>3. e \in Nat \ {0} /\ SampleOf(e) \in 1 .. MaxSamples
  BY <1>2, SampleBound
<1> HIDE DEF e
<1>4. /\ AxisOf(e) \in 0 .. Axes /\ AxisOf(e) # Axes
      /\ AxisOf(e + 1) = AxisOf(e) + 1 /\ SampleOf(e + 1) = SampleOf(e)
  BY <1>2, <1>3, Numbering
<1>5. AxisOf(e) \in Axis
  BY <1>4, SampleLength DEF Axis
<1>6. mPendingEvent' = [mPendingEvent EXCEPT ![AxisOf(e)] = SampleOf(e)]
  BY <1>2 DEF ProcessEvent
<1>7. TypeOK'
  <2>1. mPendingEvent' \in [Axis -> 0 .. MaxSamples]
    BY <1>3, <1>5, <1>6 DEF NInv, TypeOK
  <2> QED
    BY <1>1, <2>1 DEF NInv, TypeOK, RingInv, ProcessEvent, deviceVars, pollVars
<1>8. HalfBuilt'
  <2>1. Processed' + 1 = e + 1
    BY <1>1 DEF e
  <2>2. /\ sample.timestamp = SampleOf(e) - 1
        /\ \A a \in Axis : mPendingEvent[a] = IF a < AxisOf(e) THEN SampleOf(e)
                                                             ELSE SampleOf(e) - 1
    BY DEF NInv, HalfBuilt, e
  <2>3. ASSUME NEW a \in Axis
        PROVE  mPendingEvent'[a] = IF a < AxisOf(e) + 1 THEN SampleOf(e)
                                                       ELSE SampleOf(e) - 1
    <3>1. mPendingEvent'[a] = IF a = AxisOf(e) THEN SampleOf(e) ELSE mPendingEvent[a]
      BY <1>6 DEF NInv, TypeOK
    <3> QED
      BY <1>4, <2>2, <3>1, SampleLength DEF Axis
  <2> QED
    BY <1>4, <2>1, <2>2, <2>3 DEF HalfBuilt, ProcessEvent
<1> QED
  BY <1>1, <1>7, <1>8 DEF NInv, RingInv, ProcessEvent

LEMMA EmitSampleStep ==
    ASSUME NInv, EmitSample
    PROVE  /\ NInv' /\ Fifo!Take
           /\ sample'.timestamp = sample.timestamp + 1
           /\ \A a \in Axis : sample'.data[a] = sample'.timestamp
<1> DEFINE e == Processed + 1
<1>1. /\ RingInv' /\ StreamInOrder' /\ Fifo!Take /\ Processed' = Processed + 1
  BY TakeStep DEF EmitSample, deviceVars
<1>2. e \in Event /\ Front = e /\ IsSyn(e)
  BY FrontIsNext DEF EmitSample
<1>3. e \in Nat \ {0} /\ SampleOf(e) \in 1 .. MaxSamples
  BY <1>2, SampleBound
<1>4. /\ sample.timestamp = SampleOf(e) - 1
      /\ \A a \in Axis : mPendingEvent[a] = IF a < AxisOf(e) THEN SampleOf(e)
                                                           ELSE SampleOf(e) - 1
  BY DEF NInv, HalfBuilt
<1>5. Processed' + 1 = e + 1
  BY <1>1
<1> HIDE DEF e
<1>6. /\ AxisOf(e) = Axes
      /\ AxisOf(e + 1) = 0 /\ SampleOf(e + 1) = SampleOf(e) + 1
  BY <1>2, <1>3, Numbering
<1>7. \A a \in Axis : a < Axes /\ a >= 0 /\ mPendingEvent[a] = SampleOf(e)
  BY <1>4, <1>6, SampleLength DEF Axis
<1>8. sample' = [data |-> mPendingEvent, timestamp |-> SampleOf(e)]
  <2>1. Axes - 1 \in Axis
    BY SampleLength DEF Axis
  <2>2. Time = SampleOf(e)
    BY <1>2, <1>7, <2>1 DEF Time
  <2> QED
    BY <2>2 DEF EmitSample
<1>9. TypeOK'
  <2>1. sample' \in [data : [Axis -> 0 .. MaxSamples], timestamp : 0 .. MaxSamples]
    BY <1>3, <1>8 DEF NInv, TypeOK
  <2>2. nb' \in Nat /\ count' \in Nat
    BY DEF NInv, TypeOK, EmitSample
  <2>3. pc' \in {"idle", "fill", "loop", "done"}
    BY DEF NInv, TypeOK, EmitSample
  <2> QED
    BY <1>1, <2>1, <2>2, <2>3
    DEF NInv, TypeOK, RingInv, EmitSample, driverVars, deviceVars
<1>10. HalfBuilt'
  <2>1. sample'.timestamp = SampleOf(e + 1) - 1
    BY <1>3, <1>6, <1>8
  <2>2. ASSUME NEW a \in Axis
        PROVE  mPendingEvent'[a] = IF a < AxisOf(e + 1) THEN SampleOf(e + 1)
                                                       ELSE SampleOf(e + 1) - 1
    <3>1. mPendingEvent'[a] = SampleOf(e)
      BY <1>7 DEF EmitSample, driverVars
    <3>2. ~(a < 0)
      BY <1>7 DEF Axis
    <3> QED
      BY <1>3, <1>6, <3>1, <3>2
  <2> QED
    BY <1>5, <2>1, <2>2 DEF HalfBuilt
<1>11. sample'.timestamp = sample.timestamp + 1
  BY <1>3, <1>4, <1>8
<1> QED
  BY <1>1, <1>7, <1>8, <1>9, <1>10, <1>11 DEF NInv, RingInv

LEMMA NInvInit == Init => NInv /\ Fifo!Init
<1> SUFFICES ASSUME Init PROVE NInv /\ Fifo!Init
  OBVIOUS
<1>1. RingInv /\ Queue = <<>> /\ Available = 0
  BY RingInit, ReaderAssumption DEF Init, ReaderInit, Available
<1>2. kernel = <<>> /\ Len(kernel) = 0 /\ Processed = 0
  <2>1. kernel = <<>> /\ Len(<<>>) = 0 /\ reported = 0
    BY EmptySeq DEF Init
  <2>2. Processed = 0 - 0 - 0
    BY <1>1, <2>1 DEF Processed
  <2> QED
    BY <2>1, <2>2
<1>3. TypeOK
  <2>1. 0 \in 0 .. MaxSamples * (Axes + 1) /\ 0 \in 0 .. MaxSamples
    BY SampleLength
  <2>2. kernel \in Seq(Event)
    BY <1>2
  <2> QED
    BY <1>1, <2>1, <2>2 DEF Init, TypeOK, RingInv
<1>4. StreamInOrder
  BY <1>1, <1>2 DEF StreamInOrder
<1>5. HalfBuilt
  <2>1. AxisOf(Processed + 1) = 0 /\ SampleOf(Processed + 1) = 1
    BY <1>2, FirstEvent
  <2>2. \A a \in Axis : ~(a < 0)
    BY SampleLength DEF Axis
  <2> QED
    BY <2>1, <2>2 DEF HalfBuilt, Init
<1> QED
  BY <1>1, <1>2, <1>3, <1>4, <1>5 DEF NInv, RingInv, Fifo!Init

SampleFollows ==
    /\ sample'.timestamp = sample.timestamp + 1
    /\ \A a \in Axis : sample'.data[a] = sample'.timestamp

(* Every step keeps NInv, is a step of EventFifo or none, and hands over   *)
(* the next sample or none.                                                *)
LEMMA NInvStep ==
    ASSUME NInv, [Next]_vars
    PROVE  /\ NInv'
           /\ Fifo!Next \/ UNCHANGED <<kernel, Queue>>
           /\ sample' # sample => SampleFollows
<1>1. CASE Report
  BY <1>1, ReportStep DEF Fifo!Next
<1>2. CASE Fill
  BY <1>2, FillStep DEF Fifo!Next
<1>3. CASE ProcessEvent
  BY <1>3, ProcessEventStep DEF Fifo!Next
<1>4. CASE EmitSample
  BY <1>4, EmitSampleStep DEF Fifo!Next, SampleFollows
<1>5. CASE TypeOK' /\ UNCHANGED <<readerVars, mPendingEvent, kernel, reported, sample>>
  <2>1. UNCHANGED <<kernel, Queue>>
    BY <1>5, RingUnchanged
  <2> QED
    BY <1>5, <2>1, StreamUnchanged
<1> USE DEF NInv, TypeOK, ReaderTypeOK, Slot, readerVars, driverVars, deviceVars, pollVars
<1>6. ASSUME NEW on \in BOOLEAN, Enable(on)
      PROVE  TypeOK' /\ UNCHANGED <<readerVars, mPendingEvent, kernel, reported, sample>>
  BY <1>6 DEF Enable
<1>7. ASSUME NEW room \in Rooms, CallReadEvents(room)
      PROVE  TypeOK' /\ UNCHANGED <<readerVars, mPendingEvent, kernel, reported, sample>>
  <2>1. room \in Nat
    BY InputAssumption
  <2> QED
    BY <1>7, <2>1 DEF CallReadEvents
<1>8. CASE Refuse \/ FillFails
  <2>1. TypeOK' /\ UNCHANGED <<readerVars, mPendingEvent, kernel, reported, sample>>
    BY <1>8 DEF Refuse, FillFails, ReturnNothing
  <2> QED
    BY <1>5, <2>1
<1>9. CASE ReturnEvents
  <2>1. revents' = (nb >= count) \/ revents' = (count = 0)
    BY <1>9 DEF ReturnEvents
  <2>2. revents' \in BOOLEAN
    <3>1. (nb >= count) \in BOOLEAN /\ (count = 0) \in BOOLEAN
      OBVIOUS
    <3> QED
      BY <2>1, <3>1, Zenon
  <2>3. TypeOK' /\ UNCHANGED <<readerVars, mPendingEvent, kernel, reported, sample>>
    BY <1>9, <2>2 DEF ReturnEvents
  <2> QED
    BY <1>5, <2>3
<1>10. CASE UNCHANGED vars
  <2>1. TypeOK' /\ UNCHANGED <<readerVars, mPendingEvent, kernel, reported, sample>>
    BY <1>10 DEF vars
  <2> QED
    BY <1>5, <2>1
<1> QED
  BY <1>1, <1>2, <1>3, <1>4, <1>5, <1>6, <1>7, <1>8, <1>9, <1>10 DEF Next, PollStep

-----------------------------------------------------------------------------
(* Theorems.                                                               *)

(* The inductive invariant holds in every reachable state.                 *)
THEOREM Invariance == Spec => []NInv
<1>1. NInv /\ [Next]_vars => NInv'
  BY NInvStep
<1> QED
  BY <1>1, NInvInit, PTL DEF Spec

(* Types are kept; in particular mHead never leaves the first half of      *)
(* mBuffer, and a read() of all the free space stays inside the buffer.    *)
THEOREM TypeCorrect == Spec => []TypeOK
  BY Invariance, PTL DEF NInv

(* The ring is a bounded queue of what the kernel held, for a ring of any  *)
(* size.                                                                   *)
THEOREM ImplementsQueue == Spec => ImplementsFifo
<1>1. NInv /\ [Next]_vars => [Fifo!Next]_<<kernel, Queue>>
  BY NInvStep
<1>2. Init => Fifo!Init
  BY NInvInit
<1> QED
  BY <1>1, <1>2, Invariance, PTL DEF Spec, ImplementsFifo, Fifo!Spec

(* Samples reach the framework whole, in order and one by one, for any     *)
(* number of axes and however reads and calls divide the events.           *)
THEOREM SamplesInOrder == Spec => SamplesIntact
<1>1. NInv /\ [Next]_vars => [sample' # sample => SampleFollows]_vars
  BY NInvStep
<1> QED
  BY <1>1, Invariance, PTL DEF Spec, SamplesIntact, SampleFollows
=============================================================================
