------------------------------ MODULE EventFifo ------------------------------
(***************************************************************************)
(* What InputEventCircularReader promises: a bounded queue between the     *)
(* events the kernel holds and the reader.  fill() moves events from the   *)
(* kernel to its end, next() drops the oldest one.                         *)
(***************************************************************************)
EXTENDS Naturals, Sequences

CONSTANTS Capacity, Event

VARIABLES source, queue

Init ==
    /\ source = <<>>
    /\ queue = <<>>

Arrive ==
    /\ source' \in Seq(Event)
    /\ Len(source) < Len(source')
    /\ SubSeq(source', 1, Len(source)) = source
    /\ UNCHANGED queue

Move ==
    /\ \E n \in 1 .. Len(source) :
           /\ Len(queue) + n <= Capacity
           /\ queue' = queue \o SubSeq(source, 1, n)
           /\ source' = SubSeq(source, n + 1, Len(source))

Take ==
    /\ queue # <<>>
    /\ queue' = Tail(queue)
    /\ UNCHANGED source

Next == Arrive \/ Move \/ Take

Spec == Init /\ [][Next]_<<source, queue>>
=============================================================================
