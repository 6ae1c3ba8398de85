--------------------------- MODULE PmQosContract ----------------------------
(***************************************************************************)
(* What the TimeoutPoker promises about PM QoS constraints, with nothing   *)
(* of its queue, threads or descriptors: a request is answered once, by    *)
(* putting the constraint in force or by refusing it; a constraint that is *)
(* in force is lifted at most once, and never while its client still holds *)
(* the handle it was given.                                                *)
(***************************************************************************)
CONSTANT Req    \* requests

VARIABLES
    lease,      \* "idle", "pending" or "active"
    client      \* requests whose client holds an open handle

cvars == <<lease, client>>

Init ==
    /\ lease = [r \in Req |-> "idle"]
    /\ client = [r \in Req |-> FALSE]

Move(r, from, to) ==
    /\ lease[r] = from
    /\ lease' = [lease EXCEPT ![r] = to]

Request(r) == Move(r, "idle", "pending") /\ UNCHANGED client
Grant(r)   == Move(r, "pending", "active") /\ UNCHANGED client
Refuse(r)  == Move(r, "pending", "idle") /\ UNCHANGED client

HandOut(r) ==
    /\ lease[r] = "active"
    /\ ~client[r]
    /\ client' = [client EXCEPT ![r] = TRUE]
    /\ UNCHANGED lease

Drop(r) ==
    /\ client[r]
    /\ client' = [client EXCEPT ![r] = FALSE]
    /\ UNCHANGED lease

Release(r) ==
    /\ ~client[r]
    /\ Move(r, "active", "idle")
    /\ UNCHANGED client

Next ==
    \E r \in Req : \/ Request(r) \/ Grant(r) \/ Refuse(r)
                   \/ HandOut(r) \/ Drop(r) \/ Release(r)

Spec     == Init /\ [][Next]_cvars
FairSpec == Spec /\ \A r \in Req : WF_cvars(Grant(r) \/ Refuse(r))
=============================================================================
