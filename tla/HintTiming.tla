----------------------------- MODULE HintTiming -----------------------------
(***************************************************************************)
(* Rate limiting of power hints (check_hint and common_power_hint of       *)
(* common/power/nvpowerhal.cpp).  A hint that comes too soon after the     *)
(* last one of its kind is dropped, which is sound only while the timed    *)
(* boosts that one requested are still to expire.                          *)
(*                                                                         *)
(* Hints may come from several threads at once; nothing protects           *)
(* hint_time.  The time check_hint computes is a 32-bit long, as time_t is *)
(* on this board, before it is converted to uint64_t.                      *)
(***************************************************************************)
EXTENDS Integers

CONSTANTS
    Senders,    \* threads that send hints
    Hints,      \* kinds of hint
    Interval,   \* hint_interval
    Boost,      \* how long the shortest boost of the hint lasts
    Gap,        \* the longest pause between hints during interaction
    Wrap,       \* 2^32 microseconds
    MaxTime     \* BOUND: the clock stops at MaxTime

ASSUME TimingAssumption ==
    /\ Interval \in [Hints -> Nat]
    /\ Boost \in [Hints -> Nat]
    /\ \A h \in Hints : Interval[h] <= Boost[h]
    /\ Gap \in Nat \ {0}
    /\ Wrap \in Nat \ {0}
    /\ MaxTime \in Nat

VARIABLES
    now,         \* CLOCK_MONOTONIC
    hint_time,   \* time last hint was sent
    stage,       \* where each thread is in common_power_hint
    hint,        \* its argument
    stamp,       \* t, the time check_hint returned
    read,        \* history: when it read the clock
    requested,   \* history: when the last boost of each kind was requested
    called,      \* history: when the last hint of each kind was sent
    steady       \* history: hints of that kind have come at most Gap apart

timingVars == <<now, hint_time, stage, hint, stamp, read, requested, called, steady>>

Never == -1

TimingInit ==
    /\ now \in 1 .. MaxTime
    /\ hint_time = [h \in Hints |-> 0]
    /\ stage = [p \in Senders |-> "idle"]
    /\ hint \in [Senders -> Hints]
    /\ stamp = [p \in Senders |-> 0]
    /\ read = [p \in Senders |-> 0]
    /\ requested = [h \in Hints |-> Never]
    /\ called = [h \in Hints |-> Never]
    /\ steady = [h \in Hints |-> TRUE]

Tick ==
    /\ now < MaxTime
    /\ now' = now + 1
    /\ steady' = [h \in Hints |-> /\ steady[h]
                                  /\ \A p \in Senders : stage[p] = "idle"
                                  /\ called[h] = Never \/ now - called[h] < Gap]
    /\ UNCHANGED <<hint_time, stage, hint, stamp, read, requested, called>>

\* the value of tv_sec * 1000000 + tv_nsec / 1000 as a signed long
Stamp(time) ==
    LET bits == time % Wrap
    IN  IF 2 * bits < Wrap THEN bits ELSE bits - Wrap

\* check_hint compares as uint64_t: a negative difference is a huge one
TooSoon(h, time) ==
    /\ hint_time[h] # 0
    /\ Interval[h] # 0
    /\ time - hint_time[h] \in 0 .. Interval[h] - 1

Move(p, from, to) == stage[p] = from /\ stage' = [stage EXCEPT ![p] = to]

PowerHint(p, h) ==
    /\ Move(p, "idle", "clock")
    /\ hint' = [hint EXCEPT ![p] = h]
    /\ called' = [called EXCEPT ![h] = now]
    /\ UNCHANGED <<now, hint_time, stamp, read, requested, steady>>

ReadClock(p) ==
    /\ Move(p, "clock", "test")
    /\ stamp' = [stamp EXCEPT ![p] = Stamp(now)]
    /\ read' = [read EXCEPT ![p] = now]
    /\ UNCHANGED <<now, hint_time, hint, requested, called, steady>>

\* mutant: a dropped hint renews hint_time
Suppress_Renews(p) ==
    /\ TooSoon(hint[p], stamp[p])
    /\ Move(p, "test", "idle")
    /\ hint_time' = [hint_time EXCEPT ![hint[p]] = stamp[p]]
    /\ UNCHANGED <<now, hint, stamp, read, requested, called, steady>>

Suppress(p) ==
    /\ TooSoon(hint[p], stamp[p])
    /\ Move(p, "test", "idle")
    /\ UNCHANGED <<now, hint_time, hint, stamp, read, requested, called, steady>>

\* mutant: hint_time is stored before the boost is requested
Accept_StoresTime(p) ==
    /\ ~TooSoon(hint[p], stamp[p])
    /\ Move(p, "test", "request")
    /\ hint_time' = [hint_time EXCEPT ![hint[p]] = stamp[p]]
    /\ UNCHANGED <<now, hint, stamp, read, requested, called, steady>>

Accept(p) ==
    /\ ~TooSoon(hint[p], stamp[p])
    /\ Move(p, "test", "request")
    /\ UNCHANGED <<now, hint_time, hint, stamp, read, requested, called, steady>>

\* requestPmQosTimed; the switch of common_power_hint
RequestBoost(p) ==
    /\ Move(p, "request", "store")
    /\ requested' = [requested EXCEPT ![hint[p]] = now]
    /\ UNCHANGED <<now, hint_time, hint, stamp, read, called, steady>>

\* pInfo->hint_time[hint] = t
StoreTime(p) ==
    /\ Move(p, "store", "idle")
    /\ hint_time' = [hint_time EXCEPT ![hint[p]] = stamp[p]]
    /\ UNCHANGED <<now, hint, stamp, read, requested, called, steady>>

SenderStep(p) ==
    \/ \E h \in Hints : PowerHint(p, h)
    \/ ReadClock(p) \/ Suppress(p) \/ Accept(p) \/ RequestBoost(p) \/ StoreTime(p)

TimingNext == Tick \/ \E p \in Senders : SenderStep(p)

TimingSpec == TimingInit /\ [][TimingNext]_timingVars

-----------------------------------------------------------------------------
(* Properties.                                                             *)

TimingTypeOK ==
    /\ now \in Nat
    /\ hint_time \in [Hints -> Int]
    /\ stage \in [Senders -> {"idle", "clock", "test", "request", "store"}]
    /\ hint \in [Senders -> Hints]
    /\ stamp \in [Senders -> {0} \cup {Stamp(time) : time \in 1 .. now}]
    /\ read \in [Senders -> Nat]
    /\ requested \in [Hints -> Nat \cup {Never}]
    /\ called \in [Hints -> Nat \cup {Never}]
    /\ steady \in [Hints -> BOOLEAN]

Boosted(h, time) == requested[h] # Never /\ time < requested[h] + Boost[h]

(* A hint is dropped only while a boost of its kind is in force, as of the *)
(* time at which check_hint read the clock, in whatever order the threads  *)
(* read and write hint_time, and also when the time turns negative.  Once  *)
(* it has come round to a stored one this no longer holds.                 *)
DroppedOnlyWhileBoosted ==
    [][\A p \in Senders : Suppress(p) => Boosted(hint[p], read[p])]_timingVars

(* "so that we can maintain is constantly during interaction": while hints *)
(* come no more than Gap apart, and are handled at once, the boost does    *)
(* not lapse, provided Gap fits into the margin between the interval and   *)
(* the boost (and is less than the boost, where there is no interval).     *)
Interacting(h) ==
    /\ requested[h] # Never
    /\ steady[h]
    /\ \A p \in Senders : stage[p] = "idle"

Maintained ==
    \A h \in Hints :
        Interacting(h) /\ Interval[h] + Gap <= Boost[h] /\ Gap < Boost[h] => Boosted(h, now)
=============================================================================
