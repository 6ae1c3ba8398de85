--------------------------- MODULE MCPolledSensors ---------------------------
(* An instance of PolledSensors for TLC: drivers of every shape.           *)
EXTENDS PolledSensors

MCLtrThreshold == [v \in Readings \cup {UINT_MAX} |-> IF v = 0 THEN 1 ELSE 2]
=============================================================================
