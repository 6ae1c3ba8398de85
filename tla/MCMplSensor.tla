--------------------------- MODULE MCMplSensor ---------------------------
(* The accelerometer beside a fused sensor, a delay that allows the idle   *)
(* rate beside that of a sensor that was never given one, a window of two  *)
(* values.                                                                 *)
EXTENDS MplSensor
=============================================================================
