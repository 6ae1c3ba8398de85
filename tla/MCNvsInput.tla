----------------------------- MODULE MCNvsInput -----------------------------
(* Instances of NvsInput for TLC.                                          *)
EXTENDS NvsInput

MCEvent == 1 .. MaxSamples * (Axes + 1)
=============================================================================
