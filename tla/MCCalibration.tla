--------------------------- MODULE MCCalibration ---------------------------
(* An instance of Calibration for TLC.                                     *)
EXTENDS Calibration

MCFeatures == <<"gyroTc">>
=============================================================================
