---------------------------- MODULE MCHalOutputs ----------------------------
(* An instance of HalOutputs for TLC.                                      *)
EXTENDS HalOutputs

\* in the order of inv_constructor_default_enable; priorities of data_builder.h
MCFeatures == <<
    [func |-> "quaternion", priority |-> 200, required |-> {"gyro", "accel", "quat"}],
    HalEntry,
    [func |-> "correction", priority |-> 700, required |-> {"compass"}]>>

MCCallback == {"quaternion", "hal", "correction", "results"}

\* accel is faster than gyro or slower
MCRateMs == [s \in Sensor |->
    IF s = "gyro" THEN {20} ELSE IF s = "accel" THEN {10, 30} ELSE {20}]
=============================================================================
