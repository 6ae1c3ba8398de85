---------------------------- MODULE MCSensorPoll ----------------------------
(* An instance of SensorPoll for TLC: two polled drivers and one with an   *)
(* input device between them in mSensors.                                  *)
EXTENDS SensorPoll

CONSTANTS light, mpl, proximity

LightMplProx == <<light, mpl, proximity>>
Times        == {1, 2}
=============================================================================
