---------------------------- MODULE MessageLayer ----------------------------
(***************************************************************************)
(* Messages between the features of the motion library and its user        *)
(* (drivers/sensors/mlsdk/mllite/message_layer.c): one set of bits, at the *)
(* only level there is.                                                    *)
(***************************************************************************)

\* the bits, named after INV_MSG_*_EVENT
Message == {"motion", "noMotion", "newGyroBias", "newCompassBias", "newAccelBias"}

VARIABLE message    \* the bits set

MessageInit == message = {}

\* inv_set_message, level 0: what is cleared is cleared first
SetMessage(set, clear) == message' = (message \ clear) \cup set

\* inv_get_message_level_0(1)
TakeMessages == message' = {}
=============================================================================
