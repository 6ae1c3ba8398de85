--------------------------- MODULE ResultsHolder ---------------------------
(***************************************************************************)
(* The results of the motion library (drivers/sensors/mlsdk/mllite/        *)
(* results_holder.c): what the fusion features store and what the outputs  *)
(* read.                                                                   *)
(*                                                                         *)
(* A quaternion of gyro and accel, and the correction of the compass, are  *)
(* members of Quat; the 9-axis quaternion is the pair of the two it is the *)
(* product of.  Fields that are only stored and returned are left out.     *)
(***************************************************************************)
EXTENDS DataBuilder

CONSTANTS
    Quat,           \* quaternions; "unit" is what inv_init_results_holder sets
    MaxCounter      \* BOUND: motion_state_counter

ASSUME ResultsAssumption ==
    /\ "unit" \in Quat
    /\ MaxCounter \in Nat

Product(correction, gam) == <<correction, gam>>     \* inv_q_mult

VARIABLE rh     \* struct results_t

MotionState == {"none", "motion", "noMotion"}       \* 0, INV_MOTION, INV_NO_MOTION

\* inv_init_results_holder
ResultsInit ==
    rh = [gam |-> "unit", correction |-> "unit", nav |-> Product("unit", "unit"),
          status |-> {}, motion |-> "none", counter |-> 0, compassBias |-> FALSE]

\* inv_store_gaming_quaternion
StoreGamingQuaternion(quat) ==
    rh' = [rh EXCEPT !.gam = quat, !.status = @ \cup {"sixAxisQuatSet"}]

\* inv_set_compass_correction
SetCompassCorrection(quat) ==
    rh' = [rh EXCEPT !.correction = quat, !.status = @ \cup {"compassCorrectionSet"}]

SetMotionState_NoClear(state) ==
    IF state = rh.motion
    THEN /\ rh' = [rh EXCEPT !.counter =
                      IF state # "noMotion" THEN 0
                      ELSE IF @ < MaxCounter THEN @ + 1 ELSE @]
         /\ UNCHANGED message
    ELSE /\ rh' = [rh EXCEPT !.counter = 0, !.motion = state]
         /\ SetMessage({state}, {})
\* inv_set_motion_state: only a change sends a message, and it takes back the other one
SetMotionState(state) ==
    IF state = rh.motion
    THEN /\ rh' = [rh EXCEPT !.counter =
                      IF state # "noMotion" THEN 0
                      ELSE IF @ < MaxCounter THEN @ + 1 ELSE @]
         /\ UNCHANGED message
    ELSE /\ rh' = [rh EXCEPT !.counter = 0, !.motion = state]
         /\ SetMessage({state}, {"motion", "noMotion"})

Navigated_OnlyBoth ==
    IF rh.status # {"sixAxisQuatSet", "compassCorrectionSet"} THEN rh
    ELSE [rh EXCEPT !.nav = Product(rh.correction, rh.gam), !.status = {}]
\* inv_get_quaternion: multiplies only where one of the factors has been set
Navigated ==
    IF rh.status = {} THEN rh
    ELSE [rh EXCEPT !.nav = Product(rh.correction, rh.gam), !.status = {}]

\* inv_set_compass_bias_found
SetCompassBiasFound(found) == rh' = [rh EXCEPT !.compassBias = found]
=============================================================================
