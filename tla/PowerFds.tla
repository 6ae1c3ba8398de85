------------------------------ MODULE PowerFds ------------------------------
(***************************************************************************)
(* The file descriptors powerhal_info keeps (common/power/nvpowerhal.cpp): *)
(* each app profile knob and each camera constraint is a PM QoS node that  *)
(* stays open until the knob is set again or the camera is reset.          *)
(*                                                                         *)
(* App profiles and camera hints come from different processes and run     *)
(* concurrently, with no lock; two hints of one kind do not.  A new file   *)
(* gets the lowest descriptor that is free.  The rest of the process opens *)
(* and closes files of its own.                                            *)
(***************************************************************************)
EXTENDS Integers, Sequences

CONSTANTS
    NumFds,        \* descriptors are 0 .. NumFds - 1
    Inherited,     \* how many of them the process has open at the start
    Profiles,      \* what app profiles set: sequences of knobs
    CameraCaps     \* what camera_cap entries set: sequences of knobs

AppSlots    == {"app_min_freq", "app_max_freq", "app_max_online_cpus",
                "app_max_gpu", "app_min_gpu"}
CameraSlots == {"fd_cpu_freq_max", "fd_min_online_cpus", "fd_max_online_cpus"}
Slots       == AppSlots \cup CameraSlots

ASSUME FdsAssumption ==
    /\ NumFds \in Nat \ {0}
    /\ Inherited \in 0 .. NumFds
    /\ Profiles \subseteq Seq(AppSlots)
    /\ CameraCaps \subseteq Seq(CameraSlots \cup {"app_min_freq"})

VARIABLES
    fds,        \* the int fields of fds and camera_power: slot -> descriptor
    file,       \* the process's fd table
    knobs,      \* the knobs the last hint of each kind sets, in their order
    at,         \* which of them it has come to
    phase,      \* what it does next to that knob
    resetting   \* the camera hint is CAMERA_HINT_RESET

fdsVars  == <<fds, file, knobs, at, phase, resetting>>
progress == <<knobs, at, phase, resetting>>

Fd      == 0 .. NumFds - 1
Setters == {"app", "camera"}

\* common_power_open and common_power_camera_init on a zeroed powerhal_info
InitialFds ==
    [s \in Slots |-> IF s \in {"app_max_freq", "app_max_online_cpus", "fd_max_online_cpus"}
                     THEN 0 ELSE -1]

FdsInit ==
    /\ fds = InitialFds
    /\ file = [fd \in Fd |-> IF fd < Inherited THEN "other" ELSE "free"]
    /\ knobs = [h \in Setters |-> <<>>]
    /\ at = [h \in Setters |-> 1]
    /\ phase = [h \in Setters |-> "test"]
    /\ resetting = FALSE

-----------------------------------------------------------------------------
(* The table of open files (kernel).                                       *)

Free == {fd \in Fd : file[fd] = "free"}

\* open returns the lowest free descriptor
Lowest(fd) == fd \in Free /\ \A f \in Free : fd <= f

\* close of a number that is not open fails with EBADF and changes nothing
Close(fd) == file' = IF fd \in Fd THEN [file EXCEPT ![fd] = "free"] ELSE file

-----------------------------------------------------------------------------
(* Hints.                                                                  *)

Busy(h) == at[h] \in 1 .. Len(knobs[h])
Slot(h) == knobs[h][at[h]]

Begin(h, sequence) ==
    /\ ~Busy(h)
    /\ knobs' = [knobs EXCEPT ![h] = sequence]
    /\ at' = [at EXCEPT ![h] = 1]
    /\ phase' = [phase EXCEPT ![h] = "test"]
    /\ UNCHANGED <<fds, file>>

\* mutant: one field is forgotten
ResetKnobs_CpuFreqKept == <<"app_min_freq", "fd_min_online_cpus", "fd_max_online_cpus">>

\* reset_camera_hint
ResetKnobs == <<"fd_cpu_freq_max", "app_min_freq", "fd_min_online_cpus", "fd_max_online_cpus">>

\* app_profile_set
AppProfile  == (\E sequence \in Profiles : Begin("app", sequence)) /\ UNCHANGED resetting
CameraHint  == (\E sequence \in CameraCaps : Begin("camera", sequence)) /\ resetting' = FALSE
CameraReset == Begin("camera", ResetKnobs) /\ resetting' = TRUE

-----------------------------------------------------------------------------
(* The setters, as the steps other threads can come between.               *)

Resets(h) == h = "camera" /\ resetting

Phase(h, from, to) ==
    /\ Busy(h) /\ phase[h] = from
    /\ phase' = [phase EXCEPT ![h] = to]
    /\ UNCHANGED <<knobs, at, resetting>>

Done(h, from) ==
    /\ Busy(h) /\ phase[h] = from
    /\ at' = [at EXCEPT ![h] = @ + 1]
    /\ phase' = [phase EXCEPT ![h] = "test"]
    /\ UNCHANGED <<knobs, resetting>>

\* the camera's setters close and overwrite, the others set the field to -1
AfterClose(h) == IF Slot(h) \in CameraSlots /\ ~Resets(h) THEN "open" ELSE "clear"

\* mutant: the camera's node of the last setting is not closed
CloseSlot_CameraKept(h) ==
    /\ Phase(h, "test", AfterClose(h))
    /\ fds[Slot(h)] # -1
    /\ IF AfterClose(h) = "open" THEN UNCHANGED file ELSE Close(fds[Slot(h)])
    /\ UNCHANGED fds

\* the test of the slot, and the close
CloseSlot(h) ==
    /\ Phase(h, "test", AfterClose(h))
    /\ fds[Slot(h)] # -1
    /\ Close(fds[Slot(h)])
    /\ UNCHANGED fds

\* the slot is -1: on to the open, or to the next knob
SkipSlot(h) ==
    /\ IF Resets(h) THEN Done(h, "test") ELSE Phase(h, "test", "open")
    /\ fds[Slot(h)] = -1
    /\ UNCHANGED <<fds, file>>

ClearSlot(h) ==
    /\ IF Resets(h) THEN Done(h, "clear") ELSE Phase(h, "clear", "open")
    /\ fds' = [fds EXCEPT ![Slot(h)] = -1]
    /\ UNCHANGED file

\* slot = requestPmQos(...)
OpenSlot(h) ==
    /\ Done(h, "open")
    /\ \E fd \in Fd :
          /\ Lowest(fd)
          /\ file' = [file EXCEPT ![fd] = Slot(h)]
          /\ fds' = [fds EXCEPT ![Slot(h)] = fd]

\* requestPmQos returns -1
OpenSlotFails(h) ==
    /\ Done(h, "open")
    /\ fds' = [fds EXCEPT ![Slot(h)] = -1]
    /\ UNCHANGED file

SetterStep(h) ==
    \/ CloseSlot(h) \/ SkipSlot(h) \/ ClearSlot(h)
    \/ OpenSlot(h) \/ OpenSlotFails(h)

\* the rest of the process
OtherOpens ==
    /\ \E fd \in Fd : Lowest(fd) /\ file' = [file EXCEPT ![fd] = "other"]
    /\ UNCHANGED <<fds, progress>>

OtherCloses ==
    /\ \E fd \in Fd : file[fd] = "other" /\ Close(fd)
    /\ UNCHANGED <<fds, progress>>

FdsNext ==
    \/ AppProfile \/ CameraHint \/ CameraReset
    \/ \E h \in Setters : SetterStep(h)
    \/ OtherOpens \/ OtherCloses

FdsSpec == FdsInit /\ [][FdsNext]_fdsVars

-----------------------------------------------------------------------------
(* Properties.                                                             *)

FdsTypeOK ==
    /\ fds \in [Slots -> Fd \cup {-1}]
    /\ file \in [Fd -> {"free", "other"} \cup Slots]
    /\ knobs \in [Setters -> Seq(Slots)]
    /\ at \in [Setters -> Nat \ {0}]
    /\ phase \in [Setters -> {"test", "clear", "open"}]
    /\ resetting \in BOOLEAN

(* app_min_freq is written by both kinds of hint.                          *)
PrivateSlots == Slots \ {"app_min_freq"}

(* No PM QoS node leaks: one that is open is named by the field it was     *)
(* opened for, whatever a field that shares its number has done, so the    *)
(* next setter of that knob or the next RESET closes it.                   *)
NodesAreNamed ==
    \A fd \in Fd : file[fd] \in PrivateSlots => fds[file[fd]] = fd

(* CAMERA_HINT_RESET lifts every camera constraint: when it has returned,  *)
(* no node a camera hint opened for itself is open.                        *)
ResetLiftsCamera ==
    [][Resets("camera") /\ Busy("camera") /\ ~Busy("camera")' =>
          \A fd \in Fd : file'[fd] \notin CameraSlots]_fdsVars

=============================================================================
