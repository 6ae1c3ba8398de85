--------------------------- MODULE PowerHalProofs ---------------------------
(***************************************************************************)
(* Theorems about the camera hints, the descriptors and the rate limiting  *)
(* of the power HAL, for any use cases, profiles and threads, any number   *)
(* of calls and descriptors, and any intervals.                            *)
(***************************************************************************)
EXTENDS CameraHints, PowerFds, HintTiming, TLAPS

-----------------------------------------------------------------------------
(***************************************************************************)
(* Camera hints.  QuietAfterReset is not inductive: what makes a reset     *)
(* final is that the handle is cleared before the state is, and that       *)
(* between calls a rate or a use case is there whenever a handle is.       *)
(***************************************************************************)

(* A table entry is looked up only with an index of the table.             *)
CapChosen ==
    /\ pc[Caller] = "usecase" => cap[Caller] \in Usecases
    /\ \A t \in Threads : pc[t] = "phsSet" => cap[t] \in Usecases

(* From the join on, there is no thread left; fd_gpu is cleared before the *)
(* rate is; and nobody is asked to exit but by a reset in progress.        *)
ResetOrder ==
    /\ pc[Caller] \in {"joined", "reset", "cancelled", "clear"} => regular_hints_thread = NoThread
    /\ pc[Caller] = "clear" => fd_gpu = NoFd
    /\ exit_hints_thread => pc[Caller] \in {"signal", "join", "joined"}

(* fd_gpu names an open target but between its cancelling and the          *)
(* assignment of -1, and so does the number a thread is about to store or  *)
(* to hand to NvOsModifyFpsTarget.                                         *)
TargetsOpen ==
    /\ fd_gpu # NoFd /\ pc[Caller] # "cancelled" => target[fd_gpu] # NotOpen
    /\ \A p \in Procs :
          pc[p] \in {"fpsStore", "fpsModify"} /\ gpuFd[p] # NoFd => target[gpuFd[p]] # NotOpen

(* With neither a use case nor a frame rate there is nothing to stop.      *)
NothingSet == usecase_index = NoUsecase /\ target_fps = 0

QuietState ==
    NothingSet =>
        /\ fd_gpu = NoFd
        /\ regular_hints_thread = NoThread
        /\ pc[Caller] \in {"idle", "reset", "clear"}

CameraInv ==
    /\ TypeOK /\ CapChosen /\ ResetOrder /\ QuietState
    /\ LiveThreadHasHandle /\ TargetsOpen

LEMMA CameraInit == Init => CameraInv
<1> SUFFICES ASSUME Init PROVE CameraInv
  OBVIOUS
<1> USE CameraAssumption
<1>1. pc[Caller] = "idle" /\ \A t \in Threads : pc[t] = "none"
  BY DEF Init, Procs
<1>2. TypeOK
  <2>1. pc \in [Procs -> CallerStates \cup ThreadStates]
    BY DEF Init, CallerStates, ThreadStates
  <2>2. pc[Caller] \in CallerStates /\ \A t \in Threads : pc[t] \in ThreadStates
    BY <1>1 DEF CallerStates, ThreadStates
  <2>3. calls \in 0 .. MaxCalls /\ failures \in 0 .. MaxFailures
    BY DEF Init
  <2>4. target \in [TargetFds -> Nat \cup {NotOpen}] /\ target_fps \in Nat
    BY DEF Init, NotOpen
  <2> QED
    BY <2>1, <2>2, <2>3, <2>4 DEF Init, TypeOK
<1>3. CapChosen /\ LiveThreadHasHandle
  BY <1>1 DEF CapChosen, LiveThreadHasHandle, Live
<1>4. fd_gpu = NoFd /\ regular_hints_thread = NoThread /\ ~exit_hints_thread
  BY DEF Init
<1>5. \A p \in Procs : gpuFd[p] = NoFd
  BY DEF Init
<1> QED
  BY <1>1, <1>2, <1>3, <1>4, <1>5 DEF CameraInv, ResetOrder, QuietState, TargetsOpen

(* A rate set by a table entry is a rate, and never takes one away.        *)
LEMMA SetPhsHintsRate ==
    ASSUME TypeOK, NEW u \in Usecases, SetPhsHints(u)
    PROVE  target_fps' \in Nat /\ (target_fps # 0 => target_fps' # 0)
  BY CameraAssumption DEF TypeOK, SetPhsHints

(* What set_camera_fps does, whoever runs it.                              *)
LEMMA SetCameraFpsKeeps ==
    ASSUME CameraInv, NEW p \in Procs, SetCameraFps(p)
    PROVE  CameraInv'
<1> USE CameraAssumption DEF CameraInv, NotOpen
<1> DEFINE Where == {"fpsOpen", "fpsStore", "fpsRead", "fpsModify", AfterFps(p)}
<1>1. /\ UNCHANGED <<calls, hintVars, target_fps, usecase_index, cap>>
      /\ failures' \in 0 .. MaxFailures
      /\ pc[p] \in FpsStates
      /\ \E to \in Where : pc' = [pc EXCEPT ![p] = to]
  BY DEF SetCameraFps, TestGpuFd, SetFpsTarget, SetFpsTargetFails, StoreGpuFd, ReadGpuFd,
         ModifyFpsTarget, ModifyFpsTargetFails, Fail, Goto, TypeOK, fpsVars, FpsStates
<1>2. p \in Threads => AfterFps(p) = "phs"
  BY DEF AfterFps
<1>3. AfterFps(Caller) = "launch"
  BY DEF AfterFps
<1>4. /\ pc[Caller] \notin {"joined", "reset", "cancelled", "clear"}
      /\ pc'[Caller] \notin {"joined", "reset", "cancelled", "clear"}
  BY <1>1, <1>2, <1>3 DEF ResetOrder, LiveThreadHasHandle, Live, Procs, TypeOK, FpsStates
<1>5. /\ fd_gpu # NoFd => target[fd_gpu] # -1
      /\ pc[p] \in {"fpsStore", "fpsModify"} /\ gpuFd[p] # NoFd => target[gpuFd[p]] # -1
  BY <1>4 DEF TargetsOpen
<1> DEFINE Types ==
       /\ fd_gpu' \in TargetFds \cup {NoFd}
       /\ gpuFd' \in [Procs -> TargetFds \cup {NoFd}]
       /\ target' \in [TargetFds -> Nat \cup {-1}]
<1> DEFINE Opened ==
       /\ \A q \in Procs \ {p} : gpuFd'[q] = gpuFd[q]
       /\ \A fd \in TargetFds : target[fd] # -1 => target'[fd] # -1
       /\ fd_gpu' # NoFd => target'[fd_gpu'] # -1
       /\ pc'[p] \in {"fpsStore", "fpsModify"} /\ gpuFd'[p] # NoFd => target'[gpuFd'[p]] # -1
<1> HIDE DEF CameraInv
<1>t. TypeOK
  BY DEF CameraInv
<1>n. NoFd \notin TargetFds
  OBVIOUS
<1>5b. Types /\ Opened
  <2>1. CASE TestGpuFd(p)
    <3>1. UNCHANGED <<fd_gpu, gpuFd, target>>
      BY <2>1 DEF TestGpuFd, fpsVars
    <3>2. pc'[p] \in {"fpsOpen", "fpsRead"}
      BY <2>1, <1>t DEF TestGpuFd, Goto, TypeOK
    <3> QED
      BY <3>1, <3>2, <1>t, <1>5 DEF TypeOK
  <2>2. CASE SetFpsTarget(p)
    <3>1. PICK fd \in TargetFds : /\ target[fd] = -1
                                  /\ target' = [target EXCEPT ![fd] = target_fps]
                                  /\ gpuFd' = [gpuFd EXCEPT ![p] = fd]
      BY <2>2 DEF SetFpsTarget
    <3>2. /\ target' \in [TargetFds -> Nat \cup {-1}]
          /\ target'[fd] # -1
          /\ \A other \in TargetFds : target[other] # -1 => target'[other] # -1
      BY <3>1, <1>t DEF TypeOK
    <3>3. /\ gpuFd' \in [Procs -> TargetFds \cup {NoFd}] /\ gpuFd'[p] = fd
          /\ \A q \in Procs \ {p} : gpuFd'[q] = gpuFd[q]
      BY <3>1, <1>t DEF TypeOK
    <3>4. fd_gpu' = fd_gpu /\ fd_gpu \in TargetFds \cup {NoFd}
      BY <2>2, <1>t DEF SetFpsTarget, TypeOK
    <3> QED
      BY <3>2, <3>3, <3>4, <1>5
  <2>3. CASE SetFpsTargetFails(p) \/ ModifyFpsTargetFails(p)
    <3>1. gpuFd' = [gpuFd EXCEPT ![p] = NoFd] /\ UNCHANGED <<fd_gpu, target>>
      BY <2>3 DEF SetFpsTargetFails, ModifyFpsTargetFails
    <3> QED
      BY <3>1, <1>t, <1>5 DEF TypeOK
  <2>4. CASE StoreGpuFd(p)
    <3>1. /\ pc[p] = "fpsStore" /\ fd_gpu' = gpuFd[p]
          /\ gpuFd' = [gpuFd EXCEPT ![p] = NoFd] /\ UNCHANGED target
      BY <2>4 DEF StoreGpuFd
    <3> QED
      BY <3>1, <1>t, <1>5 DEF TypeOK
  <2>5. CASE ReadGpuFd(p)
    <3>1. gpuFd' = [gpuFd EXCEPT ![p] = fd_gpu] /\ UNCHANGED <<fd_gpu, target>>
      BY <2>5 DEF ReadGpuFd
    <3> QED
      BY <3>1, <1>t, <1>5 DEF TypeOK
  <2>6. CASE ModifyFpsTarget(p)
    <3>1. /\ target' \in [TargetFds -> Nat \cup {-1}]
          /\ \A fd \in TargetFds : target[fd] # -1 => target'[fd] # -1
      BY <2>6, <1>t DEF ModifyFpsTarget, TypeOK
    <3>2. gpuFd' = [gpuFd EXCEPT ![p] = NoFd] /\ UNCHANGED fd_gpu
      BY <2>6 DEF ModifyFpsTarget
    <3> QED
      BY <3>1, <3>2, <1>t, <1>5 DEF TypeOK
  <2> QED
    BY <2>1, <2>2, <2>3, <2>4, <2>5, <2>6 DEF SetCameraFps
<1>5c. \A q \in Procs \ {p} : pc'[q] = pc[q]
  BY <1>1, <1>t DEF TypeOK
<1>5d. TargetsOpen'
  <2>1. fd_gpu' # NoFd => target'[fd_gpu'] # -1
    BY <1>5b
  <2>2. ASSUME NEW q \in Procs, pc'[q] \in {"fpsStore", "fpsModify"}, gpuFd'[q] # NoFd
        PROVE  target'[gpuFd'[q]] # -1
    <3>1. CASE q = p
      BY <2>2, <3>1, <1>5b
    <3>2. CASE q # p
      <4>1. pc'[q] = pc[q] /\ gpuFd'[q] = gpuFd[q]
        BY <3>2, <1>5b, <1>5c
      <4>2. target[gpuFd[q]] # -1 /\ gpuFd[q] \in TargetFds
        BY <2>2, <4>1, <1>t DEF CameraInv, TargetsOpen, TypeOK
      <4> QED
        BY <4>1, <4>2, <1>5b
    <3> QED
      BY <3>1, <3>2
  <2> QED
    BY <2>1, <2>2 DEF TargetsOpen
<1> USE DEF CameraInv
<1>6. TypeOK'
  <2>1. /\ pc' \in [Procs -> CallerStates \cup ThreadStates]
        /\ pc'[Caller] \in CallerStates
        /\ \A t \in Threads : pc'[t] \in ThreadStates
    BY <1>1, <1>2, <1>3 DEF TypeOK, Procs, CallerStates, ThreadStates, FpsStates
  <2> QED
    BY <1>1, <1>5b, <2>1 DEF TypeOK, hintVars
<1>7. ~NothingSet
  BY <1>1 DEF QuietState, LiveThreadHasHandle, Live, Procs, FpsStates
<1>8. LiveThreadHasHandle'
  BY <1>1 DEF LiveThreadHasHandle, Live, TypeOK, hintVars, Procs, FpsStates
<1>9. (CapChosen /\ ResetOrder)'
  BY <1>1, <1>2, <1>3, <1>4 DEF CapChosen, ResetOrder, TypeOK, hintVars, Procs, FpsStates
<1> QED
  BY <1>1, <1>5d, <1>6, <1>7, <1>8, <1>9 DEF QuietState, NothingSet, hintVars

(* The steps of a call.                                                    *)
LEMMA CallKeeps ==
    ASSUME CameraInv,
           \/ \E u \in Usecases : Usecase(u)
           \/ HintFps \/ HintReset
    PROVE  CameraInv'
<1> USE CameraAssumption DEF CameraInv, Call, Goto
<1>1. ASSUME NEW u \in Usecases, Usecase(u) PROVE CameraInv'
  <2>1. TypeOK'
    BY <1>1 DEF Usecase, TypeOK, Procs, CallerStates, hintVars, fpsVars
  <2> QED
    BY <1>1, <2>1 DEF Usecase, TypeOK, Procs, hintVars, fpsVars, CapChosen, ResetOrder,
       QuietState, NothingSet, LiveThreadHasHandle, Live, TargetsOpen
<1>2. CASE HintFps
  <2>1. TypeOK'
    <3>1. /\ pc' \in [Procs -> CallerStates \cup ThreadStates]
          /\ pc'[Caller] \in CallerStates
          /\ \A t \in Threads : pc'[t] = pc[t]
      BY <1>2 DEF HintFps, TypeOK, Procs, CallerStates, FpsStates
    <3> QED
      BY <1>2, <3>1 DEF HintFps, TypeOK, hintVars
  <2> QED
    BY <1>2, <2>1 DEF HintFps, TypeOK, Procs, hintVars, CapChosen, ResetOrder,
       QuietState, NothingSet, LiveThreadHasHandle, Live, TargetsOpen
<1>3. CASE HintReset
  <2>1. TypeOK'
    <3>1. calls' \in 0 .. MaxCalls
          /\ UNCHANGED <<regular_hints_thread, fpsVars, usecase_index, failures>>
      BY <1>3 DEF HintReset, TypeOK
    <3>5. exit_hints_thread' \in BOOLEAN
      <4>1. exit_hints_thread' = exit_hints_thread \/ exit_hints_thread' = TRUE
        BY <1>3, Zenon DEF HintReset
      <4>2. exit_hints_thread \in BOOLEAN
        BY DEF TypeOK
      <4> QED
        BY <4>1, <4>2, Zenon
    <3>2. cap' \in [Procs -> Usecases \cup {NoUsecase}]
      BY <1>3 DEF HintReset, TypeOK, Procs
    <3>3. \E to \in {"reset", "signal"} : pc' = [pc EXCEPT ![Caller] = to]
      BY <1>3 DEF HintReset
    <3>4. /\ pc' \in [Procs -> CallerStates \cup ThreadStates]
          /\ pc'[Caller] \in CallerStates
          /\ \A t \in Threads : pc'[t] = pc[t]
      BY <3>3 DEF TypeOK, Procs, CallerStates
    <3> QED
      BY <3>1, <3>2, <3>4, <3>5 DEF TypeOK, fpsVars
  <2> QED
    BY <1>3, <2>1 DEF HintReset, TypeOK, Procs, fpsVars, CapChosen, ResetOrder,
       QuietState, NothingSet, LiveThreadHasHandle, Live, TargetsOpen
<1> QED
  BY <1>1, <1>2, <1>3

LEMMA CallStepKeeps ==
    ASSUME CameraInv, CallStep
    PROVE  CameraInv'
<1> USE CameraAssumption DEF CameraInv, Goto
<1>1. CASE ApplyCap
  <2>1. target_fps' \in Nat /\ (target_fps # 0 => target_fps' # 0)
    BY <1>1, SetPhsHintsRate DEF ApplyCap, CapChosen
  <2>2. TypeOK'
    BY <1>1, <2>1 DEF ApplyCap, TypeOK, Procs, CallerStates, hintVars
  <2> QED
    BY <1>1, <2>1, <2>2 DEF ApplyCap, TypeOK, Procs, hintVars, CapChosen, ResetOrder,
       QuietState, NothingSet, LiveThreadHasHandle, Live, TargetsOpen
<1>2. CASE Launch
  <2>1. ~NothingSet
    BY <1>2 DEF Launch, QuietState
  <2>2. CASE regular_hints_thread = NoThread /\ (target_fps # 0 \/ HasHints(cap[Caller]))
    <3>1. PICK t \in Threads : /\ pc[t] = "none"
                               /\ regular_hints_thread' = t
                               /\ pc' = [pc EXCEPT ![t] = "check", ![Caller] = "idle"]
      BY <1>2, <2>2 DEF Launch
    <3>2. pc' \in [Procs -> CallerStates \cup ThreadStates] /\ pc'[Caller] = "idle"
          /\ pc'[t] = "check" /\ \A q \in Threads \ {t} : pc'[q] = pc[q]
      BY <3>1 DEF TypeOK, Procs, CallerStates, ThreadStates
    <3>3. TypeOK'
      BY <1>2, <3>1, <3>2 DEF Launch, TypeOK, CallerStates, ThreadStates, fpsVars
    <3>4. LiveThreadHasHandle'
      BY <2>2, <3>1, <3>2 DEF LiveThreadHasHandle, Live
    <3> QED
      BY <1>2, <2>1, <3>1, <3>2, <3>3, <3>4 DEF Launch, fpsVars, CapChosen, ResetOrder,
         QuietState, NothingSet, TargetsOpen
  <2>3. CASE ~(regular_hints_thread = NoThread /\ (target_fps # 0 \/ HasHints(cap[Caller])))
    <3>1. pc' = [pc EXCEPT ![Caller] = "idle"] /\ UNCHANGED regular_hints_thread
      BY <1>2, <2>3 DEF Launch
    <3>2. TypeOK'
      BY <1>2, <3>1 DEF Launch, TypeOK, Procs, CallerStates, fpsVars
    <3> QED
      BY <1>2, <2>1, <3>1, <3>2 DEF Launch, TypeOK, Procs, fpsVars, CapChosen, ResetOrder,
         QuietState, NothingSet, LiveThreadHasHandle, Live, TargetsOpen
  <2> QED
    BY <2>2, <2>3
<1>3. CASE LaunchFails
  <2>1. ~NothingSet
    BY <1>3 DEF LaunchFails, QuietState
  <2>2. TypeOK'
    BY <1>3 DEF LaunchFails, Fail, TypeOK, Procs, CallerStates, fpsVars
  <2> QED
    BY <1>3, <2>1, <2>2 DEF LaunchFails, TypeOK, Procs, fpsVars, CapChosen, ResetOrder,
       QuietState, NothingSet, LiveThreadHasHandle, Live, TargetsOpen
<1>4. CASE SignalHintsThread
  <2>1. /\ pc[Caller] = "signal" /\ pc' \in [Procs -> CallerStates \cup ThreadStates]
        /\ pc'[Caller] = "join"
        /\ \A t \in Threads : pc'[t] = pc[t] \/ (pc[t] = "wait" /\ pc'[t] = "woken")
    BY <1>4 DEF SignalHintsThread, TypeOK, Procs, CallerStates, ThreadStates
  <2>2. TypeOK'
    BY <1>4, <2>1 DEF SignalHintsThread, TypeOK, CallerStates, ThreadStates, hintVars, fpsVars
  <2> QED
    BY <1>4, <2>1, <2>2 DEF SignalHintsThread, hintVars, fpsVars, CapChosen, ResetOrder,
       QuietState, NothingSet, LiveThreadHasHandle, Live, TargetsOpen
<1>5. CASE JoinHintsThread
  <2>1. /\ pc[Caller] = "join" /\ pc' \in [Procs -> CallerStates \cup ThreadStates]
        /\ pc'[Caller] = "joined"
        /\ \A t \in Threads : pc'[t] = pc[t] \/ (pc[t] = "exited" /\ pc'[t] = "none")
        /\ \A t \in Threads : regular_hints_thread = t => pc[t] = "exited"
    BY <1>5 DEF JoinHintsThread, TypeOK, Procs, CallerStates, ThreadStates
  <2>2. TypeOK'
    BY <1>5, <2>1 DEF JoinHintsThread, TypeOK, CallerStates, ThreadStates, fpsVars
  <2> QED
    BY <1>5, <2>1, <2>2 DEF JoinHintsThread, fpsVars, CapChosen, ResetOrder,
       QuietState, NothingSet, LiveThreadHasHandle, Live, TargetsOpen
<1>6. CASE ClearExit
  <2>1. TypeOK'
    BY <1>6 DEF ClearExit, TypeOK, Procs, CallerStates, fpsVars
  <2> QED
    BY <1>6, <2>1 DEF ClearExit, TypeOK, Procs, fpsVars, CapChosen, ResetOrder,
       QuietState, NothingSet, LiveThreadHasHandle, Live, TargetsOpen
<1>7. CASE CancelFpsTarget
  <2>1. \A p \in Procs : pc[p] \notin {"fpsStore", "fpsModify"}
    BY <1>7 DEF CancelFpsTarget, ResetOrder, LiveThreadHasHandle, Live, Procs
  <2>2. TypeOK'
    BY <1>7 DEF CancelFpsTarget, TypeOK, Procs, CallerStates, hintVars, NotOpen
  <2> QED
    BY <1>7, <2>1, <2>2 DEF CancelFpsTarget, TypeOK, Procs, hintVars, CapChosen, ResetOrder,
       QuietState, NothingSet, LiveThreadHasHandle, Live, TargetsOpen
<1>8. CASE ClearGpuFd \/ ResetCameraHint
  <2>1. TypeOK'
    BY <1>8 DEF ClearGpuFd, ResetCameraHint, TypeOK, Procs, CallerStates, hintVars
  <2> QED
    BY <1>8, <2>1 DEF ClearGpuFd, ResetCameraHint, TypeOK, Procs, hintVars, CapChosen, ResetOrder,
       QuietState, NothingSet, LiveThreadHasHandle, Live, TargetsOpen
<1>9. CASE SetCameraFps(Caller)
  BY <1>9, SetCameraFpsKeeps DEF Procs
<1> QED
  BY <1>1, <1>2, <1>3, <1>4, <1>5, <1>6, <1>7, <1>8, <1>9 DEF CallStep

(* The steps of the hints thread: it lives only while something is set.    *)
LEMMA ThreadStepKeeps ==
    ASSUME CameraInv, NEW t \in Threads, ThreadStep(t) \/ SpuriousWakeup(t)
    PROVE  CameraInv'
<1> USE CameraAssumption DEF CameraInv, Goto
<1>1. CASE SetCameraFps(t)
  BY <1>1, SetCameraFpsKeeps DEF Procs
<1>2. ASSUME CheckExit(t) \/ WaitTimesOut(t) \/ SpuriousWakeup(t) \/ ExitThread(t) \/ TestFps(t)
      PROVE  CameraInv'
  <2>1. /\ \E to \in {"wait", "timeout", "woken", "exited", "fps", "phs"} : pc' = [pc EXCEPT ![t] = to]
        /\ Live(t)
        /\ UNCHANGED <<calls, hintVars, fpsVars, usecase_index, cap, failures>>
    BY <1>2 DEF CheckExit, WaitTimesOut, SpuriousWakeup, ExitThread, TestFps, Live
  <2>2. TypeOK'
    BY <2>1 DEF TypeOK, Procs, FpsStates, ThreadStates, hintVars, fpsVars
  <2> QED
    BY <2>1, <2>2 DEF TypeOK, Procs, hintVars, fpsVars, CapChosen, ResetOrder,
       QuietState, NothingSet, LiveThreadHasHandle, Live, TargetsOpen
<1>3. CASE PickCap(t)
  <2>1. TypeOK'
    BY <1>3 DEF PickCap, TypeOK, Procs, ThreadStates, hintVars, fpsVars
  <2> QED
    BY <1>3, <2>1 DEF PickCap, TypeOK, Procs, hintVars, fpsVars, CapChosen, ResetOrder,
       QuietState, NothingSet, LiveThreadHasHandle, Live, TargetsOpen
<1>4. CASE RepeatHints(t)
  <2>1. target_fps' \in Nat /\ (target_fps # 0 => target_fps' # 0)
    BY <1>4, SetPhsHintsRate DEF RepeatHints, CapChosen
  <2>2. TypeOK'
    BY <1>4, <2>1 DEF RepeatHints, TypeOK, Procs, ThreadStates, hintVars
  <2> QED
    BY <1>4, <2>1, <2>2 DEF RepeatHints, TypeOK, Procs, hintVars, CapChosen, ResetOrder,
       QuietState, NothingSet, LiveThreadHasHandle, Live, TargetsOpen
<1> QED
  BY <1>1, <1>2, <1>3, <1>4 DEF ThreadStep

LEMMA CameraStep == CameraInv /\ [Next]_vars => CameraInv'
<1> SUFFICES ASSUME CameraInv, [Next]_vars PROVE CameraInv'
  OBVIOUS
<1>1. CASE UNCHANGED vars
  BY <1>1 DEF vars, hintVars, fpsVars, CameraInv, TypeOK, CapChosen, ResetOrder, QuietState,
     NothingSet, LiveThreadHasHandle, Live, TargetsOpen
<1>2. CASE Next
  BY <1>2, CallKeeps, CallStepKeeps, ThreadStepKeeps DEF Next
<1> QED
  BY <1>1, <1>2

LEMMA CameraInvariance == Spec => []CameraInv
  BY CameraInit, CameraStep, PTL DEF Spec

(* At most one hints thread lives, and send_regular_hints has its handle,  *)
(* however many calls to pthread_create fail and whatever they leave.      *)
THEOREM OneHintsThread == Spec => []LiveThreadHasHandle
<1>1. CameraInv => LiveThreadHasHandle
  BY DEF CameraInv
<1> QED
  BY <1>1, CameraInvariance, PTL

(* NvOsModifyFpsTarget is never given a GPU target that was cancelled,     *)
(* though the hints thread reads fd_gpu and uses it later without a lock:  *)
(* RESET cancels when no thread is left, and clears fd_gpu before the next *)
(* call may start one.                                                     *)
THEOREM NoCancelledTarget == Spec => []NoStaleTarget
<1>1. CameraInv => NoStaleTarget
  BY CameraAssumption DEF CameraInv, TargetsOpen, NoStaleTarget, Procs
<1> QED
  BY <1>1, CameraInvariance, PTL

(* When CAMERA_HINT_RESET has returned, no thread is left that could       *)
(* repeat a hint, and no request to exit that would stop the next one.     *)
THEOREM ResetIsFinal == Spec => []QuietAfterReset
<1>1. CameraInv => QuietAfterReset
  BY CameraAssumption DEF CameraInv, TypeOK, QuietAfterReset, QuietState, NothingSet, ResetOrder,
     LiveThreadHasHandle
<1> QED
  BY <1>1, CameraInvariance, PTL

-----------------------------------------------------------------------------
(***************************************************************************)
(* Descriptors.  A setter that has tested its field may find the number in *)
(* it reused by the time it opens: what NodesAreNamed rests on is that no  *)
(* node of the field is open by then, and that the two kinds of hint share *)
(* no field but app_min_freq.                                              *)
(***************************************************************************)

NoNodeOf(s) == \A fd \in Fd : file[fd] # s

OwnKnobs ==
    /\ \A i \in 1 .. Len(knobs["app"]) : knobs["app"][i] \in AppSlots
    /\ \A i \in 1 .. Len(knobs["camera"]) :
          knobs["camera"][i] \in CameraSlots \cup {"app_min_freq"}
    /\ resetting => knobs["camera"] = ResetKnobs

(* Once the field is tested, no node of it is open.                        *)
Emptied ==
    \A h \in Setters :
        Busy(h) /\ phase[h] # "test" /\ Slot(h) \in PrivateSlots => NoNodeOf(Slot(h))

(* A reset opens nothing, and leaves no node of the fields it has passed.  *)
Lifted ==
    resetting =>
        /\ phase["camera"] # "open"
        /\ \A i \in 1 .. Len(knobs["camera"]) :
              i < at["camera"] /\ knobs["camera"][i] \in CameraSlots => NoNodeOf(knobs["camera"][i])

FdsInv == FdsTypeOK /\ OwnKnobs /\ NodesAreNamed /\ Emptied /\ Lifted

LEMMA FdsInitInv == FdsInit => FdsInv
<1> SUFFICES ASSUME FdsInit PROVE FdsInv
  OBVIOUS
<1> USE FdsAssumption
<1>1. knobs["app"] = <<>> /\ knobs["camera"] = <<>> /\ \A h \in Setters : ~Busy(h)
  BY DEF FdsInit, Setters, Busy
<1>2. \A fd \in Fd : file[fd] \in {"other", "free"}
  BY DEF FdsInit
<1>3. FdsTypeOK
  <2>1. fds \in [Slots -> Fd \cup {-1}]
    <3>1. 0 \in Fd
      BY DEF Fd
    <3>2. \A x \in Slots : InitialFds[x] \in {-1, 0}
      BY DEF InitialFds
    <3> QED
      BY <3>1, <3>2 DEF FdsInit, InitialFds
  <2>2. file \in [Fd -> {"free", "other"} \cup Slots]
    BY DEF FdsInit
  <2>3. knobs \in [Setters -> Seq(Slots)]
    BY DEF FdsInit
  <2>4. at \in [Setters -> Nat \ {0}] /\ phase \in [Setters -> {"test", "clear", "open"}]
    BY DEF FdsInit
  <2>5. resetting \in BOOLEAN
    BY DEF FdsInit
  <2> QED
    BY <2>1, <2>2, <2>3, <2>4, <2>5 DEF FdsTypeOK
<1>4. ~resetting
  BY DEF FdsInit
<1> QED
  BY <1>1, <1>2, <1>3, <1>4
  DEF FdsInv, OwnKnobs, NodesAreNamed, Emptied, Lifted, PrivateSlots, Slots, AppSlots, CameraSlots

(* The knob in hand is one of its hint's own.                              *)
LEMMA SlotsApart ==
    ASSUME FdsInv, NEW h \in Setters, Busy(h)
    PROVE  /\ Slot(h) \in Slots
           /\ h = "app" => Slot(h) \in AppSlots
           /\ h = "camera" => Slot(h) \in CameraSlots \cup {"app_min_freq"}
           /\ \A k \in Setters : k # h /\ Busy(k) /\ Slot(k) \in PrivateSlots => Slot(k) # Slot(h)
<1>1. \A k \in Setters : Busy(k) =>
          /\ k = "app" => Slot(k) \in AppSlots
          /\ k = "camera" => Slot(k) \in CameraSlots \cup {"app_min_freq"}
  BY DEF FdsInv, OwnKnobs, Busy, Slot
<1> QED
  BY <1>1 DEF Setters, Slots, PrivateSlots, AppSlots, CameraSlots

(* A step of a setter that only goes on to the next phase.                 *)
LEMMA PhaseKeeps ==
    ASSUME FdsInv, NEW h \in Setters, NEW from, NEW to \in {"clear", "open"},
           Phase(h, from, to)
    PROVE  /\ phase' = [phase EXCEPT ![h] = to]
           /\ phase' \in [Setters -> {"test", "clear", "open"}]
           /\ UNCHANGED <<knobs, at, resetting>>
           /\ OwnKnobs'
           /\ \A k \in Setters : (Busy(k)' <=> Busy(k)) /\ Slot(k)' = Slot(k)
  BY DEF Phase, FdsInv, FdsTypeOK, OwnKnobs, Busy, Slot

(* A step that ends the work on a knob.                                    *)
LEMMA DoneKeeps ==
    ASSUME FdsInv, NEW h \in Setters, NEW from, Done(h, from)
    PROVE  /\ phase' = [phase EXCEPT ![h] = "test"]
           /\ phase' \in [Setters -> {"test", "clear", "open"}]
           /\ at' = [at EXCEPT ![h] = at[h] + 1]
           /\ at' \in [Setters -> Nat \ {0}]
           /\ UNCHANGED <<knobs, resetting>>
           /\ OwnKnobs'
           /\ \A k \in Setters \ {h} : (Busy(k)' <=> Busy(k)) /\ Slot(k)' = Slot(k)
  BY DEF Done, FdsInv, FdsTypeOK, OwnKnobs, Busy, Slot

LEMMA CloseSlotKeeps ==
    ASSUME FdsInv, NEW h \in Setters, CloseSlot(h)
    PROVE  FdsInv'
<1> DEFINE s == Slot(h)
<1>1. Busy(h) /\ phase[h] = "test" /\ fds[s] # -1 /\ UNCHANGED fds
  BY DEF CloseSlot, Phase
<1>2. AfterClose(h) \in {"clear", "open"} /\ Phase(h, "test", AfterClose(h))
  BY DEF CloseSlot, AfterClose
<1>3. /\ phase' = [phase EXCEPT ![h] = AfterClose(h)]
      /\ phase' \in [Setters -> {"test", "clear", "open"}]
      /\ UNCHANGED <<knobs, at, resetting>>
      /\ OwnKnobs'
      /\ \A k \in Setters : (Busy(k)' <=> Busy(k)) /\ Slot(k)' = Slot(k)
  BY <1>2, PhaseKeeps
<1>4. s \in Slots
  BY <1>1, SlotsApart
<1>5. fds[s] \in Fd
  BY <1>1, <1>4 DEF FdsInv, FdsTypeOK
<1>6. file' = [file EXCEPT ![fds[s]] = "free"]
  BY <1>5 DEF CloseSlot, Close
<1>7. FdsTypeOK'
  BY <1>1, <1>3, <1>5, <1>6 DEF FdsInv, FdsTypeOK
<1>8. \A fd \in Fd : file'[fd] \in Slots => file'[fd] = file[fd]
  BY <1>5, <1>6 DEF FdsInv, FdsTypeOK, Slots, AppSlots, CameraSlots
<1>9. \A x \in Slots : NoNodeOf(x) => NoNodeOf(x)'
  BY <1>8 DEF NoNodeOf
<1>10. NodesAreNamed'
  BY <1>1, <1>8 DEF FdsInv, NodesAreNamed, PrivateSlots
<1>11. s \in PrivateSlots => NoNodeOf(s)'
  BY <1>1, <1>3, <1>5, <1>6, <1>8 DEF FdsInv, FdsTypeOK, NodesAreNamed, NoNodeOf, PrivateSlots,
     Slots, AppSlots, CameraSlots
<1>12. Emptied'
  <2> SUFFICES ASSUME NEW k \in Setters, Busy(k)', phase'[k] # "test", Slot(k)' \in PrivateSlots
               PROVE  NoNodeOf(Slot(k))'
    BY DEF Emptied
  <2>1. Slot(k)' = Slot(k) /\ Busy(k)
    BY <1>3
  <2>2. CASE k = h
    BY <1>11, <2>1, <2>2 DEF NoNodeOf
  <2>3. CASE k # h
    <3>1. NoNodeOf(Slot(k))
      BY <1>3, <2>1, <2>3 DEF FdsInv, FdsTypeOK, Emptied
    <3> QED
      BY <1>9, <2>1, <3>1 DEF NoNodeOf, PrivateSlots
  <2> QED
    BY <2>2, <2>3
<1>13. Lifted'
  <2> SUFFICES ASSUME resetting PROVE Lifted'
    BY <1>3 DEF Lifted
  <2>1. phase'["camera"] # "open"
    BY <1>3 DEF FdsInv, FdsTypeOK, Lifted, AfterClose, Resets, Setters
  <2> QED
    BY <1>3, <1>9, <2>1 DEF FdsInv, Lifted, NoNodeOf, Slots
<1> QED
  BY <1>3, <1>7, <1>10, <1>12, <1>13 DEF FdsInv

(* The field in hand is given a node, or none if no node of it is open.    *)
LEMMA NamesKept ==
    ASSUME FdsInv, NEW s \in Slots,
           \/ UNCHANGED <<fds, file>>
           \/ UNCHANGED file /\ fds' = [fds EXCEPT ![s] = -1]
           \/ \E fd \in Fd : /\ file[fd] = "free"
                             /\ file' = [file EXCEPT ![fd] = s]
                             /\ fds' = [fds EXCEPT ![s] = fd],
           UNCHANGED <<fds, file>> \/ (s \in PrivateSlots => NoNodeOf(s))
    PROVE  /\ NodesAreNamed'
           /\ fds' \in [Slots -> Fd \cup {-1}]
           /\ file' \in [Fd -> {"free", "other"} \cup Slots]
           /\ \A fd \in Fd : file'[fd] # file[fd] => file'[fd] = s
<1> USE DEF FdsInv, FdsTypeOK, NodesAreNamed, PrivateSlots, NoNodeOf
<1>1. CASE UNCHANGED <<fds, file>>
  BY <1>1
<1>2. CASE UNCHANGED file /\ fds' = [fds EXCEPT ![s] = -1]
  BY <1>2
<1>3. ASSUME NEW fd \in Fd, file[fd] = "free", file' = [file EXCEPT ![fd] = s],
             fds' = [fds EXCEPT ![s] = fd]
      PROVE  /\ NodesAreNamed'
             /\ fds' \in [Slots -> Fd \cup {-1}]
             /\ file' \in [Fd -> {"free", "other"} \cup Slots]
             /\ \A g \in Fd : file'[g] # file[g] => file'[g] = s
  <2>1. file'[fd] # file[fd]
    BY <1>3 DEF Slots, AppSlots, CameraSlots
  <2>2. s \in PrivateSlots => NoNodeOf(s)
    BY <1>3, <2>1
  <2> QED
    BY <1>3, <2>2
<1> QED
  BY <1>1, <1>2, <1>3

(* A setter that changes no file goes on to its next phase.                *)
LEMMA PhaseStep ==
    ASSUME FdsInv, NEW h \in Setters, NEW from, NEW to \in {"clear", "open"},
           Phase(h, from, to), Resets(h) => to # "open", UNCHANGED file,
           UNCHANGED fds \/ fds' = [fds EXCEPT ![Slot(h)] = -1],
           Slot(h) \in PrivateSlots => NoNodeOf(Slot(h))
    PROVE  FdsInv'
<1>1. /\ phase' = [phase EXCEPT ![h] = to]
      /\ phase' \in [Setters -> {"test", "clear", "open"}]
      /\ UNCHANGED <<knobs, at, resetting>>
      /\ OwnKnobs'
      /\ \A k \in Setters : (Busy(k)' <=> Busy(k)) /\ Slot(k)' = Slot(k)
  BY PhaseKeeps
<1>2. Busy(h) /\ Slot(h) \in Slots
  BY SlotsApart DEF Phase
<1>3. /\ NodesAreNamed'
      /\ fds' \in [Slots -> Fd \cup {-1}]
      /\ file' \in [Fd -> {"free", "other"} \cup Slots]
  BY <1>2, NamesKept
<1>4. FdsTypeOK'
  BY <1>1, <1>3 DEF FdsInv, FdsTypeOK
<1>5. Emptied'
  BY <1>1 DEF FdsInv, FdsTypeOK, Emptied, NoNodeOf
<1>6. Lifted'
  BY <1>1 DEF FdsInv, FdsTypeOK, Lifted, NoNodeOf, Resets, Setters
<1> QED
  BY <1>1, <1>3, <1>4, <1>5, <1>6 DEF FdsInv

(* A setter is done with its field: a node it leaves there is its own, and *)
(* a reset leaves none.                                                    *)
LEMMA DoneStep ==
    ASSUME FdsInv, NEW h \in Setters, NEW from, Done(h, from),
           \/ UNCHANGED <<fds, file>>
           \/ UNCHANGED file /\ fds' = [fds EXCEPT ![Slot(h)] = -1]
           \/ /\ ~Resets(h)
              /\ \E fd \in Fd : /\ file[fd] = "free"
                                /\ file' = [file EXCEPT ![fd] = Slot(h)]
                                /\ fds' = [fds EXCEPT ![Slot(h)] = fd],
           Slot(h) \in PrivateSlots => NoNodeOf(Slot(h))
    PROVE  FdsInv'
<1> DEFINE s == Slot(h)
<1>1. /\ phase' = [phase EXCEPT ![h] = "test"]
      /\ phase' \in [Setters -> {"test", "clear", "open"}]
      /\ at' = [at EXCEPT ![h] = at[h] + 1]
      /\ at' \in [Setters -> Nat \ {0}]
      /\ UNCHANGED <<knobs, resetting>>
      /\ OwnKnobs'
      /\ \A k \in Setters \ {h} : (Busy(k)' <=> Busy(k)) /\ Slot(k)' = Slot(k)
  BY DoneKeeps
<1>2. Busy(h)
  BY DEF Done
<1>3. /\ s \in Slots
      /\ h = "app" => s \in AppSlots
      /\ \A k \in Setters : k # h /\ Busy(k) /\ Slot(k) \in PrivateSlots => Slot(k) # s
  BY <1>2, SlotsApart
<1>4. /\ NodesAreNamed'
      /\ fds' \in [Slots -> Fd \cup {-1}]
      /\ file' \in [Fd -> {"free", "other"} \cup Slots]
      /\ \A fd \in Fd : file'[fd] # file[fd] => file'[fd] = s
  <2> HIDE DEF s
  <2>1. \/ UNCHANGED <<fds, file>>
        \/ UNCHANGED file /\ fds' = [fds EXCEPT ![s] = -1]
        \/ \E fd \in Fd : /\ file[fd] = "free"
                          /\ file' = [file EXCEPT ![fd] = s]
                          /\ fds' = [fds EXCEPT ![s] = fd]
    BY DEF s
  <2>2. s \in PrivateSlots => NoNodeOf(s)
    BY DEF s
  <2> QED
    BY <1>3, <2>1, <2>2, NamesKept
<1>5. FdsTypeOK'
  BY <1>1, <1>4 DEF FdsInv, FdsTypeOK
<1>6. Emptied'
  <2> SUFFICES ASSUME NEW k \in Setters, Busy(k)', phase'[k] # "test", Slot(k)' \in PrivateSlots
               PROVE  \A fd \in Fd : file'[fd] # Slot(k)'
    BY DEF Emptied, NoNodeOf
  <2>1. k # h
    BY <1>1 DEF FdsInv, FdsTypeOK
  <2>2. Slot(k)' = Slot(k) /\ Busy(k) /\ phase[k] # "test"
    BY <1>1, <2>1 DEF FdsInv, FdsTypeOK
  <2>3. NoNodeOf(Slot(k)) /\ Slot(k) # s
    BY <1>3, <2>1, <2>2 DEF FdsInv, Emptied, PrivateSlots
  <2> QED
    BY <1>4, <2>2, <2>3 DEF NoNodeOf
<1>7. Lifted'
  <2> SUFFICES ASSUME resetting,
                      NEW i \in 1 .. Len(knobs["camera"]),
                      i < at'["camera"], knobs["camera"][i] \in CameraSlots
               PROVE  \A fd \in Fd : file'[fd] # knobs["camera"][i]
    <3>1. resetting => phase'["camera"] # "open"
      BY <1>1 DEF FdsInv, FdsTypeOK, Lifted, Setters
    <3> QED
      BY <1>1, <3>1 DEF Lifted, NoNodeOf
  <2>1. CASE h = "app"
    <3>1. at'["camera"] = at["camera"]
      BY <1>1, <2>1 DEF FdsInv, FdsTypeOK, Setters
    <3>2. NoNodeOf(knobs["camera"][i])
      BY <3>1 DEF FdsInv, Lifted
    <3>3. knobs["camera"][i] # s
      BY <1>3, <2>1 DEF AppSlots, CameraSlots
    <3> QED
      BY <1>4, <3>2, <3>3 DEF NoNodeOf
  <2>2. CASE h = "camera"
    <3>1. UNCHANGED file
      BY <2>2 DEF Resets
    <3>2. at'["camera"] = at["camera"] + 1 /\ at["camera"] \in Nat
      BY <1>1, <2>2 DEF FdsInv, FdsTypeOK, Setters
    <3>3. CASE i < at["camera"]
      BY <3>1, <3>3 DEF FdsInv, Lifted, NoNodeOf
    <3>4. CASE i = at["camera"]
      BY <2>2, <3>1, <3>4 DEF Slot, NoNodeOf, PrivateSlots, Slots, CameraSlots
    <3> QED
      BY <3>2, <3>3, <3>4
  <2> QED
    BY <2>1, <2>2 DEF Setters
<1> QED
  BY <1>1, <1>4, <1>5, <1>6, <1>7 DEF FdsInv

LEMMA SetterStepKeeps ==
    ASSUME FdsInv, NEW h \in Setters, SetterStep(h)
    PROVE  FdsInv'
<1>1. CASE CloseSlot(h)
  BY <1>1, CloseSlotKeeps
<1>2. CASE SkipSlot(h)
  <2>1. Busy(h)
    BY <1>2 DEF SkipSlot, Done, Phase
  <2>2. Slot(h) \in PrivateSlots => NoNodeOf(Slot(h))
    <3>1. \A fd \in Fd : fd # -1
      BY DEF Fd
    <3> QED
      BY <1>2, <3>1 DEF SkipSlot, FdsInv, NodesAreNamed, NoNodeOf
  <2>3. CASE Resets(h)
    BY <1>2, <2>2, <2>3, DoneStep DEF SkipSlot
  <2>4. CASE ~Resets(h)
    BY <1>2, <2>2, <2>4, PhaseStep DEF SkipSlot
  <2> QED
    BY <2>3, <2>4
<1>3. CASE ClearSlot(h)
  <2>1. Busy(h) /\ phase[h] = "clear"
    BY <1>3 DEF ClearSlot, Done, Phase
  <2>2. Slot(h) \in PrivateSlots => NoNodeOf(Slot(h))
    BY <2>1 DEF FdsInv, Emptied
  <2>3. CASE Resets(h)
    BY <1>3, <2>2, <2>3, DoneStep DEF ClearSlot
  <2>4. CASE ~Resets(h)
    BY <1>3, <2>2, <2>4, PhaseStep DEF ClearSlot
  <2> QED
    BY <2>3, <2>4
<1>4. CASE OpenSlot(h) \/ OpenSlotFails(h)
  <2>1. Busy(h) /\ phase[h] = "open" /\ Done(h, "open")
    BY <1>4 DEF OpenSlot, OpenSlotFails, Done
  <2>2. Slot(h) \in PrivateSlots => NoNodeOf(Slot(h))
    BY <2>1 DEF FdsInv, Emptied
  <2>3. ~Resets(h)
    BY <2>1 DEF FdsInv, Lifted, Resets
  <2> QED
    BY <1>4, <2>1, <2>2, <2>3, DoneStep DEF OpenSlot, OpenSlotFails, Lowest, Free
<1> QED
  BY <1>1, <1>2, <1>3, <1>4 DEF SetterStep

LEMMA BeginKeeps ==
    ASSUME FdsInv, AppProfile \/ CameraHint \/ CameraReset
    PROVE  FdsInv'
<1> USE FdsAssumption DEF FdsInv
<1>1. PICK h \in Setters, sequence \in Seq(Slots) :
         /\ Begin(h, sequence)
         /\ h = "app" => sequence \in Seq(AppSlots) /\ UNCHANGED resetting
         /\ h = "camera" => /\ sequence \in Seq(CameraSlots \cup {"app_min_freq"})
                            /\ resetting' \in BOOLEAN
                            /\ resetting' => sequence = ResetKnobs
  <2>1. CASE AppProfile
    <3>1. PICK sequence \in Profiles : Begin("app", sequence)
      BY <2>1 DEF AppProfile
    <3>2. sequence \in Seq(AppSlots) /\ sequence \in Seq(Slots)
      BY <3>1 DEF Slots
    <3> QED
      BY <2>1, <3>1, <3>2 DEF AppProfile, Setters
  <2>2. CASE CameraHint
    <3>1. PICK sequence \in CameraCaps : Begin("camera", sequence)
      BY <2>2 DEF CameraHint
    <3>2. sequence \in Seq(CameraSlots \cup {"app_min_freq"}) /\ sequence \in Seq(Slots)
      BY <3>1 DEF Slots, AppSlots
    <3> QED
      BY <2>2, <3>1, <3>2 DEF CameraHint, Setters
  <2>3. CASE CameraReset
    <3>1. ResetKnobs \in Seq(CameraSlots \cup {"app_min_freq"}) /\ ResetKnobs \in Seq(Slots)
      BY DEF ResetKnobs, CameraSlots, AppSlots, Slots
    <3> QED
      BY <2>3, <3>1 DEF CameraReset, Setters
  <2> QED
    BY <2>1, <2>2, <2>3
<1>2. /\ knobs' = [knobs EXCEPT ![h] = sequence] /\ at' = [at EXCEPT ![h] = 1]
      /\ phase' = [phase EXCEPT ![h] = "test"] /\ UNCHANGED <<fds, file>>
  BY <1>1 DEF Begin
<1>3. FdsTypeOK'
  BY <1>1, <1>2 DEF FdsTypeOK, Setters
<1>4. OwnKnobs'
  BY <1>1, <1>2 DEF FdsTypeOK, OwnKnobs, Setters
<1>5. NodesAreNamed'
  BY <1>2 DEF NodesAreNamed
<1>6. Emptied'
  BY <1>2 DEF FdsTypeOK, Emptied, Busy, Slot, NoNodeOf
<1>7. Lifted'
  <2>1. CASE h = "app"
    BY <1>1, <1>2, <2>1 DEF FdsTypeOK, Lifted, NoNodeOf, Setters
  <2>2. CASE h = "camera"
    BY <1>1, <1>2, <2>2 DEF FdsTypeOK, Lifted, Setters
  <2> QED
    BY <2>1, <2>2 DEF Setters
<1> QED
  BY <1>3, <1>4, <1>5, <1>6, <1>7

LEMMA OthersKeep ==
    ASSUME FdsInv, OtherOpens \/ OtherCloses
    PROVE  FdsInv'
<1>1. UNCHANGED <<fds, knobs, at, phase, resetting>>
  BY DEF OtherOpens, OtherCloses, progress
<1>2. /\ file' \in [Fd -> {"free", "other"} \cup Slots]
      /\ \A fd \in Fd : file'[fd] \in Slots => file'[fd] = file[fd]
  <2>1. \E fd \in Fd, f \in {"free", "other"} : file' = [file EXCEPT ![fd] = f]
    BY DEF OtherOpens, OtherCloses, Close
  <2> QED
    BY <2>1 DEF FdsInv, FdsTypeOK, Slots, AppSlots, CameraSlots
<1>3. \A s \in Slots : NoNodeOf(s) => \A fd \in Fd : file'[fd] # s
  BY <1>2 DEF NoNodeOf
<1>4. FdsTypeOK' /\ OwnKnobs'
  BY <1>1, <1>2 DEF FdsInv, FdsTypeOK, OwnKnobs
<1>5. NodesAreNamed'
  BY <1>1, <1>2 DEF FdsInv, NodesAreNamed, PrivateSlots
<1>6. Emptied'
  BY <1>1, <1>3 DEF FdsInv, Emptied, Busy, Slot, NoNodeOf, PrivateSlots
<1>7. Lifted'
  BY <1>1, <1>3 DEF FdsInv, Lifted, NoNodeOf, Slots
<1> QED
  BY <1>4, <1>5, <1>6, <1>7 DEF FdsInv

LEMMA FdsStep == FdsInv /\ [FdsNext]_fdsVars => FdsInv'
<1> SUFFICES ASSUME FdsInv, [FdsNext]_fdsVars PROVE FdsInv'
  OBVIOUS
<1>1. CASE UNCHANGED fdsVars
  BY <1>1 DEF fdsVars, FdsInv, FdsTypeOK, OwnKnobs, NodesAreNamed, Emptied, Lifted, Busy, Slot,
     NoNodeOf
<1>2. CASE FdsNext
  BY <1>2, BeginKeeps, SetterStepKeeps, OthersKeep DEF FdsNext
<1> QED
  BY <1>1, <1>2

LEMMA FdsInvariance == FdsSpec => []FdsInv
  BY FdsInitInv, FdsStep, PTL DEF FdsSpec

(* No PM QoS node leaks, though two fields may hold one number, the        *)
(* setters test and close it one after the other, and opens fail.          *)
THEOREM NoNodeLeaks == FdsSpec => []NodesAreNamed
<1>1. FdsInv => NodesAreNamed
  BY DEF FdsInv
<1> QED
  BY <1>1, FdsInvariance, PTL

(* A step of reset_camera_hint that is its last leaves no camera node.     *)
LEMMA LastStepLifts ==
    ASSUME FdsInv, FdsInv', [FdsNext]_fdsVars,
           Resets("camera"), Busy("camera"), ~Busy("camera")'
    PROVE  \A fd \in Fd : file'[fd] \notin CameraSlots
<1>1. resetting /\ knobs["camera"] = ResetKnobs /\ at["camera"] \in 1 .. Len(knobs["camera"])
  BY DEF Resets, FdsInv, OwnKnobs, Busy
<1>2. resetting' /\ knobs'["camera"] = ResetKnobs /\ at'["camera"] \notin 1 .. Len(knobs'["camera"])
  <2>1. ~CameraHint /\ ~CameraReset
    BY DEF CameraHint, CameraReset, Begin
  <2>2. UNCHANGED resetting
    BY <2>1 DEF FdsNext, AppProfile, SetterStep, CloseSlot, SkipSlot, ClearSlot, OpenSlot,
       OpenSlotFails, Phase, Done, OtherOpens, OtherCloses, progress, fdsVars
  <2> QED
    BY <1>1, <2>2 DEF FdsInv, OwnKnobs, Busy
<1>3. at'["camera"] \in Nat \ {0}
  BY DEF FdsInv, FdsTypeOK, Setters
<1>4. /\ Len(ResetKnobs) = 4
      /\ ResetKnobs[1] = "fd_cpu_freq_max" /\ ResetKnobs[3] = "fd_min_online_cpus"
      /\ ResetKnobs[4] = "fd_max_online_cpus"
  BY DEF ResetKnobs
<1>5. at'["camera"] > 4
  BY <1>2, <1>3, <1>4
<1>6. \A i \in 1 .. 4 : ResetKnobs[i] \in CameraSlots =>
          \A fd \in Fd : file'[fd] # ResetKnobs[i]
  BY <1>2, <1>3, <1>4, <1>5 DEF FdsInv, Lifted, NoNodeOf
<1> QED
  BY <1>4, <1>6 DEF CameraSlots

(* When CAMERA_HINT_RESET has returned, no constraint of the camera's own  *)
(* is left, whatever app profiles did meanwhile.                           *)
THEOREM ResetLifts == FdsSpec => ResetLiftsCamera
<1>1. FdsInv /\ FdsInv' /\ [FdsNext]_fdsVars =>
         [Resets("camera") /\ Busy("camera") /\ ~Busy("camera")' =>
             \A fd \in Fd : file'[fd] \notin CameraSlots]_fdsVars
  BY LastStepLifts
<1> QED
  BY <1>1, FdsInvariance, PTL DEF FdsSpec, ResetLiftsCamera

-----------------------------------------------------------------------------
(***************************************************************************)
(* Rate limiting: until the 32-bit time comes round, a hint is dropped     *)
(* only while a boost of its kind is in force, and steady hints maintain   *)
(* the boost.                                                              *)
(***************************************************************************)

(* A clock that has not come round is read as it is or, from the half on,  *)
(* as a negative number.                                                   *)
LEMMA StampOf ==
    ASSUME NEW time \in Nat, time < Wrap
    PROVE  Stamp(time) = IF 2 * time < Wrap THEN time ELSE time - Wrap
<1>1. time % Wrap = time
  BY TimingAssumption
<1> QED
  BY <1>1 DEF Stamp

(* Stamps less than an interval apart are of times less than an interval   *)
(* apart, unless the first was taken later.                                *)
LEMMA StampsApart ==
    ASSUME MaxTime < Wrap, NEW r \in 0 .. MaxTime, NEW x \in 0 .. MaxTime, NEW i \in Nat,
           Stamp(r) - Stamp(x) \in 0 .. i - 1
    PROVE  r < x + i
<1>1. r \in Nat /\ x \in Nat /\ r < Wrap /\ x < Wrap /\ Wrap \in Nat
  BY TimingAssumption
<1>2. /\ Stamp(r) = IF 2 * r < Wrap THEN r ELSE r - Wrap
      /\ Stamp(x) = IF 2 * x < Wrap THEN x ELSE x - Wrap
  BY <1>1, StampOf
<1> QED
  BY <1>1, <1>2

-----------------------------------------------------------------------------
(* What has been stored in hint_time, or is about to be, is the time of a  *)
(* reading no later than the request for the boost it stands for.          *)

HasRead(p) == stage[p] \in {"test", "request", "store"}

StoredAfterRequest ==
    /\ now \in 1 .. MaxTime
    /\ \A p \in Senders : stamp[p] = Stamp(read[p]) /\ read[p] \in 0 .. now
    /\ \A p \in Senders : HasRead(p) => read[p] # 0
    /\ \A p \in Senders : stage[p] = "store" => read[p] <= requested[hint[p]]
    /\ \A h \in Hints : hint_time[h] # 0 =>
          \E x \in 1 .. MaxTime : x <= requested[h] /\ hint_time[h] = Stamp(x)
    /\ \A h \in Hints : requested[h] <= now

TInv == TimingTypeOK /\ StoredAfterRequest

LEMMA TInvInit == TimingInit => TInv
<1> SUFFICES ASSUME TimingInit PROVE TInv
  OBVIOUS
<1>1. Stamp(0) = 0
  BY TimingAssumption DEF Stamp
<1>2. TimingTypeOK
  BY TimingAssumption DEF TimingInit, TimingTypeOK, Never
<1>3. StoredAfterRequest
  <2>1. now \in 1 .. MaxTime
    BY DEF TimingInit
  <2>2. \A p \in Senders : stamp[p] = Stamp(read[p]) /\ read[p] \in 0 .. now
    <3>1. \A p \in Senders : stamp[p] = 0 /\ read[p] = 0
      BY DEF TimingInit
    <3>2. \A p \in Senders : stamp[p] = Stamp(read[p])
      BY <1>1, <3>1, Zenon
    <3>3. 0 \in 0 .. now
      BY <2>1, TimingAssumption
    <3> QED
      BY <3>1, <3>2, <3>3, Zenon
  <2>3. \A p \in Senders : stage[p] = "idle"
    BY DEF TimingInit
  <2>4. \A h \in Hints : hint_time[h] = 0 /\ requested[h] = -1
    BY DEF TimingInit, Never
  <2> QED
    BY <2>1, <2>2, <2>3, <2>4, TimingAssumption DEF StoredAfterRequest, HasRead
<1> QED
  BY <1>2, <1>3 DEF TInv

LEMMA TInvStep ==
    ASSUME TInv, [TimingNext]_timingVars
    PROVE  TInv'
<1> USE TimingAssumption DEF TInv
<1>1. CASE Tick
  <2>1. /\ now' = now + 1 /\ now \in 1 .. MaxTime /\ now' \in 1 .. MaxTime
        /\ UNCHANGED <<hint_time, stage, hint, stamp, read, requested, called>>
    BY <1>1 DEF Tick, StoredAfterRequest
  <2>2. TimingTypeOK'
    BY <1>1, <2>1 DEF Tick, TimingTypeOK
  <2>3. \A p \in Senders : read[p] \in 0 .. now'
    BY <2>1 DEF StoredAfterRequest
  <2>4. \A h \in Hints : requested[h] <= now'
    BY <2>1 DEF TimingTypeOK, StoredAfterRequest, Never
  <2> QED
    BY <2>1, <2>2, <2>3, <2>4 DEF StoredAfterRequest, HasRead
<1>2. ASSUME NEW p \in Senders, NEW h \in Hints, PowerHint(p, h) PROVE TInv'
  <2>1. TimingTypeOK'
    BY <1>2 DEF PowerHint, Move, TimingTypeOK, StoredAfterRequest
  <2> QED
    BY <1>2, <2>1 DEF PowerHint, Move, TimingTypeOK, StoredAfterRequest, HasRead
<1>3. ASSUME NEW p \in Senders, ReadClock(p) PROVE TInv'
  <2>1. TimingTypeOK'
    BY <1>3 DEF ReadClock, Move, TimingTypeOK, StoredAfterRequest
  <2>2. StoredAfterRequest'
    BY <1>3 DEF ReadClock, Move, TimingTypeOK, StoredAfterRequest, HasRead
  <2> QED
    BY <2>1, <2>2
<1>4. ASSUME NEW p \in Senders, Suppress(p) \/ Accept(p) PROVE TInv'
  BY <1>4 DEF Suppress, Accept, Move, TimingTypeOK, StoredAfterRequest, HasRead
<1>5. ASSUME NEW p \in Senders, RequestBoost(p) PROVE TInv'
  <2>1. TimingTypeOK'
    BY <1>5 DEF RequestBoost, Move, TimingTypeOK
  <2>2. \A h \in Hints : requested'[h] = IF h = hint[p] THEN now ELSE requested[h]
    BY <1>5 DEF RequestBoost, TimingTypeOK
  <2>3. \A h \in Hints : requested[h] <= requested'[h] /\ requested'[h] <= now
    BY <2>2 DEF TimingTypeOK, StoredAfterRequest, Never
  <2>4. \A h \in Hints : hint_time[h] # 0 =>
          \E x \in 1 .. MaxTime : x <= requested'[h] /\ hint_time[h] = Stamp(x)
    <3> SUFFICES ASSUME NEW h \in Hints, hint_time[h] # 0
                 PROVE  \E x \in 1 .. MaxTime : x <= requested'[h] /\ hint_time[h] = Stamp(x)
      OBVIOUS
    <3>1. PICK x \in 1 .. MaxTime : x <= requested[h] /\ hint_time[h] = Stamp(x)
      BY DEF StoredAfterRequest
    <3>2. requested[h] \in Int /\ requested'[h] \in Int /\ requested[h] <= requested'[h]
      BY <2>1, <2>3 DEF TimingTypeOK, Never
    <3>3. x <= requested'[h]
      BY <3>1, <3>2
    <3> QED
      BY <3>1, <3>3
  <2>5. \A q \in Senders : stage'[q] = "store" => read[q] <= requested'[hint[q]]
    BY <1>5, <2>1, <2>2, <2>3 DEF RequestBoost, Move, TimingTypeOK, StoredAfterRequest, Never
  <2> QED
    BY <1>5, <2>1, <2>3, <2>4, <2>5 DEF RequestBoost, Move, TimingTypeOK, StoredAfterRequest, HasRead
<1>6. ASSUME NEW p \in Senders, StoreTime(p) PROVE TInv'
  <2> DEFINE Stamps == {0} \cup {Stamp(time) : time \in 1 .. now}
  <2>0. Stamps \subseteq Int
    BY DEF Stamp, StoredAfterRequest
  <2>1. TimingTypeOK'
    <3> HIDE DEF Stamps
    <3>1. TimingTypeOK /\ stamp \in [Senders -> Stamps] /\ hint_time \in [Hints -> Int]
      BY DEF TimingTypeOK, Stamps
    <3>2. hint_time' = [hint_time EXCEPT ![hint[p]] = stamp[p]] /\ stamp[p] \in Int
      BY <1>6, <2>0, <3>1 DEF StoreTime
    <3>3. hint_time' \in [Hints -> Int]
      BY <3>1, <3>2
    <3> QED
      BY <1>6, <3>1, <3>3 DEF StoreTime, Move, TimingTypeOK
  <2>2. /\ read[p] \in 1 .. MaxTime /\ read[p] <= requested[hint[p]] /\ stamp[p] = Stamp(read[p])
        /\ UNCHANGED <<now, stamp, read, hint, requested>>
    BY <1>6 DEF StoreTime, Move, TimingTypeOK, StoredAfterRequest, HasRead
  <2>3. \A h \in Hints : hint_time'[h] # 0 =>
          \E x \in 1 .. MaxTime : x <= requested[h] /\ hint_time'[h] = Stamp(x)
    BY <1>6, <2>2 DEF StoreTime, TimingTypeOK, StoredAfterRequest
  <2> QED
    BY <1>6, <2>1, <2>2, <2>3 DEF StoreTime, Move, TimingTypeOK, StoredAfterRequest, HasRead
<1>7. CASE UNCHANGED timingVars
  BY <1>7 DEF timingVars, TimingTypeOK, StoredAfterRequest, HasRead
<1> QED
  BY <1>1, <1>2, <1>3, <1>4, <1>5, <1>6, <1>7 DEF TimingNext, SenderStep

(* Where a hint comes too soon, a boost was requested less than an         *)
(* interval before the clock was read, or since.                           *)
LEMMA TooSoonAfterRequest ==
    ASSUME TInv, MaxTime < Wrap, NEW p \in Senders, Suppress(p)
    PROVE  /\ hint[p] \in Hints /\ read[p] \in Nat
           /\ requested[hint[p]] \in Nat
           /\ read[p] < requested[hint[p]] + Interval[hint[p]]
<1>1. hint[p] \in Hints /\ read[p] \in 0 .. MaxTime /\ stamp[p] = Stamp(read[p])
  BY TimingAssumption DEF TInv, TimingTypeOK, StoredAfterRequest
<1>2. hint_time[hint[p]] # 0 /\ stamp[p] - hint_time[hint[p]] \in 0 .. Interval[hint[p]] - 1
  BY DEF Suppress, TooSoon
<1>3. PICK x \in 1 .. MaxTime : x <= requested[hint[p]] /\ hint_time[hint[p]] = Stamp(x)
  BY <1>1, <1>2 DEF TInv, StoredAfterRequest
<1>4. read[p] < x + Interval[hint[p]]
  BY <1>1, <1>2, <1>3, StampsApart, TimingAssumption
<1>5. requested[hint[p]] \in Nat /\ Interval[hint[p]] \in Nat
  BY <1>1, <1>3, TimingAssumption DEF TInv, TimingTypeOK, Never
<1> QED
  BY <1>1, <1>3, <1>4, <1>5, TimingAssumption

LEMMA DroppedBoosted ==
    ASSUME TInv, MaxTime < Wrap, NEW p \in Senders, Suppress(p)
    PROVE  Boosted(hint[p], read[p])
<1>1. /\ hint[p] \in Hints /\ read[p] \in Nat
      /\ requested[hint[p]] \in Nat
      /\ read[p] < requested[hint[p]] + Interval[hint[p]]
  BY TooSoonAfterRequest
<1>2. /\ Interval[hint[p]] \in Nat /\ Boost[hint[p]] \in Nat
      /\ Interval[hint[p]] <= Boost[hint[p]]
  BY <1>1, TimingAssumption
<1> QED
  BY <1>1, <1>2 DEF Boosted, Never

(* Until the clock comes round, no interleaving of any number of threads   *)
(* drops a hint whose boost is not in force.                               *)
THEOREM DroppedSafely ==
    ASSUME MaxTime < Wrap
    PROVE  TimingSpec => DroppedOnlyWhileBoosted
<1>1. TInv /\ [TimingNext]_timingVars =>
          [\A p \in Senders : Suppress(p) => Boosted(hint[p], read[p])]_timingVars
  BY DroppedBoosted
<1> QED
  BY <1>1, TInvStep, TInvInit, PTL DEF TimingSpec, DroppedOnlyWhileBoosted

-----------------------------------------------------------------------------
(* Steady hints.  Time has passed only while no hint was being handled, so *)
(* a hint that is handled was sent at this very time; and the last one was *)
(* handled at the time it was sent: it found a boost, or requested one.    *)

InHand(h) == \E p \in Senders : hint[p] = h /\ stage[p] \in {"clock", "test", "request"}

Served(h) ==
    /\ requested[h] # Never
    /\ called[h] < requested[h] + Interval[h] \/ called[h] = requested[h]

HandledAtOnce ==
    /\ \A p \in Senders : stage[p] # "idle" => called[hint[p]] # Never
    /\ \A h \in Hints : requested[h] # Never => called[h] # Never
    /\ \A h \in Hints : called[h] <= now
    /\ \A h \in Hints : steady[h] =>
          /\ \A p \in Senders : stage[p] # "idle" /\ hint[p] = h => called[h] = now
          /\ \A p \in Senders : HasRead(p) => read[p] = now
          /\ called[h] # Never => now - called[h] <= Gap
          /\ called[h] # Never => InHand(h) \/ Served(h)

LEMMA HandledInit == TimingInit => HandledAtOnce
  BY TimingAssumption DEF TimingInit, HandledAtOnce, HasRead, Never

LEMMA HandledStep ==
    ASSUME TInv, MaxTime < Wrap, HandledAtOnce, [TimingNext]_timingVars
    PROVE  HandledAtOnce'
<1> USE TimingAssumption DEF Never
<1> TimingTypeOK
  BY DEF TInv
<1>1. CASE Tick
  <2>1. \A h \in Hints : steady'[h] => /\ steady[h] /\ \A p \in Senders : stage[p] = "idle"
                                       /\ called[h] = Never \/ now - called[h] < Gap
    BY <1>1 DEF Tick
  <2>2. now' = now + 1 /\ UNCHANGED <<hint_time, stage, hint, stamp, read, requested, called>>
    BY <1>1 DEF Tick
  <2> QED
    BY <2>1, <2>2 DEF TimingTypeOK, HandledAtOnce, HasRead, InHand, Served
<1>2. ASSUME NEW p \in Senders, NEW k \in Hints, PowerHint(p, k) PROVE HandledAtOnce'
  <2>1. /\ stage[p] = "idle" /\ \A q \in Senders : stage'[q] = IF q = p THEN "clock" ELSE stage[q]
        /\ \A q \in Senders : hint'[q] = IF q = p THEN k ELSE hint[q]
        /\ \A h \in Hints : called'[h] = IF h = k THEN now ELSE called[h]
        /\ UNCHANGED <<now, hint_time, stamp, read, requested, steady>>
    BY <1>2 DEF PowerHint, Move, TimingTypeOK
  <2>2. InHand(k)'
    BY <2>1 DEF InHand
  <2>3. \A h \in Hints : InHand(h) => InHand(h)'
    BY <2>1 DEF InHand
  <2>4. \A h \in Hints : h # k /\ Served(h) => Served(h)'
    BY <2>1 DEF Served
  <2> QED
    BY <2>1, <2>2, <2>3, <2>4 DEF TimingTypeOK, HandledAtOnce, HasRead
<1>3. ASSUME NEW p \in Senders, ReadClock(p) PROVE HandledAtOnce'
  <2>1. /\ stage[p] = "clock" /\ \A q \in Senders : stage'[q] = IF q = p THEN "test" ELSE stage[q]
        /\ \A q \in Senders : read'[q] = IF q = p THEN now ELSE read[q]
        /\ UNCHANGED <<now, hint, requested, called, steady>>
    BY <1>3 DEF ReadClock, Move, TimingTypeOK
  <2>2. \A h \in Hints : (InHand(h) => InHand(h)') /\ (Served(h) => Served(h)')
    BY <2>1 DEF InHand, Served
  <2> QED
    BY <2>1, <2>2 DEF TimingTypeOK, HandledAtOnce, HasRead
<1>4. ASSUME NEW p \in Senders, Suppress(p) PROVE HandledAtOnce'
  <2>1. /\ stage[p] = "test" /\ \A q \in Senders : stage'[q] = IF q = p THEN "idle" ELSE stage[q]
        /\ UNCHANGED <<now, hint, read, requested, called, steady>>
    BY <1>4 DEF Suppress, Move, TimingTypeOK
  <2>2. /\ hint[p] \in Hints /\ requested[hint[p]] \in Nat
        /\ read[p] < requested[hint[p]] + Interval[hint[p]]
    BY <1>4, TooSoonAfterRequest
  <2>3. steady[hint[p]] => called[hint[p]] = now /\ read[p] = now
    BY <2>1, <2>2 DEF HandledAtOnce, HasRead
  <2>4. steady[hint[p]] => Served(hint[p])'
    BY <2>1, <2>2, <2>3 DEF Served
  <2>5. \A h \in Hints : h # hint[p] /\ InHand(h) => InHand(h)'
    BY <2>1 DEF InHand
  <2>6. \A h \in Hints : Served(h) => Served(h)'
    BY <2>1 DEF Served
  <2> QED
    BY <2>1, <2>4, <2>5, <2>6 DEF TimingTypeOK, HandledAtOnce, HasRead
<1>5. ASSUME NEW p \in Senders, Accept(p) PROVE HandledAtOnce'
  <2>1. /\ stage[p] = "test" /\ \A q \in Senders : stage'[q] = IF q = p THEN "request" ELSE stage[q]
        /\ UNCHANGED <<now, hint, read, requested, called, steady>>
    BY <1>5 DEF Accept, Move, TimingTypeOK
  <2>2. \A h \in Hints : (InHand(h) => InHand(h)') /\ (Served(h) => Served(h)')
    BY <2>1 DEF InHand, Served
  <2> QED
    BY <2>1, <2>2 DEF TimingTypeOK, HandledAtOnce, HasRead
<1>6. ASSUME NEW p \in Senders, RequestBoost(p) PROVE HandledAtOnce'
  <2>1. /\ stage[p] = "request" /\ \A q \in Senders : stage'[q] = IF q = p THEN "store" ELSE stage[q]
        /\ hint[p] \in Hints
        /\ \A h \in Hints : requested'[h] = IF h = hint[p] THEN now ELSE requested[h]
        /\ UNCHANGED <<now, hint, read, called, steady>>
    BY <1>6 DEF RequestBoost, Move, TimingTypeOK
  <2>2. steady[hint[p]] => Served(hint[p])'
    BY <2>1 DEF Served, HandledAtOnce, TimingTypeOK
  <2>3. \A h \in Hints : h # hint[p] /\ InHand(h) => InHand(h)'
    BY <2>1 DEF InHand
  <2>4. \A h \in Hints : h # hint[p] /\ Served(h) => Served(h)'
    BY <2>1 DEF Served
  <2> QED
    BY <2>1, <2>2, <2>3, <2>4 DEF TimingTypeOK, HandledAtOnce, HasRead
<1>7. ASSUME NEW p \in Senders, StoreTime(p) PROVE HandledAtOnce'
  <2>1. /\ stage[p] = "store" /\ \A q \in Senders : stage'[q] = IF q = p THEN "idle" ELSE stage[q]
        /\ UNCHANGED <<now, hint, read, requested, called, steady>>
    BY <1>7 DEF StoreTime, Move, TimingTypeOK
  <2>2. \A h \in Hints : (InHand(h) => InHand(h)') /\ (Served(h) => Served(h)')
    BY <2>1 DEF InHand, Served
  <2> QED
    BY <2>1, <2>2 DEF TimingTypeOK, HandledAtOnce, HasRead
<1>8. CASE UNCHANGED timingVars
  BY <1>8 DEF timingVars, HandledAtOnce, HasRead, InHand, Served
<1> QED
  BY <1>1, <1>2, <1>3, <1>4, <1>5, <1>6, <1>7, <1>8 DEF TimingNext, SenderStep

LEMMA ServedIsMaintained ==
    ASSUME TInv, HandledAtOnce
    PROVE  Maintained
<1> SUFFICES ASSUME NEW h \in Hints, Interacting(h), Interval[h] + Gap <= Boost[h], Gap < Boost[h]
             PROVE  Boosted(h, now)
  BY DEF Maintained
<1>1. /\ requested[h] # Never /\ steady[h] /\ ~InHand(h)
  BY DEF Interacting, InHand
<1>2. called[h] # Never /\ Served(h) /\ now - called[h] <= Gap
  BY <1>1 DEF HandledAtOnce
<1>3. /\ now \in Nat /\ called[h] \in Nat /\ requested[h] \in Nat
      /\ Interval[h] \in Nat /\ Boost[h] \in Nat /\ Gap \in Nat
  BY <1>1, <1>2, TimingAssumption DEF TInv, TimingTypeOK
<1> QED
  BY <1>1, <1>2, <1>3 DEF Served, Boosted

(* nvpowerhal.cpp: hints sent steadily, by any number of threads, keep the *)
(* boost in force until the clock comes round.                             *)
THEOREM SteadyHintsMaintain ==
    ASSUME MaxTime < Wrap
    PROVE  TimingSpec => []Maintained
<1>1. TimingInit => TInv /\ HandledAtOnce
  BY TInvInit, HandledInit
<1>2. TInv /\ HandledAtOnce /\ [TimingNext]_timingVars => TInv' /\ HandledAtOnce'
  BY TInvStep, HandledStep
<1>3. TInv /\ HandledAtOnce => Maintained
  BY ServedIsMaintained
<1> QED
  BY <1>1, <1>2, <1>3, PTL DEF TimingSpec

=============================================================================
