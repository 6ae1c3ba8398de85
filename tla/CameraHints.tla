----------------------------- MODULE CameraHints ----------------------------
(***************************************************************************)
(* Camera hints of the power HAL (common/power/nvpowerhal.cpp): the calls  *)
(* of set_camera_hint, the thread that repeats the hints once a second,    *)
(* and the GPU frame-rate target the two of them share without a lock.     *)
(*                                                                         *)
(* wait_mutex protects short sections that contain no other step; each is  *)
(* one action here.  The descriptors a use case opens are in PowerFds.     *)
(* Throughput hints expire by themselves and have no state.  Camera hints  *)
(* arrive one after the other.                                             *)
(***************************************************************************)
EXTENDS Integers

CONSTANTS
    Threads,       \* threads pthread_create can return
    NoThread,      \* 0, no regular hints thread
    Bogus,         \* what a failed pthread_create may leave in the handle
    Caller,        \* the thread inside set_camera_hint
    TargetFds,     \* descriptors NvOsSetFpsTarget can return
    NoFd,          \* -1
    Usecases,      \* indices of camera_cap
    NoUsecase,     \* -1
    Cap,           \* camera_cap: fps is fpsHint, phs whether another hint is set
    CameraTargetFps,  \* CAMERA_TARGET_FPS
    MaxCalls,      \* BOUND: camera hints sent
    MaxFailures    \* BOUND: calls into NvOs and pthread_create that fail

ASSUME CameraAssumption ==
    /\ NoThread \notin Threads /\ Bogus \notin Threads /\ Caller \notin Threads
    /\ Bogus # NoThread
    /\ NoFd \notin TargetFds
    /\ NoUsecase \notin Usecases
    /\ Cap \in [Usecases -> [fps : Nat, phs : BOOLEAN]]
    /\ CameraTargetFps \in Nat \ {0}
    /\ MaxCalls \in Nat
    /\ MaxFailures \in Nat

VARIABLES
    regular_hints_thread,  \* the handle
    exit_hints_thread,
    target_fps,
    usecase_index,
    fd_gpu,
    gpuFd,      \* each thread's own copy of a GPU descriptor, on its way from or to NvOs
    target,     \* frame rate each open NvOs target asks for, NotOpen if closed
    pc,         \* where each thread is
    cap,        \* the table entry each thread works with
    calls,
    failures

vars == <<regular_hints_thread, exit_hints_thread, target_fps, usecase_index,
          fd_gpu, gpuFd, target, pc, cap, calls, failures>>

hintVars == <<regular_hints_thread, exit_hints_thread>>
fpsVars  == <<target_fps, fd_gpu, gpuFd, target>>

NotOpen == -1
Procs   == Threads \cup {Caller}

FpsStates    == {"fps", "fpsOpen", "fpsStore", "fpsRead", "fpsModify"}
CallerStates == FpsStates \cup {"idle", "usecase", "launch", "signal", "join", "joined",
                                "reset", "cancelled", "clear"}
ThreadStates == FpsStates \cup {"none", "check", "wait", "timeout", "woken", "phs", "phsSet",
                                "exited"}

Live(t) == pc[t] \notin {"none", "exited"}

Goto(p, to) == pc' = [pc EXCEPT ![p] = to]

Call == pc[Caller] = "idle" /\ calls < MaxCalls /\ calls' = calls + 1
Fail == failures < MaxFailures /\ failures' = failures + 1

Init ==
    /\ regular_hints_thread = NoThread
    /\ exit_hints_thread = FALSE
    /\ target_fps = 0
    /\ usecase_index = NoUsecase
    /\ fd_gpu = NoFd
    /\ gpuFd = [p \in Procs |-> NoFd]
    /\ target = [fd \in TargetFds |-> NotOpen]
    /\ pc = [p \in Procs |-> IF p = Caller THEN "idle" ELSE "none"]
    /\ cap = [p \in Procs |-> NoUsecase]
    /\ calls = 0
    /\ failures = 0

-----------------------------------------------------------------------------
(* set_camera_fps, run by the caller and by the hints thread.              *)

AfterFps(p) == IF p = Caller THEN "launch" ELSE "phs"

TestGpuFd(p) ==
    /\ pc[p] = "fps"
    /\ Goto(p, IF fd_gpu = NoFd THEN "fpsOpen" ELSE "fpsRead")
    /\ UNCHANGED <<calls, hintVars, fpsVars, usecase_index, cap, failures>>

\* NvOsSetFpsTarget opens a target; another thread may open one too before it is stored
SetFpsTarget(p) ==
    /\ pc[p] = "fpsOpen"
    /\ \E fd \in {fd \in TargetFds : target[fd] = NotOpen} :
          /\ target' = [target EXCEPT ![fd] = target_fps]
          /\ gpuFd' = [gpuFd EXCEPT ![p] = fd]
    /\ Goto(p, "fpsStore")
    /\ UNCHANGED <<calls, hintVars, target_fps, fd_gpu, usecase_index, cap, failures>>

SetFpsTargetFails(p) ==
    /\ pc[p] = "fpsOpen"
    /\ Fail
    /\ gpuFd' = [gpuFd EXCEPT ![p] = NoFd]
    /\ Goto(p, "fpsStore")
    /\ UNCHANGED <<calls, hintVars, target_fps, fd_gpu, target, usecase_index, cap>>

StoreGpuFd(p) ==
    /\ pc[p] = "fpsStore"
    /\ fd_gpu' = gpuFd[p]
    /\ gpuFd' = [gpuFd EXCEPT ![p] = NoFd]
    /\ Goto(p, AfterFps(p))
    /\ UNCHANGED <<calls, hintVars, target_fps, target, usecase_index, cap, failures>>

\* the argument of NvOsModifyFpsTarget; another thread may have put -1 there since the test
ReadGpuFd(p) ==
    /\ pc[p] = "fpsRead"
    /\ gpuFd' = [gpuFd EXCEPT ![p] = fd_gpu]
    /\ Goto(p, "fpsModify")
    /\ UNCHANGED <<calls, hintVars, target_fps, fd_gpu, target, usecase_index, cap, failures>>

\* a target that is not open, or -1, is not modified
ModifyFpsTarget(p) ==
    /\ pc[p] = "fpsModify"
    /\ target' = [fd \in TargetFds |->
           IF fd = gpuFd[p] /\ target[fd] # NotOpen THEN target_fps ELSE target[fd]]
    /\ gpuFd' = [gpuFd EXCEPT ![p] = NoFd]
    /\ Goto(p, AfterFps(p))
    /\ UNCHANGED <<calls, hintVars, target_fps, fd_gpu, usecase_index, cap, failures>>

ModifyFpsTargetFails(p) ==
    /\ pc[p] = "fpsModify"
    /\ Fail
    /\ gpuFd' = [gpuFd EXCEPT ![p] = NoFd]
    /\ Goto(p, AfterFps(p))
    /\ UNCHANGED <<calls, hintVars, target_fps, fd_gpu, target, usecase_index, cap>>

SetCameraFps(p) ==
    \/ TestGpuFd(p)
    \/ SetFpsTarget(p) \/ SetFpsTargetFails(p) \/ StoreGpuFd(p)
    \/ ReadGpuFd(p) \/ ModifyFpsTarget(p) \/ ModifyFpsTargetFails(p)

(* set_camera_phs_hints with PHS_DEBUG: fpsHint becomes the target.        *)
SetPhsHints(u) ==
    target_fps' = IF Cap[u].fps # 0 THEN Cap[u].fps ELSE target_fps

-----------------------------------------------------------------------------
(* set_camera_hint.                                                        *)

\* CAMERA_HINT_STILL_PREVIEW_POWER and the other use cases
Usecase(u) ==
    /\ Call
    /\ usecase_index' = u
    /\ cap' = [cap EXCEPT ![Caller] = u]
    /\ Goto(Caller, "usecase")
    /\ UNCHANGED <<hintVars, fpsVars, failures>>

ApplyCap ==
    /\ pc[Caller] = "usecase"
    /\ SetPhsHints(cap[Caller])
    /\ Goto(Caller, "launch")
    /\ UNCHANGED <<calls, hintVars, fd_gpu, gpuFd, target, usecase_index, cap, failures>>

\* CAMERA_HINT_FPS
HintFps ==
    /\ Call
    /\ target_fps' = CameraTargetFps
    /\ cap' = [cap EXCEPT ![Caller] = NoUsecase]
    /\ Goto(Caller, "fps")
    /\ UNCHANGED <<hintVars, fd_gpu, gpuFd, target, usecase_index, failures>>

HasHints(u) == u # NoUsecase /\ (Cap[u].phs \/ Cap[u].fps # 0)

\* mutant: a thread is created though hints are already being sent
Launch_Another ==
    /\ pc[Caller] = "launch"
    /\ IF target_fps # 0 \/ HasHints(cap[Caller])
       THEN \E t \in Threads :
               /\ pc[t] = "none"
               /\ regular_hints_thread' = t
               /\ pc' = [pc EXCEPT ![t] = "check", ![Caller] = "idle"]
       ELSE Goto(Caller, "idle") /\ UNCHANGED regular_hints_thread
    /\ UNCHANGED <<calls, exit_hints_thread, fpsVars, usecase_index, cap, failures>>

\* the end of set_camera_hint, and send_regular_hints
Launch ==
    /\ pc[Caller] = "launch"
    /\ IF regular_hints_thread = NoThread /\ (target_fps # 0 \/ HasHints(cap[Caller]))
       THEN \E t \in Threads :
               /\ pc[t] = "none"
               /\ regular_hints_thread' = t
               /\ pc' = [pc EXCEPT ![t] = "check", ![Caller] = "idle"]
       ELSE Goto(Caller, "idle") /\ UNCHANGED regular_hints_thread
    /\ UNCHANGED <<calls, exit_hints_thread, fpsVars, usecase_index, cap, failures>>

\* pthread_create fails: the handle is left as it was or undefined
LaunchFails ==
    /\ pc[Caller] = "launch"
    /\ regular_hints_thread = NoThread
    /\ target_fps # 0 \/ HasHints(cap[Caller])
    /\ Fail
    /\ regular_hints_thread' \in {NoThread, Bogus}
    /\ Goto(Caller, "idle")
    /\ UNCHANGED <<calls, exit_hints_thread, fpsVars, usecase_index, cap>>

\* CAMERA_HINT_RESET, wait_for_regular_hints_thread up to the unlock
HintReset ==
    /\ Call
    /\ cap' = [cap EXCEPT ![Caller] = NoUsecase]
    /\ IF regular_hints_thread = NoThread
       THEN Goto(Caller, "reset") /\ UNCHANGED exit_hints_thread
       ELSE Goto(Caller, "signal") /\ exit_hints_thread' = TRUE
    /\ UNCHANGED <<regular_hints_thread, fpsVars, usecase_index, failures>>

\* pthread_cond_signal wakes one waiting thread, if there is one
SignalHintsThread ==
    /\ pc[Caller] = "signal"
    /\ IF \E t \in Threads : pc[t] = "wait"
       THEN \E t \in Threads : /\ pc[t] = "wait"
                               /\ pc' = [pc EXCEPT ![t] = "woken", ![Caller] = "join"]
       ELSE Goto(Caller, "join")
    /\ UNCHANGED <<calls, hintVars, fpsVars, usecase_index, cap, failures>>

\* mutant: the thread is signalled and the handle cleared, but nobody waits for its end
JoinHintsThread_NotAwaited ==
    /\ pc[Caller] = "join"
    /\ regular_hints_thread' = NoThread
    /\ Goto(Caller, "joined")
    /\ UNCHANGED <<calls, exit_hints_thread, fpsVars, usecase_index, cap, failures>>

\* pthread_join returns at once on a handle that names no thread
JoinHintsThread ==
    /\ pc[Caller] = "join"
    /\ \/ /\ regular_hints_thread \in Threads
          /\ pc[regular_hints_thread] = "exited"
          /\ pc' = [pc EXCEPT ![regular_hints_thread] = "none", ![Caller] = "joined"]
       \/ /\ regular_hints_thread = Bogus
          /\ Goto(Caller, "joined")
    /\ regular_hints_thread' = NoThread
    /\ UNCHANGED <<calls, exit_hints_thread, fpsVars, usecase_index, cap, failures>>

\* mutant: exit_hints_thread stays set
ClearExit_Kept ==
    /\ pc[Caller] = "joined"
    /\ Goto(Caller, "reset")
    /\ UNCHANGED <<calls, hintVars, fpsVars, usecase_index, cap, failures>>

ClearExit ==
    /\ pc[Caller] = "joined"
    /\ exit_hints_thread' = FALSE
    /\ Goto(Caller, "reset")
    /\ UNCHANGED <<calls, regular_hints_thread, fpsVars, usecase_index, cap, failures>>

\* reset_camera_hint: NvOsCancelFpsTarget, the assignment of -1, and the rest; the switch ends
\* with target_fps 0 and no cap, so that set_camera_hint returns without launching a thread
CancelFpsTarget ==
    /\ pc[Caller] = "reset"
    /\ IF fd_gpu = NoFd
       THEN Goto(Caller, "clear") /\ UNCHANGED target
       ELSE Goto(Caller, "cancelled") /\ target' = [target EXCEPT ![fd_gpu] = NotOpen]
    /\ UNCHANGED <<calls, hintVars, target_fps, fd_gpu, gpuFd, usecase_index, cap, failures>>

ClearGpuFd ==
    /\ pc[Caller] = "cancelled"
    /\ fd_gpu' = NoFd
    /\ Goto(Caller, "clear")
    /\ UNCHANGED <<calls, hintVars, target_fps, gpuFd, target, usecase_index, cap, failures>>

ResetCameraHint ==
    /\ pc[Caller] = "clear"
    /\ target_fps' = 0
    /\ usecase_index' = NoUsecase
    /\ Goto(Caller, "idle")
    /\ UNCHANGED <<calls, hintVars, fd_gpu, gpuFd, target, cap, failures>>

-----------------------------------------------------------------------------
(* regular_hints_threadfunc.                                               *)

\* mutant: exit_hints_thread is not tested before the wait
CheckExit_Untested(t) ==
    /\ pc[t] = "check"
    /\ Goto(t, "wait")
    /\ UNCHANGED <<calls, hintVars, fpsVars, usecase_index, cap, failures>>

\* lock, test exit_hints_thread, and unlock or wait
CheckExit(t) ==
    /\ pc[t] = "check"
    /\ Goto(t, IF exit_hints_thread THEN "exited" ELSE "wait")
    /\ UNCHANGED <<calls, hintVars, fpsVars, usecase_index, cap, failures>>

\* pthread_cond_timedwait returns ETIMEDOUT
WaitTimesOut(t) ==
    /\ pc[t] = "wait"
    /\ Goto(t, "timeout")
    /\ UNCHANGED <<calls, hintVars, fpsVars, usecase_index, cap, failures>>

\* pthread_cond_timedwait returns 0 though nobody has signalled
SpuriousWakeup(t) ==
    /\ pc[t] = "wait"
    /\ Goto(t, "woken")
    /\ UNCHANGED <<calls, hintVars, fpsVars, usecase_index, cap, failures>>

\* "Woken up by signal, exit"
ExitThread(t) ==
    /\ pc[t] = "woken"
    /\ Goto(t, "exited")
    /\ UNCHANGED <<calls, hintVars, fpsVars, usecase_index, cap, failures>>

TestFps(t) ==
    /\ pc[t] = "timeout"
    /\ Goto(t, IF target_fps # 0 THEN "fps" ELSE "phs")
    /\ UNCHANGED <<calls, hintVars, fpsVars, usecase_index, cap, failures>>

\* mutant: the table entry is looked up once
PickCap_Once(t) ==
    /\ pc[t] = "phs"
    /\ IF usecase_index \in Usecases
       THEN /\ cap' = [cap EXCEPT ![t] = IF @ = NoUsecase THEN usecase_index ELSE @]
            /\ Goto(t, "phsSet")
       ELSE Goto(t, "check") /\ UNCHANGED cap
    /\ UNCHANGED <<calls, hintVars, fpsVars, usecase_index, failures>>

\* the range test of usecase_index, and the entry it selects
PickCap(t) ==
    /\ pc[t] = "phs"
    /\ IF usecase_index \in Usecases
       THEN cap' = [cap EXCEPT ![t] = usecase_index] /\ Goto(t, "phsSet")
       ELSE Goto(t, "check") /\ UNCHANGED cap
    /\ UNCHANGED <<calls, hintVars, fpsVars, usecase_index, failures>>

RepeatHints(t) ==
    /\ pc[t] = "phsSet"
    /\ SetPhsHints(cap[t])
    /\ Goto(t, "check")
    /\ UNCHANGED <<calls, hintVars, fd_gpu, gpuFd, target, usecase_index, cap, failures>>

-----------------------------------------------------------------------------

CallStep ==
    \/ ApplyCap \/ Launch \/ LaunchFails
    \/ SignalHintsThread \/ JoinHintsThread \/ ClearExit
    \/ CancelFpsTarget \/ ClearGpuFd \/ ResetCameraHint
    \/ SetCameraFps(Caller)

ThreadStep(t) ==
    \/ CheckExit(t) \/ WaitTimesOut(t) \/ ExitThread(t) \/ TestFps(t)
    \/ PickCap(t) \/ RepeatHints(t)
    \/ SetCameraFps(t)

Next ==
    \/ \E u \in Usecases : Usecase(u)
    \/ HintFps \/ HintReset
    \/ CallStep
    \/ \E t \in Threads : ThreadStep(t) \/ SpuriousWakeup(t)

(* A call that has begun goes on, and so does the hints thread: its wait   *)
(* is timed.  Calls need not be made.                                      *)
Spec     == Init /\ [][Next]_vars
FairSpec == Spec /\ WF_vars(CallStep) /\ \A t \in Threads : WF_vars(ThreadStep(t))

-----------------------------------------------------------------------------
(* Properties.                                                             *)

TypeOK ==
    /\ regular_hints_thread \in Threads \cup {NoThread, Bogus}
    /\ exit_hints_thread \in BOOLEAN
    /\ target_fps \in Nat
    /\ usecase_index \in Usecases \cup {NoUsecase}
    /\ fd_gpu \in TargetFds \cup {NoFd}
    /\ gpuFd \in [Procs -> TargetFds \cup {NoFd}]
    /\ target \in [TargetFds -> Nat \cup {NotOpen}]
    /\ pc \in [Procs -> CallerStates \cup ThreadStates]
    /\ pc[Caller] \in CallerStates
    /\ \A t \in Threads : pc[t] \in ThreadStates
    /\ cap \in [Procs -> Usecases \cup {NoUsecase}]
    /\ calls \in 0 .. MaxCalls
    /\ failures \in 0 .. MaxFailures

(* At most one hints thread lives, and it is the one the handle names, so  *)
(* that a later CAMERA_HINT_RESET can find it and stop it.                 *)
LiveThreadHasHandle ==
    \A t \in Threads : Live(t) => regular_hints_thread = t

(* NvOsModifyFpsTarget is never given a target that RESET has cancelled:   *)
(* RESET joins the hints thread, which may have read fd_gpu, before it     *)
(* cancels.  Nor does RESET itself cancel a target twice.                  *)
NoStaleTarget ==
    /\ \A p \in Procs : pc[p] = "fpsModify" /\ gpuFd[p] # NoFd => target[gpuFd[p]] # NotOpen
    /\ pc[Caller] = "reset" /\ fd_gpu # NoFd => target[fd_gpu] # NotOpen

(* Once CAMERA_HINT_RESET has returned, nothing repeats or restores a      *)
(* camera hint until the next call.                                        *)
QuietAfterReset ==
    pc[Caller] = "idle" /\ usecase_index = NoUsecase /\ target_fps = 0 =>
        /\ fd_gpu = NoFd
        /\ ~exit_hints_thread
        /\ \A t \in Threads : ~Live(t)

(* CAMERA_HINT_RESET returns: the hints thread is never left asleep with   *)
(* the request to exit unseen.                                             *)
ResetReturns == pc[Caller] \in {"signal", "join"} ~> pc[Caller] = "idle"

(* While the hints thread lives and no call is made, the GPU target ends   *)
(* up at the rate of the current use case, whatever the thread had read of *)
(* an earlier one.                                                         *)
TargetConverges ==
    \A u \in Usecases :
        Cap[u].fps # 0 =>
            (<>[](/\ pc[Caller] = "idle"
                  /\ usecase_index = u
                  /\ \E t \in Threads : Live(t))
             => <>[](fd_gpu # NoFd /\ target[fd_gpu] = Cap[u].fps))

(* VIOLATED by the code: RESET cancels the camera's GPU target; none is    *)
(* left open when it has returned.                                         *)
ResetCancelsTarget ==
    pc[Caller] = "idle" /\ usecase_index = NoUsecase /\ target_fps = 0 =>
        \A fd \in TargetFds : target[fd] = NotOpen
=============================================================================
