--------------------------- MODULE MCCameraHints ----------------------------
(* Instances of CameraHints for TLC.  Ardbeg's camera_cap has fpsHint 30   *)
(* or 120 and no other hint; the third entry here has no fpsHint.          *)
EXTENDS CameraHints

CapOf(preview, highFps, other, u) ==
    CASE u = preview -> [fps |-> 30,  phs |-> FALSE]
      [] u = highFps -> [fps |-> 120, phs |-> FALSE]
      [] u = other   -> [fps |-> 0,   phs |-> TRUE]

MCUsecases == 0 .. 2
MCCap == [u \in MCUsecases |-> CapOf(0, 1, 2, u)]
=============================================================================
