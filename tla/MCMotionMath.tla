---------------------------- MODULE MCMotionMath ----------------------------
(* An instance of MotionMath for TLC: words of 12 bits, 10 of them behind  *)
(* the point, as 30 of 32 in the code; a vector's parts reach -1.0.        *)
EXTENDS MotionMath

MCNumbers == {-256, 0, 77}
=============================================================================
