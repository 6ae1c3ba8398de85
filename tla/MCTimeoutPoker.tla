--------------------------- MODULE MCTimeoutPoker ---------------------------
(* Instances of TimeoutPoker for TLC.                                      *)
EXTENDS TimeoutPokerInv, TLC

Symmetry == Permutations(Fd) \cup Permutations(Callers)
=============================================================================
