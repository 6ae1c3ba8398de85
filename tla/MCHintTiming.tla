---------------------------- MODULE MCHintTiming ----------------------------
(* Instances of HintTiming for TLC.                                        *)
EXTENDS HintTiming

MCInterval == [h \in Hints |-> 2]
MCBoost    == [h \in Hints |-> 3]
=============================================================================
