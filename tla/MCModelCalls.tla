---------------------------- MODULE MCModelCalls ----------------------------
(* TLC instances of ModelCalls. *)
EXTENDS ModelCalls, TLC

CONSTANTS w1, w2
=============================================================================
