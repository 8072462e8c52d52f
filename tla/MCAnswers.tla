----------------------------- MODULE MCAnswers ------------------------------
(* TLC instance of Answers: p2 and x1 are the texts with flags. *)
EXTENDS Answers, TLC

CONSTANTS p1, p2, t1, x1, w1, r1, a1
=============================================================================
