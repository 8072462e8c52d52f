------------------------ MODULE MCCaptionIngestion ------------------------
(* TLC instances of CaptionIngestion. *)
EXTENDS CaptionIngestion, TLC

CONSTANTS r1, r2, w1, w2, c1, c2

OneRequest == {r1}
TwoRequests == {r1, r2}
OneWorker == {w1}
TwoWorkers == {w1, w2}

\* Requests are alike, and so are workers.
Symmetry == Permutations(TwoRequests) \cup Permutations(TwoWorkers)
=============================================================================
