--------------------------- MODULE MCRestoreDrill ---------------------------
(* Two requests, so that one is settled while the other is still open, and   *)
(* two drills, so that a promoted copy is copied and promoted again.         *)
EXTENDS RestoreDrill, TLC

CONSTANTS r1, r2
TwoRequests == {r1, r2}
Symmetry    == Permutations(TwoRequests)
=============================================================================
