------------------------------ MODULE MCReviews ------------------------------
(***************************************************************************)
(* Constants of Reviews for TLC.                                           *)
(***************************************************************************)
EXTENDS Reviews, TLC

CONSTANTS r1, r2, free, high1, high2, over, none

TwoRequests == {r1, r2}
BothKinds == {"occupancy", "tax"}
Symmetry == Permutations(TwoRequests) \cup Permutations({high1, high2})
AllFigures == {free, high1, high2, over}

(* Two sets of figures a desk may let through, one beyond any desk.        *)
FigureBand == [f \in AllFigures |->
  CASE f = free -> "FREE" [] f = over -> "RED" [] OTHER -> "REVIEW"]
=============================================================================
