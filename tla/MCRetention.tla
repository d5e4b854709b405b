---------------------------- MODULE MCRetention ----------------------------
(* Retention for TLC: one board with two postings and one with a single    *)
(* posting; a grace of one time step and an expiry of three.               *)
EXTENDS Retention, TLC

CONSTANTS j1, j2, j3, b1, b2

MCJob == {j1, j2, j3}
MCBoard == {b1, b2}
MCBoardOf == (j1 :> b1) @@ (j2 :> b1) @@ (j3 :> b2)
JobSymmetry == Permutations({j1, j2})
=============================================================================
