----------------------------- MODULE MCAdapters -----------------------------
(* Adapters for TLC: a board of no posting or of two pages, one of the     *)
(* postings open in two places, and one more that may open.                *)
EXTENDS Adapters, TLC

CONSTANTS j1, j2, j3, j4, j5, p1, p2

MCAts == {"greenhouse", "lever", "bamboohr", "rippling", "smartrecruiters"}
MCJob == {j1, j2, j3, j4, j5}
MCPlacesOf == [j \in MCJob |-> IF j = j1 THEN {p1, p2} ELSE {p1}]
MCBoards == {<<>>, <<j1, j2, j3, j4>>}
MCQuirks == {"none", "uncounted", "fewer", "more", "stuck"}
OnlyPaged == {"smartrecruiters"}
OnlyHonest == {"none"}
=============================================================================
