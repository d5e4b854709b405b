--------------------------- MODULE MCCompanyList ---------------------------
(* CompanyList for TLC: two companies, boards of which one is mistyped;    *)
(* discovery finds one company, or both and one of them twice.             *)
EXTENDS CompanyList, TLC

CONSTANTS c1, c2, good, moved, mistyped

Found(c, b, s) == [company |-> c, board |-> b, active |-> TRUE, site |-> s]
MCInventories ==
    {<<Found(c1, good, FALSE)>>,
     <<Found(c1, moved, TRUE), Found(c2, good, FALSE), Found(c2, moved, TRUE)>>}
=============================================================================
