------------------------------ MODULE MCAudit ------------------------------
(* Audit for TLC: a home page, a careers page and two deeper ones, each of *)
(* which may call the board, show it or mention it, or none of these; the  *)
(* home page of some sites calls an aggregator.                            *)
EXTENDS Audit, TLC

CONSTANTS greenhouse, indeed, ref, users, home, open, first, second

MCAts == <<greenhouse, indeed>>
MCPage == {home, open, first, second}
Board == [ats |-> greenhouse, token |-> ref]
Account == [ats |-> greenhouse, token |-> users]
Aggregator == [ats |-> indeed, token |-> NoToken]

Calls == {[p \in MCPage |-> IF p = caller THEN {Board} ELSE IF p = home THEN h ELSE {}] :
             caller \in {home, open, second, Nowhere}, h \in {{}, {Aggregator}}}
Elements == {[p \in MCPage |-> IF p = shower THEN <<Account, Board>> ELSE <<>>] :
             shower \in {open, first, Nowhere}}
Texts == {[p \in MCPage |-> IF p = namer THEN {Aggregator, Board} ELSE {}] :
             namer \in {open, Nowhere}}
MCLinks == [p \in MCPage |->
    IF p = open THEN <<[to |-> home, kind |-> "partner"], [to |-> first, kind |-> "deeper"],
                       [to |-> second, kind |-> "ats"], [to |-> first, kind |-> "deeper"],
                       [to |-> home, kind |-> "deeper"]>>
    ELSE <<>>]

MCSites ==
    {[home |-> home, link |-> l, map |-> m, path |-> Nowhere, calls |-> c, elements |-> e,
      text |-> t, links |-> MCLinks, answers |-> a] :
        l \in {open, Nowhere}, m \in {open, Nowhere}, c \in Calls, e \in Elements, t \in Texts,
        a \in {<<"empty", "postings", "postings">>, <<"refused", "empty">>}}
    \cup
    {[home |-> Nowhere, link |-> Nowhere, map |-> Nowhere, path |-> Nowhere,
      calls |-> c, elements |-> e, text |-> t, links |-> MCLinks, answers |-> <<"postings">>] :
        c \in Calls, e \in Elements, t \in Texts}
=============================================================================
