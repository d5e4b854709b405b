---------------------------- MODULE MCDiscovery ----------------------------
(* Discovery for TLC: three companies, a spreadsheet of all and one of two *)
(* of them in another order; a save after every second result.             *)
EXTENDS Discovery, TLC

CONSTANTS c1, c2, c3

MCCompany == {c1, c2, c3}
MCKeyOf == [c \in MCCompany |-> c]
MCSheets == {<<c1, c2, c3>>, <<c2, c1>>}
=============================================================================
