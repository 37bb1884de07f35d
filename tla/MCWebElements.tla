--------------------------- MODULE MCWebElements ----------------------------
(* A drop-down with three choices, one of them empty, and some own texts,   *)
(* VLAN tables with up to three rows for two interchangeable ports, a ring   *)
(* of three samples.                                                         *)
EXTENDS WebElements

MCMenus == {<<"a", "b">>, <<"", "a">>}
MCOffered == <<"a", "b", "">>
MCTexts == {<<"x">>, <<"b">>, <<"-">>, <<"x", "a">>}
MCTargets == {<<>>, <<"a">>, <<"">>, <<"b", "a">>, <<"x">>}
MCMaxCells(checked) == IF checked THEN 4 ELSE 3
MCPorts == Permutations(AllPorts)
=============================================================================
