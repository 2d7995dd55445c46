---------------------------- MODULE MCListParams ----------------------------
(* ListParams for TLC: numbers from -3 to 12 (so two-digit and negative     *)
(* values occur) and every query-map number of up to three characters over *)
(* the digits 0, 1, 8, the sign and the hex marker x.                       *)
EXTENDS ListParams, TLC

MCChars == {"0", "1", "8", "x", "-"}
MCStrings == {<<>>} \cup [1..1 -> MCChars] \cup [1..2 -> MCChars] \cup [1..3 -> MCChars]
MCParamInputs ==
    [filter : {<<>>, <<"f">>}, limit : -3..12, sort : {<<>>, <<"s">>}, offset : -3..12]
MCMapInputs ==
    [filter : {<<>>, <<"f">>}, limit : MCStrings, sort : {<<>>}, offset : MCStrings]
=============================================================================
