----------------------------- MODULE MCProtocol -----------------------------
(***************************************************************************)
(* Two objects of each kind, the second with two digits, and names that are*)
(* none, that fit, that are too long and that hold the end of a request.   *)
(***************************************************************************)
EXTENDS Protocol

MCNumbers == 0..3 \union {10}

MCLevels == -1..0

MCBalances == -1..1

MCIdentifiers == {1, 10}

MCFrequencies == 2..3

MCNames ==
  { <<>>, <<"A">>, <<"A", "B", "A">>, <<"A", "]">>, <<"]", "A">>,
    <<"A", "B", "]">> }

MCPrintableNames == { <<>>, <<"A">>, <<"A", "B">>, <<"A", "]">>, <<"]", "A">> }
=============================================================================
