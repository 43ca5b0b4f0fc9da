------------------------------ MODULE MCCsvServer ------------------------------
(* CsvServer on tables of up to five fields, and a few that are ragged. *)
EXTENDS CsvServer

MCFlags == {{"read"}, {"csv"}, {"all"}}

MCTexts ==
  {<<>>, <<<<"a">>>>, <<<<"a">>, <<"x">>, <<"">>>>, <<<<"a", "a">>, <<"x", "">>>>,
   <<<<"a", "b">>, <<"x">>>>, <<<<"a">>, <<"x">>, <<"x", "x">>>>,
   <<<<"a", "b">>, <<"">>, <<"x", "">>>>}

MCHeaders == {<<>>, <<"a">>, <<"a", "b">>, <<"b", "b">>}

MCBatches ==
  {<<[fields |-> <<"x">>]>>, <<[fields |-> <<"x", "">>]>>, <<>>,
   <<[object |-> [b |-> "x"]], [fields |-> <<"", "x">>]>>,
   <<[object |-> [a |-> "x"]]>>, <<[fields |-> <<"">>], [fields |-> <<"x">>]>>}

(* The last call is looked at in the step that makes it and guards nothing. *)
MCView == <<enabled, mode, file, tidy>>
=============================================================================
