--------------------------- MODULE MCDataRetrieval ---------------------------
(* Statements with up to two columns: see the .cfg files.                  *)
EXTENDS DataRetrieval

SmallResults == {
  [types |-> <<"int">>, rows |-> <<<<"digits">>, <<"text">>>>],
  [types |-> <<"text", "int">>,
   rows  |-> <<<<"longtext", "digits">>, <<"text", "null">>>>],
  [types |-> <<"alien", "text">>, rows |-> <<<<"longtext", "text">>>>]}

Size(cell) == IF cell = "longtext" THEN 5 ELSE 2
=============================================================================
