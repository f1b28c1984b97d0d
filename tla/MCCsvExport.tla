---------------------------- MODULE MCCsvExport ----------------------------
(* CsvExport on up to two rows of two fields, whose texts have each class  *)
(* of characters, with sizes on both sides of the limit.                   *)
EXTENDS CsvExport

SomeFields ==
  { <<>>, <<"other">>, <<"quote", "other">>, <<"other", "delimiter">>,
    <<"other", "return">>,
    <<"quote", "newline", "delimiter">> }
=============================================================================
