------------------------------- MODULE MCYaml -------------------------------
EXTENDS Yaml
(* Texts: none, a word, an unterminated flow list.  Words: one, and *)
(* texts that need their quotes.                                           *)
MCTexts == {<<>>, <<"v">>, <<"[", "v">>}
MCWords == {<<"a">>, <<"]", ",">>, <<":", "#">>}
=============================================================================
