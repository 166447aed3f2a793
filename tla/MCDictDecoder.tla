--------------------------- MODULE MCDictDecoder ---------------------------
(* Constants for model checking DictDecoder: a window of a few bytes, so   *)
(* that copies wrap, overlap themselves and are cut short by the end of    *)
(* the buffer, and dictionaries shorter and longer than the window.        *)
EXTENDS DictDecoder

MCDictionaries == {<< >>, <<1, 0>>, <<0, 0, 1, 0, 1>>}
=============================================================================
