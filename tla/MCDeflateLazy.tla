--------------------------- MODULE MCDeflateLazy ---------------------------
(* Model checking DeflateLazy: a window of two times eight bytes that slides *)
(* twice, matches of 2 to 5 bytes, and a hash in which two keys collide.   *)
EXTENDS DeflateLazy

MCByte == {0, 1}
MCHashOf == [x \in [1..2 -> MCByte] |-> IF x[1] = 0 THEN 0 ELSE x[2] + 1]
MCSegments == {<< >>, <<0, 1, 1, 0, 1, 0, 0, 1, 1, 0>>, <<0, 0, 0, 0, 0, 0, 0, 0, 0>>,
               <<1, 0, 1, 1, 1, 0, 0, 0, 1, 0, 1, 1>>, <<1, 0, 0, 1, 0, 1, 0>>}
MCDicts == {<< >>, <<0, 1, 1, 0, 1, 0, 0, 1, 1, 0>>, <<0, 1, 1>>}
MCRefusals == {{}, {1}}
============================================================================
