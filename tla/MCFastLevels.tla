---------------------------- MODULE MCFastLevels ----------------------------
(* Model checking FastLevels: a window of 6, two short hashes and one long, *)
(* and an int32 small enough that cur wraps around within a few blocks.     *)
EXTENDS FastLevels, TLC

MCHash == {Cur(h) : h \in Short \cup Long} \cup {Prev(h) : h \in Long}
Symmetry == Permutations(Short)
==============================================================================
