---------------------------- MODULE MCCodeTables ----------------------------
(* Model checking CodeTables with the real alphabets and table sizes.      *)
EXTENDS CodeTables

\* The n-th Fibonacci number: frequencies that make the deepest trees.
fib[n \in 0..30] == IF n < 2 THEN 1 ELSE fib[n - 1] + fib[n - 2]

\* Literals so placed that between them there are runs of zeros of 2, 3, 10,
\* 11, 138 and 139, around the limits of the repeat codes.
Places == {{0, 3, 7, 18}, {1, 140, 151}, {139, 140, 141}, {0, 1, 2, 142}, {11, 150}}
Freqs == {1, 2, 300}
NoOffs == << >>
Offs == {NoOffs, 0 :> 4, 0 :> 1 @@ 3 :> 2, [o \in 0..3 |-> 1]}

\* Few symbols, every choice of frequencies; a limit that binds, in blocks that
\* are not the last, and one that does not, in last blocks.
Small ==
  UNION {[lit : [p -> Freqs], off : {NoOffs}, maxBits : {m}, final : {m = 15}, lead : {5}]
           : p \in Places, m \in {3, 15}}

\* Equal lengths side by side, at the end of the literals and on into the offsets.
Runs ==
  {[lit |-> [s \in (256 - n)..255 |-> 1] @@ (IF o = NoOffs THEN << >> ELSE 257 :> 1), off |-> o,
    maxBits |-> 15, final |-> fin, lead |-> l] :
     n \in {3, 6, 7, 8, 13, 15}, o \in Offs, fin \in BOOLEAN, l \in {0, 7}}

\* Trees deeper than the limit.
Deep ==
  {[lit |-> [s \in 1..n |-> fib[IF up THEN s ELSE n - s]] @@ 258 :> 3, off |-> 1 :> 1 @@ 2 :> 2,
    maxBits |-> m, final |-> fin, lead |-> l] :
     n \in {10, 14, 16, 20}, up \in BOOLEAN, m \in {6, 15}, fin \in BOOLEAN, l \in {1, 3}}

MCBlocks == Small \cup Runs \cup Deep
=============================================================================
