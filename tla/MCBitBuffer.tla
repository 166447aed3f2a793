---------------------------- MODULE MCBitBuffer ----------------------------
(* Model checking BitBuffer: the real widths of accumulator, codes and     *)
(* fields at their extremes; a buffer of a few stores, with the least      *)
(* margin that is assumed.                                                 *)
EXTENDS BitBuffer
=============================================================================
