---------------------------- MODULE MCCompressor ----------------------------
(* Model checking Compressor: a window of a few bytes, the thresholds of   *)
(* storeFast scaled with it, and destinations that fail after a few        *)
(* writes or never.                                                        *)
EXTENDS Compressor

MCRooms == {NeverFails, 0, 1, 2, 4, 6}
=============================================================================
