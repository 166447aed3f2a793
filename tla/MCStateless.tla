---------------------------- MODULE MCStateless ----------------------------
(* Model checking Stateless: blocks of up to 5 bytes of which 2 may be     *)
(* dictionary, inputs of one to three blocks, destinations that fail.      *)
EXTENDS Stateless

MCRooms == {NeverFails, 0, 2, 4}
MCSound == {NeverFails}
=============================================================================
