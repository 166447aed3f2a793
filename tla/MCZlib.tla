------------------------------- MODULE MCZlib -------------------------------
(* Model checking Zlib: all levels, streams of up to three bytes, and       *)
(* destinations that fail at any of their first units or never.             *)
EXTENDS Zlib

MCLevels == {-2, -1, 0, 1, 5, 9}
MCRooms == {0, 1, 2, 3, 4, 5, 6, 7, 100}
=============================================================================
