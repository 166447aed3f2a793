------------------------------- MODULE LZ77 -------------------------------
(***************************************************************************)
(* What an LZ77 output window promises its user, without any buffer: one   *)
(* ever-growing stream of bytes, starting with the preset dictionary, that *)
(* is extended by literal bytes and by copies from at most W bytes back,   *)
(* and that is delivered in order, each byte once.  DictDecoder (the ring  *)
(* buffer of flate/dict_decoder.go) is shown to implement this module.     *)
(***************************************************************************)
EXTENDS Integers, Sequences

CONSTANTS
  W,           \* the window size: the farthest a copy may reach back
  Dictionaries \* the preset dictionaries a decoder may be started with

VARIABLES
  stream,      \* the preset dictionary, then every byte decoded so far
  delivered,   \* how much of stream is preset or has been handed out
  pair         \* the (distance, length) pair being copied

lzVars == <<stream, delivered, pair>>

NoPair == [dist |-> 0, length |-> 0]

\* The last W bytes of a preset dictionary: all of it that copies can reach.
LastW(dict) ==
  IF Len(dict) > W THEN [i \in 1..W |-> dict[Len(dict) - W + i]] ELSE dict

\* stream grows by cnt bytes and what it already held stays.
Grows(cnt) ==
  /\ Len(stream') = Len(stream) + cnt
  /\ \A i \in 1..Len(stream) : stream'[i] = stream[i]
  /\ UNCHANGED delivered

\* A decoder is restarted with a preset dictionary.
Restart ==
  /\ pair = NoPair
  /\ \E dict \in Dictionaries :
       /\ stream' = LastW(dict)
       /\ delivered' = Len(LastW(dict))
  /\ UNCHANGED pair

\* Literal or stored bytes are appended.
Literals ==
  /\ pair = NoPair
  /\ \E cnt \in 1..W : Grows(cnt)
  /\ UNCHANGED pair

\* A (distance, length) pair is presented.
BeginCopy ==
  /\ pair = NoPair
  /\ pair'.dist \in 1..W
  /\ pair'.dist <= Len(stream)
  /\ UNCHANGED <<stream, delivered>>

\* The pair is copied, or as much of it as there was room for: every new
\* byte equals the one dist places before it, new bytes included.
EndCopy ==
  /\ pair # NoPair
  /\ \E cnt \in 0..pair.length : Grows(cnt)
  /\ \A i \in (Len(stream) + 1)..Len(stream') :
       stream'[i] = stream'[i - pair.dist]
  /\ pair' = NoPair

\* Everything decoded so far is handed to the reader.
Deliver ==
  /\ pair = NoPair
  /\ delivered' = Len(stream)
  /\ UNCHANGED <<stream, pair>>

LZInit ==
  /\ \E dict \in Dictionaries :
       /\ stream = LastW(dict)
       /\ delivered = Len(LastW(dict))
  /\ pair = NoPair

LZNext == Restart \/ Literals \/ BeginCopy \/ EndCopy \/ Deliver

LZSpec == LZInit /\ [][LZNext]_lzVars
=============================================================================
