------------------------------ MODULE Stateless ------------------------------
(***************************************************************************)
(* flate/stateless.go: StatelessDeflate compresses one slice with a bit    *)
(* writer and a token buffer from a pool and flushes it; several calls on  *)
(* one destination make up a stream.  The bit writer is reset for every    *)
(* call and keeps only its tables and its cached header.                   *)
(***************************************************************************)
EXTENDS HuffmanBitWriter

CONSTANTS
  MaxBlock,   \* maxStatelessBlock: positions are int16
  MaxDict,    \* maxStatelessDict
  MinEncode,  \* minNonLiteralBlockSize
  Inputs,     \* the lengths of the slices to compress
  DictSizes,  \* the lengths of the dictionaries
  Rooms,      \* how much the destination takes before it fails
  MaxCalls    \* bound: calls for one stream

ASSUME StatelessAssumption ==
  /\ MaxBlock \in Nat /\ MaxDict \in Nat
  /\ 2 * MaxDict <= MaxBlock
  /\ Inputs \subseteq Nat
  /\ DictSizes \subseteq Nat

VARIABLES
  bw,     \* the pooled huffmanBitWriter, with the destination's reader
  dst,    \* the pooled tokens
  in,     \* how much of the input is left
  dict,   \* the length of the dictionary before the first block
  inDict, \* is the input before this block used as a dictionary
  eof,    \* the argument of the call
  total,  \* history: the bytes compressed so far, in all calls
  first,  \* history: the number of the first byte of this call
  view,   \* history: the bytes [lo, hi) that statelessEnc was last given, the block from from on
  ret,    \* the result of the call, "running" during one
  calls   \* how often StatelessDeflate was called

vars == <<bw, dst, in, dict, inDict, eof, total, first, view, ret, calls>>

NoTokens == Tokens(0, 0, {}, {})

-----------------------------------------------------------------------------
\* The call begins.  Nothing to compress and eof: an empty final block.
StatelessDeflate(n, atEof, dictLen) ==
  /\ ret = "nil"
  /\ ~eof
  /\ calls < MaxCalls
  /\ calls' = calls + 1
  /\ eof' = atEof
  /\ in' = n
  /\ dict' = Min({dictLen, MaxDict})
  /\ inDict' = FALSE
  /\ first' = total
  /\ LET w == [reset(bw, bw.room) EXCEPT !.dec = bw.dec]
     IN IF atEof /\ n = 0
        THEN \E c \in Positions :
               /\ bw' = flush(writeStoredHeader(w, 0, TRUE, c), c)
               /\ ret' = bw'.err
               /\ UNCHANGED dst
        ELSE /\ bw' = w
             /\ dst' = NoTokens
             /\ ret' = "running"
  /\ UNCHANGED <<total, view>>

\* statelessEnc on n new bytes after startAt old ones: no tokens for too
\* short an input or without a match.
statelessEnc(d, n) ==
  {[d EXCEPT !.n = 0]} \cup
  (IF n < MinEncode THEN {}
   ELSE {Tokens(IF d.n = 0 THEN total ELSE d.from, d.n + n, d.lits \cup lits, d.offs \cup offs) :
           lits \in SUBSET Literals \ {{}}, offs \in SUBSET Offsets})

\* Mutated form of todo: the dictionary does not count.
todoUncut == Min({in, MaxBlock})

\* How much of the input the next block takes.
todo == Min({in, IF inDict THEN MaxBlock - MaxDict ELSE MaxBlock - dict})

\* The block of n bytes with tokens t.
blocks(w, t, n, isEof, sync) ==
  IF t.n = 0
  THEN {storedBlock(w, total, n, isEof, c) : c \in Positions}
  ELSE {writeBlockHuff(w, Tokens(total, n, lits, {}), isEof, sync, c) :
          lits \in SUBSET Literals \ {{}}, c \in Outcomes}
       \cup {writeBlockDynamic(w, t, isEof, sync, c) : c \in Outcomes}

\* One iteration of the loop.
block ==
  /\ ret = "running"
  /\ in > 0
  /\ LET n == todo
         left == in - n
     IN /\ view' = [lo |-> total - (IF inDict THEN MaxDict ELSE dict),
                    from |-> total, hi |-> total + n]
        /\ \E t \in statelessEnc(dst, n) :
             /\ bw' \in blocks(bw, t, n, eof /\ left = 0, left = 0)
             /\ dst' = IF left > 0 THEN NoTokens ELSE t
        /\ in' = left
        /\ inDict' = (inDict \/ left > 0)
        /\ dict' = IF left > 0 THEN 0 ELSE dict
        /\ total' = total + n
        /\ ret' = IF bw'.err # "nil" THEN bw'.err ELSE ret
  /\ UNCHANGED <<eof, first, calls>>

\* Mutated form of finish: the output is not aligned.
finishUnaligned ==
  /\ ret = "running"
  /\ in = 0
  /\ \E c \in Positions : bw' = flush(bw, c)
  /\ ret' = bw'.err
  /\ UNCHANGED <<dst, in, dict, inDict, eof, total, first, view, calls>>

\* After the loop: align, unless the stream has ended, and flush.
finish ==
  /\ ret = "running"
  /\ in = 0
  /\ \E c \in Positions :
       bw' = flush(IF eof THEN bw ELSE writeStoredHeader(bw, 0, FALSE, c), c)
  /\ ret' = bw'.err
  /\ UNCHANGED <<dst, in, dict, inDict, eof, total, first, view, calls>>

Init ==
  /\ \E room \in Rooms : bw = newHuffmanBitWriter(room)
  /\ dst = NoTokens
  /\ in = 0 /\ dict = 0 /\ inDict = FALSE /\ eof = FALSE
  /\ total = 0 /\ first = 0 /\ view = [lo |-> 0, from |-> 0, hi |-> 0]
  /\ ret = "nil"
  /\ calls = 0

\* The stream has ended, the destination failed, or the bound is reached.
Done ==
  /\ ret # "running"
  /\ eof \/ ret # "nil" \/ calls = MaxCalls
  /\ UNCHANGED vars

Next ==
  \/ \E n \in Inputs, atEof \in BOOLEAN, dictLen \in DictSizes :
       /\ dictLen <= total \* the data that precedes in the stream
       /\ StatelessDeflate(n, atEof, dictLen)
  \/ block
  \/ finish
  \/ Done

Spec == Init /\ [][Next]_vars
-----------------------------------------------------------------------------
(* Properties.                                                             *)

\* A decoder can follow the output of any number of calls, of any number of
\* blocks each, on one destination.
Followed == bw.dec.mode # "corrupt"

\* "When returning everything will be flushed" (stateless.go line 72): a call
\* that succeeds leaves the decoder with all bytes and nothing in the buffer,
\* and at a byte boundary before a header if more calls may follow.
FlushedOnReturn ==
  ret = "nil" =>
    /\ bw.dec.got = total
    /\ ~bw.buffered
    /\ ~eof => bw.dec.mode = "header" /\ bw.dec.aligned

\* The bytes handed to the encoder are the block and exactly the history it
\* may refer to, all of it before the block and inside the input or the
\* dictionary, and positions fit an int16 (stateless.go lines 106-131).
EncoderViewFits ==
  /\ view.hi - view.lo <= MaxBlock
  /\ view.lo >= 0
  /\ ret = "running" /\ inDict /\ in > 0 => view.hi - view.from >= MaxDict

\* A call with eof ends the stream: a reader finds a final block, as the
\* stateless round trips of the tests expect (flate_test.go lines 156-163).
EofEndsStream == ret = "nil" /\ eof => bw.dec.mode = "end"
==============================================================================
