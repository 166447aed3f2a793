----------------------------- MODULE Compressor -----------------------------
(***************************************************************************)
(* The Writer of flate/deflate.go at the levels that gather a window and   *)
(* then encode it as a whole: store (NoCompression), storeHuff             *)
(* (HuffmanOnly) and storeFast (levels 1 to 6 and custom windows), on top  *)
(* of HuffmanBitWriter.  Bytes are numbered in the order they are written; *)
(* the window holds the last windowEnd of them.                            *)
(*                                                                         *)
(* What Encode finds is a choice of the environment: no token, or tokens   *)
(* with any set of symbols, few or many.  That they stand for the bytes of *)
(* the window is the subject of the encoders; that they are emitted once,  *)
(* in order, under the right tables, is the subject here.                  *)
(***************************************************************************)
EXTENDS HuffmanBitWriter

CONSTANTS
  Levels,       \* the kinds of level: of "store", "huff" and "fast"
  BlockSize,    \* len(d.window)
  MinEncode,    \* minNonLiteralBlockSize: less input leaves the tokens unfilled
  MinMatch,     \* 4: the bytes a match has at least
  StoredSize,   \* 32: a sync of at most so many bytes is stored
  HuffSize,     \* 128: a sync of fewer bytes is Huffman coded without matches
  Writes,       \* the sizes of the slices Write is called with
  DictSizes,    \* the sizes of the dictionaries ResetDict is called with
  Rooms,        \* how much a destination takes before it fails
  MaxBytes,     \* bound: bytes written to one stream
  MaxResets     \* bound: streams after the first

ASSUME CompressorAssumption ==
  /\ Levels \subseteq {"store", "huff", "fast"}
  /\ BlockSize \in Nat \ {0}
  /\ {MinEncode, StoredSize, HuffSize} \subseteq Nat
  /\ MinEncode <= HuffSize
  /\ Writes \subseteq Nat \ {0}
  /\ Rooms \subseteq Nat \cup {NeverFails}

VARIABLES
  w,         \* the huffmanBitWriter
  windowEnd, \* how many bytes wait in the window
  tokens,    \* the queued tokens
  sync,      \* a flush is requested
  err,       \* d.err
  total,     \* history: the bytes accepted since the last reset
  call,      \* the call in progress or the last one: see Call
  dict,      \* the length of the Writer's dictionary
  resets,    \* how often the Writer was reset
  level      \* d.level, which decides the step

vars == <<w, windowEnd, tokens, sync, err, total, call, dict, resets, level>>

NoTokens == Tokens(0, 0, {}, {})

\* passes counts those of write's loop, as long as it runs.
Call(kind, left, ret) == [kind |-> kind, left |-> left, ret |-> ret, passes |-> 0]

idle == call.ret # "running"
closed == call.kind = "Close" /\ call.ret = "nil"
window == total - windowEnd  \* the number of the first byte in the window

-----------------------------------------------------------------------------
(* The steps: each turns the window into a block.  A step is a set of      *)
(* outcomes [w, windowEnd, tokens, err].                                   *)

unchanged == [w |-> w, windowEnd |-> windowEnd, tokens |-> tokens, err |-> err]

\* Mutated form of blockWritten: the window is not emptied.
blockWrittenTwice(ww) ==
  [w |-> ww, windowEnd |-> windowEnd, tokens |-> NoTokens, err |-> ww.err]

\* The window becomes the block that leaves the writer in state ww.
blockWritten(ww) == [w |-> ww, windowEnd |-> 0, tokens |-> NoTokens, err |-> ww.err]

\* Mutated form of store: the default size of a window is waited for.
storeDefaultSize ==
  IF windowEnd > 0 /\ (windowEnd = BlockSize + 1 \/ sync)
  THEN {blockWritten(storedBlock(w, window, windowEnd, FALSE, c)) : c \in Positions}
  ELSE {unchanged}

store ==
  IF windowEnd > 0 /\ (windowEnd = BlockSize \/ sync)
  THEN {blockWritten(storedBlock(w, window, windowEnd, FALSE, c)) : c \in Positions}
  ELSE {unchanged}

\* writeBlockHuff of the window.
huffBlock(syncing) ==
  {blockWritten(writeBlockHuff(w, Tokens(window, windowEnd, lits, {}), FALSE, syncing, c)) :
     lits \in SUBSET Literals \ {{}}, c \in Outcomes}

storeHuff ==
  IF (windowEnd < BlockSize /\ ~sync) \/ windowEnd = 0 THEN {unchanged}
  ELSE huffBlock(sync)

\* Encode appends the tokens of n bytes from the given one to dst, or none if
\* it finds no match; too short an input sets their number and fills none, so
\* that what is emitted for them is no part of the input.
Encode(dst, from, n) ==
  IF n < MinEncode THEN {[dst EXCEPT !.from = from, !.n = n, !.filled = FALSE]}
  ELSE {dst} \cup
       {[Tokens(IF dst.n = 0 THEN from ELSE dst.from, dst.n + n,
                dst.lits \cup lits, dst.offs \cup offs) EXCEPT !.filled = dst.filled] :
          lits \in SUBSET Literals \ {{}}, offs \in SUBSET Offsets}

\* storeFast: a small sync is not searched for matches, and the encoder's
\* history is dropped; else no token means store, few matches Huffman.  A
\* window too short to be searched has as many tokens as bytes, which is not
\* more than n - (n >> 4): it is taken for a block with matches.
storeFast ==
  CASE windowEnd < BlockSize /\ (~sync \/ windowEnd = 0) -> {unchanged}
    [] windowEnd < BlockSize /\ sync /\ windowEnd \in 1..StoredSize ->
         {blockWritten(storedBlock(w, window, windowEnd, FALSE, c)) : c \in Positions}
    [] windowEnd < BlockSize /\ sync /\ windowEnd \in (StoredSize + 1)..(HuffSize - 1) ->
         huffBlock(TRUE)
    [] OTHER ->
         UNION {IF t.n = 0
                THEN {blockWritten(storedBlock(w, window, windowEnd, FALSE, c)) : c \in Positions}
                ELSE {blockWritten(writeBlockDynamic(w, t, FALSE, sync, c)) : c \in Outcomes}
                     \cup (IF t.filled THEN huffBlock(sync) ELSE {}) :
                  t \in Encode(tokens, window, windowEnd)}

step ==
  CASE level = "store" -> store
    [] level = "huff" -> storeHuff
    [] level = "fast" -> storeFast

-----------------------------------------------------------------------------
(* The calls.  Write loops, one iteration a step; the others run through.  *)

Write(n) ==
  /\ idle
  /\ ~closed
  /\ total + n <= MaxBytes
  /\ call' = IF err # "nil" THEN Call("Write", 0, err)
                            ELSE Call("Write", n, "running")
  /\ UNCHANGED <<w, windowEnd, tokens, sync, err, total, dict, resets, level>>

\* One iteration of write: process a full window, fill it, check the error.
writeLoop ==
  /\ call.kind = "Write"
  /\ call.ret = "running"
  /\ \E s \in IF windowEnd = BlockSize \/ sync THEN step ELSE {unchanged} :
       LET n == Min({call.left, BlockSize - s.windowEnd})
       IN /\ w' = s.w
          /\ windowEnd' = s.windowEnd + n
          /\ tokens' = s.tokens
          /\ err' = s.err
          /\ total' = total + n
          /\ call' = IF s.err # "nil" THEN Call("Write", call.left - n, s.err)
                     ELSE IF call.left = n THEN Call("Write", 0, "nil")
                     ELSE [call EXCEPT !.left = @ - n, !.passes = @ + 1]
  /\ UNCHANGED <<sync, dict, resets, level>>

\* Flush: syncFlush.
Flush ==
  /\ idle
  /\ ~closed
  /\ sync' = TRUE
  /\ call' = Call("Flush", 0, IF err # "nil" THEN err ELSE "running")
  /\ UNCHANGED <<w, windowEnd, tokens, err, total, dict, resets, level>>

FlushStep ==
  /\ call.kind = "Flush"
  /\ call.ret = "running"
  /\ \E s \in step, c \in Positions :
       LET ww == IF s.err = "nil"
                 THEN flush(writeStoredHeader(s.w, 0, FALSE, c), c) ELSE s.w
       IN /\ w' = ww
          /\ windowEnd' = s.windowEnd
          /\ tokens' = s.tokens
          /\ err' = IF s.err = "nil" THEN ww.err ELSE s.err
          /\ call' = [call EXCEPT !.ret = err']
  /\ sync' = FALSE
  /\ UNCHANGED <<total, dict, resets, level>>

\* Close: close.  The bit writer is reset, its destination dropped; w.dec is
\* kept as it was, for what was written.
Close ==
  /\ idle
  /\ ~closed
  /\ sync' = (sync \/ err = "nil")
  /\ call' = Call("Close", 0, IF err # "nil" THEN err ELSE "running")
  /\ UNCHANGED <<w, windowEnd, tokens, err, total, dict, resets, level>>

\* Mutated form of CloseStep: the error is looked at after the reset.
CloseStepSwallows ==
  /\ call.kind = "Close"
  /\ call.ret = "running"
  /\ \E s \in step, c \in Positions :
       LET h == flush(writeStoredHeader(s.w, 0, TRUE, c), c)
           ww == IF s.err # "nil" THEN s.w ELSE [reset(h, 0) EXCEPT !.dec = h.dec]
       IN /\ w' = ww
          /\ windowEnd' = s.windowEnd
          /\ tokens' = s.tokens
          /\ err' = s.err
          /\ call' = [call EXCEPT !.ret = IF s.err # "nil" THEN s.err ELSE ww.err]
  /\ UNCHANGED <<sync, total, dict, resets, level>>

CloseStep ==
  /\ call.kind = "Close"
  /\ call.ret = "running"
  /\ \E s \in step, c \in Positions :
       LET h == writeStoredHeader(s.w, 0, TRUE, c)
           ww == IF s.err # "nil" THEN s.w
                 ELSE IF h.err # "nil" THEN h
                 ELSE [reset(flush(h, c), 0) EXCEPT !.dec = flush(h, c).dec]
       IN /\ w' = ww
          /\ windowEnd' = s.windowEnd
          /\ tokens' = s.tokens
          /\ err' = s.err
          /\ call' = [call EXCEPT !.ret = IF s.err # "nil" THEN s.err ELSE ww.err]
  /\ UNCHANGED <<sync, total, dict, resets, level>>

\* compressor.reset: another stream on another destination.
resetTo(room) ==
  /\ idle
  /\ resets < MaxResets
  /\ w' = reset(w, room)
  /\ windowEnd' = 0
  /\ tokens' = IF level = "fast" THEN NoTokens ELSE tokens
  /\ sync' = FALSE
  /\ err' = "nil"
  /\ total' = 0
  /\ resets' = resets + 1
  /\ UNCHANGED level

\* fillWindow: the encoder runs over a dictionary of n bytes and its tokens
\* are discarded: none without a match, else at most one a byte, and one for
\* the match.  The token buffer has room for BlockSize tokens and an end of
\* block; indexing beyond it is a panic.
fillWindow(n) ==
  IF level # "fast" \/ n < MinEncode THEN {"nil"}
  ELSE {IF emitted > BlockSize + 1 THEN "panic" ELSE "nil" :
          emitted \in {0} \cup 1..(n - MinMatch + 1)}

\* Reset keeps the dictionary.
Reset(room) ==
  /\ resetTo(room)
  /\ \E ret \in fillWindow(dict) : call' = Call("Reset", 0, ret)
  /\ UNCHANGED dict

ResetDict(room, n) ==
  /\ resetTo(room)
  /\ dict' = n
  /\ \E ret \in fillWindow(n) : call' = Call("Reset", 0, ret)

Init ==
  /\ \E room \in Rooms : w = newHuffmanBitWriter(room)
  /\ windowEnd = 0
  /\ tokens = NoTokens
  /\ sync = FALSE
  /\ err = "nil"
  /\ total = 0
  /\ call = Call("Reset", 0, "nil")
  /\ dict = 0
  /\ resets = 0
  /\ level \in Levels

\* The caller has closed its last stream.
Done == closed /\ resets = MaxResets /\ UNCHANGED vars

Next ==
  \/ \E n \in Writes : Write(n)
  \/ writeLoop
  \/ Flush
  \/ FlushStep
  \/ Close
  \/ CloseStep
  \/ \E room \in Rooms : Reset(room)
  \/ \E room \in Rooms, n \in DictSizes : ResetDict(room, n)
  \/ Done

Spec == Init /\ [][Next]_vars

-----------------------------------------------------------------------------
(* Properties.                                                             *)

\* A full window is long enough to be searched.  The code does not see to it:
\* a BlockSize below 13 at levels 1-6 is accepted (deflate.go lines 807-818),
\* and what holds of those is said by CloseDelivers in a run of their own.
Searchable == level = "fast" => MinEncode <= BlockSize

\* A decoder can follow the output wherever the blocks are cut, whichever
\* encodings are chosen, tables reused and headers replayed: every code is of
\* the table the decoder has, every header stands between blocks, and the
\* bytes come in order, none twice (huffman_bit_writer.go lines 131-148).
DecoderFollows == w.dec.mode \notin {"corrupt", "padding"}

\* lastHeader says exactly that the decoder is inside a Huffman block, whose
\* table is the one in literalEncoding: the end of block owed is owed.
OwedEndOfBlock ==
  w.err = "nil" /\ idle =>
    /\ w.lastHeader <=> w.dec.mode = "block"
    /\ w.lastHeader => /\ w.dec.lit = w.lit
                       /\ ~w.lastHuffMan => w.dec.off = w.off

\* A header that may be replayed describes the tables in the encoders, across
\* Reset, failures of the destination and literal-only blocks (warmtable.go).
HeaderCacheExact == w.hdr.valid => w.hdr.lit = w.lit /\ w.hdr.off = w.off

\* Every byte accepted is with the decoder or waits in the window, which never
\* takes more than it has room for, nor the tokens more than a block has bytes.
NothingLost ==
  /\ windowEnd \in 0..BlockSize /\ tokens.n \in 0..BlockSize
  /\ err = "nil" /\ w.err = "nil" => w.dec.got + windowEnd = total

\* A Flush that succeeds leaves nothing behind: the decoder has all bytes,
\* stands at a byte boundary before a header, and no bit is buffered.
FlushDelivers ==
  call.kind = "Flush" /\ call.ret = "nil" =>
    /\ w.dec.got = total
    /\ w.dec.mode = "header" /\ w.dec.aligned
    /\ ~w.buffered

\* A Close that succeeds ends the stream with a final block after all bytes;
\* no failure of the destination, at whatever point, is swallowed.
CloseDelivers ==
  call.kind = "Close" /\ call.ret = "nil" => w.dec.mode = "end" /\ w.dec.got = total

\* A success of Flush or Close is never reported for bytes that the decoder cannot have,
\* wherever the destination failed before.
SuccessDelivers == FlushDelivers /\ CloseDelivers

\* Every pass of write's loop takes input or ends the call: the step gets rid
\* of a full window, whatever its size and the level, so that Write returns.
LoopTakesInput ==
  [][call'.passes > call.passes => call'.left < call.left]_vars
=============================================================================
