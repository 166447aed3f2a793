-------------------------- MODULE HuffmanBitWriter --------------------------
(***************************************************************************)
(* The block writer of flate/huffman_bit_writer.go with the header cache   *)
(* of flate/warmtable.go, as operators on its state w, and the reader of   *)
(* the bits it writes.                                                     *)
(*                                                                         *)
(* A Huffman table is the set of symbols that have a code, and a shape:    *)
(* two tables are the same code only if both agree.  Sizes are not         *)
(* computed: which of the encodings is smallest is a choice of the         *)
(* environment (Outcomes), so that every outcome of the size comparisons is *)
(* reached from every state.  Bytes are numbered in the order they are     *)
(* written to the stream; a run of them is [from, n].                      *)
(*                                                                         *)
(* w.dec is the state of a decoder that has read everything w has written: *)
(* it knows the tables only from the headers, and is "corrupt" once it     *)
(* reads a code of a table that is not in force, a header inside a block,  *)
(* or bytes that do not follow the ones it has.                            *)
(***************************************************************************)
EXTENDS Integers, FiniteSets, FiniteSetsExt

CONSTANTS
  Literals, \* the literal symbols
  Offsets,  \* the offset codes, from 0 on
  Shapes    \* the code lengths Huffman construction may come up with

ASSUME SymbolAssumption ==
  /\ "EOB" \notin Literals
  /\ "len" \notin Literals
  /\ Offsets \subseteq Nat
  /\ 0 \in Offsets

LitSyms == Literals \cup {"EOB", "len"}
Table(syms, shape) == [syms |-> syms, shape |-> shape]
NoTable == Table({}, "zero")
fixedLiteralEncoding == Table(LitSyms, "fixed")
fixedOffsetEncoding == Table(Offsets, "fixed")
huffOffset == Table({0}, "huffOffset")

\* tokens: what they decode to, their symbols, whether AddEOB was called, and
\* whether the buffer holds n tokens of this block or was left as it was.
Tokens(from, n, lits, offs) ==
  [from |-> from, n |-> n, lits |-> lits, offs |-> offs, eob |-> FALSE, filled |-> TRUE]
AddEOB(t) == [t EXCEPT !.eob = TRUE]
litSyms(t) == t.lits \cup (IF t.offs = {} THEN {} ELSE {"len"})
                     \cup (IF t.eob THEN {"EOB"} ELSE {})

\* What the size comparisons, Huffman construction and the positions of the
\* bit buffer come to.
Outcomes ==
  [plan : {"reuse", "warm", "dynamic", "fixed", "stored", "lateFixed", "lateStored"},
   shape : Shapes, drained : BOOLEAN, spill : BOOLEAN]

\* Where only the position of the bit buffer matters.
Positions == {[plan |-> "stored", shape |-> "fixed", drained |-> b, spill |-> FALSE] :
                b \in BOOLEAN}

-----------------------------------------------------------------------------
(* The decoder at the other end.                                           *)

NewDecoder ==
  [mode |-> "header", lit |-> NoTable, off |-> NoTable, final |-> FALSE,
   n |-> 0, aligned |-> TRUE, got |-> 0]

corrupt(d) == [d EXCEPT !.mode = "corrupt"]

blockDone(d) ==
  [d EXCEPT !.mode = IF d.final THEN "end" ELSE "header",
            !.lit = NoTable, !.off = NoTable, !.n = 0]

readHeader(d, lit, off, final) ==
  IF d.mode # "header" THEN corrupt(d)
  ELSE [d EXCEPT !.mode = "block", !.lit = lit, !.off = off, !.final = final,
                 !.aligned = FALSE]

readBytes(d, from, n) ==
  IF from # d.got THEN corrupt(d) ELSE [d EXCEPT !.got = @ + n]

readTokens(d, t, lit, off) ==
  IF \/ d.mode # "block"
     \/ d.lit # lit
     \/ t.offs # {} /\ d.off # off
     \/ ~(litSyms(t) \subseteq lit.syms)
     \/ ~(t.offs \subseteq off.syms)
     \/ ~t.filled
  THEN corrupt(d)
  ELSE [readBytes(d, t.from, t.n) EXCEPT !.aligned = FALSE]

readEOB(d, lit) ==
  IF d.mode # "block" \/ d.lit # lit \/ "EOB" \notin lit.syms THEN corrupt(d)
  ELSE [blockDone(d) EXCEPT !.aligned = FALSE]

\* The three bits of a stored header, its lengths, and its bytes.
readStoredBits(d, final) ==
  IF d.mode # "header" THEN corrupt(d)
  ELSE [d EXCEPT !.mode = "storedBits", !.final = final, !.aligned = FALSE]
readStoredLen(d, n) ==
  IF d.mode # "storedBits" \/ ~d.aligned THEN corrupt(d)
  ELSE IF n = 0 THEN blockDone(d)
  ELSE [d EXCEPT !.mode = "stored", !.n = n]
readStored(d, from, n) ==
  IF n = 0 THEN d
  ELSE IF d.mode # "stored" \/ d.n # n THEN corrupt(d)
  ELSE blockDone(readBytes(d, from, n))

\* Zero bits up to the next byte boundary.  A decoder skips them before the
\* lengths of a stored block and after the end; before a header it takes them
\* for one.
readPadding(d) ==
  IF d.aligned THEN d
  ELSE IF d.mode \in {"storedBits", "end"} THEN [d EXCEPT !.aligned = TRUE]
  ELSE IF d.mode = "header" THEN [d EXCEPT !.mode = "padding"]
  ELSE corrupt(d)

-----------------------------------------------------------------------------
(* The writer.  room is how much the destination takes before it fails,    *)
(* NeverFails for a sound one.                                             *)

NeverFails == -1

newHuffmanBitWriter(room) ==
  [lit |-> NoTable, off |-> NoTable, lastHeader |-> FALSE, lastHuffMan |-> FALSE,
   hdr |-> [valid |-> FALSE, lit |-> NoTable, off |-> NoTable],
   buffered |-> FALSE, err |-> "nil", room |-> room, dec |-> NewDecoder]

\* Mutated form of reset: the owed end of block is not forgotten.
resetKeepsLastHeader(w, room) ==
  [w EXCEPT !.buffered = FALSE, !.err = "nil", !.lastHuffMan = FALSE,
            !.room = room, !.dec = NewDecoder]

\* reset: the tables and the header cache are kept.
reset(w, room) ==
  [w EXCEPT !.buffered = FALSE, !.err = "nil", !.lastHeader = FALSE,
            !.lastHuffMan = FALSE, !.room = room, !.dec = NewDecoder]

\* Bits or bytes are put out, after which the decoder is in state d; they may
\* stay in the buffer or drive it out.  A destination that fails is told of
\* no more: the error is sticky.
emit(w, d, buffered) ==
  IF w.err # "nil" THEN w
  ELSE IF w.room = 0 THEN [w EXCEPT !.err = "sink"]
  ELSE [w EXCEPT !.dec = d, !.buffered = buffered,
                 !.room = IF w.room = NeverFails THEN @ ELSE @ - 1]

writeEOB(w, lit, c) == emit(w, readEOB(w.dec, lit), ~c.drained)

\* The end of block that an open table owes.
payEOB(w, c) ==
  IF w.lastHeader THEN [writeEOB(w, w.lit, c) EXCEPT !.lastHeader = FALSE] ELSE w

flush(w, c) ==
  IF w.err # "nil" THEN w
  ELSE LET p == payEOB(w, c)
       IN IF p.buffered THEN emit(p, readPadding(p.dec), FALSE) ELSE p

canReuse(w, t) == litSyms(t) \subseteq w.lit.syms /\ t.offs \subseteq w.off.syms

writeDynamicHeader(w, lit, off, eof, c) ==
  emit(w, readHeader(w.dec, lit, off, eof), ~c.drained)

writeFixedHeader(w, eof, c) ==
  IF w.err # "nil" THEN w
  ELSE LET p == payEOB(w, c)
       IN emit(p, readHeader(p.dec, fixedLiteralEncoding, fixedOffsetEncoding, eof), TRUE)

writeTokens(w, t, lit, off, c) ==
  LET p == emit(w, readTokens(w.dec, t, lit, off), ~c.drained)
  IN IF t.eob THEN writeEOB(p, lit, c) ELSE p

\* Mutated form of writeStoredHeader: the owed end of block is forgotten.
writeStoredHeaderInBlock(w, length, eof, c) ==
  IF w.err # "nil" THEN w
  ELSE LET p == [w EXCEPT !.lastHeader = FALSE]
       IN IF length = 0 /\ eof
          THEN flush(writeEOB(writeFixedHeader(p, eof, c), fixedLiteralEncoding, c), c)
          ELSE LET q == flush(emit(p, readStoredBits(p.dec, eof), TRUE), c)
               IN emit(q, readStoredLen(q.dec, length), TRUE)

\* writeStoredHeader: an empty final block is a fixed one, in 10 bits.
writeStoredHeader(w, length, eof, c) ==
  IF w.err # "nil" THEN w
  ELSE LET p == payEOB(w, c)
       IN IF length = 0 /\ eof
          THEN flush(writeEOB(writeFixedHeader(p, eof, c), fixedLiteralEncoding, c), c)
          ELSE LET q == flush(emit(p, readStoredBits(p.dec, eof), TRUE), c)
               IN emit(q, readStoredLen(q.dec, length), TRUE)

\* writeBytes empties the buffer and writes the bytes past it.
writeBytes(w, from, n) ==
  IF w.err # "nil" THEN w
  ELSE IF ~w.dec.aligned THEN [w EXCEPT !.err = "unfinished"]
  ELSE emit(w, readStored(w.dec, from, n), FALSE)

storedBlock(w, from, n, eof, c) ==
  writeBytes(writeStoredHeader(w, n, eof, c), from, n)

fixedBlock(w, t, eof, c) ==
  writeTokens(writeFixedHeader(w, eof, c), AddEOB(t),
              fixedLiteralEncoding, fixedOffsetEncoding, c)

-----------------------------------------------------------------------------
(* The header cache.                                                       *)

\* What indexTokens counts: the symbols of t and an end of block, and one
\* offset if there is none.
freqLit(t) == litSyms(t) \cup {"EOB"}
freqOff(t) == IF t.offs = {} THEN {0} ELSE t.offs

\* The alphabet that a header declares, up to the highest symbol in use.
numLiterals(lits) == IF "len" \in lits THEN 2 ELSE 1
numOffsets(offs) == 1 + Max(offs)

warmUsable(w, t) ==
  /\ w.hdr.valid
  /\ numLiterals(freqLit(t)) <= numLiterals(w.hdr.lit.syms)
  /\ numOffsets(freqOff(t)) <= numOffsets(w.hdr.off.syms)
  /\ freqLit(t) \subseteq w.lit.syms
  /\ freqOff(t) \subseteq w.off.syms

\* Mutated form of atStreamStart: what waits in the buffer is not minded.
betweenBlocks(w) == ~w.lastHeader

atStreamStart(w) == ~w.buffered /\ ~w.lastHeader

captureHeader(w, c) ==
  IF w.err # "nil" \/ c.spill THEN w
  ELSE [w EXCEPT !.hdr = [valid |-> TRUE, lit |-> w.lit, off |-> w.off]]

\* replayHeader overwrites the buffer with the cached bytes: what was still
\* in it is lost.
replayHeader(w, eof) ==
  emit(w, IF w.buffered THEN corrupt(w.dec)
          ELSE readHeader(w.dec, w.hdr.lit, w.hdr.off, eof), TRUE)

\* Mutated form of generate: the cached header is kept.
generateKeepsHeader(w, t, c) ==
  [w EXCEPT !.lit = Table(freqLit(t), c.shape), !.off = Table(freqOff(t), c.shape)]

generate(w, t, c) ==
  [w EXCEPT !.hdr.valid = FALSE,
            !.lit = Table(freqLit(t), c.shape), !.off = Table(freqOff(t), c.shape)]

-----------------------------------------------------------------------------
(* Blocks.                                                                 *)

\* writeBlockDynamic, where a new table is wanted: p has none open.
newTable(p, t, eof, sync, c) ==
  IF c.plan = "warm" /\ atStreamStart(p) /\ warmUsable(p, t)
  THEN LET r == [replayHeader(p, eof) EXCEPT !.lastHeader = ~sync, !.lastHuffMan = FALSE]
       IN writeTokens(r, t, r.lit, r.off, c)
  ELSE LET g == generate(p, t, c)
       IN CASE c.plan \in {"fixed", "lateFixed"} -> fixedBlock(g, t, eof, c)
            [] c.plan \in {"stored", "lateStored"} -> storedBlock(g, t.from, t.n, eof, c)
            [] OTHER ->
                 LET h == writeDynamicHeader(g, g.lit, g.off, eof, c)
                     r == [IF atStreamStart(g) THEN captureHeader(h, c) ELSE h
                             EXCEPT !.lastHeader = ~sync, !.lastHuffMan = FALSE]
                 IN writeTokens(r, t, r.lit, r.off, c)

writeBlockDynamic(w, tokens, eof, syncing, c) ==
  IF w.err # "nil" THEN w
  ELSE
  LET sync == syncing \/ eof
      t == IF sync THEN AddEOB(tokens) ELSE tokens
      \* A literal-only table, or a block that has to be marked as the last,
      \* cannot be reused; nor can a table that lacks a symbol.
      p == IF w.lastHeader /\ (w.lastHuffMan \/ eof)
           THEN [payEOB(w, c) EXCEPT !.lastHuffMan = FALSE] ELSE w
      q == IF p.lastHeader /\ ~canReuse(p, t) THEN payEOB(p, c) ELSE p
  IN CASE q.lastHeader /\ c.plan = "fixed" -> fixedBlock(q, t, eof, c)
       [] q.lastHeader /\ c.plan = "stored" -> storedBlock(q, t.from, t.n, eof, c)
       [] q.lastHeader /\ c.plan = "reuse" ->
            writeTokens([q EXCEPT !.lastHeader = ~sync], t, q.lit, q.off, c)
       [] OTHER -> newTable(payEOB(q, c), t, eof, sync, c)

\* writeBlockHuff: literals only, with a table of its own (the encoder it was
\* built in is swapped with the one in use) or with the one that is open.
writeBlockHuff(w, t, eof, sync, c) ==
  IF w.err # "nil" THEN w
  ELSE IF c.plan \in {"stored", "lateStored"} THEN storedBlock(w, t.from, t.n, eof, c)
  ELSE
  LET reuse == w.lastHeader /\ t.lits \subseteq w.lit.syms /\ c.plan = "reuse"
      p == IF reuse THEN w ELSE payEOB(w, c)
      new == Table(t.lits \cup {"EOB"}, c.shape)
      q == IF reuse THEN w
           ELSE [writeDynamicHeader([p EXCEPT !.hdr.valid = FALSE, !.lit = new],
                                    new, huffOffset, eof, c)
                   EXCEPT !.lastHuffMan = TRUE, !.lastHeader = TRUE]
      r == emit(q, readTokens(q.dec, t, q.lit, huffOffset), ~c.drained)
  IN IF eof \/ sync
     THEN [payEOB(r, c) EXCEPT !.lastHuffMan = FALSE]
     ELSE r
=============================================================================
