------------------------ MODULE HuffmanBitWriterProofs ------------------------
(***************************************************************************)
(* What the operators of HuffmanBitWriter keep, for every alphabet: a      *)
(* writer whose reader follows it, and whose open block is the one         *)
(* lastHeader speaks of, is one again after every block.  These lemmas     *)
(* carry the proofs of the components that write with it, Compressor and   *)
(* Stateless.  The second half is about BitBuffer, the bits of the same    *)
(* writer.                                                                 *)
(*                                                                         *)
(* Nothing is said of the reader once the destination has failed, except   *)
(* that it was not misled before.                                          *)
(***************************************************************************)
EXTENDS HuffmanBitWriter, BitBuffer, TLAPS

Errors == {"nil", "sink", "unfinished"}

\* A reader that has followed so far.
Following(d) ==
  /\ d = [mode |-> d.mode, lit |-> d.lit, off |-> d.off, final |-> d.final,
          n |-> d.n, aligned |-> d.aligned, got |-> d.got]
  /\ d.mode \notin {"corrupt", "padding"}

\* A writer with such a reader, whose cached header describes its tables.
Sound(w) ==
  /\ w = [lit |-> w.lit, off |-> w.off, lastHeader |-> w.lastHeader,
          lastHuffMan |-> w.lastHuffMan, hdr |-> w.hdr, buffered |-> w.buffered,
          err |-> w.err, room |-> w.room, dec |-> w.dec]
  /\ w.hdr = [valid |-> w.hdr.valid, lit |-> w.hdr.lit, off |-> w.hdr.off]
  /\ w.lastHeader \in BOOLEAN
  /\ w.err \in Errors
  /\ Following(w.dec)
  /\ w.hdr.valid => w.hdr.lit = w.lit /\ w.hdr.off = w.off

SameTables(v, w) ==
  /\ v.lit = w.lit /\ v.off = w.off /\ v.hdr = w.hdr
  /\ v.lastHeader = w.lastHeader /\ v.lastHuffMan = w.lastHuffMan

\* Where the reader stands after a block.
After(final) == IF final THEN "end" ELSE "header"

\* The reader has n bytes and no block is open.
Closed(w, n, final) ==
  /\ Sound(w)
  /\ w.err = "nil" => /\ ~w.lastHeader
                      /\ w.dec.got = n /\ w.dec.mode = After(final)

\* The reader is in the block whose table is w.lit, and of a table that is
\* not for literals only, w.off.
Open(w, n) ==
  /\ w.dec.mode = "block" /\ w.dec.got = n /\ ~w.dec.final
  /\ w.dec.lit = w.lit /\ "EOB" \in w.lit.syms
  /\ ~w.lastHuffMan => w.dec.off = w.off

\* A writer between two blocks, or with an open table: where a block begins.
Steady(w, n) ==
  /\ Sound(w)
  /\ w.err = "nil" => IF w.lastHeader THEN Open(w, n)
                      ELSE w.dec.mode = "header" /\ w.dec.got = n

\* A writer after a block.  A final block that reuses an open table cannot
\* say that it is final.
Written(w, n, eof) ==
  IF eof THEN /\ Sound(w)
              /\ w.err = "nil" => ~w.lastHeader /\ w.dec.got = n /\ w.dec.mode \in {"header", "end"}
         ELSE Steady(w, n)

-----------------------------------------------------------------------------
(* Bits.                                                                   *)

\* A sound writer of which the fields have changed that emit changes.
LEMMA Rewritten ==
  ASSUME NEW w, Sound(w), NEW buffered, NEW err \in Errors, NEW room, NEW d, Following(d), NEW v,
         v = [lit |-> w.lit, off |-> w.off, lastHeader |-> w.lastHeader,
              lastHuffMan |-> w.lastHuffMan, hdr |-> w.hdr, buffered |-> buffered,
              err |-> err, room |-> room, dec |-> d]
  PROVE  /\ Sound(v) /\ SameTables(v, w)
         /\ v.err = err /\ v.dec = d /\ v.buffered = buffered
<1>1. /\ v.lit = w.lit /\ v.off = w.off /\ v.lastHeader = w.lastHeader
      /\ v.lastHuffMan = w.lastHuffMan /\ v.hdr = w.hdr /\ v.buffered = buffered
      /\ v.err = err /\ v.room = room /\ v.dec = d
  OBVIOUS
<1>2. v = [lit |-> v.lit, off |-> v.off, lastHeader |-> v.lastHeader,
           lastHuffMan |-> v.lastHuffMan, hdr |-> v.hdr, buffered |-> v.buffered,
           err |-> v.err, room |-> v.room, dec |-> v.dec]
  BY <1>1
<1>3. QED
  BY <1>1, <1>2 DEF Sound, SameTables

\* What is emitted reaches the reader, or the error says that it did not.
LEMMA Emit ==
  ASSUME NEW w, Sound(w), NEW d, w.err = "nil" => Following(d), NEW buffered,
         NEW v, v = emit(w, d, buffered)
  PROVE  /\ Sound(v) /\ SameTables(v, w)
         /\ v.err = "nil" => w.err = "nil" /\ v.dec = d /\ v.buffered = buffered
<1>1. CASE w.err # "nil"
  BY <1>1 DEF emit, SameTables
<1>2. CASE w.err = "nil" /\ w.room = 0
  <2>1. v = [w EXCEPT !.err = "sink"]
    BY <1>2 DEF emit
  <2>2. v = [lit |-> w.lit, off |-> w.off, lastHeader |-> w.lastHeader,
             lastHuffMan |-> w.lastHuffMan, hdr |-> w.hdr, buffered |-> w.buffered,
             err |-> "sink", room |-> w.room, dec |-> w.dec]
    BY <2>1 DEF Sound
  <2>3. Following(w.dec) /\ "sink" \in Errors /\ "sink" # "nil"
    BY DEF Sound, Errors
  <2>4. Sound(v) /\ SameTables(v, w) /\ v.err = "sink"
    BY <2>2, <2>3, Rewritten
  <2>5. QED
    BY <2>3, <2>4
<1>3. CASE w.err = "nil" /\ w.room # 0
  <2> DEFINE room == IF w.room = NeverFails THEN w.room ELSE w.room - 1
  <2>1. v = [w EXCEPT !.dec = d, !.buffered = buffered, !.room = room]
    BY <1>3 DEF emit
  <2>2. v = [lit |-> w.lit, off |-> w.off, lastHeader |-> w.lastHeader,
             lastHuffMan |-> w.lastHuffMan, hdr |-> w.hdr, buffered |-> buffered,
             err |-> w.err, room |-> room, dec |-> d]
    <3> HIDE DEF room
    <3>1. QED
      BY <2>1 DEF Sound
  <2> HIDE DEF room
  <2>3. Following(d) /\ w.err \in Errors
    BY <1>3 DEF Sound
  <2>4. /\ Sound(v) /\ SameTables(v, w)
        /\ v.err = w.err /\ v.dec = d /\ v.buffered = buffered
    BY <2>2, <2>3, Rewritten
  <2>5. QED
    BY <1>3, <2>4
<1>4. QED
  BY <1>1, <1>2, <1>3

\* The code that ends the block the reader is in.
LEMMA WriteEOB ==
  ASSUME NEW w, Sound(w), NEW lit, NEW c,
         w.err = "nil" => w.dec.mode = "block" /\ w.dec.lit = lit /\ "EOB" \in lit.syms,
         NEW v, v = writeEOB(w, lit, c)
  PROVE  /\ Sound(v) /\ SameTables(v, w)
         /\ v.err = "nil" => /\ w.err = "nil"
                             /\ v.dec.mode = After(w.dec.final) /\ v.dec.got = w.dec.got
<1> DEFINE d == readEOB(w.dec, lit)
           spilt == ~c.drained
<1>1. ASSUME w.err = "nil"
      PROVE  Following(d) /\ d.mode = After(w.dec.final) /\ d.got = w.dec.got
  <2>1. d = [[w.dec EXCEPT !.mode = After(w.dec.final),
                           !.lit = NoTable, !.off = NoTable, !.n = 0] EXCEPT !.aligned = FALSE]
    BY <1>1 DEF readEOB, blockDone, After
  <2> DEFINE m == After(w.dec.final)
  <2>2. d = [mode |-> m, lit |-> NoTable, off |-> NoTable, final |-> w.dec.final,
             n |-> 0, aligned |-> FALSE, got |-> w.dec.got]
    <3> HIDE DEF m
    <3>1. QED
      BY <2>1 DEF m, Sound, Following
  <2>3. QED
    BY <2>2 DEF Following, After
<1> HIDE DEF d, spilt
<1>2. v = emit(w, d, spilt) /\ (w.err = "nil" => Following(d))
  BY <1>1 DEF writeEOB, d, spilt
<1>3. /\ Sound(v) /\ SameTables(v, w)
      /\ v.err = "nil" => w.err = "nil" /\ v.dec = d /\ v.buffered = spilt
  BY <1>2, Emit
<1>4. QED
  BY <1>1, <1>3

\* A writer whose lastHeader, or lastHuffMan, is assigned.
LEMMA AssignedHeader ==
  ASSUME NEW w, Sound(w), NEW open \in BOOLEAN, NEW v, v = [w EXCEPT !.lastHeader = open]
  PROVE  /\ Sound(v)
         /\ v.lit = w.lit /\ v.off = w.off /\ v.hdr = w.hdr /\ v.buffered = w.buffered
         /\ v.err = w.err /\ v.dec = w.dec
         /\ v.lastHeader = open /\ v.lastHuffMan = w.lastHuffMan
<1>1. v = [lit |-> w.lit, off |-> w.off, lastHeader |-> open,
           lastHuffMan |-> w.lastHuffMan, hdr |-> w.hdr, buffered |-> w.buffered,
           err |-> w.err, room |-> w.room, dec |-> w.dec]
  BY DEF Sound
<1>2. /\ v.lit = w.lit /\ v.off = w.off /\ v.hdr = w.hdr /\ v.buffered = w.buffered
      /\ v.err = w.err /\ v.dec = w.dec /\ v.room = w.room
      /\ v.lastHeader = open /\ v.lastHuffMan = w.lastHuffMan
  BY <1>1
<1>3. v = [lit |-> v.lit, off |-> v.off, lastHeader |-> v.lastHeader,
           lastHuffMan |-> v.lastHuffMan, hdr |-> v.hdr, buffered |-> v.buffered,
           err |-> v.err, room |-> v.room, dec |-> v.dec]
  BY <1>1, <1>2
<1>4. QED
  BY <1>2, <1>3 DEF Sound

LEMMA AssignedHuffMan ==
  ASSUME NEW w, Sound(w), NEW huff, NEW v, v = [w EXCEPT !.lastHuffMan = huff]
  PROVE  /\ Sound(v)
         /\ v.lit = w.lit /\ v.off = w.off /\ v.hdr = w.hdr /\ v.buffered = w.buffered
         /\ v.err = w.err /\ v.dec = w.dec
         /\ v.lastHuffMan = huff /\ v.lastHeader = w.lastHeader
<1>1. v = [lit |-> w.lit, off |-> w.off, lastHeader |-> w.lastHeader,
           lastHuffMan |-> huff, hdr |-> w.hdr, buffered |-> w.buffered,
           err |-> w.err, room |-> w.room, dec |-> w.dec]
  BY DEF Sound
<1>2. /\ v.lit = w.lit /\ v.off = w.off /\ v.hdr = w.hdr /\ v.buffered = w.buffered
      /\ v.err = w.err /\ v.dec = w.dec /\ v.room = w.room
      /\ v.lastHuffMan = huff /\ v.lastHeader = w.lastHeader
  BY <1>1
<1>3. v = [lit |-> v.lit, off |-> v.off, lastHeader |-> v.lastHeader,
           lastHuffMan |-> v.lastHuffMan, hdr |-> v.hdr, buffered |-> v.buffered,
           err |-> v.err, room |-> v.room, dec |-> v.dec]
  BY <1>1, <1>2
<1>4. QED
  BY <1>2, <1>3 DEF Sound

\* The end of block that is owed closes the block that is open.
LEMMA PayEOB ==
  ASSUME NEW w, NEW n, Steady(w, n), NEW c
  PROVE  LET v == payEOB(w, c)
         IN /\ Closed(v, n, FALSE)
            /\ v.lit = w.lit /\ v.off = w.off /\ v.hdr = w.hdr
            /\ v.lastHuffMan = w.lastHuffMan /\ ~v.lastHeader
            /\ v.err = "nil" => w.err = "nil"
<1> DEFINE v == payEOB(w, c)
<1>1. CASE ~w.lastHeader
  BY <1>1 DEF payEOB, Steady, Closed, After
<1>2. CASE w.lastHeader
  <2> DEFINE e == writeEOB(w, w.lit, c)
  <2>1. w.err = "nil" => w.dec.mode = "block" /\ w.dec.lit = w.lit /\ "EOB" \in w.lit.syms
    BY <1>2 DEF Steady, Open
  <2>2. Sound(w)
    BY DEF Steady
  <2>3. /\ Sound(e) /\ SameTables(e, w)
        /\ e.err = "nil" => /\ w.err = "nil"
                            /\ e.dec.mode = After(w.dec.final) /\ e.dec.got = w.dec.got
    BY <2>1, <2>2, WriteEOB
  <2> DEFINE no == FALSE
  <2>4. v = [e EXCEPT !.lastHeader = no] /\ no \in BOOLEAN
    BY <1>2 DEF payEOB
  <2> HIDE DEF e, v, no
  <2>5. /\ Sound(v) /\ v.lit = e.lit /\ v.off = e.off /\ v.hdr = e.hdr
        /\ v.err = e.err /\ v.dec = e.dec /\ v.lastHeader = no /\ v.lastHuffMan = e.lastHuffMan
    BY <2>3, <2>4, AssignedHeader
  <2>6. w.err = "nil" => ~w.dec.final /\ w.dec.got = n
    BY <1>2 DEF Steady, Open
  <2>7. QED
    BY <2>3, <2>5, <2>6 DEF Closed, After, SameTables, v, no
<1>3. QED
  BY <1>1, <1>2

\* flush, where padding cannot be taken for a header and no block is open.
LEMMA FlushKeeps ==
  ASSUME NEW w, Sound(w), NEW c,
         w.err = "nil" => /\ ~w.lastHeader
                          /\ \/ w.dec.aligned
                             \/ w.dec.mode = "storedBits"
                             \/ w.dec.mode = "end",
         NEW v, v = flush(w, c)
  PROVE  /\ Sound(v) /\ SameTables(v, w)
         /\ v.err = "nil" => /\ w.err = "nil" /\ ~v.buffered
                             /\ v.dec.mode = w.dec.mode /\ v.dec.got = w.dec.got
                             /\ v.dec.final = w.dec.final
                             /\ w.buffered \/ w.dec.aligned => v.dec.aligned
<1> DEFINE d == readPadding(w.dec)
<1>1. CASE w.err # "nil" \/ ~w.buffered
  BY <1>1 DEF flush, payEOB, SameTables
<1>2. CASE w.err = "nil" /\ w.buffered
  <2> DEFINE no == FALSE
  <2>1. v = emit(w, d, no)
    BY <1>2 DEF flush, payEOB
  <2>2. /\ Following(d) /\ d.aligned
        /\ d.mode = w.dec.mode /\ d.got = w.dec.got /\ d.final = w.dec.final
    <3>1. CASE w.dec.aligned
      BY <3>1 DEF readPadding, Sound
    <3>2. CASE ~w.dec.aligned
      <4>1. d = [w.dec EXCEPT !.aligned = TRUE]
        BY <1>2, <3>2 DEF readPadding
      <4>2. d = [mode |-> w.dec.mode, lit |-> w.dec.lit, off |-> w.dec.off,
                 final |-> w.dec.final, n |-> w.dec.n, aligned |-> TRUE, got |-> w.dec.got]
        BY <4>1 DEF Sound, Following
      <4> HIDE DEF d
      <4>3. QED
        BY <4>2 DEF Sound, Following
    <3>3. QED
      BY <3>1, <3>2
  <2> HIDE DEF d, no
  <2>3. /\ Sound(v) /\ SameTables(v, w)
        /\ v.err = "nil" => w.err = "nil" /\ v.dec = d /\ v.buffered = no
    BY <2>1, <2>2, Emit
  <2>4. QED
    BY <2>2, <2>3 DEF no
<1>3. QED
  BY <1>1, <1>2

\* The reader is in a block with the given tables, and has n bytes.
Inside(w, lit, off, final, n) ==
  w.err = "nil" => /\ w.dec.mode = "block" /\ w.dec.lit = lit /\ w.dec.off = off
                   /\ (w.dec.final <=> final) /\ w.dec.got = n

\* A header between two blocks opens one.
LEMMA Header ==
  ASSUME NEW w, Sound(w), NEW n, w.err = "nil" => w.dec.mode = "header" /\ w.dec.got = n,
         NEW lit, NEW off, NEW final, NEW buffered,
         NEW v, v = emit(w, readHeader(w.dec, lit, off, final), buffered)
  PROVE  /\ Sound(v) /\ SameTables(v, w)
         /\ Inside(v, lit, off, final, n)
         /\ v.err = "nil" => w.err = "nil"
<1> DEFINE d == readHeader(w.dec, lit, off, final)
<1>1. ASSUME w.err = "nil"
      PROVE  /\ Following(d) /\ d.mode = "block" /\ d.lit = lit /\ d.off = off
             /\ d.final = final /\ d.got = n
  <2>1. d = [w.dec EXCEPT !.mode = "block", !.lit = lit, !.off = off, !.final = final,
                          !.aligned = FALSE]
    BY <1>1 DEF readHeader
  <2>2. d = [mode |-> "block", lit |-> lit, off |-> off, final |-> final,
             n |-> w.dec.n, aligned |-> FALSE, got |-> w.dec.got]
    BY <2>1 DEF Sound, Following
  <2> HIDE DEF d
  <2>3. QED
    BY <1>1, <2>2 DEF Following
<1> HIDE DEF d
<1>2. v = emit(w, d, buffered) /\ (w.err = "nil" => Following(d))
  BY <1>1 DEF d
<1>3. /\ Sound(v) /\ SameTables(v, w)
      /\ v.err = "nil" => w.err = "nil" /\ v.dec = d
  BY <1>2, Emit
<1>4. QED
  BY <1>1, <1>3 DEF Inside

LEMMA FixedHeader ==
  ASSUME NEW w, NEW n, Steady(w, n), NEW eof, NEW c, NEW v, v = writeFixedHeader(w, eof, c)
  PROVE  /\ Sound(v)
         /\ Inside(v, fixedLiteralEncoding, fixedOffsetEncoding, eof, n)
         /\ v.err = "nil" => ~v.lastHeader
<1> DEFINE p == payEOB(w, c)
           yes == TRUE
<1>1. CASE w.err # "nil"
  BY <1>1 DEF writeFixedHeader, Steady, Inside
<1>2. CASE w.err = "nil"
  <2>1. Closed(p, n, FALSE)
    BY PayEOB
  <2>2. v = emit(p, readHeader(p.dec, fixedLiteralEncoding, fixedOffsetEncoding, eof), yes)
    BY <1>2 DEF writeFixedHeader
  <2> HIDE DEF p, yes
  <2>3. Sound(p) /\ (p.err = "nil" => ~p.lastHeader /\ p.dec.mode = "header" /\ p.dec.got = n)
    BY <2>1 DEF Closed, After
  <2>4. /\ Sound(v) /\ SameTables(v, p)
        /\ Inside(v, fixedLiteralEncoding, fixedOffsetEncoding, eof, n)
        /\ v.err = "nil" => p.err = "nil"
    BY <2>2, <2>3, Header
  <2>5. QED
    BY <2>3, <2>4 DEF SameTables
<1>3. QED
  BY <1>1, <1>2

\* Tokens whose symbols have codes in the tables the reader has.
LEMMA WriteTokens ==
  ASSUME NEW w, Sound(w), NEW lit, NEW off, NEW t, NEW c,
         litSyms(t) \subseteq lit.syms, t.offs \subseteq off.syms, t.filled,
         w.err = "nil" => /\ w.dec.mode = "block" /\ w.dec.lit = lit /\ w.dec.got = t.from
                          /\ t.offs = {} \/ w.dec.off = off,
         NEW v, v = writeTokens(w, t, lit, off, c)
  PROVE  /\ Sound(v) /\ SameTables(v, w)
         /\ v.err = "nil" =>
              /\ w.err = "nil" /\ v.dec.got = t.from + t.n
              /\ t.eob => v.dec.mode = After(w.dec.final)
              /\ ~t.eob => /\ v.dec.mode = "block" /\ v.dec.lit = lit
                           /\ v.dec.off = w.dec.off /\ v.dec.final = w.dec.final
<1> DEFINE d == readTokens(w.dec, t, lit, off)
           spilt == ~c.drained
           p == emit(w, d, spilt)
<1>1. ASSUME w.err = "nil"
      PROVE  /\ Following(d) /\ d.mode = "block" /\ d.lit = lit /\ d.off = w.dec.off
             /\ d.final = w.dec.final /\ d.got = t.from + t.n
  <2>1. w.dec.mode = "block" /\ w.dec.lit = lit /\ w.dec.got = t.from
    BY <1>1
  <2>3. d = [readBytes(w.dec, t.from, t.n) EXCEPT !.aligned = FALSE]
    BY <1>1, <2>1 DEF readTokens
  <2>4. d = [[w.dec EXCEPT !.got = t.from + t.n] EXCEPT !.aligned = FALSE]
    BY <2>1, <2>3 DEF readBytes
  <2> DEFINE m == t.from + t.n
             e == [w.dec EXCEPT !.got = m]
  <2>5. d = [mode |-> w.dec.mode, lit |-> w.dec.lit, off |-> w.dec.off,
             final |-> w.dec.final, n |-> w.dec.n, aligned |-> FALSE, got |-> m]
    <3> HIDE DEF m
    <3>1. e = [mode |-> w.dec.mode, lit |-> w.dec.lit, off |-> w.dec.off,
               final |-> w.dec.final, n |-> w.dec.n, aligned |-> w.dec.aligned, got |-> m]
      BY DEF Sound, Following
    <3>2. d = [e EXCEPT !.aligned = FALSE]
      BY <2>4 DEF m
    <3> HIDE DEF e
    <3>3. QED
      BY <3>1, <3>2, ZenonT(40)
  <2> HIDE DEF d, m
  <2>6. QED
    BY <2>1, <2>5 DEF Following, m
<1> HIDE DEF d, spilt
<1>2. /\ Sound(p) /\ SameTables(p, w)
      /\ p.err = "nil" => w.err = "nil" /\ p.dec = d /\ p.buffered = spilt
  <2>1. p = emit(w, d, spilt) /\ (w.err = "nil" => Following(d))
    BY <1>1
  <2> HIDE DEF p
  <2>2. QED
    BY <2>1, Emit
<1> HIDE DEF p
<1>3. CASE ~t.eob
  <2>1. v = p
    BY <1>3 DEF writeTokens, p, d, spilt
  <2>2. QED
    BY <1>1, <1>2, <1>3, <2>1
<1>4. CASE t.eob
  <2>1. v = writeEOB(p, lit, c)
    BY <1>4 DEF writeTokens, p, d, spilt
  <2>2. "EOB" \in lit.syms
    BY <1>4 DEF litSyms
  <2>3. /\ Sound(v) /\ SameTables(v, p)
        /\ v.err = "nil" => /\ p.err = "nil"
                            /\ v.dec.mode = After(p.dec.final) /\ v.dec.got = p.dec.got
    BY <1>1, <1>2, <2>1, <2>2, WriteEOB
  <2>4. QED
    BY <1>1, <1>2, <1>4, <2>3 DEF SameTables
<1>5. QED
  BY <1>3, <1>4

-----------------------------------------------------------------------------
(* Blocks.                                                                 *)

\* A block that is closed leaves the writer where a block may begin.
LEMMA ClosedSteady == ASSUME NEW w, NEW n, Closed(w, n, FALSE) PROVE Steady(w, n)
BY DEF Closed, Steady, After

\* The empty final block.
LEMMA EmptyFinalBlock ==
  ASSUME NEW w, NEW n, Steady(w, n), NEW c, NEW v, v = writeStoredHeader(w, 0, TRUE, c)
  PROVE  Closed(v, n, TRUE) /\ (v.err = "nil" => ~v.buffered)
<1> DEFINE p == payEOB(w, c)
           yes == TRUE
           h == writeFixedHeader(p, yes, c)
           e == writeEOB(h, fixedLiteralEncoding, c)
           f == flush(e, c)
<1>1. CASE w.err # "nil"
  BY <1>1 DEF writeStoredHeader, Steady, Closed
<1>2. CASE w.err = "nil"
  <2>1. v = f
    BY <1>2 DEF writeStoredHeader
  <2>2. Closed(p, n, FALSE)
    BY PayEOB
  <2> HIDE DEF p, yes
  <2>3. Steady(p, n)
    BY <2>2, ClosedSteady
  <2>4. /\ Sound(h)
        /\ Inside(h, fixedLiteralEncoding, fixedOffsetEncoding, yes, n)
        /\ h.err = "nil" => ~h.lastHeader
    BY <2>3, FixedHeader
  <2> HIDE DEF h
  <2>5. /\ h.err = "nil" => h.dec.mode = "block" /\ h.dec.lit = fixedLiteralEncoding
        /\ "EOB" \in fixedLiteralEncoding.syms
        /\ h.err = "nil" => h.dec.final /\ h.dec.got = n
    BY <2>4 DEF Inside, fixedLiteralEncoding, Table, LitSyms, yes
  <2>6. /\ Sound(e) /\ SameTables(e, h)
        /\ e.err = "nil" => /\ h.err = "nil"
                            /\ e.dec.mode = After(h.dec.final) /\ e.dec.got = h.dec.got
    BY <2>4, <2>5, WriteEOB
  <2> HIDE DEF e
  <2>7. /\ Sound(e)
        /\ e.err = "nil" => /\ ~e.lastHeader
                            /\ e.dec.aligned \/ e.dec.mode = "storedBits" \/ e.dec.mode = "end"
        /\ e.err = "nil" => e.dec.mode = "end" /\ e.dec.got = n
    BY <2>4, <2>5, <2>6 DEF After, SameTables
  <2> HIDE DEF f
  <2>8. /\ Sound(f) /\ SameTables(f, e)
        /\ f.err = "nil" => /\ e.err = "nil" /\ ~f.buffered
                            /\ f.dec.mode = e.dec.mode /\ f.dec.got = e.dec.got
                            /\ f.dec.final = e.dec.final
                            /\ e.buffered \/ e.dec.aligned => f.dec.aligned
    BY <2>7, FlushKeeps DEF f
  <2>9. QED
    BY <2>1, <2>7, <2>8 DEF Closed, SameTables, After
<1>3. QED
  BY <1>1, <1>2

\* Header, padding and lengths of a stored block, without bytes a marker.
LEMMA StoredHeader ==
  ASSUME NEW w, NEW n, Steady(w, n), NEW k, NEW eof, k # 0 \/ ~eof,
         NEW c, NEW v, v = writeStoredHeader(w, k, eof, c)
  PROVE  /\ Sound(v)
         /\ v.err = "nil" =>
              /\ ~v.lastHeader /\ v.buffered
              /\ v.dec.aligned /\ v.dec.got = n
              /\ IF k = 0 THEN v.dec.mode = "header"
                 ELSE v.dec.mode = "stored" /\ v.dec.n = k /\ v.dec.final = eof
<1> DEFINE p == payEOB(w, c)
           yes == TRUE
           bits == readStoredBits(p.dec, eof)
           h == emit(p, bits, yes)
           q == flush(h, c)
           lens == readStoredLen(q.dec, k)
           x == emit(q, lens, yes)
<1>1. CASE w.err # "nil"
  BY <1>1 DEF writeStoredHeader, Steady
<1>2. CASE w.err = "nil"
  <2>1. v = x
    BY <1>2 DEF writeStoredHeader
  <2>2. Closed(p, n, FALSE)
    BY PayEOB
  <2> HIDE DEF p, yes
  <2>3. Sound(p) /\ (p.err = "nil" => ~p.lastHeader /\ p.dec.mode = "header" /\ p.dec.got = n)
    BY <2>2 DEF Closed, After
  <2>4. ASSUME p.err = "nil"
        PROVE  /\ Following(bits) /\ bits.mode = "storedBits" /\ bits.final = eof
               /\ bits.got = n
    <3>1. bits = [p.dec EXCEPT !.mode = "storedBits", !.final = eof, !.aligned = FALSE]
      BY <2>3, <2>4 DEF readStoredBits
    <3>2. bits = [mode |-> "storedBits", lit |-> p.dec.lit, off |-> p.dec.off, final |-> eof,
                  n |-> p.dec.n, aligned |-> FALSE, got |-> p.dec.got]
      BY <2>3, <3>1 DEF Sound, Following
    <3> HIDE DEF bits
    <3>3. QED
      BY <2>3, <2>4, <3>2 DEF Following
  <2> HIDE DEF bits
  <2>5. p.err = "nil" => Following(bits)
    BY <2>4
  <2>6. /\ Sound(h) /\ SameTables(h, p)
        /\ h.err = "nil" => p.err = "nil" /\ h.dec = bits /\ h.buffered = yes
    BY <2>3, <2>5, Emit
  <2> HIDE DEF h
  <2>7. h.err = "nil" => /\ ~h.lastHeader /\ h.buffered /\ h.dec.mode = "storedBits"
                         /\ h.dec.final = eof /\ h.dec.got = n
    BY <2>3, <2>4, <2>6 DEF SameTables, yes
  <2>8. /\ Sound(q) /\ SameTables(q, h)
        /\ q.err = "nil" => /\ h.err = "nil" /\ ~q.buffered
                            /\ q.dec.mode = h.dec.mode /\ q.dec.got = h.dec.got
                            /\ q.dec.final = h.dec.final
                            /\ h.buffered \/ h.dec.aligned => q.dec.aligned
    BY <2>6, <2>7, FlushKeeps
  <2> HIDE DEF q
  <2>9. Sound(q) /\ (q.err = "nil" => /\ ~q.lastHeader /\ q.dec.mode = "storedBits" /\ q.dec.aligned
                                      /\ q.dec.final = eof /\ q.dec.got = n)
    BY <2>7, <2>8 DEF SameTables
  <2>10. ASSUME q.err = "nil"
         PROVE  /\ Following(lens) /\ lens.aligned /\ lens.got = n /\ lens.final = eof
                /\ IF k = 0 THEN lens.mode = "header" ELSE lens.mode = "stored" /\ lens.n = k
    <3>1. CASE k = 0
      <4>1. lens = [q.dec EXCEPT !.mode = "header", !.lit = NoTable, !.off = NoTable, !.n = 0]
        BY <2>9, <2>10, <3>1 DEF readStoredLen, blockDone
      <4>2. lens = [mode |-> "header", lit |-> NoTable, off |-> NoTable, final |-> q.dec.final,
                    n |-> 0, aligned |-> q.dec.aligned, got |-> q.dec.got]
        BY <2>9, <4>1 DEF Sound, Following
      <4> HIDE DEF lens
      <4>3. QED
        BY <2>9, <2>10, <3>1, <4>2 DEF Following
    <3>2. CASE k # 0
      <4>1. lens = [q.dec EXCEPT !.mode = "stored", !.n = k]
        BY <2>9, <2>10, <3>2 DEF readStoredLen
      <4>2. lens = [mode |-> "stored", lit |-> q.dec.lit, off |-> q.dec.off, final |-> q.dec.final,
                    n |-> k, aligned |-> q.dec.aligned, got |-> q.dec.got]
        BY <2>9, <4>1 DEF Sound, Following
      <4> HIDE DEF lens
      <4>3. QED
        BY <2>9, <2>10, <3>2, <4>2 DEF Following
    <3>3. QED
      BY <3>1, <3>2
  <2> HIDE DEF lens
  <2>11. q.err = "nil" => Following(lens)
    BY <2>10
  <2>12. /\ Sound(x) /\ SameTables(x, q)
         /\ x.err = "nil" => q.err = "nil" /\ x.dec = lens /\ x.buffered = yes
    BY <2>9, <2>11, Emit
  <2> HIDE DEF x
  <2>13. QED
    BY <2>1, <2>9, <2>10, <2>12 DEF SameTables, yes
<1>3. QED
  BY <1>1, <1>2

LEMMA StoredBlockKeeps ==
  ASSUME NEW w, NEW n \in Int, Steady(w, n), NEW k \in Int, NEW eof, k # 0 \/ ~eof,
         NEW c, NEW v, v = storedBlock(w, n, k, eof, c)
  PROVE  Closed(v, n + k, eof)
<1> DEFINE h == writeStoredHeader(w, k, eof, c)
           d == readStored(h.dec, n, k)
           no == FALSE
<1>1. /\ Sound(h)
      /\ h.err = "nil" =>
           /\ ~h.lastHeader /\ h.buffered
           /\ h.dec.aligned /\ h.dec.got = n
           /\ IF k = 0 THEN h.dec.mode = "header"
              ELSE h.dec.mode = "stored" /\ h.dec.n = k /\ h.dec.final = eof
  BY StoredHeader
<1>2. v = writeBytes(h, n, k)
  BY DEF storedBlock
<1> HIDE DEF h
<1>3. CASE h.err # "nil"
  BY <1>1, <1>2, <1>3 DEF writeBytes, Closed
<1>4. CASE h.err = "nil"
  <2>1. v = emit(h, d, no)
    BY <1>1, <1>2, <1>4 DEF writeBytes
  <2>2. Following(d) /\ d.mode = After(eof) /\ d.got = n + k
    <3>1. CASE k = 0
      BY <1>1, <1>4, <3>1 DEF readStored, Sound, After
    <3>2. CASE k # 0
      <4> DEFINE m == n + k
                 e == [h.dec EXCEPT !.got = m]
      <4>1. d = blockDone(e)
        BY <1>1, <1>4, <3>2 DEF readStored, readBytes
      <4> HIDE DEF m
      <4>2. e = [mode |-> h.dec.mode, lit |-> h.dec.lit, off |-> h.dec.off, final |-> h.dec.final,
                 n |-> h.dec.n, aligned |-> h.dec.aligned, got |-> m]
        BY <1>1 DEF Sound, Following
      <4> HIDE DEF e, d
      <4> DEFINE after == After(h.dec.final)
      <4>3. d = [e EXCEPT !.mode = after, !.lit = NoTable, !.off = NoTable, !.n = 0]
        BY <4>1, <4>2 DEF blockDone, After
      <4> HIDE DEF after
      <4>4. d = [mode |-> after, lit |-> NoTable, off |-> NoTable, final |-> h.dec.final,
                 n |-> 0, aligned |-> h.dec.aligned, got |-> m]
        BY <4>2, <4>3
      <4>5. QED
        BY <1>1, <1>4, <3>2, <4>4 DEF Following, After, m, after
    <3>3. QED
      BY <3>1, <3>2
  <2> HIDE DEF d, no
  <2>3. /\ Sound(v) /\ SameTables(v, h)
        /\ v.err = "nil" => h.err = "nil" /\ v.dec = d /\ v.buffered = no
    BY <1>1, <2>1, <2>2, Emit
  <2>4. QED
    BY <1>1, <2>2, <2>3 DEF Closed, SameTables
<1>5. QED
  BY <1>3, <1>4

\* The tokens of a block from byte n on.
Encoded(t, n) ==
  /\ t = [from |-> n, n |-> t.n, lits |-> t.lits, offs |-> t.offs, eob |-> t.eob, filled |-> TRUE]
  /\ t.lits \subseteq Literals /\ t.offs \subseteq Offsets

LEMMA EndMarked ==
  ASSUME NEW t, NEW n, Encoded(t, n)
  PROVE  /\ Encoded(AddEOB(t), n) /\ AddEOB(t).eob
         /\ AddEOB(t).n = t.n /\ AddEOB(t).lits = t.lits /\ AddEOB(t).offs = t.offs
<1> DEFINE yes == TRUE
           a == AddEOB(t)
<1>1. /\ t = [from |-> n, n |-> t.n, lits |-> t.lits, offs |-> t.offs, eob |-> t.eob, filled |-> yes]
      /\ a = [t EXCEPT !.eob = yes]
  BY DEF AddEOB, Encoded
<1> HIDE DEF yes, a
<1>2. a = [from |-> n, n |-> t.n, lits |-> t.lits, offs |-> t.offs, eob |-> yes, filled |-> yes]
  BY <1>1
<1>3. Encoded(a, n) /\ a.eob = yes /\ a.n = t.n /\ a.lits = t.lits /\ a.offs = t.offs
  <2>1. a = [from |-> n, n |-> a.n, lits |-> a.lits, offs |-> a.offs, eob |-> a.eob, filled |-> yes]
    BY <1>2
  <2>2. a.eob = yes /\ a.n = t.n /\ a.lits = t.lits /\ a.offs = t.offs
    BY <1>2
  <2>3. QED
    BY <2>1, <2>2 DEF Encoded, yes
<1>4. QED
  BY <1>3 DEF a, yes

LEMMA FixedBlock ==
  ASSUME NEW w, NEW n, Steady(w, n), NEW t, Encoded(t, n), NEW eof, NEW c,
         NEW v, v = fixedBlock(w, t, eof, c)
  PROVE  Closed(v, n + t.n, eof)
<1> DEFINE final == eof
           h == writeFixedHeader(w, final, c)
           a == AddEOB(t)
           lit == fixedLiteralEncoding
           off == fixedOffsetEncoding
           x == writeTokens(h, a, lit, off, c)
<1>1. v = x
  BY DEF fixedBlock
<1> HIDE DEF final
<1>2. /\ Sound(h)
      /\ Inside(h, lit, off, final, n)
      /\ h.err = "nil" => ~h.lastHeader
  BY FixedHeader
<1>3. Encoded(a, n) /\ a.eob /\ a.n = t.n
  BY EndMarked
<1> HIDE DEF h, a
<1>4. /\ litSyms(a) \subseteq lit.syms
      /\ a.offs \subseteq off.syms
      /\ a.filled /\ a.from = n
  BY <1>3 DEF Encoded, litSyms, LitSyms, fixedLiteralEncoding, fixedOffsetEncoding, Table
<1>5. /\ Sound(h)
      /\ h.err = "nil" => /\ h.dec.mode = "block" /\ h.dec.lit = lit /\ h.dec.got = a.from
                          /\ a.offs = {} \/ h.dec.off = off
      /\ h.err = "nil" => (h.dec.final <=> final)
  BY <1>2, <1>4 DEF Inside
<1> HIDE DEF lit, off
<1>6. /\ Sound(x) /\ SameTables(x, h)
      /\ x.err = "nil" => /\ h.err = "nil" /\ x.dec.got = a.from + a.n
                          /\ a.eob => x.dec.mode = After(h.dec.final)
  BY <1>4, <1>5, WriteTokens
<1> HIDE DEF x
<1>7. Closed(x, n + t.n, final)
  BY <1>2, <1>3, <1>4, <1>5, <1>6 DEF Closed, SameTables, After
<1>8. QED
  BY <1>1, <1>7 DEF final

\* Tokens under the tables in use, which the reader has: the block is closed
\* if the end of block is among them, and stays open if not.
LEMMA TableTokens ==
  ASSUME NEW w, Sound(w), NEW n, NEW eof, Inside(w, w.lit, w.off, eof, n),
         NEW t, Encoded(t, n), t.eob = ~w.lastHeader, eof => t.eob, "EOB" \in w.lit.syms,
         litSyms(t) \subseteq w.lit.syms, t.offs \subseteq w.off.syms,
         NEW c, NEW v, v = writeTokens(w, t, w.lit, w.off, c)
  PROVE  Written(v, n + t.n, eof)
<1>1. /\ t.filled /\ t.from = n
      /\ w.err = "nil" => /\ w.dec.mode = "block" /\ w.dec.lit = w.lit /\ w.dec.got = t.from
                          /\ t.offs = {} \/ w.dec.off = w.off
      /\ w.err = "nil" => (w.dec.final <=> eof)
  BY DEF Encoded, Inside
<1> DEFINE x == writeTokens(w, t, w.lit, w.off, c)
<1>2. /\ Sound(x) /\ SameTables(x, w)
      /\ x.err = "nil" =>
           /\ w.err = "nil" /\ x.dec.got = t.from + t.n
           /\ t.eob => x.dec.mode = After(w.dec.final)
           /\ ~t.eob => /\ x.dec.mode = "block" /\ x.dec.lit = w.lit
                        /\ x.dec.off = w.dec.off /\ x.dec.final = w.dec.final
  BY <1>1, WriteTokens
<1>3. v = x
  OBVIOUS
<1> HIDE DEF x
<1>4. CASE t.eob
  BY <1>1, <1>2, <1>3, <1>4 DEF Written, Steady, After, SameTables
<1>5. CASE ~t.eob
  BY <1>1, <1>2, <1>3, <1>5 DEF Written, Steady, Open, Inside, SameTables
<1>6. QED
  BY <1>4, <1>5

\* Tables that are replaced invalidate the cached header.
relit(w, lit) == [w EXCEPT !.hdr.valid = FALSE, !.lit = lit]
replaced(w, lit, off) == [relit(w, lit) EXCEPT !.off = off]

LEMMA Relit ==
  ASSUME NEW w, Sound(w), NEW lit, NEW v, v = relit(w, lit)
  PROVE  /\ Sound(v) /\ v.lit = lit /\ v.off = w.off /\ ~v.hdr.valid
         /\ v.err = w.err /\ v.dec = w.dec /\ v.buffered = w.buffered
         /\ v.lastHeader = w.lastHeader /\ v.lastHuffMan = w.lastHuffMan
<1> DEFINE no == FALSE
           hdr == [w.hdr EXCEPT !.valid = no]
           a == [w EXCEPT !.hdr = hdr]
           x == [a EXCEPT !.lit = lit]
<1>1. v = x
  BY DEF relit
<1> HIDE DEF no
<1>2. hdr = [valid |-> no, lit |-> w.hdr.lit, off |-> w.hdr.off]
  BY DEF Sound
<1> HIDE DEF hdr
<1>3. a = [lit |-> w.lit, off |-> w.off, lastHeader |-> w.lastHeader,
           lastHuffMan |-> w.lastHuffMan, hdr |-> hdr, buffered |-> w.buffered,
           err |-> w.err, room |-> w.room, dec |-> w.dec]
  BY DEF Sound
<1> HIDE DEF a
<1>4. x = [lit |-> lit, off |-> w.off, lastHeader |-> w.lastHeader,
           lastHuffMan |-> w.lastHuffMan, hdr |-> hdr, buffered |-> w.buffered,
           err |-> w.err, room |-> w.room, dec |-> w.dec]
  BY <1>3
<1> HIDE DEF x
<1>5. /\ x.lit = lit /\ x.off = w.off /\ x.lastHeader = w.lastHeader
      /\ x.lastHuffMan = w.lastHuffMan /\ x.hdr = hdr /\ x.buffered = w.buffered
      /\ x.err = w.err /\ x.room = w.room /\ x.dec = w.dec
  BY <1>4
<1>6. x = [lit |-> x.lit, off |-> x.off, lastHeader |-> x.lastHeader,
           lastHuffMan |-> x.lastHuffMan, hdr |-> x.hdr, buffered |-> x.buffered,
           err |-> x.err, room |-> x.room, dec |-> x.dec]
  BY <1>4, <1>5
<1>7. x.hdr = [valid |-> x.hdr.valid, lit |-> x.hdr.lit, off |-> x.hdr.off] /\ ~x.hdr.valid
  BY <1>2, <1>5 DEF no
<1>8. QED
  BY <1>1, <1>5, <1>6, <1>7 DEF Sound

LEMMA Replaced ==
  ASSUME NEW w, Sound(w), NEW lit, NEW off, NEW v, v = replaced(w, lit, off)
  PROVE  /\ Sound(v) /\ v.lit = lit /\ v.off = off
         /\ v.err = w.err /\ v.dec = w.dec /\ v.buffered = w.buffered
         /\ v.lastHeader = w.lastHeader /\ v.lastHuffMan = w.lastHuffMan
<1> DEFINE r == relit(w, lit)
           x == [r EXCEPT !.off = off]
<1>1. /\ Sound(r) /\ r.lit = lit /\ r.off = w.off /\ ~r.hdr.valid
      /\ r.err = w.err /\ r.dec = w.dec /\ r.buffered = w.buffered
      /\ r.lastHeader = w.lastHeader /\ r.lastHuffMan = w.lastHuffMan
  BY Relit
<1>2. v = x
  BY DEF replaced
<1> HIDE DEF r
<1>3. x = [lit |-> r.lit, off |-> off, lastHeader |-> r.lastHeader,
           lastHuffMan |-> r.lastHuffMan, hdr |-> r.hdr, buffered |-> r.buffered,
           err |-> r.err, room |-> r.room, dec |-> r.dec]
  BY <1>1 DEF Sound
<1> HIDE DEF x
<1>4. /\ x.lit = r.lit /\ x.off = off /\ x.lastHeader = r.lastHeader
      /\ x.lastHuffMan = r.lastHuffMan /\ x.hdr = r.hdr /\ x.buffered = r.buffered
      /\ x.err = r.err /\ x.room = r.room /\ x.dec = r.dec
  BY <1>3
<1>5. x = [lit |-> x.lit, off |-> x.off, lastHeader |-> x.lastHeader,
           lastHuffMan |-> x.lastHuffMan, hdr |-> x.hdr, buffered |-> x.buffered,
           err |-> x.err, room |-> x.room, dec |-> x.dec]
  BY <1>3, <1>4
<1>6. QED
  BY <1>1, <1>2, <1>4, <1>5 DEF Sound

\* A header that is cached is the one of the tables in use.
LEMMA Captured ==
  ASSUME NEW w, Sound(w), NEW c, NEW v, v = captureHeader(w, c)
  PROVE  /\ Sound(v) /\ v.lit = w.lit /\ v.off = w.off
         /\ v.err = w.err /\ v.dec = w.dec /\ v.buffered = w.buffered
         /\ v.lastHeader = w.lastHeader /\ v.lastHuffMan = w.lastHuffMan
<1>1. CASE v = w
  BY <1>1
<1>2. CASE v # w
  <2> DEFINE hdr == [valid |-> TRUE, lit |-> w.lit, off |-> w.off]
  <2>1. v = [w EXCEPT !.hdr = hdr]
    BY <1>2 DEF captureHeader
  <2>2. hdr = [valid |-> hdr.valid, lit |-> hdr.lit, off |-> hdr.off]
        /\ hdr.lit = w.lit /\ hdr.off = w.off
    OBVIOUS
  <2> HIDE DEF hdr
  <2>3. v = [lit |-> w.lit, off |-> w.off, lastHeader |-> w.lastHeader,
             lastHuffMan |-> w.lastHuffMan, hdr |-> hdr, buffered |-> w.buffered,
             err |-> w.err, room |-> w.room, dec |-> w.dec]
    BY <2>1 DEF Sound
  <2>4. /\ v.lit = w.lit /\ v.off = w.off /\ v.lastHeader = w.lastHeader
        /\ v.lastHuffMan = w.lastHuffMan /\ v.hdr = hdr /\ v.buffered = w.buffered
        /\ v.err = w.err /\ v.room = w.room /\ v.dec = w.dec
    BY <2>3
  <2>5. v = [lit |-> v.lit, off |-> v.off, lastHeader |-> v.lastHeader,
             lastHuffMan |-> v.lastHuffMan, hdr |-> v.hdr, buffered |-> v.buffered,
             err |-> v.err, room |-> v.room, dec |-> v.dec]
    BY <2>3, <2>4
  <2>6. QED
    BY <2>2, <2>4, <2>5 DEF Sound
<1>3. QED
  BY <1>1, <1>2

\* What is counted for a table has all symbols of the tokens, and an end of
\* block whether or not the tokens have one.
LEMMA Counted ==
  ASSUME NEW t, NEW n, Encoded(t, n)
  PROVE  /\ litSyms(t) \subseteq freqLit(t) /\ "EOB" \in freqLit(t)
         /\ t.offs \subseteq freqOff(t)
BY DEF Encoded, litSyms, freqLit, freqOff

\* Tokens under a table whose header has just been written or replayed.
LEMMA HeaderTokens ==
  ASSUME NEW w, Sound(w), NEW n, NEW eof, Inside(w, w.lit, w.off, eof, n),
         NEW t, Encoded(t, n), NEW sync \in BOOLEAN, t.eob = sync, eof => sync, "EOB" \in w.lit.syms,
         litSyms(t) \subseteq w.lit.syms, t.offs \subseteq w.off.syms, NEW c
  PROVE  LET r == [w EXCEPT !.lastHeader = ~sync, !.lastHuffMan = FALSE]
         IN Written(writeTokens(r, t, r.lit, r.off, c), n + t.n, eof)
<1> DEFINE open == ~sync
           no == FALSE
           q == [w EXCEPT !.lastHeader = open]
           r == [q EXCEPT !.lastHuffMan = no]
<1>1. [w EXCEPT !.lastHeader = ~sync, !.lastHuffMan = FALSE] = r
  OBVIOUS
<1>2. open \in BOOLEAN /\ t.eob = ~open
  OBVIOUS
<1> HIDE DEF open, no
<1>3. /\ Sound(q)
      /\ q.lit = w.lit /\ q.off = w.off /\ q.hdr = w.hdr /\ q.buffered = w.buffered
      /\ q.err = w.err /\ q.dec = w.dec
      /\ q.lastHeader = open /\ q.lastHuffMan = w.lastHuffMan
  BY <1>2, AssignedHeader
<1> HIDE DEF q
<1>4. /\ Sound(r)
      /\ r.lit = q.lit /\ r.off = q.off /\ r.hdr = q.hdr /\ r.buffered = q.buffered
      /\ r.err = q.err /\ r.dec = q.dec
      /\ r.lastHuffMan = no /\ r.lastHeader = q.lastHeader
  BY <1>3, AssignedHuffMan
<1> HIDE DEF r
<1>5. /\ Sound(r) /\ Inside(r, r.lit, r.off, eof, n) /\ t.eob = ~r.lastHeader /\ (eof => t.eob)
      /\ "EOB" \in r.lit.syms /\ litSyms(t) \subseteq r.lit.syms /\ t.offs \subseteq r.off.syms
  BY <1>2, <1>3, <1>4 DEF Inside
<1>6. Written(writeTokens(r, t, r.lit, r.off, c), n + t.n, eof)
  BY <1>5, TableTokens
<1>7. QED
  BY <1>1, <1>6

LEMMA ClosedWritten ==
  ASSUME NEW w, NEW n, NEW eof, Closed(w, n, eof) PROVE Written(w, n, eof)
BY DEF Closed, Written, Steady, After

\* A block for which a table is built, or the cached header replayed.
LEMMA NewTable ==
  ASSUME NEW p, NEW n \in Int, Closed(p, n, FALSE), NEW t, Encoded(t, n), t.n \in Int,
         NEW sync \in BOOLEAN, t.eob = sync, NEW eof, eof => sync /\ t.n # 0,
         NEW c
  PROVE  Written(newTable(p, t, eof, sync, c), n + t.n, eof)
<1>1. /\ Sound(p) /\ (p.err = "nil" => ~p.lastHeader /\ p.dec.mode = "header" /\ p.dec.got = n)
      /\ t.from = n
  BY DEF Closed, After, Encoded
<1>2. litSyms(t) \subseteq freqLit(t) /\ "EOB" \in freqLit(t) /\ t.offs \subseteq freqOff(t)
  BY Counted
<1>3. CASE c.plan = "warm" /\ atStreamStart(p) /\ warmUsable(p, t)
  <2> DEFINE yes == TRUE
             r == emit(p, readHeader(p.dec, p.hdr.lit, p.hdr.off, eof), yes)
  <2>1. replayHeader(p, eof) = r
    BY <1>3 DEF replayHeader, atStreamStart
  <2> HIDE DEF yes
  <2>2. /\ Sound(r) /\ SameTables(r, p)
        /\ Inside(r, p.hdr.lit, p.hdr.off, eof, n)
        /\ r.err = "nil" => p.err = "nil"
    BY <1>1, Header
  <2> HIDE DEF r
  <2>3. p.hdr.lit = p.lit /\ p.hdr.off = p.off
    BY <1>1, <1>3 DEF warmUsable, Sound
  <2>4. /\ Sound(r) /\ Inside(r, r.lit, r.off, eof, n)
        /\ "EOB" \in r.lit.syms /\ litSyms(t) \subseteq r.lit.syms /\ t.offs \subseteq r.off.syms
    BY <1>2, <1>3, <2>2, <2>3 DEF SameTables, warmUsable
  <2> DEFINE x == [r EXCEPT !.lastHeader = ~sync, !.lastHuffMan = FALSE]
  <2>5. Written(writeTokens(x, t, x.lit, x.off, c), n + t.n, eof)
    BY <2>4, HeaderTokens
  <2>6. newTable(p, t, eof, sync, c) = writeTokens(x, t, x.lit, x.off, c)
    BY <1>3, <2>1 DEF newTable
  <2>7. QED
    BY <2>5, <2>6
<1>4. CASE ~(c.plan = "warm" /\ atStreamStart(p) /\ warmUsable(p, t))
  <2> DEFINE lit == Table(freqLit(t), c.shape)
             off == Table(freqOff(t), c.shape)
             g == replaced(p, lit, off)
  <2>1. generate(p, t, c) = g
    BY DEF generate, replaced, relit
  <2>2. lit.syms = freqLit(t) /\ off.syms = freqOff(t)
    BY DEF Table
  <2> HIDE DEF lit, off
  <2>3. /\ Sound(g) /\ g.lit = lit /\ g.off = off
        /\ g.err = p.err /\ g.dec = p.dec /\ g.buffered = p.buffered
        /\ g.lastHeader = p.lastHeader /\ g.lastHuffMan = p.lastHuffMan
    BY <1>1, Replaced
  <2> HIDE DEF g
  <2>4. Steady(g, n)
    BY <1>1, <2>3 DEF Steady
  <2>5. CASE c.plan \in {"fixed", "lateFixed"}
    <3>1. newTable(p, t, eof, sync, c) = fixedBlock(g, t, eof, c)
      BY <1>4, <2>1, <2>5 DEF newTable
    <3>2. Closed(fixedBlock(g, t, eof, c), n + t.n, eof)
      BY <2>4, FixedBlock
    <3>3. QED
      BY <3>1, <3>2, ClosedWritten
  <2>6. CASE c.plan \in {"stored", "lateStored"}
    <3>1. newTable(p, t, eof, sync, c) = storedBlock(g, n, t.n, eof, c)
      BY <1>1, <1>4, <2>1, <2>6 DEF newTable
    <3>2. Closed(storedBlock(g, n, t.n, eof, c), n + t.n, eof)
      BY <2>4, StoredBlockKeeps
    <3>3. QED
      BY <3>1, <3>2, ClosedWritten
  <2>7. CASE c.plan \notin {"fixed", "lateFixed", "stored", "lateStored"}
    <3> DEFINE spilt == ~c.drained
               h == emit(g, readHeader(g.dec, g.lit, g.off, eof), spilt)
               k == IF atStreamStart(g) THEN captureHeader(h, c) ELSE h
               x == [k EXCEPT !.lastHeader = ~sync, !.lastHuffMan = FALSE]
    <3>1. newTable(p, t, eof, sync, c) = writeTokens(x, t, x.lit, x.off, c)
      BY <1>4, <2>1, <2>7 DEF newTable, writeDynamicHeader
    <3>2. g.err = "nil" => g.dec.mode = "header" /\ g.dec.got = n
      BY <1>1, <2>3
    <3> HIDE DEF spilt
    <3>3. /\ Sound(h) /\ SameTables(h, g)
          /\ Inside(h, g.lit, g.off, eof, n)
          /\ h.err = "nil" => g.err = "nil"
      BY <2>3, <3>2, Header
    <3> HIDE DEF h
    <3>4. /\ Sound(k) /\ k.lit = h.lit /\ k.off = h.off /\ k.err = h.err /\ k.dec = h.dec
      BY <3>3, Captured
    <3> HIDE DEF k
    <3>5. /\ Sound(k) /\ Inside(k, k.lit, k.off, eof, n)
          /\ "EOB" \in k.lit.syms /\ litSyms(t) \subseteq k.lit.syms /\ t.offs \subseteq k.off.syms
      BY <1>2, <2>2, <2>3, <3>3, <3>4 DEF SameTables, Inside
    <3>6. Written(writeTokens(x, t, x.lit, x.off, c), n + t.n, eof)
      BY <3>5, HeaderTokens
    <3>7. QED
      BY <3>1, <3>6
  <2>8. QED
    BY <2>5, <2>6, <2>7
<1>5. QED
  BY <1>3, <1>4

\* An open table that is reused.
LEMMA ReusedTable ==
  ASSUME NEW w, NEW n, Steady(w, n), w.lastHeader, ~w.lastHuffMan, NEW t, Encoded(t, n),
         canReuse(w, t), NEW sync \in BOOLEAN, t.eob = sync, NEW c
  PROVE  Written(writeTokens([w EXCEPT !.lastHeader = ~sync], t, w.lit, w.off, c), n + t.n, FALSE)
<1> DEFINE open == ~sync
           r == [w EXCEPT !.lastHeader = open]
           no == FALSE
<1>1. open \in BOOLEAN /\ t.eob = ~open /\ Sound(w)
  BY DEF Steady
<1> HIDE DEF open
<1>2. /\ Sound(r)
      /\ r.lit = w.lit /\ r.off = w.off /\ r.hdr = w.hdr /\ r.buffered = w.buffered
      /\ r.err = w.err /\ r.dec = w.dec
      /\ r.lastHeader = open /\ r.lastHuffMan = w.lastHuffMan
  BY <1>1, AssignedHeader
<1> HIDE DEF r
<1>3. /\ litSyms(t) \subseteq w.lit.syms /\ t.offs \subseteq w.off.syms
      /\ w.err = "nil" => Open(w, n)
  BY DEF canReuse, Steady
<1>4. CASE w.err # "nil"
  <2> DEFINE x == writeTokens(r, t, w.lit, w.off, c)
  <2>1. x = r
    BY <1>2, <1>4 DEF writeTokens, writeEOB, emit
  <2> HIDE DEF x
  <2>2. Written(x, n + t.n, FALSE)
    BY <1>2, <1>4, <2>1 DEF Written, Steady
  <2>3. QED
    BY <2>2 DEF x, r, open
<1>5. CASE w.err = "nil"
  <2>1. /\ Sound(r) /\ Inside(r, r.lit, r.off, no, n) /\ t.eob = ~r.lastHeader /\ (no => t.eob)
        /\ "EOB" \in r.lit.syms /\ litSyms(t) \subseteq r.lit.syms /\ t.offs \subseteq r.off.syms
    BY <1>1, <1>2, <1>3, <1>5 DEF Inside, Open
  <2> HIDE DEF no
  <2>2. Written(writeTokens(r, t, r.lit, r.off, c), n + t.n, no)
    BY <2>1, TableTokens
  <2>3. QED
    BY <1>2, <2>2 DEF no, r, open
<1>6. QED
  BY <1>4, <1>5

\* Whatever encoding the sizes decide on.
LEMMA WriteBlockDynamic ==
  ASSUME NEW w, NEW n \in Int, Steady(w, n), NEW tokens, Encoded(tokens, n), ~tokens.eob,
         tokens.eob \in BOOLEAN, tokens.n \in Int, tokens.n # 0,
         NEW eof \in BOOLEAN, NEW syncing \in BOOLEAN, NEW c
  PROVE  Written(writeBlockDynamic(w, tokens, eof, syncing, c), n + tokens.n, eof)
<1> DEFINE sync == syncing \/ eof
           t == IF sync THEN AddEOB(tokens) ELSE tokens
           p == IF w.lastHeader /\ (w.lastHuffMan \/ eof)
                THEN [payEOB(w, c) EXCEPT !.lastHuffMan = FALSE] ELSE w
           q == IF p.lastHeader /\ ~canReuse(p, t) THEN payEOB(p, c) ELSE p
<1>1. CASE w.err # "nil"
  BY <1>1 DEF writeBlockDynamic, Written, Steady
<1>2. CASE w.err = "nil"
  <2>1. writeBlockDynamic(w, tokens, eof, syncing, c) =
          CASE q.lastHeader /\ c.plan = "fixed" -> fixedBlock(q, t, eof, c)
            [] q.lastHeader /\ c.plan = "stored" -> storedBlock(q, t.from, t.n, eof, c)
            [] q.lastHeader /\ c.plan = "reuse" ->
                 writeTokens([q EXCEPT !.lastHeader = ~sync], t, q.lit, q.off, c)
            [] OTHER -> newTable(payEOB(q, c), t, eof, sync, c)
    BY <1>2 DEF writeBlockDynamic
  <2>2. /\ Encoded(t, n) /\ t.eob = sync /\ t.n = tokens.n /\ t.n \in Int /\ t.n # 0
        /\ t.from = n
    <3>1. CASE sync
      <4>1. /\ Encoded(AddEOB(tokens), n) /\ AddEOB(tokens).eob
            /\ AddEOB(tokens).n = tokens.n
        BY EndMarked
      <4>2. AddEOB(tokens).eob = TRUE
        BY DEF AddEOB, Encoded
      <4>3. t = AddEOB(tokens) /\ sync = TRUE
        BY <3>1
      <4> HIDE DEF t, sync
      <4>4. t.eob = sync
        BY <4>2, <4>3
      <4>5. Encoded(t, n) /\ t.n = tokens.n
        BY <4>1, <4>3
      <4>6. t.from = n
        BY <4>5 DEF Encoded
      <4>7. QED
        BY <4>4, <4>5, <4>6
    <3>2. CASE ~sync
      <4>1. t = tokens /\ tokens.from = n
        BY <3>2 DEF Encoded
      <4>2. QED
        BY <3>2, <4>1
    <3>3. QED
      BY <3>1, <3>2
  <2>3. sync \in BOOLEAN /\ (eof => sync)
    OBVIOUS
  <2> HIDE DEF t, sync
  <2>4. Steady(p, n) /\ (p.lastHeader => ~p.lastHuffMan /\ ~eof)
    <3>1. CASE w.lastHeader /\ (w.lastHuffMan \/ eof)
      <4> DEFINE v == payEOB(w, c)
                 no == FALSE
                 x == [v EXCEPT !.lastHuffMan = no]
      <4>1. Closed(v, n, FALSE) /\ ~v.lastHeader
        BY PayEOB
      <4> HIDE DEF v, no
      <4>2. Sound(v)
        BY <4>1 DEF Closed
      <4>3. /\ Sound(x)
            /\ x.lit = v.lit /\ x.off = v.off /\ x.hdr = v.hdr /\ x.buffered = v.buffered
            /\ x.err = v.err /\ x.dec = v.dec
            /\ x.lastHuffMan = no /\ x.lastHeader = v.lastHeader
        BY <4>2, AssignedHuffMan
      <4>4. p = x
        BY <3>1 DEF v, no
      <4> HIDE DEF x, p
      <4>5. QED
        BY <4>1, <4>3, <4>4 DEF Closed, Steady, After
    <3>2. CASE ~(w.lastHeader /\ (w.lastHuffMan \/ eof))
      BY <3>2
    <3>3. QED
      BY <3>1, <3>2
  <2> HIDE DEF p
  <2>5. /\ Steady(q, n)
        /\ q.lastHeader => ~q.lastHuffMan /\ ~eof /\ canReuse(q, t)
    <3>1. CASE p.lastHeader /\ ~canReuse(p, t)
      <4>1. Closed(payEOB(p, c), n, FALSE) /\ ~payEOB(p, c).lastHeader
        BY <2>4, PayEOB
      <4>2. QED
        BY <3>1, <4>1, ClosedSteady
    <3>2. CASE ~(p.lastHeader /\ ~canReuse(p, t))
      BY <2>4, <3>2
    <3>3. QED
      BY <3>1, <3>2
  <2> HIDE DEF q
  <2>6. CASE q.lastHeader /\ c.plan = "fixed"
    <3>1. Closed(fixedBlock(q, t, eof, c), n + t.n, eof)
      BY <2>2, <2>5, FixedBlock
    <3>2. QED
      BY <2>1, <2>2, <2>6, <3>1, ClosedWritten
  <2>7. CASE q.lastHeader /\ c.plan = "stored"
    <3>1. Closed(storedBlock(q, n, t.n, eof, c), n + t.n, eof)
      BY <2>2, <2>5, StoredBlockKeeps
    <3>2. QED
      BY <2>1, <2>2, <2>7, <3>1, ClosedWritten
  <2>8. CASE q.lastHeader /\ c.plan = "reuse"
    <3>1. Written(writeTokens([q EXCEPT !.lastHeader = ~sync], t, q.lit, q.off, c), n + t.n, FALSE)
      BY <2>2, <2>3, <2>5, <2>8, ReusedTable
    <3>2. QED
      BY <2>1, <2>2, <2>5, <2>8, <3>1
  <2>9. CASE ~q.lastHeader \/ c.plan \notin {"fixed", "stored", "reuse"}
    <3>1. Closed(payEOB(q, c), n, FALSE)
      BY <2>5, PayEOB
    <3>2. Written(newTable(payEOB(q, c), t, eof, sync, c), n + t.n, eof)
      BY <2>2, <2>3, <3>1, NewTable
    <3>3. writeBlockDynamic(w, tokens, eof, syncing, c) = newTable(payEOB(q, c), t, eof, sync, c)
      BY <2>1, <2>9
    <3>4. QED
      BY <2>2, <3>2, <3>3
  <2>10. QED
    BY <2>6, <2>7, <2>8, <2>9
<1>3. QED
  BY <1>1, <1>2

\* Literals under a table of their own, which stays open unless the block is
\* the last or followed by a flush.
LEMMA WriteBlockHuff ==
  ASSUME NEW w, NEW n \in Int, Steady(w, n), NEW t, Encoded(t, n), ~t.eob, t.offs = {},
         t.n \in Int, t.n # 0, NEW eof, NEW sync, NEW c
  PROVE  Written(writeBlockHuff(w, t, eof, sync, c), n + t.n, eof)
<1> DEFINE reuse == w.lastHeader /\ t.lits \subseteq w.lit.syms /\ c.plan = "reuse"
           p == IF reuse THEN w ELSE payEOB(w, c)
           new == Table(t.lits \cup {"EOB"}, c.shape)
           h == writeDynamicHeader(relit(p, new), new, huffOffset, eof, c)
           q == IF reuse THEN w ELSE [h EXCEPT !.lastHuffMan = TRUE, !.lastHeader = TRUE]
           off == huffOffset
           r == writeTokens(q, t, q.lit, off, c)
           v == writeBlockHuff(w, t, eof, sync, c)
<1>1. CASE w.err # "nil"
  BY <1>1 DEF writeBlockHuff, Written, Steady
<1>2. CASE w.err = "nil" /\ c.plan \in {"stored", "lateStored"}
  <2>1. v = storedBlock(w, n, t.n, eof, c)
    BY <1>2 DEF writeBlockHuff, Encoded
  <2>2. Closed(storedBlock(w, n, t.n, eof, c), n + t.n, eof)
    BY StoredBlockKeeps
  <2>3. QED
    BY <2>1, <2>2, ClosedWritten
<1>3. CASE w.err = "nil" /\ c.plan \notin {"stored", "lateStored"}
  <2>1. v = IF eof \/ sync THEN [payEOB(r, c) EXCEPT !.lastHuffMan = FALSE] ELSE r
    <3> DEFINE x == emit(q, readTokens(q.dec, t, q.lit, huffOffset), ~c.drained)
    <3>1. r = x
      BY DEF writeTokens
    <3>2. v = IF eof \/ sync THEN [payEOB(x, c) EXCEPT !.lastHuffMan = FALSE] ELSE x
      BY <1>3 DEF writeBlockHuff, relit
    <3>3. QED
      BY <3>1, <3>2
  <2>2. litSyms(t) = t.lits /\ t.filled /\ t.from = n
    BY DEF litSyms, Encoded
  \* The table in use, the reader's and the writer's.
  <2>3. /\ Sound(q) /\ q.lastHeader = TRUE
        /\ t.lits \subseteq q.lit.syms /\ "EOB" \in q.lit.syms
        /\ q.err = "nil" => /\ q.dec.mode = "block" /\ q.dec.lit = q.lit /\ q.dec.got = n
                            /\ ~eof => q.dec.final = FALSE
                            /\ ~q.lastHuffMan => q.dec.off = q.off
    <3>1. CASE reuse
      <4>1. q = w /\ Open(w, n) /\ Sound(w) /\ w.lastHeader = TRUE
        BY <1>3, <3>1 DEF Steady, Sound
      <4> HIDE DEF q
      <4>2. QED
        BY <3>1, <4>1 DEF Open
    <3>2. CASE ~reuse
      <4> DEFINE yes == TRUE
                 g == relit(p, new)
                 spilt == ~c.drained
                 e == emit(g, readHeader(g.dec, new, off, eof), spilt)
                 k == [e EXCEPT !.lastHuffMan = yes]
                 x == [k EXCEPT !.lastHeader = yes]
      <4>1. q = x
        BY <3>2 DEF writeDynamicHeader
      <4>2. Closed(p, n, FALSE)
        BY <3>2, PayEOB
      <4> HIDE DEF p, q, yes, spilt, off
      <4>3. Sound(p) /\ (p.err = "nil" => p.dec.mode = "header" /\ p.dec.got = n)
        BY <4>2 DEF Closed, After
      <4>4. t.lits \subseteq new.syms /\ "EOB" \in new.syms
        BY DEF Table
      <4> HIDE DEF new
      <4>5. /\ Sound(g) /\ g.lit = new /\ g.off = p.off /\ ~g.hdr.valid
            /\ g.err = p.err /\ g.dec = p.dec /\ g.buffered = p.buffered
            /\ g.lastHeader = p.lastHeader /\ g.lastHuffMan = p.lastHuffMan
        BY <4>3, Relit
      <4> HIDE DEF g
      <4>6. g.err = "nil" => g.dec.mode = "header" /\ g.dec.got = n
        BY <4>3, <4>5
      <4>7. /\ Sound(e) /\ SameTables(e, g)
            /\ Inside(e, new, off, eof, n)
            /\ e.err = "nil" => g.err = "nil"
        BY <4>5, <4>6, Header
      <4> HIDE DEF e
      <4>8. /\ Sound(k)
            /\ k.lit = e.lit /\ k.off = e.off /\ k.hdr = e.hdr /\ k.buffered = e.buffered
            /\ k.err = e.err /\ k.dec = e.dec
            /\ k.lastHuffMan = yes /\ k.lastHeader = e.lastHeader
        BY <4>7, AssignedHuffMan
      <4> HIDE DEF k
      <4>9. yes \in BOOLEAN
        BY DEF yes
      <4>10. /\ Sound(x)
             /\ x.lit = k.lit /\ x.off = k.off /\ x.hdr = k.hdr /\ x.buffered = k.buffered
             /\ x.err = k.err /\ x.dec = k.dec
             /\ x.lastHeader = yes /\ x.lastHuffMan = k.lastHuffMan
        BY <4>8, <4>9, AssignedHeader
      <4> HIDE DEF x
      <4>11. QED
        BY <4>1, <4>4, <4>5, <4>7, <4>8, <4>10 DEF SameTables, Inside, yes
    <3>3. QED
      BY <3>1, <3>2
  <2> HIDE DEF q, v, off
  <2>4. /\ litSyms(t) \subseteq q.lit.syms /\ t.offs \subseteq off.syms /\ t.filled
        /\ q.err = "nil" => /\ q.dec.mode = "block" /\ q.dec.lit = q.lit /\ q.dec.got = t.from
                            /\ t.offs = {} \/ q.dec.off = off
    BY <2>2, <2>3
  <2>5. /\ Sound(r) /\ SameTables(r, q)
        /\ r.err = "nil" =>
              /\ q.err = "nil" /\ r.dec.got = t.from + t.n
              /\ ~t.eob => /\ r.dec.mode = "block" /\ r.dec.lit = q.lit
                           /\ r.dec.off = q.dec.off /\ r.dec.final = q.dec.final
    BY <2>3, <2>4, WriteTokens
  <2> HIDE DEF r
  <2>6. /\ Sound(r) /\ r.lastHeader = TRUE /\ "EOB" \in r.lit.syms
        /\ r.err = "nil" => /\ r.dec.mode = "block" /\ r.dec.lit = r.lit /\ r.dec.got = n + t.n
                            /\ ~eof => r.dec.final = FALSE
                            /\ ~r.lastHuffMan => r.dec.off = r.off
    BY <2>2, <2>3, <2>5 DEF SameTables
  <2>7. CASE ~(eof \/ sync)
    BY <2>1, <2>6, <2>7 DEF Written, Steady, Open, v
  <2>8. CASE eof \/ sync
    <3> DEFINE e == writeEOB(r, r.lit, c)
               no == FALSE
               k == [e EXCEPT !.lastHeader = no]
               x == [k EXCEPT !.lastHuffMan = no]
    <3>1. v = x
      BY <2>1, <2>6, <2>8 DEF payEOB
    <3> HIDE DEF no
    <3>2. /\ Sound(e) /\ SameTables(e, r)
          /\ e.err = "nil" => /\ r.err = "nil"
                              /\ e.dec.mode = After(r.dec.final) /\ e.dec.got = r.dec.got
      BY <2>6, WriteEOB
    <3> HIDE DEF e
    <3>3. no \in BOOLEAN
      BY DEF no
    <3>4. /\ Sound(k)
          /\ k.lit = e.lit /\ k.off = e.off /\ k.hdr = e.hdr /\ k.buffered = e.buffered
          /\ k.err = e.err /\ k.dec = e.dec
          /\ k.lastHeader = no /\ k.lastHuffMan = e.lastHuffMan
      BY <3>2, <3>3, AssignedHeader
    <3> HIDE DEF k
    <3>5. /\ Sound(x)
          /\ x.lit = k.lit /\ x.off = k.off /\ x.hdr = k.hdr /\ x.buffered = k.buffered
          /\ x.err = k.err /\ x.dec = k.dec
          /\ x.lastHuffMan = no /\ x.lastHeader = k.lastHeader
      BY <3>4, AssignedHuffMan
    <3> HIDE DEF x
    <3>6. /\ Sound(x) /\ (x.err = "nil" => /\ ~x.lastHeader /\ x.dec.got = n + t.n
                                           /\ x.dec.mode = After(r.dec.final)
                                           /\ ~eof => r.dec.final = FALSE)
      BY <2>6, <3>2, <3>4, <3>5 DEF no
    <3>7. Written(x, n + t.n, eof)
      BY <3>6 DEF Written, Steady, After
    <3>8. QED
      BY <3>1, <3>7 DEF v
  <2>9. QED
    BY <2>7, <2>8
<1>4. QED
  BY <1>1, <1>2, <1>3

\* The lesser of two integers.
LEMMA MinOfTwo ==
  ASSUME NEW a \in Int, NEW c \in Int
  PROVE  /\ Min({a, c}) \in {a, c} /\ Min({a, c}) <= a /\ Min({a, c}) <= c
<1>1. \E x \in {a, c} : \A y \in {a, c} : x <= y
  OBVIOUS
<1>2. QED
  BY <1>1 DEF Min

\* The tokens of a block, before an end of block is added.
LEMMA WindowTokens ==
  ASSUME NEW lits \in SUBSET Literals, NEW offs \in SUBSET Offsets, NEW from, NEW n
  PROVE  /\ Encoded(Tokens(from, n, lits, offs), from)
         /\ ~Tokens(from, n, lits, offs).eob /\ Tokens(from, n, lits, offs).eob \in BOOLEAN
         /\ Tokens(from, n, lits, offs).n = n /\ Tokens(from, n, lits, offs).offs = offs
BY DEF Tokens, Encoded

-----------------------------------------------------------------------------
(* Streams: what reset leaves, and how a call ends.                        *)

\* The two halves of reset.
emptied(ww, buffered, e, room) == [ww EXCEPT !.buffered = buffered, !.err = e, !.room = room]
restarted(ww, h, huffMan, d) == [ww EXCEPT !.lastHeader = h, !.lastHuffMan = huffMan, !.dec = d]

LEMMA Emptying ==
  ASSUME NEW ww, Sound(ww), NEW buffered, NEW e \in Errors, NEW room
  PROVE  LET v == emptied(ww, buffered, e, room)
         IN Sound(v) /\ v.buffered = buffered /\ v.err = e
<1> DEFINE v == emptied(ww, buffered, e, room)
<1>0. v = [ww EXCEPT !.buffered = buffered, !.err = e, !.room = room]
  BY DEF emptied
<1> HIDE DEF v
<1>1. v = [lit |-> ww.lit, off |-> ww.off, lastHeader |-> ww.lastHeader,
           lastHuffMan |-> ww.lastHuffMan, hdr |-> ww.hdr, buffered |-> buffered,
           err |-> e, room |-> room, dec |-> ww.dec]
  BY <1>0 DEF Sound
<1>2. Following(ww.dec)
  BY DEF Sound
<1>3. /\ Sound(v) /\ SameTables(v, ww)
      /\ v.err = e /\ v.dec = ww.dec /\ v.buffered = buffered
  BY <1>1, <1>2, Rewritten
<1>4. QED
  BY <1>3 DEF v

LEMMA Restarting ==
  ASSUME NEW ww, Sound(ww), NEW h \in BOOLEAN, NEW huffMan, NEW d, Following(d)
  PROVE  LET v == restarted(ww, h, huffMan, d)
         IN /\ Sound(v) /\ v.lastHeader = h /\ v.dec = d
            /\ v.buffered = ww.buffered /\ v.err = ww.err
<1> DEFINE v == restarted(ww, h, huffMan, d)
<1>0. v = [ww EXCEPT !.lastHeader = h, !.lastHuffMan = huffMan, !.dec = d]
  BY DEF restarted
<1> HIDE DEF v
<1>1. v = [lit |-> ww.lit, off |-> ww.off, lastHeader |-> h,
           lastHuffMan |-> huffMan, hdr |-> ww.hdr, buffered |-> ww.buffered,
           err |-> ww.err, room |-> ww.room, dec |-> d]
  BY <1>0 DEF Sound
<1>2. /\ v.lit = ww.lit /\ v.off = ww.off /\ v.hdr = ww.hdr /\ v.lastHeader = h
      /\ v.buffered = ww.buffered /\ v.err = ww.err /\ v.dec = d
      /\ v = [lit |-> v.lit, off |-> v.off, lastHeader |-> v.lastHeader,
              lastHuffMan |-> v.lastHuffMan, hdr |-> v.hdr, buffered |-> v.buffered,
              err |-> v.err, room |-> v.room, dec |-> v.dec]
  BY <1>1
<1>3. QED
  BY <1>2 DEF Sound, v

\* reset forgets the open block and whatever is buffered.
LEMMA Fresh ==
  ASSUME NEW ww, Sound(ww), NEW room, NEW v, v = reset(ww, room)
  PROVE  /\ Sound(v) /\ v.err = "nil" /\ ~v.lastHeader /\ ~v.buffered
         /\ v.dec = NewDecoder
<1> DEFINE no == FALSE
           none == "nil"
           new == NewDecoder
           a == emptied(ww, no, none, room)
           r == restarted(a, no, no, new)
<1>1. v = r
  BY DEF reset, Sound, emptied, restarted
<1>2. no \in BOOLEAN /\ none \in Errors /\ Following(new)
  BY DEF Errors, Following, NewDecoder
<1> HIDE DEF no, none, new
<1>3. Sound(a) /\ a.buffered = no /\ a.err = none
  BY <1>2, Emptying
<1> HIDE DEF a
<1>4. /\ Sound(r) /\ r.lastHeader = no /\ r.dec = new
      /\ r.buffered = a.buffered /\ r.err = a.err
  BY <1>2, <1>3, Restarting
<1>5. v.lastHeader = no /\ v.buffered = no /\ v.err = none /\ v.dec = new /\ Sound(v)
  BY <1>1, <1>3, <1>4
<1>6. QED
  BY <1>5 DEF no, none, new

\* A block may begin after reset.
LEMMA FreshSteady ==
  ASSUME NEW ww, Sound(ww), NEW room
  PROVE  Steady(reset(ww, room), 0)
BY Fresh DEF Steady, NewDecoder

\* A bit writer that is reset and goes on with the reader it has.
dropped(ww, room) == [reset(ww, room) EXCEPT !.dec = ww.dec]

LEMMA Dropped ==
  ASSUME NEW ww, Sound(ww), NEW room
  PROVE  LET v == dropped(ww, room)
         IN Sound(v) /\ v.err = "nil" /\ ~v.lastHeader /\ v.dec = ww.dec
<1> DEFINE u == reset(ww, room)
           v == dropped(ww, room)
<1>1. Sound(u) /\ u.err = "nil" /\ ~u.lastHeader
  BY Fresh
<1>2. v = [u EXCEPT !.dec = ww.dec]
  BY DEF dropped
<1> HIDE DEF u, v
<1>3. v = [lit |-> u.lit, off |-> u.off, lastHeader |-> u.lastHeader,
           lastHuffMan |-> u.lastHuffMan, hdr |-> u.hdr, buffered |-> u.buffered,
           err |-> u.err, room |-> u.room, dec |-> ww.dec]
  BY <1>1, <1>2 DEF Sound
<1>4. Following(ww.dec) /\ u.err \in Errors
  BY <1>1 DEF Sound
<1>5. /\ Sound(v) /\ SameTables(v, u)
      /\ v.err = u.err /\ v.dec = ww.dec /\ v.buffered = u.buffered
  BY <1>1, <1>3, <1>4, Rewritten
<1>6. QED
  BY <1>1, <1>5 DEF SameTables, v

\* A writer that is new.
LEMMA NewWriter ==
  ASSUME NEW room
  PROVE  Steady(newHuffmanBitWriter(room), 0)
<1> DEFINE v == newHuffmanBitWriter(room)
           no == FALSE
           none == "nil"
           new == NewDecoder
           hdr == [valid |-> no, lit |-> NoTable, off |-> NoTable]
<1>1. v = [lit |-> NoTable, off |-> NoTable, lastHeader |-> no, lastHuffMan |-> no,
           hdr |-> hdr, buffered |-> no, err |-> none, room |-> room, dec |-> new]
  BY DEF newHuffmanBitWriter
<1>2. /\ hdr = [valid |-> hdr.valid, lit |-> hdr.lit, off |-> hdr.off] /\ hdr.valid = no
      /\ no \in BOOLEAN /\ none \in Errors /\ Following(new)
  BY DEF Errors, Following, NewDecoder
<1> HIDE DEF v, no, none, new, hdr
<1>3. /\ v.hdr = hdr /\ v.lastHeader = no /\ v.err = none /\ v.dec = new
      /\ v = [lit |-> v.lit, off |-> v.off, lastHeader |-> v.lastHeader,
              lastHuffMan |-> v.lastHuffMan, hdr |-> v.hdr, buffered |-> v.buffered,
              err |-> v.err, room |-> v.room, dec |-> v.dec]
  BY <1>1
<1>4. Sound(v) /\ ~v.lastHeader
  BY <1>2, <1>3 DEF Sound, no
<1>5. v.dec.mode = "header" /\ v.dec.got = 0
  BY <1>3 DEF new, NewDecoder
<1>6. QED
  BY <1>4, <1>5 DEF Steady, v

\* A flush with a marker, an empty stored block, hands over everything.
LEMMA Marker ==
  ASSUME NEW ww, NEW n, Steady(ww, n), NEW eof, ~eof, NEW c,
         NEW f, f = flush(writeStoredHeader(ww, 0, eof, c), c)
  PROVE  /\ Sound(f)
         /\ f.err = "nil" => /\ ~f.lastHeader /\ ~f.buffered
                             /\ f.dec.aligned /\ f.dec.got = n
                             /\ f.dec.mode = "header"
<1> DEFINE none == 0
           h == writeStoredHeader(ww, none, eof, c)
<1>1. (none # 0 \/ ~eof) /\ f = flush(h, c)
  OBVIOUS
<1> HIDE DEF none
<1>2. h = writeStoredHeader(ww, none, eof, c)
  OBVIOUS
<1> HIDE DEF h
<1>3. /\ Sound(h)
      /\ h.err = "nil" =>
           /\ ~h.lastHeader /\ h.buffered
           /\ h.dec.aligned /\ h.dec.got = n
           /\ IF none = 0 THEN h.dec.mode = "header"
              ELSE h.dec.mode = "stored" /\ h.dec.n = none /\ h.dec.final = eof
  BY <1>1, <1>2, StoredHeader
<1>4. h.err = "nil" => /\ ~h.lastHeader /\ h.dec.got = n /\ h.dec.mode = "header"
                       /\ \/ h.dec.aligned
                          \/ h.dec.mode = "storedBits"
                          \/ h.dec.mode = "end"
  BY <1>3 DEF none
<1>5. /\ Sound(f) /\ SameTables(f, h)
      /\ f.err = "nil" => /\ h.err = "nil" /\ ~f.buffered
                          /\ f.dec.mode = h.dec.mode /\ f.dec.got = h.dec.got
                          /\ f.dec.final = h.dec.final
                          /\ h.buffered \/ h.dec.aligned => f.dec.aligned
  BY <1>1, <1>3, <1>4, FlushKeeps
<1>6. QED
  BY <1>3, <1>4, <1>5 DEF SameTables

\* The empty final block is written through: there is nothing left to flush.
LEMMA FlushedEnd ==
  ASSUME NEW ww, NEW n, Steady(ww, n), NEW c
  PROVE  LET h == writeStoredHeader(ww, 0, TRUE, c)
         IN Closed(h, n, TRUE) /\ (h.err = "nil" => ~h.buffered) /\ flush(h, c) = h
<1> DEFINE h == writeStoredHeader(ww, 0, TRUE, c)
<1>1. Closed(h, n, TRUE) /\ (h.err = "nil" => ~h.buffered)
  BY EmptyFinalBlock
<1> HIDE DEF h
<1>2. flush(h, c) = h
  BY <1>1 DEF flush, payEOB, Closed
<1>3. QED
  BY <1>1, <1>2 DEF h

-----------------------------------------------------------------------------
(***************************************************************************)
(* The bits and bytes of the writer: BitBuffer, for every size of buffer   *)
(* and every choice of code lengths, extra bits and fields within the      *)
(* assumptions.  No bit is lost or misplaced (BitsAlwaysInPlace), no store *)
(* leaves the buffer (StoresAlwaysInBuffer).                               *)
(*                                                                         *)
(* Both hold because every loop leaves the accumulator as the next one     *)
(* expects it.  The inductive invariant says how full it may be at each    *)
(* place of each loop (Resident) and that accumulator and buffer adjoin    *)
(* (Adjoined); the lemmas say how the helpers change the two.              *)
(***************************************************************************)
USE BitBufferAssumption

Buffers ==
  [nbits : 0..63, nbytes : 0..255, base : Int, pending : Int, err : {"nil", "io"},
   fault : {"none"}]

\* The accumulator follows the bytes of the buffer, and the stream ends where
\* it does; nothing is counted after an error.
Adjoined(a) ==
  IF a.err = "nil" THEN a.base = 8 * a.nbytes /\ a.pending = a.base + a.nbits
                   ELSE a.base = 0 /\ a.pending = 0

\* A sound buffer with at most m bits in the accumulator and y bytes.
Within(a, m, y) == a \in Buffers /\ a.nbits <= m /\ a.nbytes <= y /\ Adjoined(a)

\* How many bits may be resident: what writeBits leaves (idle, and the
\* beginning of writeBlockHuff); part of a byte; three codes more; one code
\* more than does not yet make six bytes.
Resident == CASE pc = "idle" -> 47 [] pc = "tokens" -> 7 [] pc = "huff3" -> 52 [] OTHER -> 62

\* The inductive invariant.
BitsInv ==
  /\ pc \in {"idle", "tokens", "huff3", "huffRest"}
  /\ Within(b, Resident, FlushSize - 1)
  /\ saved \in [nbits : 0..47, nbytes : 0..(FlushSize - 1)]

-----------------------------------------------------------------------------
(* The helpers.                                                            *)

\* A buffer is its fields.
LEMMA FieldsOf ==
  ASSUME NEW a \in Buffers
  PROVE  a = [nbits |-> a.nbits, nbytes |-> a.nbytes, base |-> a.base,
              pending |-> a.pending, err |-> a.err, fault |-> a.fault]
BY DEF Buffers

LEMMA PutWithin ==
  ASSUME NEW a, NEW m \in 0..63, NEW y \in Int, Within(a, m, y), NEW l \in 0..63, m + l <= 63
  PROVE  Within(put(a, l), m + l, y) /\ put(a, l).err = a.err
<1> USE DEF Within, Buffers, Adjoined
<1>1. a.nbits + l \in 0..63 /\ u8(a.nbits + l) = a.nbits + l
  BY DEF u8
<1>2. a.err = "nil" => a.base + a.nbits = a.pending /\ a.nbits + l <= 64
  BY <1>1
<1>3. put(a, l) = [nbits |-> a.nbits + l, nbytes |-> a.nbytes, base |-> a.base,
                   pending |-> IF a.err = "nil" THEN a.pending + l ELSE 0,
                   err |-> a.err, fault |-> a.fault]
  <2>1. a = [nbits |-> a.nbits, nbytes |-> a.nbytes, base |-> a.base,
             pending |-> a.pending, err |-> a.err, fault |-> a.fault]
    BY FieldsOf
  <2>2. put(a, l) = [a EXCEPT !.nbits = a.nbits + l,
                              !.pending = IF a.err = "nil" THEN a.pending + l ELSE 0,
                              !.fault = a.fault]
    BY <1>1, <1>2 DEF put
  <2>3. QED
    BY <2>1, <2>2
<1>4. QED
  BY <1>1, <1>3

LEMMA PutMore ==
  ASSUME NEW a, NEW m \in 0..63, Within(a, m, FlushSize - 1),
         NEW l \in 0..63, NEW r \in 0..63, m + l <= r
  PROVE  Within(put(a, l), r, FlushSize - 1)
<1>1. FlushSize - 1 \in Int /\ m + l <= 63
  OBVIOUS
<1>2. Within(put(a, l), m + l, FlushSize - 1)
  BY <1>1, PutWithin
<1>3. QED
  BY <1>2 DEF Within, Buffers

LEMMA StoreWithin ==
  ASSUME NEW a, Within(a, 63, FlushSize - 1), NEW k \in 0..7, NEW rest \in 0..63,
         8 * k + rest = a.nbits
  PROVE  /\ Within(store64(a, k, rest), rest, FlushSize - 1 + k)
         /\ store64(a, k, rest).err = a.err
<1> USE DEF Within, Buffers, Adjoined
<1>1. a.nbytes + k \in 0..255 /\ u8(a.nbytes + k) = a.nbytes + k
  BY DEF u8
<1>2. ~(a.nbytes + 8 > BufLen)
  OBVIOUS
<1>3. a.err = "nil" => a.base = 8 * a.nbytes /\ a.nbits <= 64
  OBVIOUS
<1>4. store64(a, k, rest) = [nbits |-> rest, nbytes |-> a.nbytes + k,
                             base |-> IF a.err = "nil" THEN a.base + 8 * k ELSE 0,
                             pending |-> a.pending, err |-> a.err, fault |-> a.fault]
  <2>1. store64(a, k, rest) = [a EXCEPT !.base = IF a.err = "nil" THEN a.base + 8 * k ELSE 0,
                                        !.nbytes = a.nbytes + k, !.nbits = rest,
                                        !.fault = a.fault]
    BY <1>1, <1>2, <1>3 DEF store64
  <2>2. QED
    BY <2>1, FieldsOf, ZenonT(40)
<1>5. QED
  BY <1>1, <1>4

LEMMA ByteFlushWithin ==
  ASSUME NEW a, Within(a, 63, FlushSize - 1)
  PROVE  Within(byteFlush(a), 7, FlushSize + 6) /\ byteFlush(a).err = a.err
<1> DEFINE k == a.nbits \div 8
           rest == a.nbits % 8
<1>1. k \in 0..7 /\ rest \in 0..63 /\ rest <= 7 /\ 8 * k + rest = a.nbits
  BY DEF Within, Buffers
<1> HIDE DEF k, rest
<1>2. Within(store64(a, k, rest), rest, FlushSize - 1 + k) /\ store64(a, k, rest).err = a.err
  BY <1>1, StoreWithin
<1>3. byteFlush(a) = store64(a, k, rest)
  BY DEF byteFlush, k, rest
<1>4. QED
  BY <1>1, <1>2, <1>3 DEF Within, Buffers

LEMMA SixBytesWithin ==
  ASSUME NEW a, NEW m \in 48..63, Within(a, m, FlushSize - 1), a.nbits >= 48
  PROVE  Within(sixBytes(a), m - 48, FlushSize + 5) /\ sixBytes(a).err = a.err
<1>1. u8(a.nbits - 48) = a.nbits - 48 /\ a.nbits - 48 \in 0..63 /\ Within(a, 63, FlushSize - 1)
  BY DEF u8, Within, Buffers
<1>2. /\ Within(store64(a, 6, a.nbits - 48), a.nbits - 48, FlushSize - 1 + 6)
      /\ store64(a, 6, a.nbits - 48).err = a.err
  <2>1. 8 * 6 + (a.nbits - 48) = a.nbits
    BY DEF Within, Buffers
  <2>2. 6 \in 0..7
    OBVIOUS
  <2>3. QED
    BY <1>1, <2>1, <2>2, StoreWithin
<1>3. QED
  BY <1>1, <1>2 DEF sixBytes, Within, Buffers

LEMMA DeliverWithin ==
  ASSUME NEW a, NEW m \in 0..63, NEW y \in Int, Within(a, m, y), a.err = "nil", NEW ok \in BOOLEAN
  PROVE  Within(deliver(a, ok), m, 0)
<1>1. deliver(a, ok) = [nbits |-> a.nbits, nbytes |-> 0, base |-> 0,
                        pending |-> IF ok THEN a.pending - 8 * a.nbytes ELSE 0,
                        err |-> IF ok THEN a.err ELSE "io", fault |-> a.fault]
  <2>1. a \in Buffers /\ a.base - 8 * a.nbytes = 0
    BY DEF Within, Adjoined, Buffers
  <2>2. CASE ok
    <3>1. deliver(a, ok) = [a EXCEPT !.base = 0, !.pending = a.pending - 8 * a.nbytes, !.nbytes = 0]
      BY <2>1, <2>2 DEF deliver
    <3>2. QED
      BY <2>1, <2>2, <3>1, FieldsOf
  <2>3. CASE ~ok
    <3>1. deliver(a, ok) = [a EXCEPT !.base = 0, !.pending = 0, !.nbytes = 0, !.err = "io"]
      BY <2>3 DEF deliver
    <3>2. QED
      BY <2>1, <2>3, <3>1, FieldsOf
  <2>4. QED
    BY <2>2, <2>3
<1>2. QED
  BY <1>1 DEF Within, Buffers, Adjoined

\* In the loops: what is left in the buffer has room for a store.
LEMMA WrittenWithin ==
  ASSUME NEW a, NEW m \in 0..63, Within(a, m, FlushSize + 6), ~givesUp(a), NEW ok \in BOOLEAN
  PROVE  Within(written(a, ok), m, FlushSize - 1)
<1>1. CASE full(a)
  <2>1. Within(deliver(a, ok), m, 0)
    <3>1. a.err = "nil" /\ FlushSize + 6 \in Int
      BY <1>1 DEF givesUp, Within, Buffers
    <3>2. QED
      BY <3>1, DeliverWithin
  <2>2. QED
    BY <1>1, <2>1 DEF written, Within, Buffers
<1>2. CASE ~full(a)
  BY <1>2 DEF written, full, Within, Buffers
<1>3. QED
  BY <1>1, <1>2

LEMMA WriteOutBitsWithin ==
  ASSUME NEW a, NEW m \in 48..63, Within(a, m, FlushSize - 1), a.nbits >= 48, NEW ok \in BOOLEAN
  PROVE  Within(writeOutBits(a, ok), m - 48, FlushSize - 1)
<1> DEFINE x == sixBytes(a)
<1>1. Within(x, m - 48, FlushSize + 5) /\ x.err = a.err
  BY SixBytesWithin
<1> HIDE DEF x
<1>2. CASE ~full(x)
  BY <1>1, <1>2 DEF writeOutBits, full, x, Within, Buffers
<1>3. CASE full(x) /\ a.err # "nil"
  <2>1. writeOutBits(a, ok) = [x EXCEPT !.nbytes = a.nbytes]
    BY <1>3 DEF writeOutBits, x
  <2>2. QED
    BY <1>1, <1>3, <2>1 DEF Within, Buffers, Adjoined
<1>4. CASE full(x) /\ a.err = "nil"
  <2>1. writeOutBits(a, ok) = deliver(x, ok)
    BY <1>4 DEF writeOutBits, x
  <2>2. m - 48 \in 0..63
    OBVIOUS
  <2>3. Within(deliver(x, ok), m - 48, 0)
    BY <1>1, <1>4, <2>2, DeliverWithin
  <2>4. QED
    BY <2>1, <2>3 DEF Within, Buffers
<1>5. QED
  BY <1>2, <1>3, <1>4

LEMMA WriteBitsWithin ==
  ASSUME NEW a, Within(a, 47, FlushSize - 1), NEW l \in 0..16, NEW ok \in BOOLEAN
  PROVE  Within(writeBits(a, l, ok), 47, FlushSize - 1)
<1> DEFINE p == put(a, l)
<1>1. Within(p, 47 + l, FlushSize - 1)
  <2>1. 47 \in 0..63 /\ l \in 0..63 /\ 47 + l \in 0..63 /\ 47 + l <= 47 + l
    OBVIOUS
  <2>2. QED
    BY <2>1, PutMore, ZenonT(40)
<1> HIDE DEF p
<1>2. CASE p.nbits >= 48
  <2>1. 47 + l \in 48..63
    BY <1>1, <1>2 DEF Within, Buffers
  <2>2. Within(writeOutBits(p, ok), 47 + l - 48, FlushSize - 1)
    BY <1>1, <1>2, <2>1, WriteOutBitsWithin
  <2>3. QED
    BY <1>2, <2>2 DEF writeBits, p, Within, Buffers
<1>3. CASE ~(p.nbits >= 48)
  BY <1>1, <1>3 DEF writeBits, p, Within, Buffers
<1>4. QED
  BY <1>2, <1>3

LEMMA DrainWithin ==
  ASSUME NEW a, Within(a, 47, FlushSize - 1), a.err = "nil", NEW ok \in BOOLEAN
  PROVE  Within(drain(a, ok), 0, 0)
<1>1. (a.nbits + 7) \div 8 \in 0..6
  BY DEF Within, Buffers
<1>2. ~(a.nbytes + (a.nbits + 7) \div 8 > BufLen) /\ a.base = 8 * a.nbytes
  BY <1>1 DEF Within, Buffers, Adjoined
<1> DEFINE n == a.nbytes + (a.nbits + 7) \div 8
           r == [a EXCEPT !.fault = a.fault, !.base = 0, !.pending = 0, !.nbits = 0, !.nbytes = 0]
<1>3. drain(a, ok) = IF n = 0 \/ ok THEN r ELSE [r EXCEPT !.err = "io"]
  BY <1>2 DEF drain
<1>4. r \in Buffers /\ r.nbits = 0 /\ r.nbytes = 0 /\ r.base = 0 /\ r.pending = 0
  <2> DEFINE r1 == [a EXCEPT !.base = 0]
             r2 == [r1 EXCEPT !.pending = 0]
             r3 == [r2 EXCEPT !.nbits = 0]
  <2>1. r1 \in Buffers /\ r1.base = 0
    BY DEF Within, Buffers
  <2> HIDE DEF r1
  <2>2. r2 \in Buffers /\ r2.base = 0 /\ r2.pending = 0
    BY <2>1 DEF Buffers
  <2> HIDE DEF r2
  <2>3. r3 \in Buffers /\ r3.base = 0 /\ r3.pending = 0 /\ r3.nbits = 0
    BY <2>2 DEF Buffers
  <2> HIDE DEF r3
  <2>4. /\ [r3 EXCEPT !.nbytes = 0] \in Buffers
        /\ [r3 EXCEPT !.nbytes = 0].base = 0
        /\ [r3 EXCEPT !.nbytes = 0].pending = 0
        /\ [r3 EXCEPT !.nbytes = 0].nbits = 0
        /\ [r3 EXCEPT !.nbytes = 0].nbytes = 0
    BY <2>3 DEF Buffers
  <2>5. r = [r3 EXCEPT !.nbytes = 0]
    <3>1. [a EXCEPT !.fault = a.fault] = a
      BY DEF Within, Buffers
    <3>2. r = [[a EXCEPT !.fault = a.fault] EXCEPT !.base = 0, !.pending = 0, !.nbits = 0, !.nbytes = 0]
      OBVIOUS
    <3>3. QED
      BY <3>1, <3>2 DEF r1, r2, r3
  <2>6. QED
    BY <2>4, <2>5
<1> HIDE DEF n, r
<1>5. QED
  BY <1>3, <1>4 DEF Within, Buffers, Adjoined

LEMMA FlushWithin ==
  ASSUME NEW a, Within(a, 47, FlushSize - 1), NEW ok \in BOOLEAN
  PROVE  Within(flushBits(a, ok), 0, FlushSize - 1)
<1>1. CASE a.err = "nil"
  BY <1>1, DrainWithin DEF flushBits, Within, Buffers
<1>2. CASE a.err # "nil"
  BY <1>2 DEF flushBits, Within, Buffers, Adjoined
<1>3. QED
  BY <1>1, <1>2

\* After flush, the two lengths of a stored block make whole bytes.
LEMMA StoredBlockWithin ==
  ASSUME NEW a, Within(a, 47, FlushSize - 1), NEW ok \in BOOLEAN
  PROVE  Within(appendBytes(writeBits(writeBits(flushBits(writeBits(a, 3, ok), ok), 16, ok), 16, ok), ok),
                47, FlushSize - 1)
<1> DEFINE h == flushBits(writeBits(a, 3, ok), ok)
<1>1. Within(h, 0, FlushSize - 1)
  BY WriteBitsWithin, FlushWithin
<1> HIDE DEF h
<1> DEFINE x == put(h, 16)
           y == put(x, 16)
<1>2. Within(x, 16, FlushSize - 1) /\ x.nbits = 16
  <2>0. 0 \in 0..63 /\ 16 \in 0..63 /\ 0 + 16 <= 16
    OBVIOUS
  <2>1. Within(x, 16, FlushSize - 1)
    BY <1>1, <2>0, PutMore, ZenonT(40)
  <2>2. x.nbits = 16
    BY <1>1 DEF put, u8, Within, Buffers
  <2>3. QED
    BY <2>1, <2>2
<1> HIDE DEF x
<1>3. Within(y, 32, FlushSize - 1) /\ y.nbits = 32
  <2>0. 16 \in 0..63 /\ 32 \in 0..63 /\ 16 + 16 <= 32
    OBVIOUS
  <2>1. Within(y, 32, FlushSize - 1)
    BY <1>2, <2>0, PutMore, ZenonT(40)
  <2>2. y.nbits = 32
    BY <1>2 DEF put, u8, Within, Buffers
  <2>3. QED
    BY <2>1, <2>2
<1> HIDE DEF y
<1>4. writeBits(h, 16, ok) = x /\ writeBits(x, 16, ok) = y
  BY <1>2, <1>3 DEF writeBits, x, y
<1>5. Within(y, 47, FlushSize - 1)
  BY <1>3 DEF Within, Buffers
<1>6. Within(appendBytes(y, ok), 47, FlushSize - 1)
  <2>1. CASE y.err # "nil"
    BY <1>5, <2>1 DEF appendBytes
  <2>2. CASE y.err = "nil"
    <3>1. y.nbits % 8 = 0
      BY <1>3
    <3>2. Within(drain(y, ok), 0, 0)
      BY <1>5, <2>2, DrainWithin
    <3>3. appendBytes(y, ok) = drain(y, ok)
      BY <2>2, <3>1 DEF appendBytes
    <3>4. QED
      BY <3>2, <3>3 DEF Within, Buffers
  <2>3. QED
    BY <2>1, <2>2
<1>7. QED
  BY <1>4, <1>6 DEF h

-----------------------------------------------------------------------------
(* The steps.                                                              *)

LEMMA BitsInit == InitBits => BitsInv
BY DEF InitBits, BitsInv, Empty, None, Within, Buffers, Adjoined, Resident

\* A loop that goes on, or gives up and returns to what it was given.
LEMMA LoopStep ==
  ASSUME BitsInv, NEW a, NEW m \in 0..63, Within(a, m, FlushSize + 6), givesUp(a), giveUp(a)
  PROVE  BitsInv'
<1>1. b' = [nbits |-> saved.nbits, nbytes |-> saved.nbytes, base |-> a.base,
            pending |-> a.pending, err |-> a.err, fault |-> a.fault]
  <2>1. a \in Buffers /\ b' = [a EXCEPT !.nbits = saved.nbits, !.nbytes = saved.nbytes]
    BY DEF Within, giveUp
  <2>2. a = [nbits |-> a.nbits, nbytes |-> a.nbytes, base |-> a.base,
             pending |-> a.pending, err |-> a.err, fault |-> a.fault]
    BY <2>1, FieldsOf
  <2>3. QED
    BY <2>1, <2>2
<1>2. Within(b', 47, FlushSize - 1)
  BY <1>1 DEF BitsInv, Within, Buffers, Adjoined, givesUp
<1>3. QED
  BY <1>2 DEF BitsInv, Resident, giveUp, None

LEMMA TokenStep ==
  ASSUME BitsInv, pc = "tokens", NEW a, Within(a, 63, FlushSize - 1), NEW ok \in BOOLEAN,
         token(byteFlush(a), ok)
  PROVE  BitsInv'
<1> DEFINE x == byteFlush(a)
<1>1. Within(x, 7, FlushSize + 6)
  BY ByteFlushWithin
<1> HIDE DEF x
<1>2. CASE givesUp(x)
  BY <1>1, <1>2, LoopStep DEF token, x
<1>3. CASE ~givesUp(x)
  <2>1. Within(written(x, ok), 7, FlushSize - 1)
    BY <1>1, <1>3, WrittenWithin
  <2>2. QED
    BY <1>3, <2>1 DEF token, x, BitsInv, Resident
<1>4. QED
  BY <1>2, <1>3

LEMMA BitsNext ==
  ASSUME BitsInv, [NextBits]_bitVars
  PROVE  BitsInv'
<1>1. CASE ResetBits
  BY <1>1 DEF ResetBits, BitsInv, Empty, Within, Buffers, Adjoined, Resident
<1>2. CASE HuffBegin
  BY <1>2 DEF HuffBegin, copies, BitsInv, Within, Buffers, Resident
<1>3. ASSUME NEW ok \in BOOLEAN, FlushBits(ok)
      PROVE  BitsInv'
  <2>1. Within(flushBits(b, ok), 0, FlushSize - 1)
    BY <1>3, FlushWithin DEF FlushBits, BitsInv, Resident
  <2>2. QED
    BY <1>3, <2>1 DEF FlushBits, BitsInv, Resident, Within, Buffers
<1>4. ASSUME NEW ok \in BOOLEAN, StoredBlock(ok)
      PROVE  BitsInv'
  <2>1. Within(b, 47, FlushSize - 1)
    BY <1>4 DEF StoredBlock, BitsInv, Resident
  <2>2. Within(b', 47, FlushSize - 1)
    BY <1>4, <2>1, StoredBlockWithin DEF StoredBlock
  <2>3. QED
    BY <1>4, <2>2 DEF StoredBlock, BitsInv, Resident
<1>5. ASSUME NEW ok \in BOOLEAN, TokensBegin(ok)
      PROVE  BitsInv'
  <2>1. Within(b, 63, FlushSize - 1) /\ b.nbits <= 47
    BY <1>5 DEF TokensBegin, BitsInv, Resident, Within, Buffers
  <2>2. Within(byteFlush(b), 7, FlushSize + 6) /\ ~givesUp(byteFlush(b))
    BY <1>5, <2>1, ByteFlushWithin DEF TokensBegin, givesUp
  <2>3. Within(written(byteFlush(b), ok), 7, FlushSize - 1)
    BY <2>2, WrittenWithin
  <2>4. QED
    BY <1>5, <2>1, <2>3 DEF TokensBegin, copies, BitsInv, Resident, Within, Buffers
<1>6. ASSUME NEW ok \in BOOLEAN, NEW l \in Fields \cup CodeLens, WriteBits(l, ok)
      PROVE  BitsInv'
  <2>1. l \in 0..16
    BY DEF MaxCodeLen
  <2>2. Within(writeBits(b, l, ok), 47, FlushSize - 1)
    BY <1>6, <2>1, WriteBitsWithin DEF WriteBits, BitsInv, Resident
  <2>3. QED
    BY <1>6, <2>2 DEF WriteBits, BitsInv, Resident
<1>7. ASSUME NEW ok \in BOOLEAN, NEW l \in CodeLens, TokenLiteral(l, ok)
      PROVE  BitsInv'
  <2>1. l \in 1..15 /\ Within(b, 7, FlushSize - 1)
    BY <1>7 DEF TokenLiteral, BitsInv, Resident, MaxCodeLen
  <2>2. 7 \in 0..63 /\ l \in 0..63 /\ 63 \in 0..63 /\ 7 + l <= 63
    BY <2>1
  <2>3. Within(put(b, l), 63, FlushSize - 1)
    BY <2>1, <2>2, PutMore, ZenonT(40)
  <2>4. QED
    BY <1>7, <2>3, TokenStep DEF TokenLiteral
<1>8. ASSUME NEW ok \in BOOLEAN, NEW lc \in CodeLens, NEW oc \in CodeLens, NEW le \in LenExtra,
             NEW oe \in OffExtra, TokenMatch(lc, le, oc, oe, ok)
      PROVE  BitsInv'
  <2>1. /\ lc \in 1..15 /\ oc \in 1..15 /\ le \in 0..5 /\ oe \in 0..13
        /\ Within(b, 7, FlushSize - 1)
    BY <1>8 DEF TokenMatch, BitsInv, Resident, MaxCodeLen
  <2>2. /\ 7 \in 0..63 /\ 22 \in 0..63 /\ 27 \in 0..63 /\ 42 \in 0..63 /\ 63 \in 0..63
        /\ lc \in 0..63 /\ oc \in 0..63 /\ le \in 0..63 /\ oe \in 0..63
        /\ 7 + lc <= 22 /\ 22 + le <= 27 /\ 27 + oc <= 42 /\ 42 + oe <= 63
    BY <2>1
  <2>3. Within(put(b, lc), 22, FlushSize - 1)
    BY <2>1, <2>2, PutMore, ZenonT(40)
  <2>4. Within(put(put(b, lc), le), 27, FlushSize - 1)
    BY <2>2, <2>3, PutMore, ZenonT(40)
  <2>5. Within(put(put(put(b, lc), le), oc), 42, FlushSize - 1)
    BY <2>2, <2>4, PutMore, ZenonT(40)
  <2>6. Within(put(put(put(put(b, lc), le), oc), oe), 63, FlushSize - 1)
    BY <2>2, <2>5, PutMore, ZenonT(40)
  <2>7. QED
    BY <1>8, <2>6, TokenStep DEF TokenMatch
<1>9. ASSUME NEW ok \in BOOLEAN, NEW eob \in CodeLens \cup {0}, TokensEnd(eob, ok)
      PROVE  BitsInv'
  <2>1. eob \in 0..16 /\ Within(b, 47, FlushSize - 1)
    BY <1>9 DEF TokensEnd, BitsInv, Resident, MaxCodeLen, Within, Buffers
  <2>2. Within(writeBits(b, eob, ok), 47, FlushSize - 1)
    BY <2>1, WriteBitsWithin
  <2>3. QED
    BY <1>9, <2>1, <2>2 DEF TokensEnd, None, BitsInv, Resident
<1>10. ASSUME NEW ok \in BOOLEAN, NEW c1 \in CodeLens, NEW c2 \in CodeLens, NEW c3 \in CodeLens,
              Huff3(c1, c2, c3, ok)
       PROVE  BitsInv'
  <2> DEFINE a == IF b.nbits >= 8 THEN byteFlush(b) ELSE b
  <2>1. /\ c1 \in 1..15 /\ c2 \in 1..15 /\ c3 \in 1..15 /\ Within(b, 63, FlushSize - 1)
    BY <1>10 DEF Huff3, BitsInv, Resident, MaxCodeLen, Within, Buffers
  <2>2. Within(a, 7, FlushSize + 6)
    BY <2>1, ByteFlushWithin DEF Within, Buffers
  <2> HIDE DEF a
  <2>3. CASE givesUp(a)
    BY <1>10, <2>2, <2>3, LoopStep DEF Huff3, a
  <2>4. CASE ~givesUp(a)
    <3> DEFINE x == written(a, ok)
    <3>1. Within(x, 7, FlushSize - 1)
      BY <2>2, <2>4, WrittenWithin
    <3>2. b' = put(put(put(x, c1), c2), c3) /\ UNCHANGED <<pc, saved>>
      BY <1>10, <2>4 DEF Huff3, a
    <3> HIDE DEF x
    <3>3. /\ 7 \in 0..63 /\ 22 \in 0..63 /\ 37 \in 0..63 /\ 52 \in 0..63
          /\ c1 \in 0..63 /\ c2 \in 0..63 /\ c3 \in 0..63
          /\ 7 + c1 <= 22 /\ 22 + c2 <= 37 /\ 37 + c3 <= 52
      BY <2>1
    <3>4. Within(put(x, c1), 22, FlushSize - 1)
      BY <3>1, <3>3, PutMore, ZenonT(40)
    <3>5. Within(put(put(x, c1), c2), 37, FlushSize - 1)
      BY <3>3, <3>4, PutMore, ZenonT(40)
    <3>6. Within(put(put(put(x, c1), c2), c3), 52, FlushSize - 1)
      BY <3>3, <3>5, PutMore, ZenonT(40)
    <3>7. QED
      BY <1>10, <3>2, <3>6 DEF Huff3, BitsInv, Resident
  <2>5. QED
    BY <2>3, <2>4
<1>11. ASSUME NEW ok \in BOOLEAN, NEW c \in CodeLens, HuffRest(c, ok)
       PROVE  BitsInv'
  <2> DEFINE a == IF b.nbits >= 48 THEN sixBytes(b) ELSE b
  <2>1. c \in 1..15 /\ Within(b, 62, FlushSize - 1)
    BY <1>11 DEF HuffRest, BitsInv, Resident, MaxCodeLen, Within, Buffers
  <2>2. Within(a, 47, FlushSize + 6)
    <3>1. CASE b.nbits >= 48
      <4>1. 62 \in 48..63
        OBVIOUS
      <4>2. Within(sixBytes(b), 62 - 48, FlushSize + 5)
        BY <2>1, <3>1, <4>1, SixBytesWithin
      <4>3. a = sixBytes(b)
        BY <3>1
      <4> HIDE DEF a
      <4>4. QED
        BY <4>2, <4>3 DEF Within, Buffers
    <3>2. CASE ~(b.nbits >= 48)
      BY <2>1, <3>2 DEF Within, Buffers
    <3>3. QED
      BY <3>1, <3>2
  <2> HIDE DEF a
  <2>3. CASE givesUp(a)
    BY <1>11, <2>2, <2>3, LoopStep DEF HuffRest, a
  <2>4. CASE ~givesUp(a)
    <3> DEFINE x == written(a, ok)
    <3>1. Within(x, 47, FlushSize - 1)
      BY <2>2, <2>4, WrittenWithin
    <3>2. b' = put(x, c) /\ pc' = "huffRest" /\ UNCHANGED saved
      BY <1>11, <2>4 DEF HuffRest, a
    <3> HIDE DEF x
    <3>3. 47 \in 0..63 /\ c \in 0..63 /\ 62 \in 0..63 /\ 47 + c <= 62
      BY <2>1
    <3>4. Within(put(x, c), 62, FlushSize - 1)
      BY <3>1, <3>3, PutMore, ZenonT(40)
    <3>5. QED
      BY <1>11, <3>2, <3>4 DEF HuffRest, BitsInv, Resident
  <2>5. QED
    BY <2>3, <2>4
<1>12. ASSUME NEW ok \in BOOLEAN, NEW eob \in CodeLens \cup {0}, HuffEnd(eob, ok)
       PROVE  BitsInv'
  <2> DEFINE a == IF b.nbits >= 48 THEN writeOutBits(b, ok) ELSE b
  <2>1. eob \in 0..16 /\ Within(b, 62, FlushSize - 1)
    BY <1>12 DEF HuffEnd, BitsInv, Resident, MaxCodeLen, Within, Buffers
  <2>2. Within(a, 47, FlushSize - 1)
    <3>1. CASE b.nbits >= 48
      <4>1. 62 \in 48..63
        OBVIOUS
      <4>2. Within(writeOutBits(b, ok), 62 - 48, FlushSize - 1)
        BY <2>1, <3>1, <4>1, WriteOutBitsWithin
      <4>3. a = writeOutBits(b, ok)
        BY <3>1
      <4> HIDE DEF a
      <4>4. QED
        BY <4>2, <4>3 DEF Within, Buffers
    <3>2. CASE ~(b.nbits >= 48)
      BY <2>1, <3>2 DEF Within, Buffers
    <3>3. QED
      BY <3>1, <3>2
  <2>3. b' = (IF eob = 0 THEN a ELSE writeBits(a, eob, ok)) /\ pc' = "idle" /\ saved' = None
    BY <1>12 DEF HuffEnd
  <2> HIDE DEF a
  <2>4. Within(writeBits(a, eob, ok), 47, FlushSize - 1)
    BY <2>1, <2>2, WriteBitsWithin
  <2>5. QED
    BY <2>2, <2>3, <2>4 DEF None, BitsInv, Resident
<1>13. CASE UNCHANGED bitVars
  BY <1>13 DEF bitVars, BitsInv, Resident, Within, Adjoined
<1>14. QED
  BY <1>1, <1>2, <1>3, <1>4, <1>5, <1>6, <1>7, <1>8, <1>9, <1>10, <1>11, <1>12, <1>13 DEF NextBits

\* How full accumulator and buffer may be at each place of the writer's loops.
THEOREM BitsInvariance == SpecBits => []BitsInv
BY BitsInit, BitsNext, PTL DEF SpecBits

\* Every bit that is produced gets to its place, for every length of codes,
\* extra bits and fields the format has: no code is shifted out of the 64-bit
\* accumulator, and stored blocks begin at a byte boundary.
THEOREM BitsAlwaysInPlace == SpecBits => []BitsInPlace
<1>1. BitsInv => BitsInPlace
  BY DEF BitsInv, Within, Buffers, BitsInPlace
<1>2. QED
  BY <1>1, BitsInvariance, PTL

\* No store of eight bytes reaches past w.bytes, whatever bufferFlushSize is,
\* as long as it leaves a margin of seven bytes and fits a uint8.
THEOREM StoresAlwaysInBuffer == SpecBits => []StoresInBuffer
<1>1. BitsInv => StoresInBuffer
  BY DEF BitsInv, Within, Buffers, Resident, StoresInBuffer
<1>2. QED
  BY <1>1, BitsInvariance, PTL

HIDE BitBufferAssumption

=============================================================================
