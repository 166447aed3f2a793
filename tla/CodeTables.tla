----------------------------- MODULE CodeTables -----------------------------
(***************************************************************************)
(* A dynamic Huffman block, from symbol frequencies to decoded symbols:    *)
(* the writer makes the codes, run-length codes their lengths in place and *)
(* writes header and symbols (flate/huffman_bit_writer.go); the reader     *)
(* reads the lengths back, builds its tables and looks the symbols up      *)
(* (flate/inflate.go), a byte at a time.  Bit strings are sequences of     *)
(* bits in stream order.                                                   *)
(***************************************************************************)
EXTENDS HuffmanCode

CONSTANTS
  ChunkBits,  \* huffmanChunkBits: 9
  Blocks      \* the blocks: [lit, off (used frequencies), maxBits, final, lead]

literalCount == 286
offsetCodeCount == 30
endBlockMarker == 256

\* indexTokens gives every block an end of block code and an offset code; there are enough
\* codewords of maxBits bits.
ASSUME CodeTablesAssumption ==
  /\ ChunkBits \in 1..14
  /\ \A b \in Blocks :
       /\ b.maxBits \in 1..15 /\ b.lead \in 0..7
       /\ DOMAIN b.lit \subseteq (0..(literalCount - 1)) \ {endBlockMarker}
       /\ b.lit \in [DOMAIN b.lit -> Nat \ {0}]
       /\ DOMAIN b.off \subseteq 0..(offsetCodeCount - 1)
       /\ b.off \in [DOMAIN b.off -> Nat \ {0}]
       /\ Cardinality(DOMAIN b.lit) + 1 <= pow2[b.maxBits]
       /\ Cardinality(DOMAIN b.off) <= pow2[b.maxBits]

badCode == 255
codegenOrder == <<16, 17, 18, 0, 8, 7, 9, 6, 10, 5, 11, 4, 12, 3, 13, 2, 14, 1, 15>>

VARIABLES
  blk,     \* the block to be written
  stage,   \* "generate", "codegen", "write", "read", "lengths", "decode", "done"
  w,       \* the writer: frequencies, codes and numbers of codes
  cg,      \* generateCodegen: [codegen, freq, size, inIndex, outIndex]
  cgCodes, \* codegenEncoding
  in,      \* the stream
  f        \* the decompressor

tableVars == <<blk, stage, w, cg, cgCodes, in, f>>

\* writeBits: the lowest bit first.
fieldBits(v, n) == [k \in 1..n |-> (v \div 2 ^ (k - 1)) % 2]

\* What the bits stand for, as a field.
valueOf(bits) ==
  LET last[k \in 0..Len(bits)] == IF k = 0 THEN 0 ELSE bits[Len(bits) + 1 - k] + 2 * last[k - 1]
  IN last[Len(bits)]

times(n, x) == [k \in 1..n |-> x]

-----------------------------------------------------------------------------
(* The writer.                                                             *)

\* Mutated form of repeats: one copy more than a repeat code can count.
repeatsLong(count, least, most, code) ==
  LET full == count \div (most + 1)
      left == count % (most + 1)
  IN times(full, <<code, most + 1 - least>>)
     \o (IF left >= least THEN <<<<code, left - least>>>> ELSE << >>)

\* "count" copies in steps of at most most, as long as at least least are left.
repeats(count, least, most, code) ==
  LET full == count \div most
      left == count % most
  IN times(full, <<code, most - least>>)
     \o (IF left >= least THEN <<<<code, left - least>>>> ELSE << >>)

\* Mutated form of runCodes: count is not reset after code 17.
runCodesTwice(size, count) ==
  LET again == count - 1
      zeros == count % 138
  IN IF size # 0
     THEN <<<<size>>>> \o repeats(again, 3, 6, 16)
          \o times(IF again % 6 < 3 THEN again % 6 ELSE 0, <<size>>)
     ELSE repeats(count, 11, 138, 18)
          \o (IF zeros \in 3..10 THEN <<<<17, zeros - 3>>>> ELSE << >>)
          \o (IF zeros <= 10 THEN times(zeros, <<0>>) ELSE << >>)

\* The codes for count copies of size: a code, and what follows it if it is a
\* repeat.
runCodes(size, count) ==
  LET again == count - 1
      zeros == count % 138
  IN IF size # 0
     THEN <<<<size>>>> \o repeats(again, 3, 6, 16)
          \o times(IF again % 6 < 3 THEN again % 6 ELSE 0, <<size>>)
     ELSE repeats(count, 11, 138, 18)
          \o (IF zeros \in 3..10 THEN <<<<17, zeros - 3>>>>
              ELSE IF zeros < 3 THEN times(zeros, <<0>>) ELSE << >>)

\* generateCodegen, where it starts: the lengths, and a marker at the end.
codegenStart(lens) ==
  LET n == Len(lens)
  IN [codegen |-> [i \in 0..n |-> IF i = n THEN badCode ELSE lens[i + 1]],
      freq |-> [c \in 0..18 |-> 0], size |-> lens[1], inIndex |-> 1, outIndex |-> 0]

\* The iterations of generateCodegen's loop up to the end of a run: the lengths are
\* overwritten by their codes while they are read.  g.size was read at g.inIndex - 1.
codegenRun(g) ==
  LET next == Min({i \in DOMAIN g.codegen : i >= g.inIndex /\ g.codegen[i] # g.size})
      codes == runCodes(g.size, 1 + next - g.inIndex)
      out == FlattenSeq(codes)
      end == g.outIndex + Len(out)
  IN [codegen |-> [i \in DOMAIN g.codegen |->
                     IF i \in g.outIndex..(end - 1) THEN out[i - g.outIndex + 1]
                     ELSE g.codegen[i]],
      freq |-> [c \in 0..18 |-> g.freq[c] + Cardinality({k \in DOMAIN codes : codes[k][1] = c})],
      size |-> g.codegen[next], inIndex |-> next + 1, outIndex |-> end]

used(freq) == [s \in {t \in DOMAIN freq : freq[t] # 0} |-> freq[s]]

\* codegens: the code lengths at the end of the order that are not sent.
codegens == Max({4} \cup {k \in 1..19 : cg.freq[codegenOrder[k]] # 0})

\* Mutated form of headerSize: three bits for every run of zeros.
headerSizeShort ==
  3 + 5 + 5 + 4 + 3 * codegens
  + MapThenSumSet(LAMBDA c : cg.freq[c] * Len(cgCodes[c]), 0..18)
  + 2 * cg.freq[16] + 3 * cg.freq[17] + 3 * cg.freq[18]

\* headerSize: what the header is taken to cost.
headerSize ==
  3 + 5 + 5 + 4 + 3 * codegens
  + MapThenSumSet(LAMBDA c : cg.freq[c] * Len(cgCodes[c]), 0..18)
  + 2 * cg.freq[16] + 3 * cg.freq[17] + 7 * cg.freq[18]

\* indexTokens and generate: the codes of the block.
lensOf(codes, n) == [i \in 1..n |-> Len(codes[i - 1])]

Generate ==
  /\ stage = "generate"
  /\ LET lit == [s \in DOMAIN blk.lit \cup {endBlockMarker} |->
                  IF s = endBlockMarker THEN 1 ELSE blk.lit[s]]
         off == IF blk.off = << >> THEN [o \in {0} |-> 1] ELSE blk.off
         litCodes == generate(lit, literalCount, blk.maxBits)
         offCodes == generate(off, offsetCodeCount, blk.maxBits)
         numLiterals == Max(DOMAIN lit) + 1
         numOffsets == Max(DOMAIN off) + 1
     IN /\ w' = [litFreq |-> lit, offFreq |-> off, lit |-> litCodes, off |-> offCodes,
                 numLiterals |-> numLiterals, numOffsets |-> numOffsets]
        /\ cg' = codegenStart(lensOf(litCodes, numLiterals) \o lensOf(offCodes, numOffsets))
  /\ stage' = "codegen"
  /\ UNCHANGED <<blk, cgCodes, in, f>>

Codegen ==
  /\ stage = "codegen" /\ cg.size # badCode
  /\ cg' = codegenRun(cg)
  /\ UNCHANGED <<blk, stage, w, cgCodes, in, f>>

\* The code lengths are read to the end: a code for the codes is generated.
GenerateCodegenCode ==
  /\ stage = "codegen" /\ cg.size = badCode
  /\ cgCodes' = generate(used(cg.freq), 19, 7)
  /\ stage' = "write"
  /\ UNCHANGED <<blk, w, cg, in, f>>

\* writeDynamicHeader, the codes of the lengths: a repeat is followed by its
\* count.
codegenBits ==
  LET from[i \in 0..cg.outIndex] ==
        LET c == cg.codegen[i]
            extra == CASE c = 16 -> 2 [] c = 17 -> 3 [] c = 18 -> 7 [] OTHER -> 0
        IN IF i = cg.outIndex THEN << >>
           ELSE IF extra = 0 THEN cgCodes[c] \o from[i + 1]
           ELSE cgCodes[c] \o fieldBits(cg.codegen[i + 1], extra) \o from[i + 2]
  IN from[0]

header ==
  LET n == codegens
  IN fieldBits(IF blk.final THEN 5 ELSE 4, 3)
     \o fieldBits(w.numLiterals - 257, 5) \o fieldBits(w.numOffsets - 1, 5)
     \o fieldBits(n - 4, 4)
     \o FlattenSeq([i \in 1..n |-> fieldBits(Len(cgCodes[codegenOrder[i]]), 3)])
     \o codegenBits

\* The symbols of the block: every literal, every length with every offset.
message ==
  LET ascending(S) == inOrder(S, <)
      lits == ascending({s \in DOMAIN blk.lit : s < endBlockMarker})
      lengths == ascending({s \in DOMAIN blk.lit : s > endBlockMarker})
      offs == ascending(DOMAIN blk.off)
      pairs == FlattenSeq([i \in DOMAIN lengths |->
                             FlattenSeq([j \in DOMAIN offs |-> <<lengths[i], offs[j]>>])])
  IN lits \o pairs \o <<endBlockMarker>>

\* An offset follows a length.
isOffset(k) == k > 1 /\ message[k - 1] > endBlockMarker

messageBits ==
  FlattenSeq([k \in DOMAIN message |->
                IF isOffset(k) THEN w.off[message[k]] ELSE w.lit[message[k]]])

\* The block, what the last byte still holds of the block before, and the
\* shortest block there is after it, a fixed one with nothing in it.
Write ==
  /\ stage = "write"
  /\ LET bits == times(blk.lead, 1) \o header \o messageBits
                 \o (IF blk.final THEN << >> ELSE fieldBits(3, 3) \o times(7, 0))
     IN /\ in' = bits \o times((8 - (Len(bits) % 8)) % 8, 0)
        /\ f' = LET n == IF blk.lead = 0 THEN 0 ELSE 1
                IN [f EXCEPT !.roffset = n, !.b = SubSeq(in', blk.lead + 1, 8 * n)]
  /\ stage' = "read"
  /\ UNCHANGED <<blk, w, cg, cgCodes>>

-----------------------------------------------------------------------------
(* The reader.  f.b holds the f.nb bits that were read and not used.       *)

\* moreBits and the loops around it: bytes are read until there are n bits.
moreBits(x, n) ==
  LET need == IF Len(x.b) >= n THEN 0 ELSE (n - Len(x.b) + 7) \div 8
      k == Min({need, Len(in) \div 8 - x.roffset})
  IN IF x.err THEN x
     ELSE [x EXCEPT !.b = @ \o SubSeq(in, 8 * x.roffset + 1, 8 * (x.roffset + k)),
                    !.roffset = @ + k, !.err = k < need]

\* A field of n bits.
field(x, n) ==
  LET y == moreBits(x, n)
  IN IF y.err THEN y
     ELSE [y EXCEPT !.sym = valueOf(SubSeq(y.b, 1, n)), !.b = SubSeq(@, n + 1, Len(@))]

chunkNone == [v |-> 0, n |-> 0]
numChunks == 2 ^ ChunkBits
emptyDecoder == [maxRead |-> 0, chunks |-> [k \in 0..(numChunks - 1) |-> chunkNone],
                 links |-> << >>, linkBits |-> 0, ok |-> TRUE]

\* The first ChunkBits bits of a code, as the number they count up to.
reversed == [k \in 0..(numChunks - 1) |-> valueOf(codeBits(k, ChunkBits))]

\* huffmanDecoder.init: the tables for the code with these lengths.  A code of
\* more than ChunkBits bits is found through a table for its first ones.
initTables(h, lengths) ==
  LET len == [i \in {j \in DOMAIN lengths : lengths[j] > 0} |-> lengths[i]]
      syms == DOMAIN len
      lens == {len[i] : i \in syms}
      max == Max(lens)
      count(l) == Cardinality({i \in syms : len[i] = l})
      nextcode[l \in 1..Max({max, ChunkBits + 1})] ==
        IF l = 1 THEN 0 ELSE 2 * (nextcode[l - 1] + count(l - 1))
      code == nextcode[max] + count(max)
      reverse == [i \in syms |->
                    valueOf(codeBits(nextcode[len[i]]
                                     + Cardinality({j \in syms : j < i /\ len[j] = len[i]}), len[i]))]
      short == {i \in syms : len[i] <= ChunkBits}
      link == nextcode[ChunkBits + 1] \div 2
      chunkAt(k) ==
        LET hit == {i \in short : k % 2 ^ len[i] = reverse[i]}
        IN IF hit # {} THEN [v |-> Max(hit) - 1, n |-> len[Max(hit)]]
           ELSE IF max > ChunkBits /\ reversed[k] >= link
                THEN [v |-> reversed[k] - link, n |-> ChunkBits + 1]
           ELSE chunkNone
      linkAt(v, k) ==
        LET hit == {i \in syms \ short : /\ reversed[reverse[i] % numChunks] - link = v
                                         /\ k % 2 ^ (len[i] - ChunkBits) = reverse[i] \div numChunks}
        IN IF hit = {} THEN chunkNone ELSE [v |-> Max(hit) - 1, n |-> len[Max(hit)]]
  IN IF syms = {} THEN [h EXCEPT !.maxRead = 0, !.ok = TRUE]
     ELSE IF code # 2 ^ max /\ ~(code = 1 /\ max = 1) THEN [h EXCEPT !.ok = FALSE]
     ELSE [maxRead |-> Min(lens),
           chunks |-> [k \in 0..(numChunks - 1) |-> chunkAt(k)],
           links |-> IF max <= ChunkBits THEN << >>
                     ELSE [v \in 1..(numChunks - link) |->
                             [k \in 0..(2 ^ (max - ChunkBits) - 1) |-> linkAt(v - 1, k)]],
           linkBits |-> Max({0, max - ChunkBits}),
           ok |-> TRUE]

\* huffSym: with the bits there are, or n at least, a chunk is looked up; if it
\* is longer than that, more are read.
huffSym(x, h, n) ==
  LET with[k \in 0..32] ==
        LET y == moreBits(x, k)
            bits(i, j) == valueOf(SubSeq(y.b, i, Min({j, Len(y.b)})))
            first == h.chunks[bits(1, ChunkBits)]
            chunk == IF first.n <= ChunkBits THEN first
                     ELSE h.links[first.v + 1][bits(ChunkBits + 1, ChunkBits + h.linkBits)]
        IN IF y.err THEN y
           ELSE IF chunk.n > Len(y.b) THEN with[chunk.n]
           ELSE IF chunk.n = 0 THEN [y EXCEPT !.err = TRUE]
           ELSE [y EXCEPT !.sym = chunk.v, !.b = SubSeq(@, chunk.n + 1, Len(@))]
  IN with[n]

\* The lengths of the codes for the lengths, in their order.
codebitRead(x, i) ==
  LET y == field(x, 3)
  IN IF x.err THEN x ELSE [y EXCEPT !.codebits[codegenOrder[i] + 1] = y.sym]

readCodebits(x, nclen) ==
  LET read[i \in 0..nclen] == IF i = 0 THEN x ELSE codebitRead(read[i - 1], i)
  IN read[nclen]

\* Mutated form of eobRead: one bit more than the shortest next block has.
eobReadLong(h, eob, final) ==
  [h EXCEPT !.maxRead = Max({@, eob}) + (IF final THEN 0 ELSE 11)]

\* Every block ends with an end of block code, and one that is not the last is
\* followed by ten bits at least: so many may be read at a time.
eobRead(h, eob, final) ==
  [h EXCEPT !.maxRead = Max({@, eob}) + (IF final THEN 0 ELSE 10)]

\* The block header (nextBlock), and readHuffman up to the code lengths.
readHeader(x0) ==
  LET x1 == field(x0, 3)
      x2 == moreBits(x1, 14)
      nlit == field(x2, 5)
      ndist == field(nlit, 5)
      nclen == field(ndist, 4)
      x3 == readCodebits([nclen EXCEPT !.codebits = times(19, 0)], nclen.sym + 4)
      h1 == initTables(x3.h1, x3.codebits)
      y == [x3 EXCEPT !.final = x1.sym % 2 = 1, !.nlit = nlit.sym + 257, !.ndist = ndist.sym + 1,
                      !.h1 = h1, !.bits = << >>]
  IN [y EXCEPT !.err = @ \/ y.nlit > literalCount \/ y.ndist > offsetCodeCount \/ ~h1.ok]

ReadHeader ==
  /\ stage = "read"
  /\ f' = readHeader(f)
  /\ stage' = IF f'.err THEN "done" ELSE "lengths"
  /\ UNCHANGED <<blk, w, cg, cgCodes, in>>

\* An iteration of readHuffman's loop over the n code lengths: one or a run of them.
readLength(x, n) ==
  LET y == huffSym(x, x.h1, x.h1.maxRead)
      c == y.sym
      z == field(y, CASE c = 16 -> 2 [] c = 17 -> 3 [] OTHER -> 7)
      rep == (IF c = 18 THEN 11 ELSE 3) + z.sym
      value == IF c = 16 THEN Last(y.bits) ELSE 0
  IN IF y.err THEN y
     ELSE IF c < 16 THEN [y EXCEPT !.bits = Append(@, c)]
     ELSE IF c = 16 /\ y.bits = << >> THEN [y EXCEPT !.err = TRUE]
     ELSE IF z.err \/ Len(y.bits) + rep > n THEN [z EXCEPT !.err = TRUE]
     ELSE [z EXCEPT !.bits = @ \o times(rep, value)]

ReadLength ==
  /\ stage = "lengths" /\ Len(f.bits) < f.nlit + f.ndist
  /\ f' = readLength(f, f.nlit + f.ndist)
  /\ stage' = IF f'.err THEN "done" ELSE "lengths"
  /\ UNCHANGED <<blk, w, cg, cgCodes, in>>

\* The end of readHuffman: the tables of the block.
InitTables ==
  /\ stage = "lengths" /\ Len(f.bits) = f.nlit + f.ndist
  /\ LET h1 == initTables(f.h1, SubSeq(f.bits, 1, f.nlit))
         h2 == initTables(f.h2, SubSeq(f.bits, f.nlit + 1, Len(f.bits)))
     IN f' = IF ~h1.ok \/ ~h2.ok THEN [f EXCEPT !.err = TRUE]
             ELSE [f EXCEPT !.h1 = eobRead(h1, f.bits[endBlockMarker + 1], f.final), !.h2 = h2]
  /\ stage' = IF f'.err THEN "done" ELSE "decode"
  /\ UNCHANGED <<blk, w, cg, cgCodes, in>>

\* huffmanBlock: a symbol of the block, an offset after a length.
Decode ==
  /\ stage = "decode"
  /\ LET h == IF f.out # << >> /\ Last(f.out) > endBlockMarker THEN f.h2 ELSE f.h1
         y == huffSym(f, h, h.maxRead)
     IN /\ f' = IF y.err THEN y ELSE [y EXCEPT !.out = Append(@, y.sym)]
        /\ stage' = IF y.err \/ (h = f.h1 /\ y.sym = endBlockMarker) THEN "done" ELSE "decode"
  /\ UNCHANGED <<blk, w, cg, cgCodes, in>>

-----------------------------------------------------------------------------

InitBlock ==
  /\ blk \in Blocks
  /\ stage = "generate"
  /\ w = << >> /\ cg = << >> /\ cgCodes = << >>
  /\ in = << >>
  /\ f = [b |-> << >>, roffset |-> 0, sym |-> 0, codebits |-> << >>, bits |-> << >>,
          final |-> FALSE, nlit |-> 0, ndist |-> 0,
          h1 |-> emptyDecoder, h2 |-> emptyDecoder, err |-> FALSE, out |-> << >>]

BlockDone == stage = "done" /\ UNCHANGED tableVars

NextOfBlock ==
  \/ Generate \/ Codegen \/ GenerateCodegenCode \/ Write
  \/ ReadHeader \/ ReadLength \/ InitTables \/ Decode
  \/ BlockDone

SpecTables == InitBlock /\ [][NextOfBlock]_tableVars

-----------------------------------------------------------------------------
(* Properties.                                                             *)

\* generateCodegen may put the codes over the lengths "because the output is always
\* shorter than the input used so far" (huffman_bit_writer.go:284): the marker that ends
\* the loop is still there, and no length is overwritten before it was read.
OutputBehind ==
  stage = "codegen" =>
    /\ cg.outIndex < cg.inIndex
    /\ cg.codegen[w.numLiterals + w.numOffsets] = badCode

\* What generate returns is a complete prefix code within the limit it was
\* given, also where computeLengthCounts pulls up nodes that are too deep: the
\* reader refuses any other.
CompleteCodes ==
  /\ stage # "generate" =>
       /\ goodCode(w.litFreq, w.lit, blk.maxBits)
       /\ goodCode(w.offFreq, w.off, blk.maxBits)
  /\ stage \notin {"generate", "codegen"} => goodCode(used(cg.freq), cgCodes, 7)

\* Where the limit cannot bind, "generate updates this huffmanEncoder to be the
\* minimum-cost length-limited code": as good as merging the two rarest again
\* and again.
CostMinimal ==
  LET syms == DOMAIN w.litFreq
  IN stage = "write" /\ Cardinality(syms) - 1 <= blk.maxBits /\ Cardinality(syms) > 1 =>
       MapThenSumSet(LAMBDA s : w.litFreq[s] * Len(w.lit[s]), syms)
         = OptimalCost([i \in 1..Cardinality(syms) |->
                          w.litFreq[inOrder(syms, LAMBDA s, t : s < t)[i]]])

\* headerSize, which decides between a dynamic header and other blocks, is what
\* writeDynamicHeader writes.
HeaderSizeExact == stage = "write" => Len(header) = headerSize

\* The reader gets the lengths the writer had: the codes generateCodegen puts
\* over the lengths it is still reading, and the counts in them, expand to the
\* same lengths, across the limits of the repeat codes and from the literals
\* on into the offsets.
LengthsReadBack ==
  stage \in {"lengths", "decode", "done"} =>
    LET lengths == lensOf(w.lit, w.numLiterals) \o lensOf(w.off, w.numOffsets)
    IN IsPrefix(f.bits, lengths) /\ (stage # "lengths" => f.bits = lengths)

\* Every symbol is decoded to what was written, through the chunk table and the
\* link tables, whatever its place in the byte; no read is attempted past the
\* end, although huffSym reads as many bits ahead as maxRead allows (the input
\* ends with this block, or with the shortest block that can follow); and the
\* bits read ahead fit the accumulator, a uint32.
SymbolsReadBack ==
  /\ ~f.err
  /\ Len(f.b) <= 32 /\ 8 * f.roffset <= Len(in)
  /\ IsPrefix(f.out, message)
  /\ stage = "done" => f.out = message
============================================================================
