# A TLA+ development of aflate

aflate is a Go implementation of DEFLATE (RFC 1951) and of the zlib container
(RFC 1950). These modules model its core from the code, TLC checks them on
small instances, and TLAPS proves the most important results for every size of
buffer and integer. `PROJECT.json` maps each definition to the lines it models.

## 1. The system

| Part | State | Operations | Talks to |
|---|---|---|---|
| `dictDecoder` (`flate/dict_decoder.go`) | ring buffer `hist`, `wrPos`, `rdPos`, `full`, `flushed` | init, writeByte, writeSlice/writeMark, writeCopy, tryWriteCopy, readFlush, appendWindow | owned by the decompressor; `readFlush` returns a slice of the ring |
| `decompressor` (`flate/inflate.go`) | `step`, `stepState`, `copyLen`, `copyDist`, `final`, `err`, `toRead`, checkpoint offsets | Read, WriteTo, Reset, ResetCP, reader options, end-of-block callback | pulls bytes from an `io.ByteReader`, writes the ring |
| Huffman block decoders (`flate/inflate_gen.go`) | the same, and local bit buffers | one machine, generated five times for the kinds of reader | return to the decompressor when the ring is full |
| `huffmanBitWriter` (`flate/huffman_bit_writer.go`) | tables, `lastHeader` (an open table that owes an end of block), `lastHuffMan`, bit and byte buffer, `err` | writeBlockDynamic, writeBlockHuff, writeStoredHeader, writeBytes, flush, reset | writes the destination |
| header cache (`flate/warmtable.go`) | the bytes of the last first header, valid flag | warmUsable, captureHeader, replayHeader | part of the bit writer |
| `compressor` / `Writer` (`flate/deflate.go`) | `window`, `windowEnd`, `tokens`, `sync`, `err`, dictionary | Write, Flush, Close, Reset, ResetDict; a step per level | encoder, bit writer |
| fast encoders (`flate/fast_encoder.go`, `flate/level1.go` … `level6.go`) | history `hist`, base `cur`, match table of int32 positions | Encode, Reset | called by storeFast |
| lazy matching, levels 7-9 (`flate/deflate.go`) | 64 KiB window, hash chains | fillDeflate, deflateLazy | bit writer |
| stateless (`flate/stateless.go`) | none between calls; two pools | StatelessDeflate | bit writer |
| Huffman codes (`flate/huffman_code.go`, `flate/huffman_fast.go`), tokens (`flate/token.go`) | arrays | generate, AddMatch… | bit writer |
| zlib (`zlib/writer.go`, `zlib/reader.go`) | header, Adler-32, sticky `err` | Write, Close, Reset; NewReader, Read | `flate.Writer`, `flate` reader |

Everything is sequential: no goroutine is started, and a value is used by one
goroutine at a time. What is hard is of another kind. Output is produced in
*steps* that suspend in the middle of a block or of a copy and resume from
recorded state. Objects are *reused*: reset to another stream at any moment,
with buffers, tables and caches kept for speed. Errors come from a source or a
destination in the middle of anything and must be sticky. Positions are kept in
32-bit or 16-bit integers in a stream of unbounded length. And a compressed
stream is only right if a decoder, which knows nothing but the bits, can follow
every sequence of blocks, flushes and table reuses. `PROJECT.json` lists these
hazards one by one, with the properties that would catch them.

What makes each part correct:

* the ring is an unbounded stream with a bounded view of it;
* the decompressor delivers each decoded byte once and in order, then the right
  error, and a checkpoint resumes exactly where it was taken;
* a decoder can follow what the bit writer writes, a success of Flush or Close
  means that the data has arrived, and every call returns;
* a match refers to bytes that really are in the window, positions do not
  overflow, tokens tile the input;
* the zlib reader reports a clean end only for data it has verified.

## 2. Modules

**`LZ77`** is an abstract specification: one ever-growing stream, extended by
literals and by copies from at most `W` back, delivered in order.

**`DictDecoder`** is `dictDecoder`. Its variables are the fields, plus the
program counter and locals of a copy in progress (`pc`, `local`) and a history
variable `emitted`. Every method is an action; the loops of `writeCopy` and
`tryWriteCopy` take one step per call of the builtin `copy`, with memmove
semantics, so that the LZ77 meaning of an overlapping copy is a result and not an
assumption. Actions have the preconditions their comments state.

**`Inflate`** is the decompressor with the block decoders. Its input is a
sequence of items (block headers, stored bytes, literals, pairs, end of block,
invalid codes) that may be cut off anywhere, with the error the reader then
gives. `pc` distinguishes the places inside a step (`readLiteral`,
`copyHistory`, `copyData`); each returns to `Read` or `WriteTo`, whose loops are
actions as well. The window holds the *number* of each byte of the stream, so
that a slice of it that is overwritten before it was read is noticed. `Fresh`
is what `Reset`, `ResetCP` and a resumed reader start from.
Where an item lies is counted in bits: an input says at which bit each of its
items starts (`start`) and with how many bits at least a symbol of a block is read
(`maxRead`). The machine counts as the code does, `roffset` whole bytes read and `nb` bits
of them waiting: `Take` reads an item, `StoredHeader` drops the padding and counts the bytes
that are left once more (line 614), `finishBlock` computes from the two numbers the place
a checkpoint names, and `Seek` goes to it.
Abstractions: Huffman tables and the values of bits (a code is an item; an invalid
dynamic header is an item `invalid`); the five generated copies are one machine;
`applyCP`'s read of the byte that holds the first bits is assumed to succeed; the
bytes taken by a read that fails are not counted, as no checkpoint follows.
`ResetCP` and `NewReaderFrom` resume only from checkpoints that name the start of a block
(`Placed`): what the bits at another place would decode to is not modelled. That there
are such checkpoints is the finding of `inflate_checkpoints`.

**`HuffmanBitWriter`** has no variables: it defines the bit writer and the
header cache as operators on a record `w`. A table is the set of symbols with a
code and a shape. Which encoding is smallest is chosen by the environment
(`Outcomes`), so every outcome of the size comparisons is explored in every state;
the guards that are not about size (`canReuse`, `warmUsable`, `atStreamStart`,
`eof`, `lastHuffMan`) are as in the code. `w.dec` is a decoder, written from
RFC 1951, that has read what `w` has written and knows the tables from
headers only; it is `corrupt` once it cannot follow. The swap of
`literalEncoding` and `tmpLitEncoding` is the replacement of the table. An
`emit` onto a destination that fails may fail at any point at which the code
could write. What the bits of a block are, and where in the buffer they lie, is
in `CodeTables` and `BitBuffer`. The bit writer's own `writeBlock` is reached only
from the compressor's `writeBlockSkip`, which nothing calls.

**`BitBuffer`** is the same writer seen from below: the 64-bit accumulator,
`nbits` (a uint8), `nbytes` (a uint8), the eight-byte stores into `w.bytes`, and the
three loops that fill it, each with a rule of its own: `writeBits`/`writeCode`,
`writeTokens` (after every token) and `writeBlockHuff` (three codes at a time). Bits
have no value here, only a place: `base` is the number of the lowest bit in
the accumulator and `pending` the bits produced so far, so a bit that is lost,
doubled or put in the wrong place makes the two disagree. The loops work on local
copies while `saved` keeps the fields, as in the code.

**`HuffmanCode`** is `huffmanEncoder.generate` as operators: `sortSymbols` by its
counters (a symbol's `place`), the tree built in place an inner node a time (`treeStep`),
depth counting with lengths over the limit pulled up (`deeper`), and canonical
codewords. `goodCode` says what a code must be; `OptimalCost` is the other
reference: the cost of an optimal code, by merging the two rarest again and again.
Weights are not cut to the 22 bits the code leaves them beside a symbol: the frequencies
of a block sum up to far less.

**`CodeTables`** takes one block from its histogram (`Generate`) through
`generateCodegen`, a run of equal lengths a step (`Codegen`: the codes go into the array that still
holds the lengths; `cg` is that array, its two indices and the frequencies) and the
code for those codes (`GenerateCodegenCode`) to `headerSize` and the bits of
`writeDynamicHeader` (`Write`). It reads those bits back a byte at a time:
`readHuffman` up to the lengths (`ReadHeader`), its loop, an iteration a step (`ReadLength`),
`huffmanDecoder.init` with chunks and links (`InitTables`), and the symbols
with `huffSym` (`Decode`). Alphabets, `codegenOrder`, repeat codes and the nine chunk bits
are the real ones. Extra bits of lengths and offsets are left out, as is the fixed code.

**`Compressor`** is `compressor` and `Writer` for levels -2 to 6 on top of it:
the window, the tokens, `sync`, `err`, the dictionary; one action per call and
one per iteration of `write`. `Encode` is what the interface of the encoders
promises: tokens of the block, or none. Of an input shorter than `MinEncode` it
sets the number of tokens and fills none, so that what is emitted is not the input. A full window may be as short as
that, if `BlockSize` is; where it is not, the window is `Searchable`. `NewWriterDict` is `NewWriter`
followed by the dictionary. Using a Writer after a successful Close without
resetting it is not modelled, and dictionaries are kept within a block (see
section 3).

**`DeflateLazy`** is the compressor of levels 7-9: `fillDeflate` and its slide of
the doubled window, `fillWindow`, `deflateLazy` with its held-back match and the
check for an earlier start, `findMatch`, hash heads and chains, `hashOffset`, `blockStart`,
the skip over incompressible data (`SkipStep` is the 64 bytes of `ii >> 6`), Write
(an empty one returns at once), Flush, Close and Reset with a dictionary. Its
window holds real bytes over a small alphabet, so whether two places match is
computed; the hash collides on purpose. What the bit writer does with a block is a
choice. History fields of `d` follow the tokens: `tpos` (first byte without one),
`bpos` (where the block began), `gone` (the bytes that left last) and `bad`.

**`Stateless`** is `StatelessDeflate`: its loop over blocks, the dictionary that is
given and the one kept from the input, alignment and end. Calls follow each
other on one destination. `statelessWriter` only wraps it.

**`FastEnc`** is level 1's encoder with `fastGen`: `cur`, the length of the
history, the table, and the locals of `Encode`. Which hash a position has and
whether the bytes at two positions agree is left open, so the result holds for all
data. `truth` is a history variable: where the bytes an entry was made for now
are, or `Gone`. int32 wraps (`int32`). The indexing at the end of a match,
`if int(s+l+8) < len(src)` (line 176), is modelled; since `s >= sLimit` there it
never happens. Distances, like all positions, are int32 and so may be
negative after a wrap: comparisons with the window size are signed or unsigned
as in the code. Level 1 splits a match that is longer than 258 bytes inside `Encode` (`level1.go`
lines 149-167); `match` takes it as one piece, and only levels 2-6, which call `AddMatchLong`,
have their splitting modelled, in `FastLevels`.

**`FastLevels`** has all six match finders on top of `FastEnc`: the tables of
level 2, the two positions per hash of level 3, the second table of levels 4-6
(two positions per hash at 5 and 6), `repeat` at level 6, what each level enters when it
searches, after a match and between two, what it keeps when `cur` is taken
down, and how levels 5 and 6 replace a match by a longer one. Choosing the
better match is a step of its own, so that every match that is considered,
not only the one emitted, is checked against the history. `piece` and `said`
are `AddMatchLong`'s splitting of a match over 258 bytes. As in `FastEnc` hashes and
byte agreement are open, and so is which of two matches is longer.
After a match level 2 looks at the next position like level 1, but leaves the entry of
that position as it found it when there is a second match (`second2`).
`fastEncL5Window` is level 5 with the window's size for `MaxOff`. The strides at
which a match's bytes are indexed depend on a minimum match of 4, which is kept
in the instance.

**`Zlib`** is the writer and the reader of the container. The reader is given the bytes as
they were written, or cut off anywhere, or with one unit changed: a header byte by one, a data
byte or half of a checksum to anything else. The end of the inner stream is not changed,
and nothing is taken out of the middle. The inner
DEFLATE stream is abstracted to its bytes and an end; a checksum identifies the data
(collisions of Adler-32 are left out). `Reader.Close` changes no state.

`MC*` modules hold constants for TLC, `*Proofs` modules the theorems about the
module they are named after, `DecodingProofs` those about `DictDecoder` and `CodeTables` (section 4).

## 3. Runs

| Run | Question | Instance |
|---|---|---|
| `dict_decoder` | is the ring an LZ77 stream? | window of 4, two byte values, copies up to 6, 8 bytes between inits, dictionaries empty, short, longer than the window |
| `inflate` | what is delivered, with which error; does every call return; are reset and resume clean; does a checkpoint name the bit its block starts at, unless bytes were counted twice before it? | window of 3; all streams of one or two blocks from a menu of ten, or two with a sync marker between, whole, and one-block streams cut after every item; buffers of 1 and 2; Read and WriteTo; both flush modes; for two streams of three and four blocks one reset at any moment or resumption from any checkpoint that names its block; half of the Huffman blocks are dynamic, with more or less than a byte read ahead behind them |
| `inflate_checkpoints` | *violation*: the place of a checkpoint behind a stored block | the same streams, `Read` with a buffer of 2, no reuse |
| `compressor` | can a decoder follow levels -2 to 6; are failures of the destination reported; does the loop of Write advance? | window of 3, up to 6 bytes in writes of 1 and 3, flush, close, one reset, dictionaries, two table shapes, destinations that never fail or fail after 0, 1, 2, 4 or 6 writes |
| `compressor_small` | *violation*: levels 1-6 with a block too small for `Encode` | window of 2, `MinEncode` 3, up to 6 bytes, no dictionary |
| `bit_buffer` | is every bit where it belongs, every store inside the buffer? | 64-bit accumulator; codes of 1 and 15 bits, extra bits 0 and 5, 0 and 13, fields of 3 and 16; a buffer of 14 flushed at 7 |
| `code_tables` | does the run-length code of the lengths stay behind what it reads; do a block's header and its symbols read back; is the code complete, and cheapest when the limit does not bind; is the size estimate exact? | real alphabets; few symbols with all frequencies under a limit that binds and one that does not, runs around every limit of the repeat codes, Fibonacci trees deeper than the limits of 6 and 15 |
| `deflate_lazy` | do the tokens of levels 7-9 decode to the data; is a stored block the block's bytes; do the loops advance? | window of 8 (twice), matches of 2 to 5, blocks of 3 tokens, up to 28 bytes in writes of five kinds, one of them empty, colliding hash, three dictionaries, one reset, `hashOffset` wrapping at 16 |
| `stateless` | stateless calls on one destination | blocks of 5 with up to 2 of dictionary, inputs of 0, 1, 5, 8, two calls, failing destinations |
| `stateless_eof` | *violation*: the end of a stream of several blocks | one call |
| `fast_levels` | tables and matches of levels 1-6 | window of 6, history of 19, int32 of 46, two short hashes (symmetric) and a long one, blocks of 5 and 13, matches said in pieces of 6 |
| `zlib` | the container | six levels, 3 bytes, two streams, destinations that fail at any unit, every single damage |

**Why the bounds are enough.** In each the window is filled and wrapped several
times, copies are longer than the window, blocks are interrupted at every place
they can be, and at least two streams share an object where reuse is the
question. The compressor's thresholds (13 bytes for `Encode`, 32 and 128 for
small flushes, the block size) are scaled to 2, 1, 3 and 3, which keeps their
order where the defaults have one and makes each case occur. The int32 of
`FastLevels` is small enough that the base is rebased, the history moved down and
the table cleared in every order; the theorems cover all sizes. Two
shapes and one literal are enough to tell a table from the one that replaced it,
and to lack a symbol. A full window that is too short for `Encode` is met in `compressor_small` only;
in `compressor`, as at the default block size, a short one comes from Flush or Close.
`BitBuffer` needs only the extremes of each width, since
what a store leaves behind is monotone in what was put; `DeflateLazy`'s 28 bytes
slide its window of 16 twice and wrap `hashOffset`.

**Fairness.** `DictDecoder` and `Inflate` have `FairSpec`: weak fairness of the
steps *inside* a call, as sequential code runs on until it returns, and for
`ReachesEnd` of a caller who keeps calling Read or WriteTo. No other fairness is
assumed; nothing says that a caller closes or flushes. That the loops of the
compressors end is stated without fairness, by what every iteration
must use up (`LoopTakesInput`, `LoopsAdvance`).

**Violations.** The three violation runs show disagreements between the code
and what its comments or tests say; `findings` in `PROJECT.json` quotes both.

1. `dataBlock` adds the whole bytes left in `b` to `roffset` (`inflate.go` line 614), where they
   already are. Behind a dynamic block that is not final a reader may have up to ten bits more than
   the end of block needs, so a stored block or sync marker there, and whatever follows it, may get a
   checkpoint that is too far on.
2. With a `BlockSize` below 13 at levels 1-6 `Encode` returns before it has made any
   tokens (`level1.go` line 58) and the block is written from what the token buffer held;
   Close returns nil for a stream without the data, where `options.go` lines 28 and 36 call
   such sizes legal.
3. `StatelessDeflate` with `eof` on several blocks may leave the stream without
   a final block.

Two more have a property and a configuration, to be run by hand; TLC finds each
violated on the instance of the component's run:

* `TruncationReported` (`tlc -config InflateTruncated.cfg MCInflate`): a stream cut inside the extra
  bits of a length or a distance ends in `io.EOF` (`inflate_gen.go` lines 121, 149, 217 and their
  copies), not in `io.ErrUnexpectedEOF`, which `inflate_test.go` line 64 wants. `OutcomeCorrect`
  therefore allows either. Under the zlib container the missing trailer is still noticed.
* `DictNotStored` (`tlc -config DeflateLazyDict.cfg MCDeflateLazy`): at levels 7-9 `fillWindow`
  leaves `blockStart` at 0 (`deflate.go` line 264), so the first block's bytes begin with the
  dictionary, and storing that block writes the dictionary as data, where lines 930-932 say that it
  produces no output.

Met while modelling, and not shown by a run (their inputs are outside the
instances):

* A dictionary larger than `BlockSize` can index past the token buffer
  (`deflate.go` lines 225 and 851).
* `huffmanDecoder.init` returns for an empty tree before it clears its chunks
  (`inflate.go` line 154), so on a reused decoder a corrupt stream without
  distance codes decodes by those of an earlier block.
* Level 4 compares a distance with a position (`level4.go` line 114), which only
  affects which of two valid matches is taken.
* The code of `generate` is not of minimum cost, as its comment says, when the
  limit binds; `CostMinimal` states it for the case where it does not.
* The indexing of the tail after the last match of levels 1 and 2 is unreachable.

Each of the passing properties is also broken by a mutated definition (kept in
the modules beside the original, "Mutated form of …").

## 4. Proofs

**`DecodingProofs`** is about `DictDecoder` and, in its second half, about `CodeTables`. For every `W > 0`, every set of bytes, dictionaries and
bounds: `TypeCorrect`, `WindowCorrect`, `ImplementsLZ77`. The refinement maps
`stream` to what was emitted followed by what waits in the ring, and is proved
action by action. The inductive invariant `IInv` adds to the types: what was
emitted in this round of the ring is still in it, and beyond the write position
lies what was emitted in the round before (`RoundInv`, `OldInv`); a copy in its
loop has so far repeated the stream at its distance, and `hist[src..dst-1]` is a
whole number of periods, so that a chunk which starts over at `src` continues the
repetition (`LoopInv`). The last is what makes the doubling copy right, and none of
it follows from the window's integrity between calls alone.

For `CodeTables`: for every set of blocks (any used literals, lengths and offsets, any
frequencies, any limit from 1 to 15 for which there are as many codewords as symbols):
`CodesComplete`, `CodegenBehind`, both from `TablesInvariance`. The steps of `SpecTables` are few;
what carries the proof are lemmas about the operators of `HuffmanCode`. Sorting puts each symbol at
a place of its own (`Places`). Each step of `buildTree` gives two nodes a parent further on, so that every node
but the root has one (`TreeRight`), whichever two are the lightest; that they are the
lightest matters for the cost only. From the root down, `computeLengthCounts` gives each node
its parent's depth and one (`DepthsKept`). While no node is too deep, `Level` says what
`lenCounts` holds: two codewords below each node that was visited, less those that were split since;
beyond the limit there is a shorter codeword to split, because with fewer codewords than
`2^maxLen` not all can have `maxLen` bits. Either way the counts use up the code space exactly
(`LevelKept`, `CountStepKeeps`, `CountsRight`), and the lengths handed out are those counts, the
longest to the rarest (`LengthsCounted`, `LengthsGood`); `GenerateGood` joins them.
`OutputBehind` follows from `Behind`: between two runs no more places are written than were
read, and the marker is there and still to come unless it was the last thing read; a run is never coded in more
places than it has. This is the comment in `generateCodegen`, "the output is always shorter than the input used so far".

**`FastEncProofs`**, for every size that satisfies `FastEnc`'s assumptions (the
ones the constants of `fast_encoder.go` satisfy): for level 1 on any table
`MatchesInHistory`, `PositionsFit`, `BlocksTiled`, all from `Invariance`; for the six
encoders of `FastLevels` `LevelsMatchInHistory`, `LevelsPositionsFit`, `LevelsTileBlocks`
from `LevelsInvariance`. "The table holds true
positions" is not inductive, for Reset and move-down leave entries behind that are
not true any more. The invariant says that an entry is *live* (`cur` plus the
true position of its bytes) or *stale* (at least the window size behind every
position that can still be searched), except while the history is empty and the
base is so high that the next Encode clears the table. Rebasing must turn stale
entries into stale ones, and Reset must move the base by the window *and* the
history: both are where a wrong constant would break the proof.
At the other levels an entry may also have been kept as the older of two, a match
may begin at the following position, two bytes on, or where the last offset points, and up
to dozens of positions are indexed after one; the lemmas say of each of these operators
(`entered`, `indexed`, `looked3` to `looked6`, `longer`, `between2` to `between6`, `tail2` to
`tail6`) that all entries it leaves are positions before the place where the
search goes on (`Good`). For tiling, `AllSaid` shows that `AddMatchLong` says every byte
of a match: no piece leaves one or two bytes, which a token could not say.

**`HuffmanBitWriterProofs`**, in its second half, is about `BitBuffer` (whose
names end in `Bits` where `HuffmanBitWriter` has them too, so that one module extends
both), for every flush size with a margin of seven bytes and all widths within the format: `BitsAlwaysInPlace`,
`StoresAlwaysInBuffer`. The invariant (`BitsInv`) says how full the accumulator may be at each place of the three loops:
at most 47 bits between calls, 7 after a token, 52 before the first of three codes.
Each loop must leave what the next one expects; that a token of 15+5+15+13 bits fits
behind 7 and three codes of 15 do not need a store between them is arithmetic on these
numbers.

**`CompressorProofs`**, for every window that is `Searchable` (of any size at levels 0, -1 and -2, of
`MinEncode` bytes at least at levels 1-6; below that the second finding of section 3 refutes them), any alphabet, every sequence of calls
and a destination that fails at any write: `DecoderAlwaysFollows`,
`EndOfBlockAlwaysOwed`, `HeaderCacheAlwaysExact`, `NothingEverLost`,
`SuccessAlwaysDelivers` and the action property
`LoopAlwaysTakesInput`. The invariant joins the two ends: the decoder has the bytes
before those in the window, and it stands at a header, or inside a block whose table
is the writer's and which `lastHeader` remembers (`Steady`); after a failure of the
destination only that the decoder was not misled before. Each operator of the bit
writer (a stored header, a table reused, replayed or new, the end of block
that is owed) is shown to lead from such a state to one: these lemmas are the first half
of `HuffmanBitWriterProofs` and also carry **`StatelessProofs`** (`AlwaysFollowed`,
`AlwaysFlushed`, `ViewAlwaysFits`), where the pooled writer keeps its tables from call
to call. `ViewAlwaysFits` needs that a block which is not the last is longer than
a dictionary.

**`InflateProofs`**, for every window size, any set of inputs (whole, faulty or cut off),
all buffer sizes and any number of resets and resumptions: `AlwaysInOrder`,
`AlwaysRoomToWrite`, `NeverCarriedOver`, `FlushPointsVisible`, `OutcomeAlwaysCorrect`,
`CheckpointsAlwaysExact`: all six invariants of the run. The last holds with the exception its
property states: a checkpoint behind bytes that were counted twice (`CountedTwice`) is not promised
to be placed.
The order of delivery is not inductive: it follows from what each place of the window
holds (`Window`: the round being written and, beyond `wrPos`, the one before) and
from the fact that what was handed out, the slice `toRead` that waits and what
`readFlush` has not taken follow each other without a gap (`InTurn`). The
slice aliases the window, so every step that writes must be shown to begin with
nothing waiting (`Quiet`); this is what the return to the caller at each full window
is for.
How much is handed out and which error ends it needs a second invariant, `Follows`.
It relates the decoder to what its input means (`Produced`, `Faulty`, `EndsStream`, computed
from the items alone): between blocks (`Between`), inside a stored block (`InStored`) and
inside a Huffman block (`InHuffman`), `written` is what the items before `pos` stand
for less what is left of a copy, and none of those items ends the stream (`Clear`); after
an error, `Ended` says the same of `TotalBytes` and `EndErrors`. `Produced` is a recursive
function, so facts about all of an input (`YieldType`, `ProducedCounts`, the header
that governs an item) are proved by the least counterexample: the well-founded
order of the natural numbers and `WFMin` give one (`LeastNat`), where the
library's induction theorems cannot be used.
Where the compressed input is read needs a third, `Reads`: the bytes counted, less the bits that wait, are
where the next item starts (`Counts`, `ReadTo`), unless bytes were counted twice before it. That the exception is
needed only where `CountedTwice` says so is the point: the invariant bounds `nb` by what may have
been read ahead, differently between blocks (`AtHead`) and inside one (`InBlock`), so that behind a
final or fixed block, or another stored one, no whole byte is left to count again.

**`ZlibProofs`**, for all levels, lengths of writes, destinations that fail at any unit,
and every way to cut or change what the Reader is given: `NilNeverUsed`,
`EofAlwaysVerified`, `ClosedAlwaysReads`. The wire is described unit by unit, as a prefix
of header and numbered bytes or of the whole stream with its trailer (`IsData`,
`IsFinal`); a Reader has the bytes before its place and nothing else (`At`). That
io.EOF excludes a damaged byte needs each kind of damage on its own: a header byte
changed by one is no header (`ValidHeaders`), a changed byte or sum makes sum and data
differ, and the bytes before the end unit are as many as were written.

**`DeflateLazyProofs`**, for every window, alphabet and hash, every `chain`, `nice` and
`lazy`, any writes, flushes, blocks that fail, resets and dictionaries: `TypesHold`, `TokensRight`,
`StoredRight`, `FlushComplete` and the action property `LoopsEnd`. The tokens are
checked when they are added, so what must be inductive is the state in which a match
is held back. Between two iterations of `deflateLazy` the tokens reach up to
`index`, or to the byte before it that is held back (`Coherent`), and the held
match repeats the bytes before it (`Right`), also when the window has slid since,
which is why `gone` remembers the bytes that left. Slides, skips and the first and last
iteration of a call must each lead from such a state to one. Of the hash tables the
proof needs only that entries lie before `index` (`Heads`, `Prevs`, `Chain`): an entry may be stale in
every other way, and that `findMatch` compares the bytes makes its result right all the
same. A stored block is the block's bytes because `blockStart` is where the tokens
begin, or has the dictionary between, or is the `MaxInt32` that stands for bytes out of reach
(`Tiled`); sliding subtracts the window from that number too, and it stays out of reach
because a block has at most 2^14 tokens of at most 258 bytes. The code's loops are recursive functions of the model
(`enterAll`, `findMatch`, `skipLiterals`, `fillWindow`); that they are defined at all, and keep what
their loops keep, is proved with `Recursion` and `UpTo`, which state induction for a set
where the library has it for an operator.
`DictNotStored` is what the code violates (section 3), so there is no theorem; `Tiled` says how far it goes.

The theorems use the named assumptions of the modules and nothing else:
`DictDecoder` (`W > 0`), `CodeTables` (symbols are in their alphabets, and no more than the codewords
within the limit; `indexTokens` adds the end of block code), `FastEnc` (relations between the constants of
`fast_encoder.go`), `FastLevels` (which slots there are, the minimum match of 4), `BitBuffer` (widths of the
format, a margin in the buffer),
`HuffmanBitWriter` (symbols are distinct), `Compressor` (`MinEncode` is at most the
threshold of `huff`), `Stateless` (a block holds two dictionaries),
`DeflateLazy` (the order of the sizes of `deflate.go`; that a full block of longest matches is
shorter than 2^31 bytes; hashes of `minMatchLength` bytes), `Inflate` (inputs are sequences of items as bits are parsed into them: the items behind
the header of a stored block are its bytes; they lie behind each other, stored bytes side by side
(`Laid`); a symbol is read with as many bits as `inflate.go` lines 582-594 say (`ReadAhead`); a cut has an error), `Zlib` (lengths are
natural numbers). TLC evaluates each of them on the instances. All invariants
(`IInv`, `Follows`, `Reads`) were checked by TLC on the instances of the runs before they were proved.

Left to TLC: liveness under fairness (`CopyEnds`, `CallReturns`, `ReachesEnd`) and ENABLED,
which the prover does not reach; and four invariants of `CodeTables`. `CostMinimal` compares with an
optimum over all trees, `HeaderSizeExact` sums over a sequence of codes of any length,
`LengthsReadBack` and `SymbolsReadBack` say that decoding inverts encoding, bit by bit: each is
an induction over the data of a block rather than over its steps. They are checked on
the blocks of the run, with the real alphabets.

## 5. Not modelled

* the search of `statelessEnc`, which is level 1's on a 16-bit table that lives
  for one call, and the pools;
* the bits of the fixed Huffman code, the extra bits of lengths and distances,
  and the packing of a token into 32 bits: table look-ups without state;
* size estimates other than `headerSize`: their outcome is a choice;
* the compressor's `writeBlockSkip` and the bit writer's `writeBlock` below it,
  which nothing calls;
* memory loads and shift masks (`internal/le`, `regmask_*.go`),
  `SuggestBlockSize` (advice only), test helpers.
