------------------------------ MODULE Inflate ------------------------------
(***************************************************************************)
(* The decompressor of flate/inflate.go and flate/inflate_gen.go: a        *)
(* resumable step machine between the compressed input and the caller of   *)
(* Read or WriteTo, with the dictDecoder as its output buffer.             *)
(*                                                                         *)
(* The input is a sequence of items, what the bit stream says once it is   *)
(* parsed: block headers, stored bytes, literals, (distance, length)       *)
(* pairs, ends of block and invalid codes, cut off anywhere.  The bytes of *)
(* the output are numbered: the k-th byte of the decompressed stream is    *)
(* the number k, so that a lost, repeated, reordered or overwritten byte   *)
(* shows.  That copies also reproduce the right values is DictDecoder's    *)
(* theorem.  The five generated copies of the Huffman block decoder differ *)
(* only in the type of the reader and are one state machine here.          *)
(*                                                                         *)
(* Where in the compressed input an item lies is counted in bits, as the   *)
(* program does: roffset bytes were read, and nb bits of them wait in b.   *)
(***************************************************************************)
EXTENDS Integers, Sequences, FiniteSets

CONSTANTS
  W,        \* the window size, maxMatchOffset
  Inputs,   \* [items, start, maxRead, tail, preset]: the items, the bit at which
            \* each starts, the bits a Huffman symbol is read with, where the
            \* input is cut, the length of the dictionary
  Modes,    \* the flush modes readers are made with
  Buffers,  \* the sizes of the buffers Read is called with
  Reusable, \* bound: the inputs that are Reset from and to, or resumed
  MaxReuse  \* bound: how often

\* What a bit stream is parsed into, up to where the input is cut: an end of
\* block that cannot be read with maxRead bits, so near is the cut, is beyond it.
Header(typ, n, fin) == [k |-> "header", typ |-> typ, n |-> n, final |-> fin]
Raw == [k |-> "raw"]
Lit == [k |-> "lit"]
Pair(dist, len) == [k |-> "pair", dist |-> dist, len |-> len]
EOB == [k |-> "eob"]
BadSym == [k |-> "bad"]

Item ==
  [k : {"header"}, typ : {"stored", "huffman", "invalid"}, n : Nat, final : BOOLEAN]
    \cup [k : {"pair"}, dist : Nat, len : Nat]
    \cup {Raw, Lit, EOB, BadSym}

\* What is parsed after the header of a stored block is its bytes, as many of
\* them as the input has.
StoredBytesFollow(its) ==
  \A h \in 1..Len(its) : its[h].k = "header" /\ its[h].typ = "stored" =>
    \A j \in (h + 1)..(h + its[h].n) : j <= Len(its) => its[j] = Raw

\* Reading whole bytes until there are x bits, there are so many.
Fetched(x) == 8 * ((x + 7) \div 8)

\* Where the items lie.  Stored bytes lie side by side, behind the padding of
\* their header and their length, which is there twice.
Laid(its, start) ==
  /\ start \in [1..(Len(its) + 1) -> Nat]
  /\ start[1] = 0
  /\ \A j, k \in 1..(Len(its) + 1) : j < k => start[j] < start[k]
  /\ \A k \in 1..Len(its) : its[k].k = "header" =>
       IF its[k].typ = "stored" THEN start[k + 1] = Fetched(start[k] + 3) + 32
                                ELSE start[k + 1] >= start[k] + 3
  /\ \A j, k \in 1..(Len(its) + 1) :
       j <= k /\ (\A i \in j..(k - 1) : its[i] = Raw) => start[k] = start[j] + 8 * (k - j)

\* No header from item j to item k: they lie in the same block.
SameBlock(its, j, k) == \A i \in j..k : its[i].k # "header"

\* A Huffman symbol is read with maxRead bits at least (inflate.go lines
\* 582-594): the length of the end of block in a final block, and ten more in
\* another dynamic one, since the next block has as many at least.
ReadAhead(its, start, maxRead) ==
  /\ maxRead \in [1..Len(its) -> Nat]
  /\ \A k \in 1..Len(its) : its[k].k = "header" => maxRead[k] = 0
  /\ \A e \in 1..Len(its) : its[e] = EOB =>
       /\ maxRead[e] \in {start[e + 1] - start[e], start[e + 1] - start[e] + 10}
       /\ \A k \in 1..e : SameBlock(its, k, e) => maxRead[k] = maxRead[e]
       /\ \A h \in 1..(e - 1) : its[h].k = "header" /\ SameBlock(its, h + 1, e) =>
            start[e] + maxRead[e] >= start[h] + 10

ASSUME InflateAssumption ==
  /\ W \in Nat \ {0}
  /\ \A in \in Inputs : /\ in.items \in Seq(Item)
                       /\ StoredBytesFollow(in.items)
                       /\ Laid(in.items, in.start)
                       /\ ReadAhead(in.items, in.start, in.maxRead)
                       /\ in.preset \in Nat
                       /\ in.tail.error # "nil"
  /\ Modes \subseteq {"syncFlush", "partialFlush"}
  /\ Buffers \subseteq Nat \ {0}
  /\ Reusable \subseteq Inputs
  /\ MaxReuse \in Nat

VARIABLES
  input,     \* the input being decompressed
  pos,       \* the next item of the input
  roffset,   \* how many bytes the decompressor says it has read
  nb,        \* how many bits of them are in b, read and not used
  flushMode,
  dict,      \* the dictDecoder, whose hist holds byte numbers
  step, stepState, final, err, copyLen, copyDist,
  toRead,    \* the slice hist[lo..hi-1] that waits for the caller
  uncOffset, \* uncompressed offset of the checkpoint resumed from
  pc,        \* where the call of Read or WriteTo stands
  call,      \* that call: its kind, buffer size and WriteTo's flushed flag
  delivered, \* history: the byte numbers handed to the caller
  written,   \* history: how many bytes have been decoded
  cb,        \* is an end-of-block callback installed
  cps,       \* history: the checkpoints given to the callback
  reused     \* how often the decompressor was reset or resumed

decoder == <<dict, step, stepState, final, err, copyLen, copyDist, toRead>>
source == <<roffset, nb>>
vars == <<input, pos, source, flushMode, dict, step, stepState, final, err,
          copyLen, copyDist, toRead, uncOffset, pc, call, delivered, written, cb,
          cps, reused>>

Index == 0..(W - 1)
Least(a, b) == IF a <= b THEN a ELSE b
Most(a, b) == IF a <= b THEN b ELSE a

-----------------------------------------------------------------------------
(* The dictDecoder (see DictDecoder), as operators on its state d.         *)

histSize(d) == IF d.full THEN W ELSE d.wrPos
availRead(d) == d.wrPos - d.rdPos
availWrite(d) == W - d.wrPos
decoded(d) == d.flushed + availRead(d)

\* init(size, dict), for a dict of n bytes that end at byte number last.
dictInit(old, n, last) ==
  LET m == Least(n, W)
  IN [hist    |-> [i \in Index |-> IF i < m THEN last - m + i + 1 ELSE old[i]],
      wrPos   |-> IF m = W THEN 0 ELSE m,
      rdPos   |-> IF m = W THEN 0 ELSE m,
      flushed |-> 0,
      full    |-> m = W]

\* cnt bytes are written (writeByte, writeMark or a copy), the first of them
\* the byte number first of the stream.
wrote(d, cnt, first) ==
  [d EXCEPT !.hist = [i \in Index |-> IF i \in d.wrPos..(d.wrPos + cnt - 1)
                                      THEN first + (i - d.wrPos) ELSE d.hist[i]],
            !.wrPos = d.wrPos + cnt]

\* Mutated form of Slice: what was returned before is returned again.
SliceFromStart(d) == [lo |-> 0, hi |-> d.wrPos]

\* readFlush: the slice it returns and the state it leaves.
Slice(d) == [lo |-> d.rdPos, hi |-> d.wrPos]
readFlush(d) ==
  IF d.wrPos = W
  THEN [d EXCEPT !.flushed = @ + availRead(d), !.wrPos = 0, !.rdPos = 0,
                 !.full = TRUE]
  ELSE [d EXCEPT !.flushed = @ + availRead(d), !.rdPos = d.wrPos]

appendWindow(d) ==
  IF d.full
  THEN [i \in 1..W |-> IF i <= W - d.wrPos THEN d.hist[d.wrPos + i - 1]
                                           ELSE d.hist[i - (W - d.wrPos) - 1]]
  ELSE [i \in 1..d.wrPos |-> d.hist[i - 1]]

Empty == [lo |-> 0, hi |-> 0]
SliceLen(s) == s.hi - s.lo

-----------------------------------------------------------------------------
(* The input.                                                              *)

items == input.items
more == pos <= Len(items)
atHeader(typ) == more /\ items[pos].k = "header" /\ items[pos].typ = typ

\* noEOF: an io.EOF from the reader in the middle of a stream is unexpected.
noEOF(e) == IF e = "EOF" THEN "UnexpectedEOF" ELSE e

\* The error of a read beyond the cut.  Header bits, stored bytes and Huffman
\* codes turn an EOF into an unexpected one; the extra bits of a length, a
\* fixed distance code and the extra bits of a distance pass it on as it is.
ReadError == IF input.tail.place = "extraBits" THEN input.tail.error
                                               ELSE noEOF(input.tail.error)

\* How many stored bytes the input still has at pos, of the next n.
RawAvailable(n) ==
  Cardinality({i \in 1..n : \A j \in 0..(i - 1) :
                 pos + j <= Len(items) /\ items[pos + j] = Raw})

\* The bits that are taken for item k; the padding and the length of a stored
\* block are not read by bits.
Bits(k) == IF items[k].k = "header" /\ items[k].typ = "stored"
           THEN 3 ELSE input.start[k + 1] - input.start[k]

\* The bytes read for item k.  moreBits and huffSym read a byte whenever too
\* few bits are there, for a symbol maxRead of them at least; a header, or a
\* length with its extra bits and its distance, takes several such reads, each
\* of no more bytes than it needs, which come to as many as one.
BytesFor(k) ==
  LET need == Most(input.maxRead[k], Bits(k))
  IN IF nb >= need THEN 0 ELSE (need - nb + 7) \div 8

\* Item pos is taken.  A read that fails in the middle of an item counts the
\* bytes before it, which nothing but an error's text shows: left out.
Take ==
  /\ pos' = pos + 1
  /\ roffset' = roffset + BytesFor(pos)
  /\ nb' = nb + 8 * BytesFor(pos) - Bits(pos)

-----------------------------------------------------------------------------
(* Steps of the decompressor.  pc is "step" when doStep is to be called,   *)
(* "readLiteral" or "copyHistory" inside the Huffman block decoder, and    *)
(* "stepped" when doStep has returned.                                     *)

\* finishBlock, entered with dictionary d and pending slice s in a block that
\* is final or not, with the input consumed up to item p.  The checkpoint says
\* at which bit of the input that is; that it ought to be where item p starts
\* (at) is for the properties.
finishBlock(d, s, fin, p) ==
  LET flush == (fin \/ flushMode = "partialFlush") /\ availRead(d) > 0
      d2 == IF flush THEN readFlush(d) ELSE d
      bitPos == 8 * roffset' - nb'
  IN /\ dict' = d2
     /\ toRead' = IF flush THEN Slice(d) ELSE s
     /\ err' = IF fin THEN "EOF" ELSE err
     /\ cps' = IF ~cb THEN cps ELSE
                cps \cup {[unc |-> uncOffset + decoded(d2), at |-> p,
                         offset |-> bitPos \div 8, bit |-> bitPos % 8,
                         final |-> fin, window |-> appendWindow(d2)]}
     /\ step' = "nextBlock"
     /\ pc' = "stepped"

fail(e) ==
  /\ err' = e
  /\ pc' = "stepped"

\* Mutated form of copyData: a block that is used up is continued.
copyDataForEver(n, p, fin) ==
  LET want == Least(availWrite(dict), n)
      cnt == RawAvailable(want)
      d == wrote(dict, cnt, written + 1)
  IN /\ pos' = p + cnt
     /\ roffset' = roffset + cnt
     /\ UNCHANGED nb
     /\ copyLen' = n - cnt
     /\ written' = written + cnt
     /\ \/ /\ cnt < want
           /\ fail(ReadError)
           /\ dict' = d
           /\ UNCHANGED <<step, toRead, cps>>
        \/ /\ cnt = want
           /\ toRead' = Slice(d)
           /\ dict' = readFlush(d)
           /\ step' = "copyData"
           /\ pc' = "stepped"
           /\ UNCHANGED <<err, cps>>

\* copyData, entered with copyLen = n: stored bytes go straight to the window.
copyData(n, p, fin) ==
  LET want == Least(availWrite(dict), n)
      cnt == RawAvailable(want)
      d == wrote(dict, cnt, written + 1)
  IN /\ pos' = p + cnt
     /\ roffset' = roffset + cnt
     /\ UNCHANGED nb
     /\ copyLen' = n - cnt
     /\ written' = written + cnt
     /\ \/ /\ cnt < want
           /\ fail(ReadError)
           /\ dict' = d
           /\ UNCHANGED <<step, toRead, cps>>
        \/ /\ cnt = want
           /\ availWrite(d) = 0 \/ n - cnt > 0
           /\ toRead' = Slice(d)
           /\ dict' = readFlush(d)
           /\ step' = "copyData"
           /\ pc' = "stepped"
           /\ UNCHANGED <<err, cps>>
        \/ /\ cnt = want
           /\ ~(availWrite(d) = 0 \/ n - cnt > 0)
           /\ finishBlock(d, toRead, fin, p + cnt)

StepCopyData ==
  /\ pc = "step"
  /\ step = "copyData"
  /\ copyData(copyLen, pos, final)
  /\ UNCHANGED <<input, flushMode, stepState, final, copyDist, uncOffset, call,
                 delivered, cb, reused>>

\* nextBlock with too little input for a header, or an invalid one.
NextBlockFails ==
  /\ pc = "step"
  /\ step = "nextBlock"
  /\ \/ ~more /\ fail(ReadError) /\ UNCHANGED <<pos, source, final>>
     \/ /\ atHeader("invalid")
        /\ Take
        /\ final' = items[pos].final
        /\ fail("Corrupt")
  /\ UNCHANGED <<input, flushMode, dict, step, stepState, copyLen, copyDist,
                 toRead, uncOffset, call, delivered, written, cps, cb, reused>>

\* The header of a stored block, and its length, in dataBlock: the bits up to
\* the next byte are discarded, and the whole bytes that are left in b are the
\* first of the four of the length.  They are counted in roffset again (line
\* 614).
StoredHeader ==
  LET left == nb + 8 * BytesFor(pos) - Bits(pos)
      offBytes == left \div 8
  IN /\ roffset' = roffset + BytesFor(pos) + offBytes + (4 - offBytes)
     /\ nb' = 0

\* Mutated form of NextBlockStored: a sync marker does not flush.
NextBlockStoredSilent ==
  /\ pc = "step"
  /\ step = "nextBlock"
  /\ atHeader("stored")
  /\ final' = items[pos].final
  /\ pos' = pos + 1
  /\ StoredHeader
  /\ \/ /\ items[pos].n = 0
        /\ finishBlock(dict, toRead, final', pos + 1)
        /\ UNCHANGED <<copyLen, written>>
     \/ /\ items[pos].n > 0
        /\ copyLen' = items[pos].n
        /\ pc' = "copyData"
        /\ UNCHANGED <<dict, toRead, err, cps, step, written>>
  /\ UNCHANGED <<input, flushMode, stepState, copyDist, uncOffset, call,
                 delivered, cb, reused>>

\* nextBlock at a stored block: dataBlock.  An empty one is a sync marker.
NextBlockStored ==
  /\ pc = "step"
  /\ step = "nextBlock"
  /\ atHeader("stored")
  /\ final' = items[pos].final
  /\ pos' = pos + 1
  /\ StoredHeader
  /\ \/ /\ items[pos].n = 0
        /\ IF flushMode = "syncFlush"
           THEN finishBlock(readFlush(dict), Slice(dict), final', pos + 1)
           ELSE finishBlock(dict, toRead, final', pos + 1)
        /\ UNCHANGED <<copyLen, written>>
     \/ /\ items[pos].n > 0
        /\ copyLen' = items[pos].n
        /\ pc' = "copyData"
        /\ UNCHANGED <<dict, toRead, err, cps, step, written>>
  /\ UNCHANGED <<input, flushMode, stepState, copyDist, uncOffset, call,
                 delivered, cb, reused>>

\* dataBlock's call of copyData.
FirstCopyData ==
  /\ pc = "copyData"
  /\ copyData(copyLen, pos, final)
  /\ UNCHANGED <<input, flushMode, stepState, final, copyDist, uncOffset, call,
                 delivered, cb, reused>>

\* Where the Huffman block decoder is entered: stepState is left alone by
\* finishBlock, so a new block may be entered at copyHistory, with copyLen 0.
entry == IF stepState = "stateDict" THEN "copyHistory" ELSE "readLiteral"

NextBlockHuffman ==
  /\ pc = "step"
  /\ step = "nextBlock"
  /\ atHeader("huffman")
  /\ final' = items[pos].final
  /\ Take
  /\ pc' = entry
  /\ UNCHANGED <<input, flushMode, dict, step, stepState, err, copyLen,
                 copyDist, toRead, uncOffset, call, delivered, written, cps,
                 cb, reused>>

StepHuffman ==
  /\ pc = "step"
  /\ step = "huffman"
  /\ pc' = entry
  /\ UNCHANGED <<input, pos, source, flushMode, decoder, uncOffset, call,
                 delivered, written, cps, cb, reused>>

\* readLiteral: the input ends, an invalid code is met, or a pair reaches
\* back before the start of the stream.
SymbolFails ==
  /\ pc = "readLiteral"
  /\ \/ ~more /\ fail(ReadError) /\ UNCHANGED <<pos, source>>
     \/ /\ more
        /\ \/ items[pos].k = "bad"
           \/ items[pos].k = "pair" /\ items[pos].dist > histSize(dict)
        /\ Take
        /\ fail("Corrupt")
  /\ UNCHANGED <<input, flushMode, dict, step, stepState, final, copyLen,
                 copyDist, toRead, uncOffset, call, delivered, written, cps,
                 cb, reused>>

\* Mutated form of Literal: a full window is not flushed.
LiteralUnflushed ==
  /\ pc = "readLiteral"
  /\ more
  /\ items[pos].k = "lit"
  /\ Take
  /\ written' = written + 1
  /\ dict' = wrote(dict, 1, written + 1)
  /\ UNCHANGED <<input, flushMode, step, stepState, final, err, copyLen,
                 copyDist, toRead, uncOffset, pc, call, delivered, cps, cb,
                 reused>>

\* readLiteral, v < 256.  The window is flushed when it is full.
Literal ==
  /\ pc = "readLiteral"
  /\ more
  /\ items[pos].k = "lit"
  /\ Take
  /\ written' = written + 1
  /\ LET d == wrote(dict, 1, written + 1)
     IN IF availWrite(d) = 0
        THEN /\ toRead' = Slice(d)
             /\ dict' = readFlush(d)
             /\ step' = "huffman"
             /\ stepState' = "stateInit"
             /\ pc' = "stepped"
        ELSE /\ dict' = d
             /\ UNCHANGED <<toRead, step, stepState, pc>>
  /\ UNCHANGED <<input, flushMode, final, err, copyLen, copyDist, uncOffset,
                 call, delivered, cps, cb, reused>>

\* readLiteral, v = 256.
EndOfBlock ==
  /\ pc = "readLiteral"
  /\ more
  /\ items[pos].k = "eob"
  /\ Take
  /\ finishBlock(dict, toRead, final, pos + 1)
  /\ UNCHANGED <<input, flushMode, stepState, final, copyLen, copyDist,
                 uncOffset, call, delivered, written, cb, reused>>

\* readLiteral, a length and its distance.
MatchPair ==
  /\ pc = "readLiteral"
  /\ more
  /\ items[pos].k = "pair"
  /\ items[pos].dist <= histSize(dict)
  /\ Take
  /\ copyLen' = items[pos].len
  /\ copyDist' = items[pos].dist
  /\ pc' = "copyHistory"
  /\ UNCHANGED <<input, flushMode, dict, step, stepState, final, err, toRead,
                 uncOffset, call, delivered, written, cps, cb, reused>>

\* Mutated form of copyHistory: copyLen is reduced only when the copy has to be
\* continued.
copyHistoryKeepsLen ==
  /\ pc = "copyHistory"
  /\ LET cnt == Least(copyLen, availWrite(dict))
         d == wrote(dict, cnt, written + 1)
     IN /\ written' = written + cnt
        /\ IF availWrite(d) = 0 \/ copyLen - cnt > 0
           THEN /\ copyLen' = copyLen - cnt
                /\ toRead' = Slice(d)
                /\ dict' = readFlush(d)
                /\ step' = "huffman"
                /\ stepState' = "stateDict"
                /\ pc' = "stepped"
           ELSE /\ dict' = d
                /\ pc' = "readLiteral"
                /\ UNCHANGED <<copyLen, toRead, step, stepState>>
  /\ UNCHANGED <<input, pos, source, flushMode, final, err, copyDist,
                 uncOffset, call, delivered, cps, cb, reused>>

\* copyHistory: tryWriteCopy, else writeCopy, copies what there is room for.
copyHistory ==
  /\ pc = "copyHistory"
  /\ LET cnt == Least(copyLen, availWrite(dict))
         d == wrote(dict, cnt, written + 1)
     IN /\ copyLen' = copyLen - cnt
        /\ written' = written + cnt
        /\ IF availWrite(d) = 0 \/ copyLen - cnt > 0
           THEN /\ toRead' = Slice(d)
                /\ dict' = readFlush(d)
                /\ step' = "huffman"
                /\ stepState' = "stateDict"
                /\ pc' = "stepped"
           ELSE /\ dict' = d
                /\ pc' = "readLiteral"
                /\ UNCHANGED <<toRead, step, stepState>>
  /\ UNCHANGED <<input, pos, source, flushMode, final, err, copyDist,
                 uncOffset, call, delivered, cps, cb, reused>>

-----------------------------------------------------------------------------
(* The calls.  pc is "idle" outside a call and "loop" at the head of the   *)
(* loop of Read or WriteTo.                                                *)

Bytes(s, n) == [i \in 1..n |-> dict.hist[s.lo + i - 1]]

Read(n) ==
  /\ pc = "idle"
  /\ call' = [kind |-> "Read", n |-> n, flushed |-> FALSE, ret |-> "none"]
  /\ pc' = "loop"
  /\ UNCHANGED <<input, pos, source, flushMode, decoder, uncOffset, delivered,
                 written, cps, cb, reused>>

\* Read's loop: hand out what waits, else report the error, else step.
ReadLoop ==
  /\ pc = "loop"
  /\ call.kind = "Read"
  /\ \/ LET n == Least(call.n, SliceLen(toRead))
        IN /\ SliceLen(toRead) > 0
           /\ delivered' = delivered \o Bytes(toRead, n)
           /\ toRead' = [toRead EXCEPT !.lo = @ + n]
           /\ call' = [call EXCEPT !.ret = IF n = SliceLen(toRead) THEN err
                                                                   ELSE "nil"]
           /\ pc' = "idle"
     \/ /\ SliceLen(toRead) = 0
        /\ err # "nil"
        /\ call' = [call EXCEPT !.ret = err]
        /\ pc' = "idle"
        /\ UNCHANGED <<delivered, toRead>>
     \/ /\ SliceLen(toRead) = 0
        /\ err = "nil"
        /\ pc' = "step"
        /\ UNCHANGED <<delivered, toRead, call>>
  /\ UNCHANGED <<input, pos, source, flushMode, dict, step, stepState, final,
                 err, copyLen, copyDist, uncOffset, written, cps, cb, reused>>

\* Mutated form of ReadStepped: what is left is not flushed.
ReadSteppedNoFlush ==
  /\ pc = "stepped"
  /\ call.kind = "Read"
  /\ pc' = "loop"
  /\ UNCHANGED <<input, pos, source, flushMode, decoder, uncOffset, call,
                 delivered, written, cps, cb, reused>>

\* Read after doStep: what is left is flushed in case of error.
ReadStepped ==
  /\ pc = "stepped"
  /\ call.kind = "Read"
  /\ IF err # "nil" /\ SliceLen(toRead) = 0
     THEN toRead' = Slice(dict) /\ dict' = readFlush(dict)
     ELSE UNCHANGED <<toRead, dict>>
  /\ pc' = "loop"
  /\ UNCHANGED <<input, pos, source, flushMode, step, stepState, final, err,
                 copyLen, copyDist, uncOffset, call, delivered, written, cps,
                 cb, reused>>

WriteTo ==
  /\ pc = "idle"
  /\ call' = [kind |-> "WriteTo", n |-> 0, flushed |-> FALSE, ret |-> "none"]
  /\ pc' = "loop"
  /\ UNCHANGED <<input, pos, source, flushMode, decoder, uncOffset, delivered,
                 written, cps, cb, reused>>

\* WriteTo's loop: write what waits, return once the rest was flushed.
WriteToLoop ==
  /\ pc = "loop"
  /\ call.kind = "WriteTo"
  /\ delivered' = delivered \o Bytes(toRead, SliceLen(toRead))
  /\ toRead' = [toRead EXCEPT !.lo = toRead.hi]
  /\ \/ /\ err # "nil" /\ call.flushed
        /\ call' = [call EXCEPT !.ret = IF err = "EOF" THEN "nil" ELSE err]
        /\ pc' = "idle"
     \/ /\ ~(err # "nil" /\ call.flushed)
        /\ pc' = IF err = "nil" THEN "step" ELSE "stepped"
        /\ UNCHANGED call
  /\ UNCHANGED <<input, pos, source, flushMode, dict, step, stepState, final,
                 err, copyLen, copyDist, uncOffset, written, cps, cb, reused>>

\* The destination of WriteTo takes n bytes and fails, and its error is kept;
\* or it takes fewer than it was given and says nothing.
WriteToFails(n) ==
  /\ pc = "loop"
  /\ call.kind = "WriteTo"
  /\ SliceLen(toRead) > 0
  /\ n <= SliceLen(toRead)
  /\ delivered' = delivered \o Bytes(toRead, n)
  /\ \/ err' = "sink" /\ call' = [call EXCEPT !.ret = "sink"]
     \/ /\ n # SliceLen(toRead)
        /\ call' = [call EXCEPT !.ret = "ErrShortWrite"]
        /\ UNCHANGED err
  /\ pc' = "idle"
  /\ UNCHANGED <<input, pos, source, flushMode, dict, step, stepState, final,
                 copyLen, copyDist, toRead, uncOffset, written, cps, cb,
                 reused>>

\* Mutated form of WriteToStepped: it does not remember that it flushed.
WriteToSteppedAgain ==
  /\ pc = "stepped"
  /\ call.kind = "WriteTo"
  /\ IF SliceLen(toRead) = 0 /\ err # "nil" /\ ~call.flushed
     THEN toRead' = Slice(dict) /\ dict' = readFlush(dict)
     ELSE UNCHANGED <<toRead, dict>>
  /\ pc' = "loop"
  /\ UNCHANGED <<input, pos, source, flushMode, step, stepState, final, err,
                 copyLen, copyDist, uncOffset, call, delivered, written, cps,
                 cb, reused>>

WriteToStepped ==
  /\ pc = "stepped"
  /\ call.kind = "WriteTo"
  /\ IF SliceLen(toRead) = 0 /\ err # "nil" /\ ~call.flushed
     THEN /\ toRead' = Slice(dict)
          /\ dict' = readFlush(dict)
          /\ call' = [call EXCEPT !.flushed = TRUE]
     ELSE UNCHANGED <<toRead, dict, call>>
  /\ pc' = "loop"
  /\ UNCHANGED <<input, pos, source, flushMode, step, stepState, final, err,
                 copyLen, copyDist, uncOffset, delivered, written, cps, cb,
                 reused>>

\* Mutated forms of Fresh: Reset keeps the slice that waits, or the error.
FreshKeepsToRead(p, base, n, old) ==
  /\ pos' = p
  /\ dict' = dictInit(old, n, base)
  /\ step' = "nextBlock"
  /\ stepState' = "stateInit"
  /\ err' = "nil"
  /\ copyLen' = 0
  /\ copyDist' = 0
  /\ uncOffset' = base
  /\ pc' = "idle"
  /\ call' = [kind |-> "Read", n |-> 0, flushed |-> FALSE, ret |-> "none"]
  /\ delivered' = [i \in 1..base |-> i]
  /\ written' = base
  /\ UNCHANGED toRead
FreshKeepsErr(p, base, n, old) ==
  /\ pos' = p
  /\ dict' = dictInit(old, n, base)
  /\ step' = "nextBlock"
  /\ stepState' = "stateInit"
  /\ copyLen' = 0
  /\ copyDist' = 0
  /\ toRead' = Empty
  /\ uncOffset' = base
  /\ pc' = "idle"
  /\ call' = [kind |-> "Read", n |-> 0, flushed |-> FALSE, ret |-> "none"]
  /\ delivered' = [i \in 1..base |-> i]
  /\ written' = base
  /\ UNCHANGED err

\* Mutated form of Seek: the byte that is begun is not counted.
SeekUncounted(offset, bit) ==
  /\ roffset' = offset
  /\ nb' = IF bit > 0 THEN 8 - bit ELSE 0

\* applyCP: the input is forwarded to byte offset, and the first bits of that
\* byte, which the block before has used, are skipped.
Seek(offset, bit) ==
  /\ roffset' = IF bit > 0 THEN offset + 1 ELSE offset
  /\ nb' = IF bit > 0 THEN 8 - bit ELSE 0

\* What a decompressor starts from: in at item p, after byte number base,
\* with a dictionary of n bytes.
Fresh(p, base, n, old) ==
  /\ pos' = p
  /\ dict' = dictInit(old, n, base)
  /\ step' = "nextBlock"
  /\ stepState' = "stateInit"
  /\ err' = "nil"
  /\ copyLen' = 0
  /\ copyDist' = 0
  /\ toRead' = Empty
  /\ uncOffset' = base
  /\ pc' = "idle"
  /\ call' = [kind |-> "Read", n |-> 0, flushed |-> FALSE, ret |-> "none"]
  /\ delivered' = [i \in 1..base |-> i]
  /\ written' = base

\* Reset: another stream; the old options, callback included, are dropped.
Reset(in) ==
  /\ pc = "idle"
  /\ input \in Reusable /\ reused < MaxReuse
  /\ reused' = reused + 1
  /\ input' = in
  /\ flushMode' = "syncFlush"
  /\ final' = FALSE
  /\ Fresh(1, 0, in.preset, dict.hist)
  /\ Seek(0, 0)
  /\ cb' = FALSE
  /\ cps' = {}

\* The checkpoint says where the block after it starts.
Placed(cp) == 8 * cp.offset + cp.bit = input.start[cp.at]

\* ResetCP: the same stream, from a checkpoint on.  What the bits at another
\* place would decode to is not modelled: only a checkpoint that is placed is
\* resumed from, and CheckpointsExact and CheckpointsResumable say which are.
ResetCP(cp) ==
  /\ pc = "idle"
  /\ Placed(cp)
  /\ input \in Reusable /\ reused < MaxReuse
  /\ reused' = reused + 1
  /\ flushMode' = "syncFlush"
  /\ final' = cp.final
  /\ Fresh(cp.at, cp.unc, Len(cp.window), dict.hist)
  /\ Seek(cp.offset, cp.bit)
  /\ cb' = FALSE
  /\ UNCHANGED <<input, cps>>

\* NewReaderOpts(WithResumeFrom(cp), ...): a new decompressor, with options.
NewReaderFrom(cp, mode) ==
  /\ pc = "idle"
  /\ Placed(cp)
  /\ input \in Reusable /\ reused < MaxReuse
  /\ reused' = reused + 1
  /\ flushMode' = mode
  /\ final' = cp.final
  /\ Fresh(cp.at, cp.unc, Len(cp.window), [i \in Index |-> 0])
  /\ Seek(cp.offset, cp.bit)
  /\ cb' = TRUE
  /\ UNCHANGED <<input, cps>>

Init ==
  /\ input \in Inputs
  /\ flushMode \in Modes
  /\ pos = 1
  /\ roffset = 0 /\ nb = 0
  /\ dict = dictInit([i \in Index |-> 0], input.preset, 0)
  /\ step = "nextBlock"
  /\ stepState = "stateInit"
  /\ final = FALSE
  /\ err = "nil"
  /\ copyLen = 0
  /\ copyDist = 0
  /\ toRead = Empty
  /\ uncOffset = 0
  /\ pc = "idle"
  /\ call = [kind |-> "Read", n |-> 0, flushed |-> FALSE, ret |-> "none"]
  /\ delivered = << >>
  /\ written = 0
  /\ cb = TRUE
  /\ cps = {}
  /\ reused = 0

\* The caller goes on until it was told that there is no more.
Calls == call.ret \in {"none", "nil"} /\ ((\E n \in Buffers : Read(n)) \/ WriteTo)

\* The caller was told and stops.
Done == pc = "idle" /\ call.ret \notin {"none", "nil"} /\ UNCHANGED vars

Step ==
  \/ StepCopyData \/ FirstCopyData \/ NextBlockFails \/ NextBlockStored
  \/ NextBlockHuffman \/ StepHuffman \/ SymbolFails \/ Literal \/ EndOfBlock
  \/ MatchPair \/ copyHistory
  \/ ReadLoop \/ ReadStepped \/ WriteToLoop \/ WriteToStepped

Next ==
  \/ Step
  \/ Calls
  \/ \E n \in 0..W : WriteToFails(n)
  \/ \E in \in Reusable : Reset(in)
  \/ \E cp \in cps : ~cp.final /\ ResetCP(cp)
  \/ \E cp \in cps, mode \in Modes : ~cp.final /\ NewReaderFrom(cp, mode)
  \/ Done

Spec == Init /\ [][Next]_vars

\* A call runs until it returns, and the caller keeps calling.
FairSpec == Spec /\ WF_vars(Step) /\ WF_vars(Calls)
-----------------------------------------------------------------------------
(* What an input means, computed from its items alone.                     *)

Yield(it) ==
  CASE it.k \in {"lit", "raw"} -> 1
    [] it.k = "pair" -> it.len
    [] OTHER -> 0

\* How many bytes the first k items stand for is Produced(in)[k].
Produced(in) ==
  LET sum[k \in 0..Len(in.items)] ==
        IF k = 0 THEN 0 ELSE sum[k - 1] + Yield(in.items[k])
  IN sum

\* Item k is not part of any valid stream.
Faulty(in, k) ==
  LET it == in.items[k]
  IN \/ it.k = "bad"
     \/ it.k = "header" /\ it.typ = "invalid"
     \/ it.k = "pair" /\ it.dist > Least(W, in.preset + Produced(in)[k - 1])

\* Item k is the last one of a block that starts with a final header.
EndsStream(in, k) ==
  \E h \in 1..k :
    /\ in.items[h].k = "header"
    /\ in.items[h].final
    /\ \A j \in (h + 1)..k : in.items[j].k # "header"
    /\ \/ in.items[h].typ = "stored" /\ k = h + in.items[h].n
       \/ in.items[h].typ = "huffman" /\ in.items[k].k = "eob"

Stops(in) == {k \in 1..Len(in.items) : Faulty(in, k) \/ EndsStream(in, k)}
LastItem(in) == IF Stops(in) = {} THEN Len(in.items)
                ELSE CHOOSE k \in Stops(in) : \A j \in Stops(in) : k <= j
Complete(in) == Stops(in) # {} /\ EndsStream(in, LastItem(in))

\* The number of bytes an input decompresses to, and the errors that may end it.
TotalBytes(in) ==
  IF Stops(in) # {} /\ ~Complete(in) THEN Produced(in)[LastItem(in) - 1]
                                     ELSE Produced(in)[LastItem(in)]
EndErrors(in) ==
  IF Complete(in) THEN {"EOF"}
  ELSE IF Stops(in) # {} THEN {"Corrupt"}
  ELSE {in.tail.error, noEOF(in.tail.error)}

-----------------------------------------------------------------------------
(* Properties.                                                             *)

\* The caller gets the bytes of the stream in order, each once and none of
\* them overwritten while it waited in hist for the caller (the slice that
\* readFlush returns aliases the buffer that decoding goes on writing to),
\* whatever the buffer sizes, Reset and resumption from a checkpoint included.
DeliveredInOrder ==
  \/ err = "sink"
  \/ delivered = [i \in 1..Len(delivered) |-> i]

\* When a call has reported the end, every byte the input stands for up to
\* where it ends or fails was delivered and the error is the right one: the
\* outcome does not depend on where the window filled up, on buffer sizes or
\* on Read against WriteTo (inflate.go lines 397-450, 673-697).
OutcomeCorrect ==
  pc = "idle" /\ call.ret # "none" /\ err \notin {"nil", "sink"}
             /\ SliceLen(toRead) = 0 =>
    /\ Len(delivered) = TotalBytes(input)
    /\ err \in EndErrors(input)

\* Whenever the decoder is about to write there is room for a byte: every
\* path that fills the window flushes it (the precondition of writeByte), and
\* no path writes past its end or reads past what was written, the slice that
\* waits for the caller included.
RoomToWrite ==
  /\ pc \in {"step", "copyData", "readLiteral", "copyHistory"} => availWrite(dict) > 0
  /\ dict.wrPos \in 0..W /\ dict.rdPos \in 0..dict.wrPos
  /\ toRead.lo \in 0..W /\ toRead.hi \in toRead.lo..W

\* A copy never survives its block: a new Huffman block that is entered at
\* copyHistory, because stepState is stale, has nothing to copy.
NoCopyCarriedOver ==
  step = "nextBlock" /\ err = "nil" /\ pc \in {"idle", "loop", "step"} => copyLen = 0

\* Before the decoder waits for the block after a sync marker (an empty
\* stored block) it has given the caller everything decoded; with
\* WithPartialBlock it does so after every block.
FlushPointVisible ==
  pc = "step" /\ step = "nextBlock" /\ pos > 1
    /\ (\/ flushMode = "partialFlush"
        \/ items[pos - 1].k = "header" /\ items[pos - 1].typ = "stored"
           /\ items[pos - 1].n = 0)
    => Len(delivered) = written

\* A checkpoint holds the end of the bytes it says lie before it, as far back
\* as the window reaches (inflate.go lines 684-694).
CheckpointWindows ==
  \A cp \in cps :
    LET n == Least(W, input.preset + cp.unc)
    IN cp.window = [i \in 1..n |-> cp.unc - n + i]

\* The stored blocks before item p whose header follows an end of block that
\* was read with so many bits that whole bytes of them are left behind it.
CountedTwice(in, p) ==
  {h \in 2..(p - 1) :
     /\ in.items[h].k = "header" /\ in.items[h].typ = "stored"
     /\ in.items[h - 1] = EOB
     /\ Fetched(in.start[h - 1] + in.maxRead[h - 1]) >= in.start[h] + 3 + 8}

\* And it says how many bytes the blocks before it decode to, and at which bit
\* of the input the next block starts, from the bytes read and the bits of
\* them that are not used (inflate.go lines 684-693), through read-ahead at
\* the end of a block, padding, stored bytes and resumption in the middle of a
\* byte.  The place is right unless dataBlock counted bytes twice on the way.
CheckpointsExact ==
  /\ CheckpointWindows
  /\ \A cp \in cps : /\ cp.unc = Produced(input)[cp.at - 1]
                     /\ CountedTwice(input, cp.at) = {} => Placed(cp)

\* Every checkpoint can be resumed from, as TestInflateCheckpointResume does
\* (inflate_test.go lines 350-368): CompressedOffset is the byte offset in the
\* compressed stream (inflate.go line 885) of the block that follows.
CheckpointsResumable == \A cp \in cps : ~cp.final => Placed(cp)

\* Every call of Read and WriteTo returns: the loop around doStep never turns
\* without output, input or an error (inflate.go lines 397-450).
CallReturns == (pc # "idle") ~> (pc = "idle")

\* A caller that goes on reading gets to the end of the stream or to its
\* fault, unless its own destination stops it.
ReachesEnd == <>(err # "nil" \/ call.ret = "ErrShortWrite")

\* io.EOF is reported for a complete stream only; a stream that is cut off
\* ends in io.ErrUnexpectedEOF, as TestReaderTruncated demands
\* (inflate_test.go lines 45-70).
TruncationReported == pc = "idle" /\ err = "EOF" => Complete(input)
=============================================================================
