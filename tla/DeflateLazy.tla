----------------------------- MODULE DeflateLazy -----------------------------
(***************************************************************************)
(* The compressor of levels 7 to 9 (flate/deflate.go): a window of twice   *)
(* windowSize that slides by windowSize, hash chains over it, and lazy     *)
(* matching, which holds a match back for one byte to look for a better    *)
(* one.  d is the compressor with its advancedState.                       *)
(*                                                                         *)
(* The data is real: bytes of a small alphabet, so that whether two places *)
(* match is computed as in the code.  What the bit writer makes of a block *)
(* (stored or Huffman coded, written or failed) is a choice.               *)
(*                                                                         *)
(* Tokens are checked as they are added, against the window: d.tpos is the *)
(* index of the first byte that has no token yet, d.bpos where the tokens  *)
(* of the current block begin, d.dict how long the dictionary is, d.gone   *)
(* the bytes that left the window last, and d.bad what a decoder would get *)
(* wrong.                                                                  *)
(***************************************************************************)
EXTENDS Integers, Sequences, FiniteSetsExt

CONSTANTS
  Byte,
  HashOf,        \* hash4: [1..minMatchLength -> Byte] -> hash values
  windowSize,
  minMatchLength,
  maxMatchLength,
  maxFlateBlockTokens,
  maxHashOffset,
  chain, nice, lazy, \* compressionLevel
  SkipStep,      \* 2^6: a long run without matches is skipped ever faster
  BulkSize,      \* 256: hashes computed at a time
  MaxII,         \* 2^16 - 1: the largest ii
  Refusals,      \* which tries of findMatch gain too little: {{}} below level 9
  Segments,      \* the inputs of Write
  Dicts,         \* the dictionaries of ResetDict
  MaxBytes,      \* bound: bytes written to a stream
  MaxResets      \* bound: how often the Writer is reset

MaxInt32 == 2147483647

Hashes == {HashOf[x] : x \in DOMAIN HashOf}

ASSUME DeflateLazyAssumption ==
  /\ minMatchLength \in Nat /\ minMatchLength > 1
  /\ maxMatchLength \in Nat /\ maxMatchLength > minMatchLength
  /\ windowSize \in Nat /\ windowSize > minMatchLength + maxMatchLength
  /\ maxFlateBlockTokens \in Nat /\ maxFlateBlockTokens > 0
  /\ maxFlateBlockTokens * maxMatchLength < MaxInt32
  /\ maxHashOffset \in Nat /\ maxHashOffset > 0
  /\ chain \in Nat /\ chain > 0 /\ nice \in Nat /\ lazy \in Nat
  /\ SkipStep \in Nat /\ SkipStep > 0 /\ MaxII \in Nat
  /\ BulkSize \in Nat /\ BulkSize >= minMatchLength
  /\ HashOf \in [[1..minMatchLength -> Byte] -> Hashes]
  /\ \A s \in Segments \cup Dicts : s \in Seq(Byte)

VARIABLES
  d,      \* the compressor
  sync,   \* d.sync
  call,   \* the call that runs, or the last one: [kind, left, ret]
  pc,     \* "idle", "write" (loop of write), "lazy" (loop of deflateLazy)
  total,  \* history: bytes written to the stream
  resets  \* history: streams before this one

vars == <<d, sync, call, pc, total, resets>>

checkOff == 2

at(x, i) == x.window[i + 1]
windowEnd(x) == Len(x.window)
hash4(x, i) == HashOf[[k \in 1..minMatchLength |-> at(x, i + k - 1)]]
minIndexAt(i) == Max({i - windowSize, 0})

\* How many bytes from p and from q are the same, up to limit.
matchLen(x, p, q, limit) ==
  Max({k \in 0..limit : \A j \in 0..(k - 1) : at(x, p + j) = at(x, q + j)})

-----------------------------------------------------------------------------
(* Tokens and blocks.                                                      *)

\* The next token stands for the n bytes from index i on, which the decoder
\* would have right or not.
added(x, i, n, right) ==
  [x EXCEPT !.tokens = @ + 1, !.tpos = @ + n,
            !.bad = IF x.tpos = i /\ right THEN @ ELSE @ \cup {"token"}]

\* A byte of the stream, which may have left the window already.
written(x, i) == IF i >= 0 THEN at(x, i) ELSE x.gone[Len(x.gone) + i + 1]

AddLiteral(x, i) == added(x, i, 1, TRUE)

AddMatch(x, i, len, off) ==
  added(x, i, len,
        /\ len \in minMatchLength..maxMatchLength
        /\ off \in 1..windowSize
        /\ i - off >= -Len(x.gone) /\ i + len <= windowEnd(x)
        /\ \A k \in 0..(len - 1) : at(x, i + k) = written(x, i - off + k))

\* What is wrong with storing the bytes from blockStart to index instead of the
\* tokens: they are others than the tokens stand for.  The dictionary in front
\* of them is told apart.
storedFault(x, index) ==
  IF x.blockStart = x.bpos /\ index = x.tpos THEN {}
  ELSE IF x.blockStart = 0 /\ x.bpos = x.dict /\ index = x.tpos THEN {"dict"}
  ELSE {"stored"}

\* Mutated form of writeBlock: the window is handed over even if the bytes
\* before windowSize are gone.
writeBlockAlways(x, index, c) ==
  IF index = 0 THEN x
  ELSE [x EXCEPT !.blockStart = index, !.bpos = x.tpos,
                 !.err = ~c.ok,
                 !.bad = IF c.stored THEN @ \cup storedFault(x, index) ELSE @]

\* writeBlock: a block may be stored if its bytes are all in the window.
writeBlock(x, index, c) ==
  IF index = 0 THEN x
  ELSE [x EXCEPT !.blockStart = index, !.bpos = x.tpos,
                 !.err = ~c.ok,
                 !.bad = IF c.stored /\ x.blockStart <= index
                         THEN @ \cup storedFault(x, index) ELSE @]

\* writeBlock, and tokens.Reset unless it fails.
blockDone(x, index, c) ==
  LET y == writeBlock(x, index, c) IN IF y.err THEN y ELSE [y EXCEPT !.tokens = 0]

\* Mutated form of blockIfFull: the tokens of the block are not reset.
blockIfFullKept(x, index, c) ==
  IF x.tokens = maxFlateBlockTokens THEN writeBlock(x, index, c) ELSE x

\* "d.tokens.n == maxFlateBlockTokens": the tokens become a block.
blockIfFull(x, index, c) ==
  IF x.tokens = maxFlateBlockTokens THEN blockDone(x, index, c) ELSE x

-----------------------------------------------------------------------------
(* The hash chains.                                                        *)

\* Index i is entered at the head of its chain.
enter(x, i) ==
  LET h == hash4(x, i)
  IN [x EXCEPT !.hashPrev[i % windowSize] = x.hashHead[h],
               !.hashHead[h] = i + x.hashOffset]

\* The same, remembering the chain, for an index that has enough bytes.
insert(x, i) ==
  IF i < x.maxInsertIndex
  THEN [enter(x, i) EXCEPT !.chainHead = x.hashHead[hash4(x, i)]] ELSE x

\* The indices from i to j - 1 are entered, in order.
enterAll(x, i, j) ==
  LET n == Max({0, j - i})
      f[k \in 0..n] == IF k = 0 THEN x ELSE enter(f[k - 1], i + k - 1)
  IN f[n]

\* Mutated form of findMatch: the walk does not stop where the window ends.
findMatchFar(x, pos, prevHead, lookahead, refused) ==
  LET look == Min({lookahead, maxMatchLength})
      niceLen == Min({nice, look})
      start == [i |-> prevHead, length |-> minMatchLength - 1, offset |-> 0, go |-> TRUE]
      walk[t \in 0..chain] ==
        IF t = 0 THEN start
        ELSE LET m == walk[t - 1]
                 n == matchLen(x, m.i, pos, look)
                 better == n > m.length /\ t \notin refused
                 prev == x.hashPrev[m.i % windowSize] - x.hashOffset
             IN IF ~m.go THEN m
                ELSE [i |-> prev,
                      length |-> IF better THEN n ELSE m.length,
                      offset |-> IF better THEN pos - m.i ELSE m.offset,
                      go |-> ~(better /\ n >= niceLen) /\ prev >= 0 /\ prev < pos]
  IN walk[chain]

\* findMatch: the longest match among the first chain members of a chain,
\* unless one is nice already.  An index is followed as long as hashPrev has
\* not been overwritten at it.
findMatch(x, pos, prevHead, lookahead, refused) ==
  LET look == Min({lookahead, maxMatchLength})
      niceLen == Min({nice, look})
      minIndex == minIndexAt(pos)
      start == [i |-> prevHead, length |-> minMatchLength - 1, offset |-> 0, go |-> TRUE]
      walk[t \in 0..chain] ==
        IF t = 0 THEN start
        ELSE LET m == walk[t - 1]
                 n == matchLen(x, m.i, pos, look)
                 better == n > m.length /\ t \notin refused
                 prev == x.hashPrev[m.i % windowSize] - x.hashOffset
             IN IF ~m.go THEN m
                ELSE [i |-> prev,
                      length |-> IF better THEN n ELSE m.length,
                      offset |-> IF better THEN pos - m.i ELSE m.offset,
                      go |-> /\ ~(better /\ n >= niceLen)
                             /\ m.i > minIndex
                             /\ prev >= minIndex]
  IN walk[chain]

-----------------------------------------------------------------------------
(* One iteration of deflateLazy.                                           *)

\* Mutated form of flushTokens: tokens that fill no block wait for more.
flushTokensFull(x, c) ==
  LET y == IF x.byteAvailable
           THEN [AddLiteral(x, x.index - 1) EXCEPT !.byteAvailable = FALSE] ELSE x
  IN blockIfFull(y, y.index, c)

\* No input left and a flush requested: the byte held back, and the block.
flushTokens(x, c) ==
  LET y == IF x.byteAvailable
           THEN [AddLiteral(x, x.index - 1) EXCEPT !.byteAvailable = FALSE] ELSE x
  IN IF y.tokens > 0 THEN blockDone(y, y.index, c) ELSE y

\* A longer match is looked for that ends later than the held one, found by
\* the hash at its end.  If there is one, bytes before it that do not match
\* are owed as literals.
betterAtEnd(x, lookahead, prev) ==
  LET len == prev.length
      prevIndex == x.index - 1
      end == prevIndex + Min({lookahead, maxMatchLength + checkOff})
  IN IF \/ len >= maxMatchLength - checkOff
        \/ prevIndex + len >= x.maxInsertIndex
     THEN [found |-> FALSE]
     ELSE LET ch2 == x.hashHead[hash4(x, prevIndex + len)] - x.hashOffset - len
          IN IF \/ prevIndex - ch2 = prev.offset
                \/ ch2 <= minIndexAt(x.index) + checkOff
             THEN [found |-> FALSE]
             ELSE LET n == matchLen(x, prevIndex + checkOff, ch2 + checkOff,
                                    end - (prevIndex + checkOff))
                      back1 == n < maxMatchLength /\ at(x, prevIndex + 1) = at(x, ch2 + 1)
                      back0 == /\ back1 /\ n + 1 < maxMatchLength
                               /\ at(x, prevIndex) = at(x, ch2)
                  IN [found |-> n > len,
                      length |-> n + (IF back0 THEN 2 ELSE IF back1 THEN 1 ELSE 0),
                      offset |-> prevIndex - ch2,
                      owed |-> IF back0 THEN 0 ELSE IF back1 THEN 1 ELSE 2]

\* n owed literals from index i on, each followed by the next index.
oweLiterals(x, i, n, c) ==
  LET one(y, j) ==
        LET z == blockIfFull(AddLiteral(y, i + j), y.index, c)
        IN IF z.err THEN z ELSE insert([z EXCEPT !.index = @ + 1], z.index + 1)
      f[k \in 0..n] ==
        IF k = 0 THEN x ELSE LET y == f[k - 1] IN IF y.err THEN y ELSE one(y, k - 1)
  IN f[n]

\* "Output the previous match", and enter what it covers.
emitHeld(x, len, off, c) ==
  LET newIndex == x.index + len - 1
      y == AddMatch(x, x.index - 1, len, off)
      z == enterAll(y, Min({x.index + 1, x.maxInsertIndex}),
                    Min({newIndex, x.maxInsertIndex}))
  IN blockIfFull([z EXCEPT !.index = newIndex, !.byteAvailable = FALSE,
                           !.length = minMatchLength - 1, !.ii = 0], newIndex, c)

heldMatch(x, lookahead, prev, c) ==
  LET best == betterAtEnd(x, lookahead, prev)
      y == oweLiterals(x, x.index - 1, best.owed, c)
  IN IF ~best.found THEN emitHeld(x, prev.length, prev.offset, c)
     ELSE IF y.err THEN y
     ELSE emitHeld(y, best.length, best.offset, c)

\* After a long run without a match, bytes are passed over: literals without
\* a search.
skipLiterals(x, c) ==
  LET n == 1 + (x.ii - chain) \div SkipStep
      one(y) ==
        LET z == blockIfFull(AddLiteral(y, y.index - 1), y.index, c)
        IN IF z.err THEN z ELSE [insert(z, z.index) EXCEPT !.index = @ + 1]
      f[k \in 0..n] ==
        IF k = 0 THEN x
        ELSE LET y == f[k - 1]
             IN IF y.err \/ y.index >= windowEnd(y) - 1 THEN y ELSE one(y)
      skipped == f[n]
      last == AddLiteral(skipped, skipped.index - 1)
  IN IF skipped.err THEN skipped
     ELSE blockIfFull([last EXCEPT !.byteAvailable = FALSE], last.index, c)

\* No match held, or a better one found at the next byte: a literal.
literal(x, c) ==
  LET ii == IF x.length >= minMatchLength THEN 0 ELSE x.ii
      y == [x EXCEPT !.ii = (ii + 1) % (MaxII + 1)]
      z == blockIfFull(AddLiteral(y, y.index - 1), y.index, c)
      w == [z EXCEPT !.index = @ + 1]
  IN IF ~x.byteAvailable
     THEN [x EXCEPT !.ii = ii, !.index = @ + 1, !.byteAvailable = TRUE]
     ELSE IF z.err THEN z
     ELSE IF w.ii > chain THEN skipLiterals(w, c) ELSE w

\* The loop, from the update of the hash on.
search(x0, c, refused) ==
  LET x == insert(x0, x0.index)
      lookahead == windowEnd(x) - x.index
      prev == [length |-> x.length, offset |-> x.offset]
      head == x.chainHead - x.hashOffset
      m == IF /\ head >= minIndexAt(x.index)
              /\ lookahead > prev.length /\ prev.length < lazy
           THEN findMatch(x, x.index, head, lookahead, refused)
           ELSE [length |-> minMatchLength - 1, offset |-> 0]
      y == [x EXCEPT !.length = m.length, !.offset = m.offset]
  IN IF prev.length >= minMatchLength /\ m.length <= prev.length
     THEN heldMatch(y, lookahead, prev, c) ELSE literal(y, c)

-----------------------------------------------------------------------------
(* The window.                                                             *)

\* An entry after hashOffset was taken down by delta.
rebased(v, delta) == IF v > delta THEN v - delta ELSE 0

\* fillDeflate's first half: the window is shifted by windowSize.
slide(x) ==
  LET hashOffset == x.hashOffset + windowSize
      delta == IF hashOffset > maxHashOffset THEN hashOffset - 1 ELSE 0
  IN [x EXCEPT !.window = SubSeq(@, windowSize + 1, Len(@)),
               !.index = @ - windowSize,
               !.blockStart = IF @ >= windowSize THEN @ - windowSize ELSE MaxInt32,
               !.hashOffset = hashOffset - delta,
               !.chainHead = @ - delta,
               !.hashPrev = IF delta = 0 THEN @
                            ELSE [i \in DOMAIN @ |-> rebased(x.hashPrev[i], delta)],
               !.hashHead = IF delta = 0 THEN @
                            ELSE [h \in Hashes |-> rebased(x.hashHead[h], delta)],
               !.tpos = @ - windowSize, !.bpos = @ - windowSize,
               !.gone = SubSeq(x.window, 1, windowSize)]

\* Mutated form of slides: when the window is nearly at its end only.
slidesLate(x) == x.index >= 2 * windowSize

slides(x) == x.index >= 2 * windowSize - (minMatchLength + maxMatchLength)

\* initDeflate and reset: nothing in the window, no match held.
Fresh ==
  [window |-> << >>, index |-> 0, blockStart |-> 0, hashOffset |-> 1,
   hashHead |-> [h \in Hashes |-> 0], hashPrev |-> [i \in 0..(windowSize - 1) |-> 0],
   chainHead |-> -1, length |-> minMatchLength - 1, offset |-> 0, ii |-> 0,
   maxInsertIndex |-> 0, byteAvailable |-> FALSE, tokens |-> 0, err |-> FALSE,
   tpos |-> 0, bpos |-> 0, dict |-> 0, gone |-> << >>, bad |-> {}]

\* fillWindow: a dictionary, of which the end is used, BulkSize hashes at a
\* time.
fillWindow(dict) ==
  LET n == Min({Len(dict), windowSize})
      x == [Fresh EXCEPT !.window = SubSeq(dict, Len(dict) - n + 1, Len(dict)),
                         !.index = n, !.tpos = n, !.bpos = n, !.dict = n]
      loops == (n + BulkSize - minMatchLength) \div BulkSize
      bulkEnd(j) == Min({j * BulkSize + BulkSize + minMatchLength - 1, n})
      f[j \in 0..loops] ==
        IF j = 0 THEN x
        ELSE enterAll(f[j - 1], (j - 1) * BulkSize, bulkEnd(j - 1) - minMatchLength + 1)
  IN f[loops]

-----------------------------------------------------------------------------
(* The calls.                                                              *)

Outcomes == [stored : BOOLEAN, ok : BOOLEAN]

return(ret) == call' = [call EXCEPT !.ret = ret] /\ pc' = "idle"

closed == call.kind = "Close" /\ pc = "idle"

Write(seg) ==
  /\ pc = "idle" /\ ~closed
  /\ total + Len(seg) <= MaxBytes
  /\ call' = [kind |-> "Write", left |-> seg,
              ret |-> IF d.err THEN "err" ELSE IF seg = << >> THEN "nil" ELSE "running"]
  /\ pc' = IF call'.ret = "running" THEN "write" ELSE "idle"
  /\ total' = IF d.err THEN total ELSE total + Len(seg)
  /\ UNCHANGED <<d, sync, resets>>

\* deflateLazy is entered: too little input is left for later.
enterStep(next) ==
  IF windowEnd(d) - d.index < minMatchLength + maxMatchLength /\ ~sync
  THEN pc' = next /\ UNCHANGED d
  ELSE pc' = "lazy" /\ d' = [d EXCEPT !.maxInsertIndex = windowEnd(d) - (minMatchLength - 1)]

\* The loop of write: a full window is processed ...
writeStep ==
  /\ pc = "write"
  /\ windowEnd(d) = 2 * windowSize \/ sync
  /\ enterStep("fill")
  /\ UNCHANGED <<sync, call, total, resets>>

\* ... then filled, by fillDeflate, and the error looked at.
fill ==
  /\ \/ pc = "fill"
     \/ pc = "write" /\ ~(windowEnd(d) = 2 * windowSize \/ sync)
  /\ LET x == IF slides(d) THEN slide(d) ELSE d
         n == Min({Len(call.left), 2 * windowSize - windowEnd(x)})
     IN /\ d' = [x EXCEPT !.window = @ \o SubSeq(call.left, 1, n)]
        /\ call' = [call EXCEPT !.left = SubSeq(@, n + 1, Len(@)),
                                !.ret = IF d.err THEN "err"
                                        ELSE IF n = Len(call.left) THEN "nil"
                                        ELSE "running"]
        /\ pc' = IF call'.ret = "running" THEN "write" ELSE "idle"
  /\ UNCHANGED <<sync, total, resets>>

\* An iteration of deflateLazy.
lazyLoop(c, refused) ==
  /\ pc = "lazy"
  /\ LET lookahead == windowEnd(d) - d.index
         short == lookahead < minMatchLength + maxMatchLength
     IN IF short /\ (~sync \/ lookahead = 0)
        THEN /\ d' = IF sync THEN flushTokens(d, c) ELSE d
             /\ pc' = IF call.kind = "Write" THEN "fill" ELSE "stepped"
        ELSE /\ d' = search(d, c, refused)
             /\ pc' = IF ~d'.err THEN "lazy"
                      ELSE IF call.kind = "Write" THEN "fill" ELSE "stepped"
  /\ UNCHANGED <<sync, call, total, resets>>

\* syncFlush and close, up to their step.
Flush(kind) ==
  /\ pc = "idle" /\ ~closed
  /\ sync' = (sync \/ kind = "Flush" \/ ~d.err)
  /\ call' = [kind |-> kind, left |-> << >>, ret |-> IF d.err THEN "err" ELSE "running"]
  /\ IF d.err THEN UNCHANGED <<d, pc>>
     ELSE /\ pc' = "lazy"
          /\ d' = [d EXCEPT !.maxInsertIndex = windowEnd(d) - (minMatchLength - 1)]
  /\ UNCHANGED <<total, resets>>

\* The marker, or the final block, after the step.
flushed(ok) ==
  /\ pc = "stepped"
  /\ d' = [d EXCEPT !.err = IF call.kind = "Flush" THEN @ \/ ~ok ELSE @]
  /\ sync' = (call.kind = "Close")
  /\ return(IF d.err \/ ~ok THEN "err" ELSE "nil")
  /\ UNCHANGED <<total, resets>>

Reset(dict) ==
  /\ pc = "idle"
  /\ resets < MaxResets
  /\ d' = fillWindow(dict)
  /\ sync' = FALSE
  /\ call' = [kind |-> "Reset", left |-> dict, ret |-> "nil"]
  /\ total' = 0
  /\ resets' = resets + 1
  /\ UNCHANGED pc

Init ==
  /\ d = Fresh
  /\ sync = FALSE
  /\ call = [kind |-> "Reset", left |-> << >>, ret |-> "nil"]
  /\ pc = "idle"
  /\ total = 0
  /\ resets = 0

\* The caller has closed its last stream.
Done == closed /\ resets = MaxResets /\ UNCHANGED vars

Step ==
  \/ writeStep
  \/ fill
  \/ \E c \in Outcomes, refused \in Refusals : lazyLoop(c, refused)
  \/ \E ok \in BOOLEAN : flushed(ok)

Next ==
  \/ Step
  \/ \E seg \in Segments : Write(seg)
  \/ \E kind \in {"Flush", "Close"} : Flush(kind)
  \/ \E dict \in Dicts : Reset(dict)
  \/ Done

Spec == Init /\ [][Next]_vars

-----------------------------------------------------------------------------
(* Properties.                                                             *)

\* The state of the compressor keeps its type and its limits: index stays in
\* the window ("index > windowEnd" is a panic of the sanity checks), a block
\* has no more tokens than were allocated, and the match that is held back is
\* one that a token can express.
TypeOK ==
  /\ pc \in {"idle", "write", "fill", "lazy", "stepped"}
  /\ call.kind \in {"Write", "Flush", "Close", "Reset"}
  /\ call.ret \in {"running", "nil", "err"}
  /\ windowEnd(d) \in 0..(2 * windowSize)
  /\ d.index \in 0..windowEnd(d)
  /\ d.tokens \in 0..maxFlateBlockTokens
  /\ d.length \in (minMatchLength - 1)..maxMatchLength
  /\ d.hashOffset \in 1..maxHashOffset
  /\ sync \in BOOLEAN

\* Every token deflateLazy adds continues where the one before ended, and a
\* match repeats bytes of the stream no further back than windowSize: whatever
\* chain entries survive the sliding of the window, which bytes are held back
\* or passed over, and a match that is held while the window slides or is
\* replaced by a later one.
TokensDecode == "token" \notin d.bad

\* The bytes writeBlock hands over for a block are the ones its tokens stand
\* for, so that it may be stored instead; if they have left the window nothing
\* is handed over.  A dictionary in front of them is DictNotStored's concern.
StoredIsBlock == "stored" \notin d.bad

\* "The returned Writer behaves as if the dictionary had been written to it
\* without producing any compressed output": fillWindow's bytes are never part
\* of a block.
DictNotStored == "dict" \notin d.bad

\* When Flush or Close return without an error, every byte written has its
\* token and no token is kept back: nothing waits in the window, no byte or
\* match is held.
FlushTakesAll ==
  pc = "idle" /\ call.kind \in {"Flush", "Close"} /\ call.ret = "nil" =>
    /\ d.tpos = windowEnd(d) /\ d.index = windowEnd(d)
    /\ d.tokens = 0
    /\ ~d.byteAvailable /\ d.length < minMatchLength

\* No call runs for ever: every iteration of deflateLazy advances in the window,
\* and every iteration of write takes input, because a window that was full is
\* slid once it has been processed.  No such iteration is hidden as a stutter:
\* each changes pc, adds a token or holds back a byte.
LoopsAdvance ==
  [][/\ pc = "lazy" /\ pc' = "lazy" => d'.index > d.index
     /\ pc \in {"write", "fill"} /\ pc' = "write" => Len(call'.left) < Len(call.left)]_vars
==============================================================================
