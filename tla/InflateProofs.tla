---------------------------- MODULE InflateProofs ----------------------------
(***************************************************************************)
(* Inflate for every window size, any set of inputs (valid, faulty or cut  *)
(* off anywhere), all buffer sizes, and Reset and resumption any number of *)
(* times.                                                                  *)
(*                                                                         *)
(* The bytes of the stream are numbered, so that what the window holds and *)
(* where each of its bytes belongs are one statement: hist[x] is the byte  *)
(* that was decoded when wrPos was x, and what the caller was given, the   *)
(* slice that waits for it and hist[rdPos..wrPos-1] follow each other      *)
(* without a gap (IInv, the first part of the module).                     *)
(*                                                                         *)
(* The second part is about what the input means: Follows says that as     *)
(* much was decoded as the items before pos stand for, less what is left   *)
(* of a copy, and that no item before pos ends the stream.  That the end   *)
(* of a stream is reported when it is reached, and not before, rests on it.*)
(*                                                                         *)
(* The third part is about the bytes of the input: Reads says that what is *)
(* counted in roffset, less the nb bits that wait, is where the next item  *)
(* starts, and how far the Huffman readers have read ahead of it.  Where a *)
(* checkpoint says that a block starts rests on it.                        *)
(***************************************************************************)
EXTENDS Inflate, FiniteSetTheorems, SequenceTheorems, WellFoundedInduction,
        TLAPS

\* The size of the window (maxMatchOffset).
LEMMA WindowSize == W \in Nat \ {0}
BY InflateAssumption

USE WindowSize

Dict == [hist : [Index -> Int], wrPos : Nat, rdPos : Nat, flushed : Nat, full : BOOLEAN]

\* The window after n bytes, of a stream with a dictionary of p bytes: the
\* round that is being written and, beyond wrPos, the one before it.
Window(d, n, p) ==
  /\ d \in Dict
  /\ d.rdPos <= d.wrPos /\ d.wrPos <= W
  /\ IF d.full THEN p + n >= W ELSE d.wrPos = p + n
  /\ \A x \in 0..(d.wrPos - 1) : d.hist[x] = n - d.wrPos + 1 + x
  /\ d.full => \A x \in d.wrPos..(W - 1) : d.hist[x] = n - d.wrPos - W + 1 + x

\* A slice of hist.
Slices == [lo : 0..W, hi : 0..W]
Proper(s) == s \in Slices /\ s.lo <= s.hi

\* With cnt bytes delivered, the slice s is next, and then what is left in d.
InTurn(d, s, n, cnt) ==
  /\ cnt + SliceLen(s) + availRead(d) = n
  /\ \A x \in s.lo..(s.hi - 1) : d.hist[x] = cnt + 1 + (x - s.lo)

Errors ==
  {"nil", "none", "EOF", "UnexpectedEOF", "Corrupt", "sink", "ErrShortWrite"}
    \cup {in.tail.error : in \in Inputs}
CallStates == [kind : {"Read", "WriteTo"}, n : Nat, flushed : BOOLEAN, ret : Errors]

TypeOK ==
  /\ input \in Inputs
  /\ pos \in Nat \ {0}
  /\ flushMode \in {"syncFlush", "partialFlush"}
  /\ step \in {"nextBlock", "copyData", "huffman"}
  /\ stepState \in {"stateInit", "stateDict"}
  /\ err \in Errors
  /\ copyLen \in Nat /\ uncOffset \in Nat /\ written \in Nat
  /\ pc \in {"idle", "loop", "step", "stepped", "copyData", "readLiteral", "copyHistory"}
  /\ call \in CallStates

\* The window, and what of it was handed out.
InWindow ==
  /\ Window(dict, written, input.preset)
  /\ dict.wrPos < W
  /\ uncOffset + decoded(dict) = written
  /\ Proper(toRead)

\* A caller whose destination failed is not given the rest.
Stopped == pc = "idle" /\ call.ret \in {"sink", "ErrShortWrite"}

InOrder ==
  /\ Len(delivered) \in Nat
  /\ delivered = [i \in 1..Len(delivered) |-> i]
  /\ Stopped \/ InTurn(dict, toRead, written, Len(delivered))

\* The decoder runs when nothing waits and nothing went wrong.
Working == pc \in {"step", "copyData", "readLiteral", "copyHistory"}
Between == pc \in {"idle", "loop", "step", "stepped"}
Quiet == Working => SliceLen(toRead) = 0 /\ err = "nil"

\* When there is nothing to copy.
CopyDone ==
  /\ Between /\ err = "nil" /\ step = "nextBlock" => copyLen = 0
  /\ Between /\ err = "nil" /\ step = "huffman" /\ stepState # "stateDict" => copyLen = 0
  /\ pc = "readLiteral" => copyLen = 0
  /\ pc = "copyData" => copyLen > 0

\* The item before p is an empty stored block.
Marker(p) ==
  items[p].k = "header" /\ items[p].typ = "stored" /\ items[p].n = 0

\* When nothing is left in the window; a stored block is continued after one
\* of its bytes.
Flushed ==
  Between /\ err = "nil" =>
    /\ step = "nextBlock" /\ pos > 1 /\ (flushMode = "partialFlush" \/ Marker(pos - 1))
         => availRead(dict) = 0
    /\ step = "copyData" => pos > 1 /\ items[pos - 1] = Raw

\* The window of a checkpoint is the last Len(window) bytes before it, and
\* that many there are.
LastBytes(cp) ==
  /\ Len(cp.window) = Least(W, input.preset + cp.unc)
  /\ cp.window = [i \in 1..Len(cp.window) |-> cp.unc - Len(cp.window) + i]

Checkpoints ==
  \A cp \in cps : cp.unc \in Nat /\ cp.at \in Nat \ {0} /\ LastBytes(cp)

IInv == TypeOK /\ InWindow /\ InOrder /\ Quiet /\ CopyDone /\ Flushed /\ Checkpoints
-----------------------------------------------------------------------------
(* The window.                                                             *)

\* cnt decoded bytes for which there is room (writeByte, writeMark and the
\* copies of dict_decoder.go): they are the next of the stream.
LEMMA Writing ==
  ASSUME NEW d, NEW n \in Nat, NEW p \in Nat, NEW cnt \in Nat,
         Window(d, n, p), cnt <= availWrite(d)
  PROVE  LET v == wrote(d, cnt, n + 1)
         IN /\ Window(v, n + cnt, p)
            /\ v.wrPos = d.wrPos + cnt
            /\ availRead(v) = availRead(d) + cnt
            /\ availWrite(v) = availWrite(d) - cnt
            /\ decoded(v) = decoded(d) + cnt
<1> DEFINE v == wrote(d, cnt, n + 1)
           h == [i \in Index |-> IF i \in d.wrPos..(d.wrPos + cnt - 1)
                                 THEN n + 1 + (i - d.wrPos) ELSE d.hist[i]]
<1>1. /\ d \in Dict /\ d.rdPos <= d.wrPos /\ d.wrPos + cnt <= W
      /\ d.hist \in [Index -> Int] /\ d.wrPos \in Nat /\ d.rdPos \in Nat
      /\ d.flushed \in Nat /\ d.full \in BOOLEAN
  BY DEF Window, Dict, availWrite
<1>2. h \in [Index -> Int]
  <2>1. ASSUME NEW i \in Index
        PROVE  (IF i \in d.wrPos..(d.wrPos + cnt - 1)
                THEN n + 1 + (i - d.wrPos) ELSE d.hist[i]) \in Int
    <3>1. i \in Int /\ d.hist[i] \in Int
      BY <1>1 DEF Index
    <3>2. n + 1 + (i - d.wrPos) \in Int
      BY <1>1, <3>1
    <3>3. QED
      BY <3>1, <3>2
  <2>2. QED
    BY <2>1
<1>3. v = [d EXCEPT !.hist = h, !.wrPos = d.wrPos + cnt]
  BY DEF wrote
<1> HIDE DEF v, h
<1>4. v = [hist |-> h, wrPos |-> d.wrPos + cnt, rdPos |-> d.rdPos,
           flushed |-> d.flushed, full |-> d.full]
  BY <1>1, <1>3 DEF Dict
<1>5. /\ v \in Dict /\ v.hist = h /\ v.wrPos = d.wrPos + cnt
      /\ v.rdPos = d.rdPos /\ v.flushed = d.flushed /\ v.full = d.full
  BY <1>1, <1>2, <1>4 DEF Dict
<1>6. /\ availRead(v) = availRead(d) + cnt
      /\ availWrite(v) = availWrite(d) - cnt
      /\ decoded(v) = decoded(d) + cnt
  BY <1>1, <1>5 DEF availRead, availWrite, decoded
<1>7. \A x \in 0..(v.wrPos - 1) : v.hist[x] = (n + cnt) - v.wrPos + 1 + x
  <2> SUFFICES ASSUME NEW x \in 0..(v.wrPos - 1)
               PROVE  v.hist[x] = (n + cnt) - v.wrPos + 1 + x
    OBVIOUS
  <2>1. x \in Index
    BY <1>1, <1>5 DEF Index
  <2>2. CASE x < d.wrPos
    <3>1. v.hist[x] = d.hist[x]
      BY <1>1, <1>5, <2>1, <2>2 DEF h
    <3>2. d.hist[x] = n - d.wrPos + 1 + x
      BY <1>1, <2>2 DEF Window
    <3>3. QED
      BY <1>1, <1>5, <3>1, <3>2
  <2>3. CASE x >= d.wrPos
    <3>1. x \in d.wrPos..(d.wrPos + cnt - 1)
      BY <1>1, <1>5, <2>3
    <3>2. v.hist[x] = n + 1 + (x - d.wrPos)
      BY <1>5, <2>1, <3>1 DEF h
    <3>3. x \in Int /\ (n + cnt) - (d.wrPos + cnt) + 1 + x = n + 1 + (x - d.wrPos)
      BY <1>1, <1>5
    <3>4. QED
      BY <1>5, <3>2, <3>3
  <2>4. QED
    BY <1>1, <1>5, <2>2, <2>3
<1>8. v.full => \A x \in v.wrPos..(W - 1) : v.hist[x] = (n + cnt) - v.wrPos - W + 1 + x
  <2> SUFFICES ASSUME v.full, NEW x \in v.wrPos..(W - 1)
               PROVE  v.hist[x] = (n + cnt) - v.wrPos - W + 1 + x
    OBVIOUS
  <2>1. x \in Index /\ x \in d.wrPos..(W - 1) /\ x \notin d.wrPos..(d.wrPos + cnt - 1)
    BY <1>1, <1>5 DEF Index
  <2>2. v.hist[x] = d.hist[x]
    BY <1>5, <2>1 DEF h
  <2>3. d.hist[x] = n - d.wrPos - W + 1 + x
    BY <1>5, <2>1 DEF Window
  <2>4. QED
    BY <1>1, <1>5, <2>2, <2>3
<1>9. IF v.full THEN p + (n + cnt) >= W ELSE v.wrPos = p + (n + cnt)
  BY <1>1, <1>5 DEF Window
<1>10. Window(v, n + cnt, p)
  BY <1>1, <1>5, <1>7, <1>8, <1>9 DEF Window
<1>11. QED
  BY <1>5, <1>6, <1>10 DEF v

\* readFlush (dict_decoder.go lines 184-193): all that was not handed out is
\* the slice, and there is room again.
LEMMA Flushing ==
  ASSUME NEW d, NEW n \in Nat, NEW p \in Nat, Window(d, n, p)
  PROVE  LET v == readFlush(d)
         IN /\ Window(v, n, p)
            /\ v.hist = d.hist
            /\ v.wrPos < W
            /\ availRead(v) = 0
            /\ decoded(v) = decoded(d)
<1> DEFINE v == readFlush(d)
           full == d.wrPos = W
           wr == IF full THEN 0 ELSE d.wrPos
<1>1. /\ d \in Dict /\ d.rdPos <= d.wrPos /\ d.wrPos <= W
      /\ d.hist \in [Index -> Int] /\ d.wrPos \in Nat /\ d.rdPos \in Nat
      /\ d.flushed \in Nat /\ d.full \in BOOLEAN
  BY DEF Window, Dict
<1>2. availRead(d) = d.wrPos - d.rdPos /\ d.flushed + availRead(d) \in Nat
  BY <1>1 DEF availRead
<1>3. v = [hist |-> d.hist, wrPos |-> wr, rdPos |-> wr,
           flushed |-> d.flushed + availRead(d), full |-> (full \/ d.full)]
  <2>1. CASE full
    BY <1>1, <2>1 DEF readFlush, Dict
  <2>2. CASE ~full
    BY <1>1, <2>2 DEF readFlush, Dict
  <2>3. QED
    BY <2>1, <2>2
<1>4. wr \in Nat /\ wr < W
  BY <1>1
<1> HIDE DEF v
<1>5. /\ v.hist = d.hist /\ v.wrPos = wr /\ v.rdPos = wr
      /\ v.flushed = d.flushed + availRead(d) /\ (v.full <=> full \/ d.full)
  BY <1>3
<1>6. v \in Dict
  <2> HIDE DEF wr
  <2>1. (full \/ d.full) \in BOOLEAN
    OBVIOUS
  <2> HIDE DEF full
  <2>2. QED
    BY <1>1, <1>2, <1>3, <1>4, <2>1 DEF Dict
<1>7. availRead(v) = 0 /\ decoded(v) = decoded(d)
  BY <1>2, <1>4, <1>5 DEF availRead, decoded
<1>8. IF v.full THEN p + n >= W ELSE v.wrPos = p + n
  BY <1>1, <1>5 DEF Window
<1>9. \A x \in 0..(v.wrPos - 1) : v.hist[x] = n - v.wrPos + 1 + x
  BY <1>1, <1>5 DEF Window
<1>10. v.full => \A x \in v.wrPos..(W - 1) : v.hist[x] = n - v.wrPos - W + 1 + x
  <2>1. CASE full
    BY <1>1, <1>5, <2>1 DEF Window
  <2>2. CASE ~full
    BY <1>1, <1>5, <2>2 DEF Window
  <2>3. QED
    BY <2>1, <2>2
<1>11. Window(v, n, p)
  BY <1>4, <1>5, <1>6, <1>8, <1>9, <1>10 DEF Window
<1>12. QED
  BY <1>4, <1>5, <1>7, <1>11 DEF v

\* The slice that readFlush returns when nothing waits: the next bytes.
LEMMA Handing ==
  ASSUME NEW d, NEW n \in Nat, NEW p \in Nat, NEW cnt \in Nat, Window(d, n, p),
         NEW s, Proper(s), SliceLen(s) = 0, InTurn(d, s, n, cnt)
  PROVE  /\ Proper(Slice(d))
         /\ SliceLen(Slice(d)) = availRead(d)
         /\ InTurn(readFlush(d), Slice(d), n, cnt)
<1>1. /\ d.rdPos <= d.wrPos /\ d.wrPos <= W
      /\ d.wrPos \in Nat /\ d.rdPos \in Nat
  BY DEF Window, Dict
<1>2. Slice(d) = [lo |-> d.rdPos, hi |-> d.wrPos]
  BY DEF Slice
<1>3. Slice(d).lo = d.rdPos /\ Slice(d).hi = d.wrPos
  BY <1>2
<1>4. Proper(Slice(d))
  BY <1>1, <1>2, <1>3 DEF Proper, Slices
<1>5. SliceLen(Slice(d)) = availRead(d)
  BY <1>3 DEF SliceLen, availRead
<1>6. readFlush(d).hist = d.hist /\ availRead(readFlush(d)) = 0
  BY Flushing
<1>7. cnt + (d.wrPos - d.rdPos) = n
  BY <1>1 DEF InTurn, availRead
<1>8. \A x \in d.rdPos..(d.wrPos - 1) : d.hist[x] = cnt + 1 + (x - d.rdPos)
  <2> SUFFICES ASSUME NEW x \in d.rdPos..(d.wrPos - 1)
               PROVE  d.hist[x] = cnt + 1 + (x - d.rdPos)
    OBVIOUS
  <2>1. x \in 0..(d.wrPos - 1)
    BY <1>1
  <2>2. d.hist[x] = n - d.wrPos + 1 + x
    BY <2>1 DEF Window
  <2>3. x \in Int /\ n - d.wrPos + 1 + x = cnt + 1 + (x - d.rdPos)
    BY <1>1, <1>7
  <2>4. QED
    BY <2>2, <2>3
<1>9. InTurn(readFlush(d), Slice(d), n, cnt)
  BY <1>1, <1>3, <1>5, <1>6, <1>7, <1>8 DEF InTurn, availRead
<1>10. QED
  BY <1>4, <1>5, <1>9

\* A new or reset dictDecoder with a dictionary of m bytes, after byte n of a
\* stream that had a dictionary of p: a preset dictionary, or the window of a
\* checkpoint.
LEMMA Starting ==
  ASSUME NEW m \in Nat, NEW n \in Nat, NEW p \in Nat, NEW old \in [Index -> Int],
         Least(m, W) = Least(p + n, W)
  PROVE  LET v == dictInit(old, m, n)
         IN /\ Window(v, n, p)
            /\ v.wrPos < W
            /\ availRead(v) = 0
            /\ decoded(v) = 0
<1> DEFINE v == dictInit(old, m, n)
           k == Least(m, W)
           h == [i \in Index |-> IF i < k THEN n - k + i + 1 ELSE old[i]]
           all == k = W
           wr == IF all THEN 0 ELSE k
<1>1. k \in Nat /\ k <= W /\ (all => p + n >= W) /\ (~all => k = p + n)
  BY DEF Least
<1>2. v = [hist |-> h, wrPos |-> wr, rdPos |-> wr, flushed |-> 0, full |-> all]
  BY DEF dictInit
<1>3. wr \in Nat /\ wr < W
  BY <1>1
<1> HIDE DEF k
<1>4. h \in [Index -> Int]
  BY <1>1 DEF Index
<1>5. all \in BOOLEAN
  OBVIOUS
<1> HIDE DEF v, h
<1>6. /\ v.hist = h /\ v.wrPos = wr /\ v.rdPos = wr
      /\ v.flushed = 0 /\ (v.full <=> all)
  BY <1>2
<1>7. v \in Dict
  <2> HIDE DEF wr, all
  <2>1. QED
    BY <1>2, <1>3, <1>4, <1>5 DEF Dict
<1>8. availRead(v) = 0 /\ decoded(v) = 0
  BY <1>3, <1>6 DEF availRead, decoded
<1>9. IF v.full THEN p + n >= W ELSE v.wrPos = p + n
  <2>1. CASE all
    BY <1>1, <1>6, <2>1
  <2>2. CASE ~all
    <3>1. ~v.full /\ v.wrPos = k
      BY <1>6, <2>2
    <3>2. k = p + n
      BY <1>1, <2>2
    <3>3. QED
      BY <3>1, <3>2
  <2>3. QED
    BY <2>1, <2>2
<1>10. \A x \in 0..(v.wrPos - 1) : v.hist[x] = n - v.wrPos + 1 + x
  <2> SUFFICES ASSUME NEW x \in 0..(v.wrPos - 1)
               PROVE  v.hist[x] = n - v.wrPos + 1 + x
    OBVIOUS
  <2>1. v.wrPos = wr /\ wr \in Nat /\ x \in 0..(wr - 1) /\ wr = k
    BY <1>3, <1>6
  <2>2. x \in Index /\ x < k
    BY <1>1, <2>1 DEF Index
  <2>3. v.hist[x] = n - k + x + 1
    BY <1>6, <2>2 DEF h
  <2>4. n - k + x + 1 = n - wr + 1 + x
    BY <1>1, <2>1
  <2>5. QED
    BY <2>1, <2>3, <2>4
<1>11. v.full => \A x \in v.wrPos..(W - 1) : v.hist[x] = n - v.wrPos - W + 1 + x
  <2> SUFFICES ASSUME v.full, NEW x \in v.wrPos..(W - 1)
               PROVE  v.hist[x] = n - v.wrPos - W + 1 + x
    OBVIOUS
  <2>1. k = W /\ v.wrPos = 0
    BY <1>6
  <2>2. x \in Index /\ x < k
    BY <2>1 DEF Index
  <2>3. v.hist[x] = n - k + x + 1
    BY <1>6, <2>2 DEF h
  <2>4. x \in Int /\ n - W + x + 1 = n - 0 - W + 1 + x
    BY <2>2 DEF Index
  <2>5. v.hist[x] = n - W + x + 1 /\ n - v.wrPos - W + 1 + x = n - 0 - W + 1 + x
    BY <2>1, <2>3
  <2>6. QED
    BY <2>4, <2>5
<1>12. Window(v, n, p)
  <2> HIDE DEF wr, all
  <2>1. v.rdPos <= v.wrPos /\ v.wrPos <= W
    BY <1>3, <1>6
  <2>2. QED
    BY <1>7, <1>9, <1>10, <1>11, <2>1 DEF Window
<1>13. QED
  BY <1>3, <1>6, <1>8, <1>12 DEF v

\* appendWindow (dict_decoder.go lines 171-179): the last bytes of the stream,
\* as many as the window holds of the dictionary and what was decoded.
LEMMA Appending ==
  ASSUME NEW d, NEW n \in Nat, NEW p \in Nat, Window(d, n, p), d.wrPos < W
  PROVE  LET m == Least(W, p + n)
         IN /\ appendWindow(d) = [i \in 1..m |-> n - m + i]
            /\ Len(appendWindow(d)) = m
<1> DEFINE m == Least(W, p + n)
           f == [i \in 1..m |-> n - m + i]
<1>1. d \in Dict /\ d.wrPos \in Nat /\ d.full \in BOOLEAN
  BY DEF Window, Dict
<1>2. m \in Nat
  BY DEF Least
<1>3. appendWindow(d) = f
  <2>1. CASE d.full
    <3>1. m = W
      BY <2>1 DEF Window, Least
    <3>2. ASSUME NEW i \in 1..W
          PROVE  (IF i <= W - d.wrPos THEN d.hist[d.wrPos + i - 1]
                                      ELSE d.hist[i - (W - d.wrPos) - 1]) = n - m + i
      <4>1. CASE i <= W - d.wrPos
        <5>1. d.wrPos + i - 1 \in d.wrPos..(W - 1)
          BY <1>1, <4>1
        <5>2. d.hist[d.wrPos + i - 1] = n - d.wrPos - W + 1 + (d.wrPos + i - 1)
          BY <2>1, <5>1 DEF Window
        <5>3. QED
          BY <1>1, <3>1, <4>1, <5>2
      <4>2. CASE ~(i <= W - d.wrPos)
        <5>1. i - (W - d.wrPos) - 1 \in 0..(d.wrPos - 1)
          BY <1>1, <4>2
        <5>2. d.hist[i - (W - d.wrPos) - 1] = n - d.wrPos + 1 + (i - (W - d.wrPos) - 1)
          BY <5>1 DEF Window
        <5>3. QED
          BY <1>1, <3>1, <4>2, <5>2
      <4>3. QED
        BY <4>1, <4>2
    <3>3. QED
      BY <2>1, <3>1, <3>2 DEF appendWindow
  <2>2. CASE ~d.full
    <3>1. d.wrPos = p + n /\ m = d.wrPos
      BY <1>1, <2>2 DEF Window, Least
    <3>2. ASSUME NEW i \in 1..d.wrPos
          PROVE  d.hist[i - 1] = n - m + i
      <4>1. i - 1 \in 0..(d.wrPos - 1)
        BY <1>1
      <4>2. d.hist[i - 1] = n - d.wrPos + 1 + (i - 1)
        BY <4>1 DEF Window
      <4>3. QED
        BY <1>1, <3>1, <4>2
    <3>3. QED
      BY <2>2, <3>1, <3>2 DEF appendWindow
  <2>3. QED
    BY <1>1, <2>1, <2>2
<1>4. Len(f) = m
  <2> HIDE DEF m
  <2>1. f \in Seq(Int)
    BY <1>2
  <2>2. QED
    BY <1>2
<1>5. QED
  BY <1>3, <1>4
-----------------------------------------------------------------------------
(* Steps of the decoder.                                                   *)

\* A dictionary d and a slice s after byte n, when the rest of the state is
\* left alone.
Standing(d, s, n) ==
  /\ Window(d, n, input.preset)
  /\ uncOffset + decoded(d) = n
  /\ Proper(s)
  /\ InTurn(d, s, n, Len(delivered))

\* What the invariant says when the decoder runs.
LEMMA Running ==
  ASSUME IInv, ~Stopped
  PROVE  /\ Standing(dict, toRead, written)
         /\ written \in Nat /\ input.preset \in Nat /\ Len(delivered) \in Nat
         /\ dict.wrPos < W /\ dict.wrPos \in Nat
         /\ availWrite(dict) \in Nat \ {0}
<1>1. input.preset \in Nat
  BY InflateAssumption DEF IInv, TypeOK
<1>2. dict.wrPos \in Nat /\ dict.wrPos < W
  BY DEF IInv, InWindow, Window, Dict
<1>3. availWrite(dict) \in Nat \ {0}
  BY <1>2 DEF availWrite
<1>4. Standing(dict, toRead, written)
  BY DEF IInv, InWindow, InOrder, Standing
<1>5. QED
  BY <1>1, <1>2, <1>3, <1>4 DEF IInv, TypeOK, InOrder

\* Decoded bytes are put behind those that the caller has not got.
LEMMA StandingWrote ==
  ASSUME NEW d, NEW s, NEW n \in Nat, NEW cnt \in Nat, Standing(d, s, n),
         SliceLen(s) = 0, cnt <= availWrite(d),
         input.preset \in Nat, uncOffset \in Nat, Len(delivered) \in Nat
  PROVE  LET v == wrote(d, cnt, n + 1)
         IN /\ Standing(v, s, n + cnt)
            /\ v.wrPos = d.wrPos + cnt
            /\ availWrite(v) = availWrite(d) - cnt
            /\ availWrite(v) \in Nat
<1> DEFINE v == wrote(d, cnt, n + 1)
           p == input.preset
<1>1. /\ Window(d, n, p) /\ uncOffset + decoded(d) = n
      /\ Len(delivered) + SliceLen(s) + availRead(d) = n
  BY DEF Standing, InTurn
<1> HIDE DEF p
<1>2. p \in Nat
  BY DEF p
<1>3. /\ Window(v, n + cnt, p)
      /\ v.wrPos = d.wrPos + cnt
      /\ availRead(v) = availRead(d) + cnt
      /\ availWrite(v) = availWrite(d) - cnt
      /\ decoded(v) = decoded(d) + cnt
  BY <1>1, <1>2, Writing
<1> HIDE DEF v
<1>4. /\ d.wrPos \in Nat /\ d.rdPos \in Nat /\ d.flushed \in Nat /\ d.wrPos <= W
      /\ availRead(d) \in Int /\ decoded(d) \in Int /\ availWrite(d) \in Int
  BY <1>1, SMTT(40) DEF Window, Dict, availRead, decoded, availWrite
<1>5. uncOffset + decoded(v) = n + cnt
  <2>1. uncOffset + decoded(d) = n
    BY <1>1
  <2>2. decoded(v) = decoded(d) + cnt
    BY <1>3
  <2>3. decoded(d) \in Int
    BY <1>4
  <2>4. QED
    BY <2>1, <2>2, <2>3
<1>6. Proper(s) /\ InTurn(v, s, n + cnt, Len(delivered))
  <2>1. Proper(s) /\ s.lo \in Nat /\ s.hi \in Nat /\ s.lo = s.hi
    BY DEF Standing, Proper, Slices, SliceLen
  <2>2. Len(delivered) + SliceLen(s) + availRead(v) = n + cnt
    <3>1. Len(delivered) + SliceLen(s) + availRead(d) = n
      BY <1>1
    <3>2. availRead(v) = availRead(d) + cnt
      BY <1>3
    <3>3. availRead(d) \in Int
      BY <1>4
    <3>4. QED
      BY <3>1, <3>2, <3>3
  <2>3. QED
    BY <2>1, <2>2 DEF InTurn
<1>7. Window(v, n + cnt, input.preset)
  BY <1>3 DEF p
<1>8. Standing(v, s, n + cnt)
  BY <1>5, <1>6, <1>7 DEF Standing
<1>9. QED
  BY <1>3, <1>4, <1>8, SMTT(40) DEF v

\* The caller gets all of it next.
LEMMA StandingFlushed ==
  ASSUME NEW d, NEW s, NEW n \in Nat, Standing(d, s, n), SliceLen(s) = 0,
         input.preset \in Nat, Len(delivered) \in Nat
  PROVE  LET v == readFlush(d)
         IN /\ Standing(v, Slice(d), n)
            /\ v.wrPos < W
            /\ availRead(v) = 0
            /\ SliceLen(Slice(d)) = availRead(d)
<1> DEFINE v == readFlush(d)
           p == input.preset
           cnt == Len(delivered)
<1>1. /\ Window(d, n, p) /\ Proper(s) /\ InTurn(d, s, n, cnt)
      /\ uncOffset + decoded(d) = n
  BY DEF Standing
<1> HIDE DEF p, cnt
<1>2. p \in Nat /\ cnt \in Nat
  BY DEF p, cnt
<1>3. /\ Window(v, n, p) /\ v.wrPos < W /\ availRead(v) = 0
      /\ decoded(v) = decoded(d)
  BY <1>1, <1>2, Flushing
<1>4. /\ Proper(Slice(d)) /\ SliceLen(Slice(d)) = availRead(d)
      /\ InTurn(v, Slice(d), n, cnt)
  BY <1>1, <1>2, Handing
<1>5. Standing(v, Slice(d), n)
  BY <1>1, <1>3, <1>4 DEF Standing, p, cnt
<1>6. QED
  BY <1>3, <1>4, <1>5

\* What is delivered, and of the window where nothing is written, stays.
LEMMA Unmoved ==
  ASSUME IInv, ~Stopped,
         UNCHANGED <<input, dict, toRead, written, uncOffset, delivered>>
  PROVE  InWindow' /\ InOrder'
<1>1. InWindow'
  BY DEF IInv, InWindow, Window, decoded, availRead
<1>2. InOrder'
  BY DEF IInv, InOrder
<1>3. QED
  BY <1>1, <1>2

\* The same after a step that writes or flushes.
LEMMA Moved ==
  ASSUME IInv, Standing(dict', toRead', written'), dict'.wrPos < W,
         UNCHANGED <<input, uncOffset, delivered>>
  PROVE  InWindow' /\ InOrder'
<1>1. InWindow'
  BY DEF InWindow, Standing
<1>2. InOrder'
  BY DEF IInv, InOrder, Standing
<1>3. QED
  BY <1>1, <1>2

\* No checkpoint is given.
LEMMA SameCheckpoints ==
  ASSUME IInv, UNCHANGED <<input, cps>>
  PROVE  Checkpoints'
BY DEF IInv, Checkpoints, LastBytes
-----------------------------------------------------------------------------
(* The three ways in which a step of the decoder ends.                     *)

\* The state variables' types after such a step.
LEMMA SteppedType ==
  ASSUME IInv, UNCHANGED <<input, flushMode, uncOffset, call>>,
         written' \in Nat, copyLen' \in Nat, pos' \in Nat \ {0}, pc' = "stepped",
         err' \in Errors, step' \in {"nextBlock", "copyData", "huffman"},
         stepState' \in {"stateInit", "stateDict"}
  PROVE  TypeOK' /\ Quiet'
BY DEF IInv, TypeOK, Quiet, Working

\* It fails: an error is kept for the caller and the output stays.
LEMMA Failing ==
  ASSUME IInv, NEW e \in Errors, e # "nil", fail(e),
         UNCHANGED <<input, flushMode, step, stepState, toRead, uncOffset, call,
                     delivered, cps>>,
         written' \in Nat, copyLen' \in Nat, pos' \in Nat \ {0},
         Standing(dict', toRead, written'), dict'.wrPos < W
  PROVE  IInv'
<1>1. err' = e /\ pc' = "stepped"
  BY DEF fail
<1>2. TypeOK' /\ Quiet'
  <2>1. /\ step' \in {"nextBlock", "copyData", "huffman"}
        /\ stepState' \in {"stateInit", "stateDict"}
    BY DEF IInv, TypeOK
  <2>2. QED
    BY <1>1, <2>1, SteppedType
<1>3. InWindow' /\ InOrder'
  BY Moved
<1>4. CopyDone' /\ Flushed'
  BY <1>1 DEF CopyDone, Flushed
<1>5. Checkpoints'
  BY SameCheckpoints
<1>6. QED
  BY <1>2, <1>3, <1>4, <1>5 DEF IInv

\* What is in the window is flushed to the caller, and the step is to be
\* continued.
LEMMA Interrupting ==
  ASSUME IInv, NEW d, SliceLen(toRead) = 0, Standing(d, toRead, written'),
         toRead' = Slice(d), dict' = readFlush(d), pc' = "stepped",
         UNCHANGED <<input, flushMode, err, uncOffset, call, delivered, cps>>,
         written' \in Nat, copyLen' \in Nat, pos' \in Nat \ {0},
         step' \in {"copyData", "huffman"}, stepState' \in {"stateInit", "stateDict"},
         step' = "copyData" => pos' > 1 /\ items[pos' - 1] = Raw,
         step' = "huffman" => stepState' = "stateDict" \/ copyLen' = 0
  PROVE  IInv'
<1>1. TypeOK' /\ Quiet'
  <2>1. step' \in {"nextBlock", "copyData", "huffman"} /\ err' \in Errors
    BY DEF IInv, TypeOK
  <2>2. QED
    BY <2>1, SteppedType
<1>2. InWindow' /\ InOrder'
  <2>1. input.preset \in Nat /\ Len(delivered) \in Nat
    BY InflateAssumption DEF IInv, TypeOK, InOrder
  <2>2. Standing(readFlush(d), Slice(d), written') /\ readFlush(d).wrPos < W
    BY <2>1, StandingFlushed
  <2>3. QED
    BY <2>2, Moved
<1>3. CopyDone'
  BY DEF CopyDone
<1>4. Flushed'
  BY DEF Flushed, items
<1>5. Checkpoints'
  BY SameCheckpoints
<1>6. QED
  BY <1>1, <1>2, <1>3, <1>4, <1>5 DEF IInv

\* The window of the checkpoint that finishBlock gives to the callback
\* (inflate.go lines 684-694).
LEMMA CheckpointGiven ==
  ASSUME NEW d, NEW n \in Nat, NEW cp, input.preset \in Nat,
         Window(d, n, input.preset), d.wrPos < W,
         cp.unc = n, cp.window = appendWindow(d)
  PROVE  LastBytes(cp)
<1> DEFINE p == input.preset
           m == Least(W, p + n)
           win == appendWindow(d)
<1>1. Window(d, n, p) /\ p \in Nat
  OBVIOUS
<1> HIDE DEF p
<1>2. win = [i \in 1..m |-> n - m + i] /\ Len(win) = m
  BY <1>1, Appending
<1> HIDE DEF win
<1>3. cp.unc = n /\ cp.window = win
  BY DEF win
<1>4. QED
  BY <1>2, <1>3 DEF p, LastBytes

\* finishBlock: the block is done, and what it left in the window is flushed
\* if the stream ends or partial blocks are to be visible.
LEMMA Finishing ==
  ASSUME IInv, NEW d, NEW s, NEW fin, NEW q \in Nat \ {0},
         finishBlock(d, s, fin, q), pos' = q, copyLen' = 0, written' \in Nat,
         UNCHANGED <<input, flushMode, stepState, uncOffset, call, delivered>>,
         Standing(d, s, written'), d.wrPos < W, availRead(d) > 0 => SliceLen(s) = 0,
         q > 1 /\ Marker(q - 1) => flushMode = "partialFlush" \/ availRead(d) = 0
  PROVE  IInv'
<1> DEFINE flush == (fin \/ flushMode = "partialFlush") /\ availRead(d) > 0
           d2 == IF flush THEN readFlush(d) ELSE d
           n == written'
<1>1. /\ dict' = d2
      /\ toRead' = IF flush THEN Slice(d) ELSE s
      /\ err' = IF fin THEN "EOF" ELSE err
      /\ cps' = IF ~cb THEN cps ELSE
                  cps \cup {[unc |-> uncOffset + decoded(d2), at |-> q,
                             offset |-> (8 * roffset' - nb') \div 8,
                             bit |-> (8 * roffset' - nb') % 8,
                             final |-> fin, window |-> appendWindow(d2)]}
      /\ step' = "nextBlock"
      /\ pc' = "stepped"
  BY DEF finishBlock
<1>2. input.preset \in Nat /\ Len(delivered) \in Nat
  BY InflateAssumption DEF IInv, TypeOK, InOrder
<1>3. Standing(d2, toRead', n) /\ d2.wrPos < W
  <2>1. CASE flush
    <3>1. SliceLen(s) = 0
      BY <2>1
    <3>2. Standing(readFlush(d), Slice(d), n) /\ readFlush(d).wrPos < W
      BY <1>2, <3>1, StandingFlushed
    <3>3. d2 = readFlush(d) /\ toRead' = Slice(d)
      BY <1>1, <2>1
    <3> HIDE DEF d2
    <3>4. QED
      BY <3>2, <3>3
  <2>2. CASE ~flush
    <3>1. d2 = d /\ toRead' = s
      BY <1>1, <2>2
    <3> HIDE DEF d2
    <3>2. QED
      BY <3>1
  <2>3. QED
    BY <2>1, <2>2
<1>4. availRead(d2) = 0 \/ ~flush
  BY <1>2, StandingFlushed
<1>5. availRead(d) \in Nat
  BY DEF Standing, Window, Dict, availRead
<1> HIDE DEF d2, n
<1>6. TypeOK' /\ Quiet'
  <2>1. err' \in Errors
    BY <1>1 DEF IInv, TypeOK, Errors
  <2>2. stepState' \in {"stateInit", "stateDict"}
    BY DEF IInv, TypeOK
  <2>3. QED
    BY <1>1, <2>1, <2>2, SteppedType
<1>7. InWindow' /\ InOrder'
  <2>1. Standing(dict', toRead', written') /\ dict'.wrPos < W
    BY <1>1, <1>3 DEF n
  <2>2. QED
    BY <2>1, Moved
<1>8. CopyDone'
  BY <1>1 DEF CopyDone
<1>9. Flushed'
  <2> SUFFICES ASSUME q > 1, flushMode = "partialFlush" \/ Marker(q - 1)
               PROVE  availRead(d2) = 0
    BY <1>1 DEF Flushed, Marker, items
  <2>1. CASE flush
    BY <1>4, <2>1
  <2>2. CASE ~flush
    <3>1. availRead(d) = 0
      BY <1>5, <2>2
    <3>2. QED
      BY <2>2, <3>1 DEF d2
  <2>3. QED
    BY <2>1, <2>2
<1>10. Checkpoints'
  <2> DEFINE cp == [unc |-> uncOffset + decoded(d2), at |-> q,
                    offset |-> (8 * roffset' - nb') \div 8,
                    bit |-> (8 * roffset' - nb') % 8,
                    final |-> fin, window |-> appendWindow(d2)]
  <2>1. /\ Window(d2, n, input.preset) /\ uncOffset + decoded(d2) = n /\ n \in Nat
    BY <1>3 DEF Standing, n
  <2>0. cp.unc = n /\ cp.at = q /\ cp.window = appendWindow(d2)
    BY <2>1
  <2> HIDE DEF cp
  <2>2. LastBytes(cp)
    <3>1. input.preset \in Nat /\ d2.wrPos < W
      BY <1>2, <1>3
    <3>2. QED
      BY <2>0, <2>1, <3>1, CheckpointGiven
  <2>3. cps' \subseteq cps \cup {cp}
    BY <1>1 DEF cp
  <2>4. ASSUME NEW c \in cps'
        PROVE  c.unc \in Nat /\ c.at \in Nat \ {0} /\ LastBytes(c)
    <3>1. CASE c \in cps
      BY <3>1 DEF IInv, Checkpoints
    <3>2. CASE c = cp
      BY <2>0, <2>1, <2>2, <3>2
    <3>3. QED
      BY <2>3, <3>1, <3>2
  <2>5. input' = input
    OBVIOUS
  <2>6. QED
    BY <2>4, <2>5 DEF Checkpoints, LastBytes
<1>11. QED
  BY <1>6, <1>7, <1>8, <1>9, <1>10 DEF IInv
-----------------------------------------------------------------------------
(* The actions of the decoder.                                             *)

\* What a read beyond the end of the input fails with.
LEMMA ReadErrors ==
  ASSUME TypeOK
  PROVE  ReadError \in Errors /\ ReadError # "nil"
<1>1. input.tail.error \in Errors /\ input.tail.error # "nil"
  BY InflateAssumption DEF TypeOK, Errors
<1>2. noEOF(input.tail.error) \in Errors /\ noEOF(input.tail.error) # "nil"
  BY <1>1 DEF noEOF, Errors
<1>3. QED
  BY <1>1, <1>2 DEF ReadError

\* An item of the input.
LEMMA Items ==
  ASSUME TypeOK, more
  PROVE  items[pos] \in Item
<1>1. items \in Seq(Item)
  BY InflateAssumption DEF TypeOK, items
<1>2. pos \in 1..Len(items)
  BY <1>1 DEF TypeOK, more
<1>3. QED
  BY <1>1, <1>2

\* Of n stored bytes at most n are there; if all are, the last of them is one.
LEMMA RawTaken ==
  ASSUME NEW n \in Nat
  PROVE  /\ RawAvailable(n) \in Nat /\ RawAvailable(n) <= n
         /\ RawAvailable(n) = n /\ n > 0 => items[pos + (n - 1)] = Raw
<1> DEFINE S == {i \in 1..n : \A j \in 0..(i - 1) :
                   pos + j <= Len(items) /\ items[pos + j] = Raw}
<1>1. IsFiniteSet(1..n) /\ Cardinality(1..n) = n
  BY FS_Interval
<1>2. S \in SUBSET (1..n)
  OBVIOUS
<1>3. RawAvailable(n) = Cardinality(S)
  BY DEF RawAvailable
<1>4. n > 0 /\ n \in S => items[pos + (n - 1)] = Raw
  OBVIOUS
<1> HIDE DEF S
<1>5. /\ IsFiniteSet(S) /\ Cardinality(S) <= Cardinality(1..n)
      /\ Cardinality(1..n) = Cardinality(S) => 1..n = S
  BY <1>1, <1>2, FS_Subset
<1>6. Cardinality(S) \in Nat
  BY <1>5, FS_CardinalityType
<1>7. n > 0 /\ S = 1..n => n \in S
  OBVIOUS
<1>8. QED
  BY <1>1, <1>3, <1>4, <1>5, <1>6, <1>7

\* copyData, in the step that starts a stored block or in one that continues
\* it (inflate.go lines 648-671): the caller gets what filled the window, and
\* the block ends when all of its bytes were taken.
LEMMA CopyData ==
  ASSUME IInv, pc = "copyData" \/ (pc = "step" /\ step = "copyData"),
         copyData(copyLen, pos, final),
         UNCHANGED <<input, flushMode, stepState, final, copyDist, uncOffset, call,
                     delivered, cb, reused>>
  PROVE  IInv'
<1> DEFINE want == Least(availWrite(dict), copyLen)
           cnt == RawAvailable(want)
           d == wrote(dict, cnt, written + 1)
           q == pos + cnt
           w == written + cnt
<1>1. /\ pos' = q /\ copyLen' = copyLen - cnt /\ written' = w
      /\ \/ /\ cnt < want /\ fail(ReadError) /\ dict' = d
            /\ UNCHANGED <<step, toRead, cps>>
         \/ /\ cnt = want /\ (availWrite(d) = 0 \/ copyLen - cnt > 0)
            /\ toRead' = Slice(d) /\ dict' = readFlush(d)
            /\ step' = "copyData" /\ pc' = "stepped"
            /\ UNCHANGED <<err, cps>>
         \/ /\ cnt = want /\ ~(availWrite(d) = 0 \/ copyLen - cnt > 0)
            /\ finishBlock(d, toRead, final, q)
  BY DEF copyData
<1>2. ~Stopped /\ Working
  BY DEF Stopped, Working
<1>3. SliceLen(toRead) = 0 /\ err = "nil"
  BY <1>2 DEF IInv, Quiet
<1>4. /\ Standing(dict, toRead, written)
      /\ written \in Nat /\ input.preset \in Nat /\ Len(delivered) \in Nat
      /\ dict.wrPos < W /\ dict.wrPos \in Nat
      /\ availWrite(dict) \in Nat \ {0}
  BY <1>2, Running
<1>5. copyLen \in Nat /\ pos \in Nat \ {0} /\ uncOffset \in Nat
  BY DEF IInv, TypeOK
<1>6. /\ want \in Nat /\ want <= availWrite(dict) /\ want <= copyLen
      /\ want = 0 => copyLen = 0
  BY <1>4, <1>5 DEF Least
<1> HIDE DEF want
<1>7. /\ cnt \in Nat /\ cnt <= want
      /\ cnt = want /\ want > 0 => items[pos + (want - 1)] = Raw
  BY <1>6, RawTaken
<1> HIDE DEF cnt
<1>8. cnt <= availWrite(dict) /\ w \in Nat
  BY <1>4, <1>6, <1>7
<1>9. /\ Standing(d, toRead, w)
      /\ d.wrPos = dict.wrPos + cnt
      /\ availWrite(d) = availWrite(dict) - cnt
  BY <1>3, <1>4, <1>5, <1>7, <1>8, StandingWrote
<1> HIDE DEF d
<1>10. q \in Nat \ {0} /\ copyLen - cnt \in Nat
  BY <1>5, <1>6, <1>7
<1>11. q > 1 => q - 1 = pos + (cnt - 1)
  BY <1>5, <1>7
<1> HIDE DEF q, w
<1>12. CASE /\ cnt < want /\ fail(ReadError) /\ dict' = d
            /\ UNCHANGED <<step, toRead, cps>>
  <2>1. d.wrPos < W
    BY <1>4, <1>6, <1>7, <1>9, <1>12 DEF availWrite
  <2>2. ReadError \in Errors /\ ReadError # "nil"
    BY ReadErrors DEF IInv
  <2>3. Standing(dict', toRead, written') /\ dict'.wrPos < W
    BY <1>1, <1>9, <1>12, <2>1
  <2>4. written' \in Nat /\ copyLen' \in Nat /\ pos' \in Nat \ {0}
    BY <1>1, <1>8, <1>10
  <2>5. QED
    BY <1>12, <2>2, <2>3, <2>4, Failing
<1>13. CASE /\ cnt = want /\ (availWrite(d) = 0 \/ copyLen - cnt > 0)
            /\ toRead' = Slice(d) /\ dict' = readFlush(d)
            /\ step' = "copyData" /\ pc' = "stepped"
            /\ UNCHANGED <<err, cps>>
  <2>1. cnt > 0
    BY <1>4, <1>5, <1>6, <1>7, <1>9, <1>13
  <2>2. q > 1 /\ items[q - 1] = Raw
    BY <1>5, <1>7, <1>11, <1>13, <2>1 DEF q
  <2>3. Standing(d, toRead, written')
    BY <1>1, <1>9
  <2>4. written' \in Nat /\ copyLen' \in Nat /\ pos' \in Nat \ {0}
    BY <1>1, <1>8, <1>10
  <2>5. stepState' \in {"stateInit", "stateDict"}
    BY DEF IInv, TypeOK
  <2>6. pos' > 1 /\ items[pos' - 1] = Raw
    BY <1>1, <2>2
  <2>7. QED
    BY <1>3, <1>13, <2>3, <2>4, <2>5, <2>6, Interrupting
<1>14. CASE /\ cnt = want /\ ~(availWrite(d) = 0 \/ copyLen - cnt > 0)
            /\ finishBlock(d, toRead, final, q)
  <2>1. copyLen' = 0
    BY <1>1, <1>10, <1>14
  <2>2. d.wrPos < W
    <3>1. availWrite(d) # 0 /\ availWrite(d) = W - d.wrPos /\ d.wrPos \in Nat /\ d.wrPos <= W
      BY <1>9, <1>14 DEF Standing, Window, Dict, availWrite
    <3>2. QED
      BY <3>1
  <2>3. q > 1 => items[q - 1] = Raw
    <3>1. CASE cnt > 0
      BY <1>7, <1>11, <1>14, <3>1
    <3>2. CASE cnt = 0
      <4>1. copyLen = 0
        BY <1>6, <1>14, <3>2
      <4>2. pc = "step" /\ step = "copyData"
        BY <4>1 DEF IInv, CopyDone
      <4>3. items[pos - 1] = Raw
        BY <1>3, <4>2 DEF IInv, Flushed, Between
      <4>4. q = pos
        BY <1>5, <3>2 DEF q
      <4>5. QED
        BY <4>3, <4>4
    <3>3. QED
      BY <1>7, <3>1, <3>2
  <2>4. q > 1 => ~Marker(q - 1)
    BY <2>3 DEF Marker, Raw
  <2>5. Standing(d, toRead, written') /\ written' \in Nat
    BY <1>1, <1>8, <1>9
  <2>6. QED
    BY <1>1, <1>3, <1>10, <1>14, <2>1, <2>2, <2>4, <2>5, Finishing
<1>15. QED
  BY <1>1, <1>12, <1>13, <1>14
\* The decoder goes on within the step.
LEMMA Continuing ==
  ASSUME IInv, Working, pc' \in {"copyData", "readLiteral", "copyHistory"},
         UNCHANGED <<input, flushMode, step, stepState, err, toRead, uncOffset, call,
                     delivered, cps>>,
         Standing(dict', toRead, written'), dict'.wrPos < W,
         written' \in Nat, copyLen' \in Nat, pos' \in Nat \ {0},
         pc' = "readLiteral" => copyLen' = 0, pc' = "copyData" => copyLen' > 0
  PROVE  IInv'
<1>1. TypeOK'
  BY DEF IInv, TypeOK
<1>2. InWindow' /\ InOrder'
  BY Moved
<1>3. Quiet'
  BY DEF IInv, Quiet, Working
<1>4. CopyDone' /\ Flushed'
  BY DEF CopyDone, Flushed, Between
<1>5. Checkpoints'
  BY SameCheckpoints
<1>6. QED
  BY <1>1, <1>2, <1>3, <1>4, <1>5 DEF IInv

\* The types that the steps at a block header and inside a block start from.
LEMMA AtWork ==
  ASSUME IInv, Working
  PROVE  /\ Standing(dict, toRead, written) /\ dict.wrPos < W
         /\ written \in Nat /\ input.preset \in Nat /\ Len(delivered) \in Nat
         /\ uncOffset \in Nat /\ copyLen \in Nat
         /\ pos \in Nat \ {0} /\ pos + 1 \in Nat \ {0} /\ (pos + 1) - 1 = pos
         /\ availWrite(dict) \in Nat \ {0}
         /\ SliceLen(toRead) = 0 /\ err = "nil"
<1>1. ~Stopped
  BY DEF Working, Stopped
<1>2. SliceLen(toRead) = 0 /\ err = "nil"
  BY DEF IInv, Quiet
<1>3. /\ uncOffset \in Nat /\ copyLen \in Nat /\ pos \in Nat \ {0}
      /\ pos + 1 \in Nat \ {0} /\ (pos + 1) - 1 = pos
  BY DEF IInv, TypeOK
<1>4. QED
  BY <1>1, <1>2, <1>3, Running

\* nextBlock without a header (inflate.go lines 352-395, 464-597).
LEMMA NextBlockFailing ==
  ASSUME IInv, NextBlockFails
  PROVE  IInv'
<1>1. Working
  BY DEF NextBlockFails, Take, Working
<1>2. PICK e \in {ReadError, "Corrupt"} : fail(e)
  BY DEF NextBlockFails, Take
<1>3. e \in Errors /\ e # "nil"
  BY <1>2, ReadErrors DEF IInv, Errors
<1>4. UNCHANGED <<input, flushMode, step, stepState, toRead, uncOffset, call,
                  delivered, cps>> /\ UNCHANGED <<dict, written, copyLen>>
  BY DEF NextBlockFails, Take
<1>5. pos' \in Nat \ {0}
  BY <1>1, AtWork DEF NextBlockFails, Take
<1>6. /\ Standing(dict', toRead, written') /\ dict'.wrPos < W
      /\ written' \in Nat /\ copyLen' \in Nat
  BY <1>1, <1>4, AtWork
<1>7. QED
  BY <1>2, <1>3, <1>4, <1>5, <1>6, Failing

\* dataBlock (inflate.go lines 600-646): a sync marker shows the caller what
\* was decoded so far.
LEMMA NextBlockStoring ==
  ASSUME IInv, NextBlockStored
  PROVE  IInv'
<1>1. /\ pc = "step" /\ step = "nextBlock" /\ atHeader("stored") /\ pos' = pos + 1
      /\ UNCHANGED <<input, flushMode, stepState, uncOffset, call, delivered>>
  BY DEF NextBlockStored
<1>2. Working
  BY <1>1 DEF Working
<1>3. copyLen = 0
  BY <1>1, <1>2, AtWork DEF IInv, CopyDone, Between
<1>4. CASE /\ items[pos].n = 0
           /\ IF flushMode = "syncFlush"
              THEN finishBlock(readFlush(dict), Slice(dict), final', pos + 1)
              ELSE finishBlock(dict, toRead, final', pos + 1)
           /\ UNCHANGED <<copyLen, written>>
  <2>1. copyLen' = 0 /\ written' \in Nat /\ pos + 1 \in Nat \ {0}
    BY <1>2, <1>3, <1>4, AtWork
  <2>2. CASE flushMode = "syncFlush"
    <3> DEFINE d == readFlush(dict)
               s == Slice(dict)
    <3>1. /\ Standing(dict, toRead, written) /\ written \in Nat
          /\ SliceLen(toRead) = 0
          /\ input.preset \in Nat /\ Len(delivered) \in Nat
      BY <1>2, AtWork
    <3>2. Standing(d, s, written) /\ d.wrPos < W /\ availRead(d) = 0
      BY <3>1, StandingFlushed
    <3>3. finishBlock(d, s, final', pos + 1)
      BY <1>4, <2>2
    <3> HIDE DEF d, s
    <3>4. Standing(d, s, written')
      BY <1>4, <3>2
    <3>5. availRead(d) > 0 => SliceLen(s) = 0
      BY <3>2
    <3>6. QED
      BY <1>1, <2>1, <3>2, <3>3, <3>4, <3>5, Finishing
  <2>3. CASE flushMode = "partialFlush"
    <3>1. finishBlock(dict, toRead, final', pos + 1)
      BY <1>4, <2>3
    <3>2. Standing(dict, toRead, written') /\ dict.wrPos < W /\ SliceLen(toRead) = 0
      BY <1>2, <1>4, AtWork
    <3>3. QED
      BY <1>1, <2>1, <2>3, <3>1, <3>2, Finishing
  <2>4. QED
    BY <2>2, <2>3 DEF IInv, TypeOK
<1>5. CASE /\ items[pos].n > 0
           /\ copyLen' = items[pos].n
           /\ pc' = "copyData"
           /\ UNCHANGED <<dict, toRead, err, cps, step, written>>
  <2>1. items[pos] \in Item /\ items[pos].k = "header"
    BY <1>1, Items DEF IInv, atHeader
  <2>2. items[pos].n \in Nat
    BY <2>1 DEF Item, Raw, Lit, EOB, BadSym
  <2>3. /\ Standing(dict', toRead, written') /\ dict'.wrPos < W
        /\ written' \in Nat /\ pos' \in Nat \ {0}
    BY <1>1, <1>2, <1>5, AtWork
  <2>4. copyLen' \in Nat /\ copyLen' > 0
    BY <1>5, <2>2
  <2>5. QED
    BY <1>1, <1>2, <1>5, <2>3, <2>4, Continuing
<1>6. QED
  BY <1>4, <1>5 DEF NextBlockStored

\* A Huffman block is entered, or continued, where stepState says.
LEMMA HuffmanEntry ==
  ASSUME IInv, NextBlockHuffman \/ StepHuffman
  PROVE  IInv'
<1>1. /\ pc = "step" /\ step \in {"nextBlock", "huffman"} /\ pc' = entry
      /\ pos' \in {pos, pos + 1}
      /\ UNCHANGED <<input, flushMode, step, stepState, err, toRead, uncOffset, call,
                     delivered, cps>> /\ UNCHANGED <<dict, written, copyLen>>
  BY DEF NextBlockHuffman, Take, StepHuffman, decoder
<1>2. Working
  BY <1>1 DEF Working
<1>3. pc' = "readLiteral" => copyLen' = 0
  BY <1>1, <1>2, AtWork DEF IInv, CopyDone, Between, entry
<1>4. /\ Standing(dict', toRead, written') /\ dict'.wrPos < W
      /\ written' \in Nat /\ copyLen' \in Nat /\ pos' \in Nat \ {0}
  BY <1>1, <1>2, AtWork
<1>5. pc' \in {"copyData", "readLiteral", "copyHistory"} /\ pc' # "copyData"
  BY <1>1 DEF entry
<1>6. QED
  BY <1>1, <1>2, <1>3, <1>4, <1>5, Continuing

\* readLiteral: no symbol, or an invalid one (inflate_gen.go lines 45-249).
LEMMA SymbolFailing ==
  ASSUME IInv, SymbolFails
  PROVE  IInv'
<1>1. Working
  BY DEF SymbolFails, Take, Working
<1>2. PICK e \in {ReadError, "Corrupt"} : fail(e)
  BY DEF SymbolFails, Take
<1>3. e \in Errors /\ e # "nil"
  BY <1>2, ReadErrors DEF IInv, Errors
<1>4. UNCHANGED <<input, flushMode, step, stepState, toRead, uncOffset, call,
                  delivered, cps>> /\ UNCHANGED <<dict, written, copyLen>>
  BY DEF SymbolFails, Take
<1>5. pos' \in Nat \ {0}
  BY <1>1, AtWork DEF SymbolFails, Take
<1>6. /\ Standing(dict', toRead, written') /\ dict'.wrPos < W
      /\ written' \in Nat /\ copyLen' \in Nat
  BY <1>1, <1>4, AtWork
<1>7. QED
  BY <1>2, <1>3, <1>4, <1>5, <1>6, Failing

\* A literal: the window is flushed when it is full.
LEMMA LiteralRead ==
  ASSUME IInv, Literal
  PROVE  IInv'
<1> DEFINE d == wrote(dict, 1, written + 1)
<1>1. /\ pc = "readLiteral" /\ pos' = pos + 1 /\ written' = written + 1
      /\ \/ /\ availWrite(d) = 0
            /\ toRead' = Slice(d) /\ dict' = readFlush(d)
            /\ step' = "huffman" /\ stepState' = "stateInit" /\ pc' = "stepped"
         \/ /\ availWrite(d) # 0
            /\ dict' = d /\ UNCHANGED <<toRead, step, stepState, pc>>
      /\ UNCHANGED <<input, flushMode, err, uncOffset, call, delivered, cps>>
      /\ UNCHANGED copyLen
  BY DEF Literal, Take
<1>2. Working /\ copyLen = 0
  BY <1>1 DEF Working, IInv, CopyDone
<1>3. /\ Standing(dict, toRead, written) /\ SliceLen(toRead) = 0
      /\ written \in Nat /\ input.preset \in Nat /\ uncOffset \in Nat
      /\ Len(delivered) \in Nat /\ 1 <= availWrite(dict)
      /\ pos + 1 \in Nat \ {0}
  BY <1>2, AtWork
<1>4. Standing(d, toRead, written + 1) /\ availWrite(d) \in Nat
  BY <1>3, StandingWrote
<1> HIDE DEF d
<1>5. /\ Standing(d, toRead, written') /\ written' \in Nat /\ pos' \in Nat \ {0}
      /\ copyLen' \in Nat /\ copyLen' = 0
  BY <1>1, <1>2, <1>3, <1>4
<1>6. CASE /\ availWrite(d) = 0
           /\ toRead' = Slice(d) /\ dict' = readFlush(d)
           /\ step' = "huffman" /\ stepState' = "stateInit" /\ pc' = "stepped"
  BY <1>1, <1>3, <1>5, <1>6, Interrupting
<1>7. CASE /\ availWrite(d) # 0
           /\ dict' = d /\ UNCHANGED <<toRead, step, stepState, pc>>
  <2>1. d.wrPos < W
    <3>1. d.wrPos \in Nat /\ d.wrPos <= W /\ W - d.wrPos # 0
      BY <1>4, <1>7 DEF Standing, Window, Dict, availWrite
    <3>2. QED
      BY <3>1
  <2>2. Standing(dict', toRead, written') /\ dict'.wrPos < W
    BY <1>5, <1>7, <2>1
  <2>3. QED
    BY <1>1, <1>2, <1>5, <1>7, <2>2, Continuing
<1>8. QED
  BY <1>1, <1>6, <1>7

\* The end of a Huffman block.
LEMMA BlockEnding ==
  ASSUME IInv, EndOfBlock
  PROVE  IInv'
<1>1. /\ pc = "readLiteral" /\ items[pos].k = "eob" /\ pos' = pos + 1
      /\ finishBlock(dict, toRead, final, pos + 1)
      /\ UNCHANGED <<input, flushMode, stepState, uncOffset, call, delivered>>
      /\ UNCHANGED <<copyLen, written>>
  BY DEF EndOfBlock, Take
<1>2. Working /\ copyLen = 0
  BY <1>1 DEF Working, IInv, CopyDone
<1>3. ~Marker((pos + 1) - 1)
  BY <1>1, <1>2, AtWork DEF Marker
<1>4. /\ Standing(dict, toRead, written') /\ dict.wrPos < W /\ SliceLen(toRead) = 0
      /\ written' \in Nat /\ copyLen' = 0 /\ pos + 1 \in Nat \ {0}
  BY <1>1, <1>2, AtWork
<1>5. QED
  BY <1>1, <1>3, <1>4, Finishing

\* A length and a distance.
LEMMA PairRead ==
  ASSUME IInv, MatchPair
  PROVE  IInv'
<1>1. /\ pc = "readLiteral" /\ more /\ items[pos].k = "pair" /\ pos' = pos + 1
      /\ copyLen' = items[pos].len /\ pc' = "copyHistory"
      /\ UNCHANGED <<input, flushMode, step, stepState, err, toRead, uncOffset, call,
                     delivered, cps>> /\ UNCHANGED <<dict, written>>
  BY DEF MatchPair, Take
<1>2. Working
  BY <1>1 DEF Working
<1>3. items[pos] \in Item
  BY <1>1, Items DEF IInv
<1>4. copyLen' \in Nat
  BY <1>1, <1>3 DEF Item, Raw, Lit, EOB, BadSym
<1>5. /\ Standing(dict', toRead, written') /\ dict'.wrPos < W
      /\ written' \in Nat /\ pos' \in Nat \ {0}
  BY <1>1, <1>2, AtWork
<1>6. QED
  BY <1>1, <1>2, <1>4, <1>5, Continuing

\* copyHistory: a copy that fills the window is interrupted and continued.
LEMMA HistoryCopied ==
  ASSUME IInv, copyHistory
  PROVE  IInv'
<1> DEFINE cnt == Least(copyLen, availWrite(dict))
           d == wrote(dict, cnt, written + 1)
           w == written + cnt
<1>1. /\ pc = "copyHistory" /\ copyLen' = copyLen - cnt /\ written' = w
      /\ \/ /\ availWrite(d) = 0 \/ copyLen - cnt > 0
            /\ toRead' = Slice(d) /\ dict' = readFlush(d)
            /\ step' = "huffman" /\ stepState' = "stateDict" /\ pc' = "stepped"
         \/ /\ ~(availWrite(d) = 0 \/ copyLen - cnt > 0)
            /\ dict' = d /\ pc' = "readLiteral"
            /\ UNCHANGED <<toRead, step, stepState>>
      /\ UNCHANGED <<input, flushMode, err, uncOffset, call, delivered, cps>>
      /\ UNCHANGED pos
  BY DEF copyHistory
<1>2. Working
  BY <1>1 DEF Working
<1>3. /\ Standing(dict, toRead, written) /\ SliceLen(toRead) = 0
      /\ written \in Nat /\ input.preset \in Nat /\ uncOffset \in Nat
      /\ Len(delivered) \in Nat /\ availWrite(dict) \in Nat /\ copyLen \in Nat
      /\ pos \in Nat \ {0}
  BY <1>2, AtWork
<1>4. cnt \in Nat /\ cnt <= availWrite(dict) /\ cnt <= copyLen
  BY <1>3 DEF Least
<1> HIDE DEF cnt
<1>5. Standing(d, toRead, w) /\ availWrite(d) \in Nat
  BY <1>3, <1>4, StandingWrote
<1> HIDE DEF d
<1>6. w \in Nat /\ copyLen - cnt \in Nat
  BY <1>3, <1>4
<1> HIDE DEF w
<1>7. /\ Standing(d, toRead, written') /\ written' \in Nat /\ copyLen' \in Nat
      /\ pos' \in Nat \ {0}
  BY <1>1, <1>3, <1>5, <1>6
<1>8. CASE /\ availWrite(d) = 0 \/ copyLen - cnt > 0
           /\ toRead' = Slice(d) /\ dict' = readFlush(d)
           /\ step' = "huffman" /\ stepState' = "stateDict" /\ pc' = "stepped"
  BY <1>1, <1>3, <1>7, <1>8, Interrupting
<1>9. CASE /\ ~(availWrite(d) = 0 \/ copyLen - cnt > 0)
           /\ dict' = d /\ pc' = "readLiteral"
           /\ UNCHANGED <<toRead, step, stepState>>
  <2>1. d.wrPos < W
    <3>1. d.wrPos \in Nat /\ d.wrPos <= W /\ W - d.wrPos # 0
      BY <1>5, <1>9 DEF Standing, Window, Dict, availWrite
    <3>2. QED
      BY <3>1
  <2>2. Standing(dict', toRead, written') /\ dict'.wrPos < W
    BY <1>7, <1>9, <2>1
  <2>3. copyLen' = 0
    BY <1>1, <1>6, <1>9
  <2>4. QED
    BY <1>1, <1>2, <1>7, <1>9, <2>2, <2>3, Continuing
<1>10. QED
  BY <1>1, <1>8, <1>9
-----------------------------------------------------------------------------
(* The calls.                                                              *)

\* The fields of the state of a call.
LEMMA CallFields ==
  ASSUME NEW c \in CallStates
  PROVE  /\ c.kind \in {"Read", "WriteTo"} /\ c.n \in Nat /\ c.ret \in Errors
         /\ \A r \in Errors : /\ [c EXCEPT !.ret = r] \in CallStates
                              /\ [c EXCEPT !.ret = r].ret = r
BY DEF CallStates

\* A slice of which the first m bytes were taken.
Shorter(s, m) == [s EXCEPT !.lo = @ + m]

LEMMA ShorterFields ==
  ASSUME NEW s, NEW m \in Nat, Proper(s), m <= SliceLen(s)
  PROVE  LET v == Shorter(s, m)
         IN /\ Proper(v)
            /\ v.lo = s.lo + m /\ v.hi = s.hi
            /\ SliceLen(v) = SliceLen(s) - m
<1> DEFINE v == Shorter(s, m)
<1>1. /\ s \in Slices /\ s.lo \in 0..W /\ s.hi \in 0..W /\ s.lo <= s.hi
      /\ m <= s.hi - s.lo
  BY DEF Proper, Slices, SliceLen
<1>2. v = [lo |-> s.lo + m, hi |-> s.hi]
  BY <1>1 DEF Shorter, Slices
<1> HIDE DEF v
<1>3. v.lo = s.lo + m /\ v.hi = s.hi
  BY <1>2
<1>4. s.lo + m \in 0..W /\ s.lo + m <= s.hi
  BY <1>1
<1>5. Proper(v)
  BY <1>1, <1>2, <1>3, <1>4 DEF Proper, Slices
<1>6. SliceLen(v) = SliceLen(s) - m
  BY <1>1, <1>3 DEF SliceLen
<1>7. QED
  BY <1>3, <1>5, <1>6 DEF v

\* Numbered bytes after numbered bytes.
LEMMA NumberedConcat ==
  ASSUME NEW k \in Nat, NEW m \in Nat
  PROVE  LET c == [i \in 1..k |-> i] \o [i \in 1..m |-> k + i]
         IN c = [i \in 1..(k + m) |-> i] /\ Len(c) = k + m
<1> DEFINE a == [i \in 1..k |-> i]
           b == [i \in 1..m |-> k + i]
           c == a \o b
           r == [i \in 1..(k + m) |-> i]
<1>1. a \in Seq(Nat) /\ Len(a) = k
  OBVIOUS
<1>2. b \in Seq(Nat) /\ Len(b) = m
  OBVIOUS
<1>3. r \in Seq(Nat) /\ Len(r) = k + m
  OBVIOUS
<1>4. \A i \in 1..k : a[i] = i
  OBVIOUS
<1>5. \A i \in 1..m : b[i] = k + i
  OBVIOUS
<1>6. \A i \in 1..(k + m) : r[i] = i
  OBVIOUS
<1> HIDE DEF a, b, r
<1>7. /\ c \in Seq(Nat) /\ Len(c) = Len(a) + Len(b)
      /\ \A i \in 1..Len(a) + Len(b) : c[i] = IF i <= Len(a) THEN a[i] ELSE b[i - Len(a)]
  BY <1>1, <1>2, ConcatProperties
<1> HIDE DEF c
<1>8. ASSUME NEW i \in 1..(k + m)
      PROVE  c[i] = r[i]
  <2>1. c[i] = IF i <= k THEN a[i] ELSE b[i - k]
    BY <1>1, <1>2, <1>7
  <2>2. CASE i <= k
    BY <1>4, <1>6, <2>1, <2>2
  <2>3. CASE ~(i <= k)
    <3>1. i - k \in 1..m /\ k + (i - k) = i
      BY <2>3
    <3>2. b[i - k] = i
      BY <1>5, <3>1
    <3>3. QED
      BY <1>6, <2>1, <2>3, <3>2
  <2>4. QED
    BY <2>2, <2>3
<1>9. c = r
  BY <1>1, <1>2, <1>3, <1>7, <1>8, SeqEqual
<1>10. QED
  BY <1>3, <1>9 DEF a, b, c, r

\* Bytes of the slice that waits are appended to what the caller has.
LEMMA Delivering ==
  ASSUME IInv, ~Stopped, NEW m \in Nat, m <= SliceLen(toRead),
         delivered' = delivered \o Bytes(toRead, m)
  PROVE  /\ Len(delivered') = Len(delivered) + m
         /\ Len(delivered') \in Nat
         /\ delivered' = [i \in 1..Len(delivered') |-> i]
<1> DEFINE k == Len(delivered)
           b == Bytes(toRead, m)
<1>1. /\ k \in Nat /\ delivered = [i \in 1..k |-> i]
      /\ InTurn(dict, toRead, written, k)
      /\ Proper(toRead) /\ toRead.lo \in Nat /\ toRead.hi \in Nat
      /\ m <= toRead.hi - toRead.lo
  BY DEF IInv, InOrder, InWindow, Proper, Slices, SliceLen
<1> HIDE DEF k
<1>2. b = [i \in 1..m |-> k + i]
  <2>1. ASSUME NEW i \in 1..m
        PROVE  dict.hist[toRead.lo + i - 1] = k + i
    <3> DEFINE x == toRead.lo + i - 1
    <3>1. x \in toRead.lo..(toRead.hi - 1)
      BY <1>1
    <3>2. k + 1 + (x - toRead.lo) = k + i
      BY <1>1
    <3> HIDE DEF x
    <3>3. dict.hist[x] = k + 1 + (x - toRead.lo)
      BY <1>1, <3>1 DEF InTurn
    <3>4. QED
      BY <3>2, <3>3 DEF x
  <2>2. QED
    BY <2>1 DEF Bytes
<1> HIDE DEF b
<1>3. delivered' = [i \in 1..k |-> i] \o [i \in 1..m |-> k + i]
  BY <1>1, <1>2 DEF b
<1>4. Len(delivered') = k + m /\ delivered' = [i \in 1..(k + m) |-> i]
  BY <1>1, <1>3, NumberedConcat
<1>5. k + m \in Nat
  BY <1>1
<1>6. QED
  BY <1>4, <1>5 DEF k

\* What waits after m bytes were taken is next.
LEMMA TurnTaken ==
  ASSUME NEW d, NEW s, NEW n, NEW k \in Nat, NEW m \in Nat,
         Proper(s), m <= SliceLen(s), InTurn(d, s, n, k), availRead(d) \in Int
  PROVE  InTurn(d, Shorter(s, m), n, k + m)
<1> DEFINE v == Shorter(s, m)
<1>1. /\ v.lo = s.lo + m /\ v.hi = s.hi
      /\ SliceLen(v) = SliceLen(s) - m
  BY ShorterFields
<1> HIDE DEF v
<1>2. s.lo \in Nat /\ s.hi \in Nat /\ SliceLen(s) \in Nat
  BY DEF Proper, Slices, SliceLen
<1>3. (k + m) + SliceLen(v) + availRead(d) = n
  <2>1. k + SliceLen(s) + availRead(d) = n
    BY DEF InTurn
  <2>2. SliceLen(v) = SliceLen(s) - m
    BY <1>1
  <2>3. SliceLen(s) \in Nat
    BY <1>2
  <2>4. QED
    BY <2>1, <2>2, <2>3
<1>4. ASSUME NEW x \in v.lo..(v.hi - 1)
      PROVE  d.hist[x] = (k + m) + 1 + (x - v.lo)
  <2>1. x \in s.lo..(s.hi - 1) /\ x \in Int
    BY <1>1, <1>2
  <2>2. d.hist[x] = k + 1 + (x - s.lo)
    BY <2>1 DEF InTurn
  <2>3. k + 1 + (x - s.lo) = (k + m) + 1 + (x - v.lo)
    BY <1>1, <1>2, <2>1
  <2>4. QED
    BY <2>2, <2>3
<1>5. QED
  BY <1>3, <1>4 DEF InTurn, v

\* The caller takes the first m of the bytes that wait.
LEMMA Taking ==
  ASSUME IInv, ~Stopped, NEW m \in Nat, m <= SliceLen(toRead),
         delivered' = delivered \o Bytes(toRead, m), toRead' = Shorter(toRead, m),
         UNCHANGED <<input, dict, written, uncOffset>>
  PROVE  InWindow' /\ InOrder'
<1> DEFINE s == Shorter(toRead, m)
           k == Len(delivered)
<1>1. /\ Len(delivered') = k + m /\ Len(delivered') \in Nat
      /\ delivered' = [i \in 1..Len(delivered') |-> i]
  BY Delivering
<1>2. /\ k \in Nat /\ InTurn(dict, toRead, written, k)
      /\ Proper(toRead) /\ toRead.lo \in Nat /\ toRead.hi \in Nat
      /\ SliceLen(toRead) \in Nat
  BY DEF IInv, InOrder, InWindow, Proper, Slices, SliceLen
<1>3. /\ Proper(s) /\ s.lo = toRead.lo + m /\ s.hi = toRead.hi
      /\ SliceLen(s) = SliceLen(toRead) - m
  BY <1>2, ShorterFields
<1> HIDE DEF s
<1>4. InTurn(dict, s, written, k + m)
  <2>1. availRead(dict) \in Int
    BY DEF IInv, InWindow, Window, Dict, availRead
  <2>2. QED
    BY <1>2, <2>1, TurnTaken DEF s
<1>5. InWindow'
  <2>1. toRead' = s
    BY DEF s
  <2>2. QED
    BY <1>3, <2>1 DEF IInv, InWindow
<1>6. InOrder'
  <2>1. toRead' = s
    BY DEF s
  <2>2. InTurn(dict', toRead', written', Len(delivered'))
    BY <1>1, <1>4, <2>1
  <2>3. QED
    BY <1>1, <2>2 DEF InOrder
<1>7. QED
  BY <1>5, <1>6

\* What a step of a call, between two steps of the decoder, leaves alone.
\* Nothing is to be copied or shown before the decoder goes on.
LEMMA Calling ==
  ASSUME IInv, Between, pc' \in {"idle", "loop", "step", "stepped"},
         UNCHANGED <<input, pos, flushMode, step, stepState, copyLen, uncOffset,
                     written, cps>>,
         err' \in Errors, call' \in CallStates,
         err' = "nil" => err = "nil" /\ UNCHANGED dict,
         pc' = "step" => err' = "nil" /\ SliceLen(toRead') = 0
  PROVE  TypeOK' /\ Quiet' /\ CopyDone' /\ Flushed' /\ Checkpoints'
<1>1. TypeOK'
  BY DEF IInv, TypeOK
<1>2. Quiet'
  BY DEF Quiet, Working
<1>3. CopyDone'
  BY DEF IInv, CopyDone, Between
<1>4. Flushed'
  <2> SUFFICES ASSUME err' = "nil"
               PROVE  Flushed'
    BY DEF Flushed
  <2>1. err = "nil" /\ dict' = dict
    OBVIOUS
  <2>2. QED
    BY <2>1 DEF IInv, Flushed, Marker, items, availRead
<1>5. Checkpoints'
  BY SameCheckpoints
<1>6. QED
  BY <1>1, <1>2, <1>3, <1>4, <1>5

\* The call begins.
LEMMA CallBegun ==
  ASSUME IInv, Calls
  PROVE  IInv'
<1>0. PICK n \in Buffers \cup {0} : Read(n) \/ WriteTo
  BY DEF Calls
<1>1. /\ pc = "idle" /\ pc' = "loop"
      /\ call' \in {[kind |-> "Read", n |-> n, flushed |-> FALSE, ret |-> "none"],
                    [kind |-> "WriteTo", n |-> 0, flushed |-> FALSE, ret |-> "none"]}
      /\ UNCHANGED <<input, pos, flushMode, step, stepState, copyLen, uncOffset,
                     written, cps>>
      /\ UNCHANGED <<dict, toRead, delivered, err>>
  BY <1>0 DEF Read, WriteTo, decoder
<1>2. Between /\ ~Stopped
  BY <1>1 DEF Between, Stopped, Calls
<1>3. call' \in CallStates
  <2>1. n \in Nat /\ "none" \in Errors
    BY InflateAssumption DEF Errors
  <2>2. CASE call' = [kind |-> "Read", n |-> n, flushed |-> FALSE, ret |-> "none"]
    BY <2>1, <2>2 DEF CallStates
  <2>3. CASE call' = [kind |-> "WriteTo", n |-> 0, flushed |-> FALSE, ret |-> "none"]
    BY <2>1, <2>3 DEF CallStates
  <2>4. QED
    BY <1>1, <2>2, <2>3
<1>4. err' \in Errors
  BY <1>1 DEF IInv, TypeOK
<1>5. TypeOK' /\ Quiet' /\ CopyDone' /\ Flushed' /\ Checkpoints'
  BY <1>1, <1>2, <1>3, <1>4, Calling
<1>6. InWindow' /\ InOrder'
  BY <1>1, <1>2, Unmoved
<1>7. QED
  BY <1>5, <1>6 DEF IInv

\* Read's loop (inflate.go lines 397-417).
LEMMA ReadLooped ==
  ASSUME IInv, ReadLoop
  PROVE  IInv'
<1>1. /\ pc = "loop"
      /\ UNCHANGED <<input, pos, flushMode, step, stepState, copyLen, uncOffset,
                     written, cps>>
      /\ UNCHANGED <<dict, err>>
  BY DEF ReadLoop
<1>2. Between /\ ~Stopped
  BY <1>1 DEF Between, Stopped
<1>3. /\ call \in CallStates /\ call.n \in Nat
      /\ err \in Errors /\ "nil" \in Errors
  BY CallFields DEF IInv, TypeOK, Errors
<1>4. SliceLen(toRead) \in Nat
  BY DEF IInv, InWindow, Proper, Slices, SliceLen
<1> DEFINE m == Least(call.n, SliceLen(toRead))
<1>5. CASE /\ delivered' = delivered \o Bytes(toRead, m)
           /\ toRead' = [toRead EXCEPT !.lo = @ + m]
           /\ call' = [call EXCEPT !.ret = IF m = SliceLen(toRead) THEN err ELSE "nil"]
           /\ pc' = "idle"
  <2>1. m \in Nat /\ m <= SliceLen(toRead)
    BY <1>3, <1>4 DEF Least
  <2>2. toRead' = Shorter(toRead, m)
    BY <1>5 DEF Shorter
  <2>3. call' \in CallStates
    <3> DEFINE r == IF m = SliceLen(toRead) THEN err ELSE "nil"
    <3>1. r \in Errors
      BY <1>3
    <3>2. call' = [call EXCEPT !.ret = r]
      BY <1>5
    <3> HIDE DEF r
    <3>3. QED
      BY <1>3, <3>1, <3>2, CallFields
  <2> HIDE DEF m
  <2>4. InWindow' /\ InOrder'
    BY <1>1, <1>2, <1>5, <2>1, <2>2, Taking
  <2>5. TypeOK' /\ Quiet' /\ CopyDone' /\ Flushed' /\ Checkpoints'
    BY <1>1, <1>2, <1>3, <1>5, <2>3, Calling
  <2>6. QED
    BY <2>4, <2>5 DEF IInv
<1>6. CASE /\ call' = [call EXCEPT !.ret = err]
           /\ pc' = "idle"
           /\ UNCHANGED <<delivered, toRead>>
  <2>1. call' \in CallStates
    BY <1>3, <1>6, CallFields
  <2>2. InWindow' /\ InOrder'
    BY <1>1, <1>2, <1>6, Unmoved
  <2>3. TypeOK' /\ Quiet' /\ CopyDone' /\ Flushed' /\ Checkpoints'
    BY <1>1, <1>2, <1>3, <1>6, <2>1, Calling
  <2>4. QED
    BY <2>2, <2>3 DEF IInv
<1>7. CASE /\ SliceLen(toRead) = 0
           /\ err = "nil"
           /\ pc' = "step"
           /\ UNCHANGED <<delivered, toRead, call>>
  <2>1. call' \in CallStates /\ SliceLen(toRead') = 0
    BY <1>3, <1>7
  <2>2. InWindow' /\ InOrder'
    BY <1>1, <1>2, <1>7, Unmoved
  <2>3. TypeOK' /\ Quiet' /\ CopyDone' /\ Flushed' /\ Checkpoints'
    BY <1>1, <1>2, <1>3, <1>7, <2>1, Calling
  <2>4. QED
    BY <2>2, <2>3 DEF IInv
<1>8. QED
  BY <1>5, <1>6, <1>7 DEF ReadLoop

\* After doStep what is left in the window is flushed if there was an error
\* and nothing waits (inflate.go lines 411-415, 442-448).
LEMMA SteppedBack ==
  ASSUME IInv, ReadStepped \/ WriteToStepped
  PROVE  IInv'
<1>1. /\ pc = "stepped" /\ pc' = "loop"
      /\ \/ /\ err # "nil" /\ SliceLen(toRead) = 0
            /\ toRead' = Slice(dict) /\ dict' = readFlush(dict)
            /\ call' \in {call, [call EXCEPT !.flushed = TRUE]}
         \/ UNCHANGED <<toRead, dict, call>>
      /\ UNCHANGED <<input, pos, flushMode, step, stepState, copyLen, uncOffset,
                     written, cps>>
      /\ UNCHANGED <<delivered, err>>
  BY DEF ReadStepped, WriteToStepped
<1>2. Between /\ ~Stopped
  BY <1>1 DEF Between, Stopped
<1>3. call \in CallStates /\ err' \in Errors
  BY <1>1 DEF IInv, TypeOK
<1>4. CASE /\ err # "nil" /\ SliceLen(toRead) = 0
           /\ toRead' = Slice(dict) /\ dict' = readFlush(dict)
           /\ call' \in {call, [call EXCEPT !.flushed = TRUE]}
  <2>1. call' \in CallStates
    BY <1>3, <1>4 DEF CallStates
  <2>2. TypeOK' /\ Quiet' /\ CopyDone' /\ Flushed' /\ Checkpoints'
    BY <1>1, <1>2, <1>3, <1>4, <2>1, Calling
  <2>3. /\ Standing(dict, toRead, written) /\ written \in Nat
        /\ input.preset \in Nat /\ Len(delivered) \in Nat
    BY <1>2, Running
  <2>4. Standing(readFlush(dict), Slice(dict), written) /\ readFlush(dict).wrPos < W
    BY <1>4, <2>3, StandingFlushed
  <2>5. InWindow' /\ InOrder'
    BY <1>1, <1>4, <2>4, Moved
  <2>6. QED
    BY <2>2, <2>5 DEF IInv
<1>5. CASE UNCHANGED <<toRead, dict, call>>
  <2>1. TypeOK' /\ Quiet' /\ CopyDone' /\ Flushed' /\ Checkpoints'
    BY <1>1, <1>2, <1>3, <1>5, Calling
  <2>2. InWindow' /\ InOrder'
    BY <1>1, <1>2, <1>5, Unmoved
  <2>3. QED
    BY <2>1, <2>2 DEF IInv
<1>6. QED
  BY <1>1, <1>4, <1>5

\* WriteTo's loop (inflate.go lines 420-450).
LEMMA WriteToLooped ==
  ASSUME IInv, WriteToLoop
  PROVE  IInv'
<1> DEFINE m == SliceLen(toRead)
<1>1. /\ pc = "loop"
      /\ delivered' = delivered \o Bytes(toRead, m)
      /\ toRead' = [toRead EXCEPT !.lo = toRead.hi]
      /\ \/ /\ call' = [call EXCEPT !.ret = IF err = "EOF" THEN "nil" ELSE err]
            /\ pc' = "idle"
         \/ /\ pc' = IF err = "nil" THEN "step" ELSE "stepped"
            /\ UNCHANGED call
      /\ UNCHANGED <<input, pos, flushMode, step, stepState, copyLen, uncOffset,
                     written, cps>>
      /\ UNCHANGED <<dict, err>>
  BY DEF WriteToLoop
<1>2. Between /\ ~Stopped
  BY <1>1 DEF Between, Stopped
<1>3. call \in CallStates /\ err \in Errors /\ "nil" \in Errors
  BY DEF IInv, TypeOK, Errors
<1>4. /\ Proper(toRead) /\ toRead \in Slices /\ m \in Nat /\ m <= SliceLen(toRead)
      /\ toRead.lo + m = toRead.hi /\ m - m = 0
  BY DEF IInv, InWindow, Proper, Slices, SliceLen
<1>5. toRead' = Shorter(toRead, m)
  BY <1>1, <1>4 DEF Shorter, Slices
<1>6. call' \in CallStates
  <2> DEFINE r == IF err = "EOF" THEN "nil" ELSE err
  <2>1. r \in Errors
    BY <1>3
  <2>2. call' = call \/ call' = [call EXCEPT !.ret = r]
    BY <1>1
  <2> HIDE DEF r
  <2>3. QED
    BY <1>3, <2>1, <2>2, CallFields
<1>7. SliceLen(toRead') = 0
  BY <1>4, <1>5, ShorterFields
<1> HIDE DEF m
<1>8. InWindow' /\ InOrder'
  BY <1>1, <1>2, <1>4, <1>5, Taking
<1>9. /\ pc' \in {"idle", "loop", "step", "stepped"}
      /\ pc' = "step" => err' = "nil" /\ SliceLen(toRead') = 0
  BY <1>1, <1>7
<1>10. TypeOK' /\ Quiet' /\ CopyDone' /\ Flushed' /\ Checkpoints'
  BY <1>1, <1>2, <1>3, <1>6, <1>9, Calling
<1>11. QED
  BY <1>8, <1>10 DEF IInv

\* The destination of WriteTo fails: what it took was in order.
LEMMA WriteToFailed ==
  ASSUME IInv, NEW n \in 0..W, WriteToFails(n)
  PROVE  IInv'
<1>1. /\ pc = "loop" /\ n <= SliceLen(toRead) /\ pc' = "idle"
      /\ delivered' = delivered \o Bytes(toRead, n)
      /\ \/ err' = "sink" /\ call' = [call EXCEPT !.ret = "sink"]
         \/ UNCHANGED err /\ call' = [call EXCEPT !.ret = "ErrShortWrite"]
      /\ UNCHANGED <<input, pos, flushMode, step, stepState, copyLen, uncOffset,
                     written, cps>>
      /\ UNCHANGED <<dict, toRead>>
  BY DEF WriteToFails
<1>2. Between /\ ~Stopped
  BY <1>1 DEF Between, Stopped
<1>3. /\ call \in CallStates /\ err \in Errors
      /\ "sink" \in Errors /\ "ErrShortWrite" \in Errors
  BY DEF IInv, TypeOK, Errors
<1>4. call' \in CallStates /\ call'.ret \in {"sink", "ErrShortWrite"}
  <2>1. CASE call' = [call EXCEPT !.ret = "sink"]
    BY <1>3, <2>1, CallFields
  <2>2. CASE call' = [call EXCEPT !.ret = "ErrShortWrite"]
    BY <1>3, <2>2, CallFields
  <2>3. QED
    BY <1>1, <2>1, <2>2
<1>5. InWindow'
  BY <1>1 DEF IInv, InWindow
<1>6. InOrder'
  <2>1. n \in Nat
    OBVIOUS
  <2>2. Len(delivered') \in Nat /\ delivered' = [i \in 1..Len(delivered') |-> i]
    BY <1>1, <1>2, <2>1, Delivering
  <2>3. QED
    BY <1>1, <1>4, <2>2 DEF InOrder, Stopped
<1>7. err' \in Errors /\ (err' = "nil" => err = "nil")
  BY <1>1, <1>3
<1>8. TypeOK' /\ Quiet' /\ CopyDone' /\ Flushed' /\ Checkpoints'
  BY <1>1, <1>2, <1>4, <1>7, Calling
<1>9. QED
  BY <1>5, <1>6, <1>8 DEF IInv

\* Reset, ResetCP and a reader that resumes from a checkpoint (inflate.go lines
\* 812-934): after byte base of the input, with the last n bytes before it.
LEMMA Restarted ==
  ASSUME TypeOK, InWindow, input' \in Inputs, flushMode' \in {"syncFlush", "partialFlush"},
         NEW p \in Nat \ {0}, NEW base \in Nat, NEW n \in Nat,
         NEW old \in [Index -> Int], Fresh(p, base, n, old),
         Least(n, W) = Least(input'.preset + base, W), Checkpoints'
  PROVE  IInv'
<1>1. /\ pos' = p /\ dict' = dictInit(old, n, base) /\ step' = "nextBlock"
      /\ stepState' = "stateInit" /\ err' = "nil" /\ copyLen' = 0
      /\ toRead' = Empty /\ uncOffset' = base /\ pc' = "idle"
      /\ call' = [kind |-> "Read", n |-> 0, flushed |-> FALSE, ret |-> "none"]
      /\ delivered' = [i \in 1..base |-> i] /\ written' = base
  BY DEF Fresh
<1>2. input'.preset \in Nat
  BY InflateAssumption
<1>3. /\ Window(dict', base, input'.preset) /\ dict'.wrPos < W
      /\ availRead(dict') = 0 /\ decoded(dict') = 0
  BY <1>1, <1>2, Starting, SMTT(40)
<1>4. TypeOK'
  <2>1. call' \in CallStates
    BY <1>1 DEF CallStates, Errors
  <2>2. QED
    BY <1>1, <2>1 DEF TypeOK, Errors
<1>5. /\ Proper(toRead') /\ SliceLen(toRead') = 0
      /\ toRead'.lo = 0 /\ toRead'.hi = 0
  BY <1>1 DEF Empty, Proper, Slices, SliceLen
<1>6. InWindow'
  BY <1>1, <1>3, <1>5 DEF InWindow
<1>7. Len(delivered') = base
  <2>1. delivered' \in Seq(Nat)
    BY <1>1
  <2>2. QED
    BY <1>1
<1>8. InTurn(dict', toRead', written', Len(delivered'))
  BY <1>1, <1>3, <1>5, <1>7 DEF InTurn
<1>9. InOrder'
  BY <1>1, <1>7, <1>8 DEF InOrder
<1>10. Quiet' /\ CopyDone'
  BY <1>1 DEF Quiet, Working, CopyDone
<1>11. Flushed'
  BY <1>1, <1>3 DEF Flushed
<1>12. QED
  BY <1>4, <1>6, <1>9, <1>10, <1>11 DEF IInv

\* Another stream.
LEMMA ResetDone ==
  ASSUME IInv, NEW in \in Reusable, Reset(in)
  PROVE  IInv'
<1>1. /\ input' = in /\ flushMode' = "syncFlush" /\ cps' = {}
      /\ Fresh(1, 0, in.preset, dict.hist)
  BY DEF Reset
<1>2. in \in Inputs /\ in.preset \in Nat
  BY InflateAssumption
<1>3. dict.hist \in [Index -> Int]
  BY DEF IInv, InWindow, Window, Dict
<1>4. Least(in.preset, W) = Least(input'.preset + 0, W)
  BY <1>1, <1>2
<1>5. Checkpoints'
  BY <1>1 DEF Checkpoints
<1>6. input' \in Inputs /\ flushMode' \in {"syncFlush", "partialFlush"}
  BY <1>1, <1>2
<1>7. QED
  BY <1>1, <1>2, <1>3, <1>4, <1>5, <1>6, Restarted DEF IInv

\* The same stream, from a checkpoint on: its window is as much of the stream
\* as a decompressor that had come there would have.
LEMMA Resumed ==
  ASSUME IInv, NEW cp \in cps,
         ResetCP(cp) \/ \E mode \in Modes : NewReaderFrom(cp, mode)
  PROVE  IInv'
<1>1. PICK old \in {dict.hist, [i \in Index |-> 0]} :
        Fresh(cp.at, cp.unc, Len(cp.window), old)
  BY DEF ResetCP, NewReaderFrom
<1>2. /\ UNCHANGED <<input, cps>>
      /\ flushMode' \in {"syncFlush", "partialFlush"}
  BY InflateAssumption DEF ResetCP, NewReaderFrom
<1>3. old \in [Index -> Int]
  BY DEF IInv, InWindow, Window, Dict
<1>4. /\ cp.at \in Nat \ {0} /\ cp.unc \in Nat
      /\ Len(cp.window) = Least(W, input.preset + cp.unc)
  BY DEF IInv, Checkpoints, LastBytes
<1>5. input \in Inputs /\ input.preset \in Nat
  BY InflateAssumption DEF IInv, TypeOK
<1> DEFINE n == Len(cp.window)
<1>6. n \in Nat /\ Least(n, W) = Least(input'.preset + cp.unc, W)
  BY <1>2, <1>4, <1>5 DEF Least
<1> HIDE DEF n
<1>7. Fresh(cp.at, cp.unc, n, old)
  BY <1>1 DEF n
<1>8. Checkpoints'
  BY <1>2, SameCheckpoints
<1>9. input' \in Inputs
  BY <1>2, <1>5
<1>10. QED
  BY <1>2, <1>3, <1>4, <1>6, <1>7, <1>8, <1>9, Restarted DEF IInv
-----------------------------------------------------------------------------
(* The invariants.                                                         *)

LEMMA Initially ==
  ASSUME Init
  PROVE  IInv
<1>1. /\ input \in Inputs /\ input.preset \in Nat
      /\ flushMode \in {"syncFlush", "partialFlush"}
  BY InflateAssumption DEF Init
<1>2. /\ pos = 1 /\ dict = dictInit([i \in Index |-> 0], input.preset, 0)
      /\ step = "nextBlock" /\ stepState = "stateInit" /\ err = "nil" /\ copyLen = 0
      /\ toRead = Empty /\ uncOffset = 0 /\ pc = "idle"
      /\ call = [kind |-> "Read", n |-> 0, flushed |-> FALSE, ret |-> "none"]
      /\ delivered = << >> /\ written = 0 /\ cps = {}
  BY DEF Init
<1>3. /\ Window(dict, 0, input.preset) /\ dict.wrPos < W
      /\ availRead(dict) = 0 /\ decoded(dict) = 0
  <2> DEFINE p == input.preset
             old == [i \in Index |-> 0]
  <2>1. p \in Nat /\ old \in [Index -> Int] /\ Least(p, W) = Least(p + 0, W)
    BY <1>1
  <2>2. dict = dictInit(old, p, 0)
    BY <1>2
  <2> HIDE DEF p, old
  <2>3. Window(dict, 0, p) /\ dict.wrPos < W /\ availRead(dict) = 0 /\ decoded(dict) = 0
    BY <2>1, <2>2, Starting
  <2>4. QED
    BY <2>3 DEF p
<1>4. TypeOK
  <2>1. call \in CallStates
    BY <1>2 DEF CallStates, Errors
  <2>2. QED
    BY <1>1, <1>2, <2>1 DEF TypeOK, Errors
<1>5. /\ Proper(toRead) /\ SliceLen(toRead) = 0
      /\ toRead.lo = 0 /\ toRead.hi = 0
  BY <1>2 DEF Empty, Proper, Slices, SliceLen
<1>6. InWindow
  BY <1>2, <1>3, <1>5 DEF InWindow
<1>7. Len(delivered) = 0 /\ delivered = [i \in 1..0 |-> i]
  BY <1>2
<1>8. InTurn(dict, toRead, written, Len(delivered))
  BY <1>2, <1>3, <1>5, <1>7 DEF InTurn
<1>9. InOrder
  BY <1>7, <1>8 DEF InOrder
<1>10. Quiet /\ CopyDone /\ Checkpoints
  BY <1>2 DEF Quiet, Working, CopyDone, Checkpoints
<1>11. Flushed
  BY <1>2 DEF Flushed
<1>12. QED
  BY <1>4, <1>6, <1>9, <1>10, <1>11 DEF IInv

\* Nothing happens.
LEMMA Stuttering ==
  ASSUME IInv, UNCHANGED vars
  PROVE  IInv'
<1>1. /\ UNCHANGED <<input, pos, flushMode, dict, step, stepState, err, copyLen>>
      /\ UNCHANGED <<toRead, uncOffset, pc, call, delivered, written, cps>>
  BY DEF vars
<1>2. TypeOK' /\ InWindow' /\ Quiet' /\ CopyDone'
  BY <1>1 DEF IInv, TypeOK, InWindow, Window, Quiet, Working, CopyDone, Between,
              decoded, availRead
<1>3. InOrder' /\ Flushed' /\ Checkpoints'
  BY <1>1 DEF IInv, InOrder, Stopped, Flushed, Between, Marker, items, availRead,
              Checkpoints, LastBytes
<1>4. QED
  BY <1>2, <1>3 DEF IInv

\* Every step of the decompressor and of its caller keeps the invariant.
THEOREM Inductive == IInv /\ [Next]_vars => IInv'
<1> SUFFICES ASSUME IInv, [Next]_vars
             PROVE  IInv'
  OBVIOUS
<1>1. CASE StepCopyData
  <2>1. /\ pc = "step" /\ step = "copyData" /\ copyData(copyLen, pos, final)
        /\ UNCHANGED <<input, flushMode, stepState, final, copyDist, uncOffset,
                       call, delivered, cb, reused>>
    BY <1>1 DEF StepCopyData
  <2>2. QED
    BY <2>1, CopyData
<1>2. CASE FirstCopyData
  <2>1. /\ pc = "copyData" /\ copyData(copyLen, pos, final)
        /\ UNCHANGED <<input, flushMode, stepState, final, copyDist, uncOffset,
                       call, delivered, cb, reused>>
    BY <1>2 DEF FirstCopyData
  <2>2. pc = "copyData" \/ (pc = "step" /\ step = "copyData")
    BY <2>1
  <2>3. copyData(copyLen, pos, final)
    BY <2>1
  <2>4. UNCHANGED <<input, flushMode, stepState, final, copyDist, uncOffset, call,
                    delivered, cb, reused>>
    BY <2>1
  <2>5. QED
    BY <2>2, <2>3, <2>4, CopyData
<1>3. CASE NextBlockFails
  BY <1>3, NextBlockFailing
<1>4. CASE NextBlockStored
  BY <1>4, NextBlockStoring
<1>5. CASE NextBlockHuffman \/ StepHuffman
  BY <1>5, HuffmanEntry
<1>6. CASE SymbolFails
  BY <1>6, SymbolFailing
<1>7. CASE Literal
  BY <1>7, LiteralRead
<1>8. CASE EndOfBlock
  BY <1>8, BlockEnding
<1>9. CASE MatchPair
  BY <1>9, PairRead
<1>10. CASE copyHistory
  BY <1>10, HistoryCopied
<1>11. CASE ReadLoop
  BY <1>11, ReadLooped
<1>12. CASE ReadStepped \/ WriteToStepped
  BY <1>12, SteppedBack
<1>13. CASE WriteToLoop
  BY <1>13, WriteToLooped
<1>14. CASE Calls
  BY <1>14, CallBegun
<1>15. ASSUME NEW n \in 0..W, WriteToFails(n)
       PROVE  IInv'
  BY <1>15, WriteToFailed
<1>16. ASSUME NEW in \in Reusable, Reset(in)
       PROVE  IInv'
  BY <1>16, ResetDone
<1>17. ASSUME NEW cp \in cps, ResetCP(cp) \/ \E mode \in Modes : NewReaderFrom(cp, mode)
       PROVE  IInv'
  BY <1>17, Resumed
<1>18. CASE Done \/ UNCHANGED vars
  <2>1. UNCHANGED vars
    BY <1>18 DEF Done
  <2>2. QED
    BY <2>1, Stuttering
<1>19. CASE Step
  BY <1>1, <1>2, <1>3, <1>4, <1>5, <1>6, <1>7, <1>8, <1>9, <1>10, <1>11, <1>12,
     <1>13, <1>19 DEF Step
<1>20. QED
  BY <1>14, <1>15, <1>16, <1>17, <1>18, <1>19 DEF Next

\* The inductive invariant: window, order of delivery, control and checkpoints
\* agree in every state of flate/inflate.go's decompressor.
THEOREM Invariance == Spec => []IInv
<1>1. Init => IInv
  BY Initially
<1>2. IInv /\ [Next]_vars => IInv'
  BY Inductive
<1>3. QED
  BY <1>1, <1>2, PTL DEF Spec

\* Read and WriteTo hand out the bytes of the stream in order, each once and
\* none overwritten while it waited, although toRead aliases the window
\* (inflate.go line 399), for every buffer size, after every Reset and
\* resumption and up to where a destination failed.
THEOREM AlwaysInOrder == Spec => []DeliveredInOrder
<1>1. IInv => DeliveredInOrder
  BY DEF IInv, InOrder, DeliveredInOrder
<1>2. QED
  BY <1>1, Invariance, PTL

\* The precondition of writeByte (inflate_gen.go line 94) holds whenever the
\* decoder writes: each way back to it flushes a full window.
THEOREM AlwaysRoomToWrite == Spec => []RoomToWrite
<1>1. IInv => RoomToWrite
  <2> SUFFICES ASSUME IInv
               PROVE  RoomToWrite
    OBVIOUS
  <2>1. /\ dict.wrPos \in Nat /\ dict.rdPos \in Nat
        /\ dict.rdPos <= dict.wrPos /\ dict.wrPos < W
    BY DEF IInv, InWindow, Window, Dict
  <2>2. toRead.lo \in 0..W /\ toRead.hi \in 0..W /\ toRead.lo <= toRead.hi
    BY DEF IInv, InWindow, Proper, Slices
  <2>3. availWrite(dict) > 0
    BY <2>1 DEF availWrite
  <2>4. QED
    BY <2>1, <2>2, <2>3 DEF RoomToWrite
<1>2. QED
  BY <1>1, Invariance, PTL

\* The stale stepState that finishBlock leaves (inflate_gen.go line 264) is
\* harmless: whenever a block may begin there is nothing left to copy.
THEOREM NeverCarriedOver == Spec => []NoCopyCarriedOver
<1>1. IInv => NoCopyCarriedOver
  BY DEF IInv, CopyDone, Between, NoCopyCarriedOver
<1>2. QED
  BY <1>1, Invariance, PTL

\* Before the decompressor waits for input behind a sync marker, or behind any
\* block in partial mode, the caller was given all that was decoded
\* (inflate.go lines 636-640, 673-681).
THEOREM FlushPointsVisible == Spec => []FlushPointVisible
<1>1. IInv => FlushPointVisible
  <2> SUFFICES ASSUME IInv, pc = "step", step = "nextBlock", pos > 1,
                      \/ flushMode = "partialFlush"
                      \/ items[pos - 1].k = "header" /\ items[pos - 1].typ = "stored"
                           /\ items[pos - 1].n = 0
               PROVE  Len(delivered) = written
    BY DEF FlushPointVisible
  <2>1. Working /\ Between /\ ~Stopped
    BY DEF Working, Between, Stopped
  <2>2. err = "nil" /\ SliceLen(toRead) = 0
    BY <2>1 DEF IInv, Quiet
  <2>3. availRead(dict) = 0
    BY <2>1, <2>2 DEF IInv, Flushed, Marker
  <2>4. Len(delivered) + SliceLen(toRead) + availRead(dict) = written
    BY <2>1 DEF IInv, InOrder, InTurn
  <2>5. Len(delivered) \in Nat
    BY DEF IInv, InOrder
  <2>6. QED
    BY <2>2, <2>3, <2>4, <2>5
<1>2. QED
  BY <1>1, Invariance, PTL

\* A checkpoint holds the bytes before it, as far back as the window reaches,
\* also when it is taken after a partial flush or by a decompressor that was
\* itself resumed (inflate.go lines 684-694): the half of
\* CheckpointsExact that is about data.
THEOREM WindowsAlwaysExact == Spec => []CheckpointWindows
<1>1. IInv => CheckpointWindows
  BY DEF IInv, Checkpoints, LastBytes, CheckpointWindows
<1>2. QED
  BY <1>1, Invariance, PTL

-----------------------------------------------------------------------------
(* What an input means.  Induction is by the least counterexample.         *)

\* The order on the natural numbers.
Smaller == OpToRel(<, Nat)

\* Every set of natural numbers that is not empty has a least one.
LEMMA LeastNat ==
  ASSUME NEW T \in SUBSET Nat, T # {}
  PROVE  \E x \in T : \A y \in T : x <= y
<1>1. IsWellFoundedOn(Smaller, Nat)
  BY NatLessThanWellFounded DEF Smaller
<1>2. Smaller = {ss \in Nat \X Nat : ss[1] < ss[2]}
  BY DEF Smaller, OpToRel
<1>3. PICK x \in T : \A y \in T : ~(<<y, x>> \in Smaller)
  BY <1>1, WFMin
<1>4. \A y \in T : x <= y
  <2> SUFFICES ASSUME NEW y \in T
               PROVE  x <= y
    OBVIOUS
  <2>1. x \in Nat /\ y \in Nat
    OBVIOUS
  <2>2. ~(<<y, x>> \in {ss \in Nat \X Nat : ss[1] < ss[2]})
    BY <1>2, <1>3
  <2>3. QED
    BY <2>1, <2>2
<1>5. QED
  BY <1>4

\* An item stands for some number of bytes.
LEMMA YieldType ==
  ASSUME NEW it \in Item
  PROVE  /\ Yield(it) \in Nat
         /\ it.k \in {"header", "eob", "bad"} => Yield(it) = 0
         /\ it.k \in {"lit", "raw"} => Yield(it) = 1
         /\ it.k = "pair" => it.len \in Nat /\ it.dist \in Nat /\ Yield(it) = it.len
         /\ it.k = "header" => it.n \in Nat /\ it.final \in BOOLEAN
         /\ it.k = "raw" <=> it = Raw
BY DEF Yield, Item, Raw, Lit, EOB, BadSym

\* f counts the bytes of the first items of an input, up to item n.
Counting(f, in, n) ==
  /\ f \in [0..n -> Nat]
  /\ f[0] = 0
  /\ \A k \in 1..n : f[k] = f[k - 1] + Yield(in.items[k])

\* They can be counted.
LEMMA Countable ==
  ASSUME NEW in \in Inputs
  PROVE  \E f : Counting(f, in, Len(in.items))
<1> DEFINE N == Len(in.items)
           T == {n \in 0..N : ~ \E f : Counting(f, in, n)}
<1>1. in.items \in Seq(Item) /\ N \in Nat
  BY InflateAssumption
<1>2. SUFFICES T = {}
  BY <1>1
<1>3. SUFFICES ASSUME T # {}
               PROVE  FALSE
  OBVIOUS
<1>4. PICK n \in T : \A m \in T : n <= m
  <2>1. T \in SUBSET Nat
    OBVIOUS
  <2> HIDE DEF T
  <2>2. QED
    BY <1>3, <2>1, LeastNat
<1>5. n \in Nat /\ n <= N /\ ~ \E f : Counting(f, in, n)
  BY <1>1
<1>6. n # 0
  <2>1. Counting([k \in 0..0 |-> 0], in, 0)
    BY DEF Counting
  <2>2. QED
    BY <1>5, <2>1
<1>7. n - 1 \in Nat /\ n - 1 <= N /\ n - 1 \notin T
  BY <1>1, <1>4, <1>5, <1>6
<1>8. PICK g : Counting(g, in, n - 1)
  BY <1>1, <1>7
<1> HIDE DEF T
<1> DEFINE y == Yield(in.items[n])
           f == [k \in 0..n |-> IF k = n THEN g[n - 1] + y ELSE g[k]]
<1>9. y \in Nat
  <2>1. in.items[n] \in Item
    BY <1>1, <1>5, <1>6
  <2>2. QED
    BY <2>1, YieldType
<1>10. /\ g \in [0..(n - 1) -> Nat] /\ g[0] = 0
       /\ \A k \in 1..(n - 1) : g[k] = g[k - 1] + Yield(in.items[k])
  BY <1>8 DEF Counting
<1>11. f[0] = 0 /\ f[n] = g[n - 1] + y
  BY <1>5, <1>6, <1>10
<1>12. \A k \in 1..n : f[k] = f[k - 1] + Yield(in.items[k])
  <2> SUFFICES ASSUME NEW k \in 1..n
               PROVE  f[k] = f[k - 1] + Yield(in.items[k])
    OBVIOUS
  <2>1. k \in Int /\ k - 1 \in 0..n /\ k - 1 # n /\ k \in 0..n
    BY <1>5
  <2>2. f[k - 1] = g[k - 1]
    BY <2>1
  <2>3. CASE k = n
    BY <1>11, <2>2, <2>3
  <2>4. CASE k # n
    <3>1. k \in 1..(n - 1)
      BY <1>5, <2>1, <2>4
    <3>2. QED
      BY <1>10, <2>1, <2>2, <2>4, <3>1
  <2>5. QED
    BY <2>3, <2>4
<1>13. f \in [0..n -> Nat]
  <2>1. ASSUME NEW k \in 0..n
        PROVE  (IF k = n THEN g[n - 1] + y ELSE g[k]) \in Nat
    <3>1. n - 1 \in 0..(n - 1) /\ (k # n => k \in 0..(n - 1))
      BY <1>5, <1>6
    <3>2. QED
      BY <1>9, <1>10, <3>1
  <2>2. QED
    BY <2>1
<1> HIDE DEF f
<1>14. Counting(f, in, n)
  BY <1>11, <1>12, <1>13 DEF Counting
<1>15. QED
  BY <1>5, <1>14

\* Produced counts them.
LEMMA ProducedCounts ==
  ASSUME NEW in \in Inputs
  PROVE  Counting(Produced(in), in, Len(in.items))
<1> DEFINE N == Len(in.items)
           Eq(f) == f = [k \in 0..N |-> IF k = 0 THEN 0 ELSE f[k - 1] + Yield(in.items[k])]
<1>1. N \in Nat
  BY InflateAssumption
<1>2. Produced(in) = CHOOSE f : Eq(f)
  BY DEF Produced
<1>3. PICK g : Counting(g, in, N)
  BY Countable
<1>4. Eq(g)
  BY <1>1, <1>3 DEF Counting
<1> HIDE DEF Eq
<1>5. Eq(Produced(in))
  BY <1>2, <1>4
<1>6. Produced(in) = [k \in 0..N |-> IF k = 0 THEN 0
                                     ELSE Produced(in)[k - 1] + Yield(in.items[k])]
  BY <1>5 DEF Eq
<1> DEFINE P == Produced(in)
<1> HIDE DEF P
<1>7. P = [k \in 0..N |-> IF k = 0 THEN 0 ELSE P[k - 1] + Yield(in.items[k])]
  BY <1>6 DEF P
<1>8. P[0] = 0 /\ \A k \in 1..N : P[k] = P[k - 1] + Yield(in.items[k])
  <2>1. 0 \in 0..N
    BY <1>1
  <2>2. P[0] = 0
    BY <1>7, <2>1
  <2>3. ASSUME NEW k \in 1..N PROVE P[k] = P[k - 1] + Yield(in.items[k])
    <3>1. k \in 0..N /\ k # 0
      BY <1>1
    <3>2. QED
      BY <1>7, <3>1
  <2>4. QED
    BY <2>2, <2>3
<1>9. \A k \in 0..N : P[k] \in Nat
  <2> DEFINE T == {k \in 0..N : P[k] \notin Nat}
  <2>1. SUFFICES ASSUME T # {}
                 PROVE  FALSE
    OBVIOUS
  <2>2. PICK k \in T : \A m \in T : k <= m
    <3>1. T \in SUBSET Nat
      OBVIOUS
    <3> HIDE DEF T
    <3>2. QED
      BY <2>1, <3>1, LeastNat
  <2>3. k \in 0..N /\ P[k] \notin Nat
    OBVIOUS
  <2>4. k # 0
    BY <1>8, <2>3
  <2>5. k - 1 \in 0..N /\ k - 1 \notin T /\ k \in 1..N
    BY <1>1, <2>2, <2>3, <2>4
  <2>6. P[k - 1] \in Nat
    BY <2>5
  <2>7. Yield(in.items[k]) \in Nat
    <3>1. in.items \in Seq(Item)
      BY InflateAssumption
    <3>2. in.items[k] \in Item
      BY <2>5, <3>1
    <3>3. QED
      BY <3>2, YieldType
  <2>8. QED
    BY <1>8, <2>3, <2>5, <2>6, <2>7
<1>10. P \in [0..N -> Nat]
  <2>1. DOMAIN P = 0..N /\ P = [k \in 0..N |-> P[k]]
    BY <1>7
  <2>2. QED
    BY <1>9, <2>1
<1>11. QED
  BY <1>8, <1>10 DEF Counting, P

\* Some item's bytes.
LEMMA ProducedNext ==
  ASSUME NEW in \in Inputs, NEW k \in 1..Len(in.items)
  PROVE  /\ in.items[k] \in Item /\ k - 1 \in 0..Len(in.items)
         /\ Produced(in)[k] \in Nat /\ Produced(in)[k - 1] \in Nat
         /\ Produced(in)[k] = Produced(in)[k - 1] + Yield(in.items[k])
<1>1. in.items \in Seq(Item) /\ Len(in.items) \in Nat
  BY InflateAssumption
<1>2. in.items[k] \in Item /\ k - 1 \in 0..Len(in.items) /\ k \in 0..Len(in.items)
  BY <1>1
<1>3. Counting(Produced(in), in, Len(in.items))
  BY ProducedCounts
<1>4. QED
  BY <1>2, <1>3 DEF Counting

\* The bytes of a stored block.
LEMMA ProducedRaw ==
  ASSUME NEW in \in Inputs, NEW p \in Nat \ {0}, NEW m \in Nat, p + m <= Len(in.items) + 1,
         \A i \in 1..m : in.items[p + i - 1] = Raw
  PROVE  Produced(in)[p + m - 1] = Produced(in)[p - 1] + m
<1> DEFINE P == Produced(in)
           T == {i \in 0..m : P[p + i - 1] # P[p - 1] + i}
<1>1. Len(in.items) \in Nat
  BY InflateAssumption
<1>2. ASSUME NEW k \in 1..Len(in.items)
      PROVE  P[k] \in Nat /\ P[k - 1] \in Nat /\ P[k] = P[k - 1] + Yield(in.items[k])
  BY ProducedNext
<1>3. P[p - 1] \in Nat
  <2>1. p - 1 \in 0..Len(in.items)
    BY <1>1
  <2>2. Counting(P, in, Len(in.items))
    BY ProducedCounts
  <2>3. QED
    BY <2>1, <2>2 DEF Counting
<1> HIDE DEF P
<1>4. SUFFICES ASSUME T # {}
               PROVE  FALSE
  <2>1. m \in 0..m /\ m \notin T
    BY <1>4
  <2>2. QED
    BY <2>1 DEF P
<1>5. PICK i \in T : \A j \in T : i <= j
  <2>1. T \in SUBSET Nat
    OBVIOUS
  <2> HIDE DEF T
  <2>2. QED
    BY <1>4, <2>1, LeastNat
<1>6. i \in 0..m /\ P[p + i - 1] # P[p - 1] + i
  OBVIOUS
<1>7. i # 0
  BY <1>3, <1>6
<1>8. i - 1 \in 0..m /\ i - 1 \notin T /\ i \in 1..m
  BY <1>5, <1>6, <1>7
<1>9. P[p + (i - 1) - 1] = P[p - 1] + (i - 1)
  BY <1>8
<1> DEFINE k == p + i - 1
<1>10. k \in 1..Len(in.items) /\ k - 1 = p + (i - 1) - 1
  BY <1>1, <1>8
<1>11. in.items[k] = Raw
  BY <1>8
<1>12. Yield(in.items[k]) = 1
  BY <1>11 DEF Yield, Raw
<1> HIDE DEF k
<1>13. P[k] = P[k - 1] + 1 /\ P[k - 1] \in Nat
  BY <1>2, <1>10, <1>12
<1>14. P[k] = P[p - 1] + i
  <2>1. P[k - 1] = P[p - 1] + (i - 1)
    BY <1>9, <1>10
  <2>2. i \in Int /\ P[p - 1] \in Nat
    BY <1>3, <1>8
  <2>3. P[k] = P[k - 1] + 1
    BY <1>13
  <2>4. QED
    BY <2>1, <2>2, <2>3
<1>15. QED
  BY <1>6, <1>14 DEF k

\* No item up to n ends the stream or is at fault.
Clear(in, n) == \A k \in 1..n : ~Faulty(in, k) /\ ~EndsStream(in, k)

\* The block that item k belongs to starts with item h: there is no header
\* between them.
Governs(in, h, k) ==
  /\ h \in 1..k
  /\ in.items[h].k = "header"
  /\ \A j \in (h + 1)..k : in.items[j].k # "header"

\* An item ends the stream if it is the last of a block that is final.
LEMMA Governing ==
  ASSUME NEW in, NEW k \in Nat, NEW h \in Nat, Governs(in, h, k)
  PROVE  EndsStream(in, k) <=>
           /\ in.items[h].final
           /\ \/ in.items[h].typ = "stored" /\ k = h + in.items[h].n
              \/ in.items[h].typ = "huffman" /\ in.items[k].k = "eob"
<1>1. ASSUME NEW g \in 1..k, in.items[g].k = "header",
             \A j \in (g + 1)..k : in.items[j].k # "header"
      PROVE  g = h
  <2>1. CASE g < h
    <3>1. h \in (g + 1)..k
      BY <2>1 DEF Governs
    <3>2. QED
      BY <1>1, <3>1 DEF Governs
  <2>2. CASE h < g
    <3>1. g \in (h + 1)..k
      BY <2>2
    <3>2. QED
      BY <1>1, <3>1 DEF Governs
  <2>3. QED
    BY <2>1, <2>2
<1>2. QED
  BY <1>1 DEF EndsStream, Governs

\* A header is at fault if it is invalid, and ends the stream if it is all of a
\* final stored block.
LEMMA HeaderItem ==
  ASSUME NEW in, NEW k \in Nat \ {0}, in.items[k].k = "header"
  PROVE  /\ Faulty(in, k) <=> in.items[k].typ = "invalid"
         /\ EndsStream(in, k) <=> /\ in.items[k].final
                                  /\ in.items[k].typ = "stored"
                                  /\ k = k + in.items[k].n
<1>1. Governs(in, k, k)
  BY DEF Governs
<1>2. QED
  BY <1>1, Governing DEF Faulty

\* A stored block that starts with item h: nothing stops before its last byte.
LEMMA InsideStored ==
  ASSUME NEW in \in Inputs, NEW h \in 1..Len(in.items), NEW k \in h..Len(in.items),
         in.items[h].k = "header", in.items[h].typ = "stored",
         k <= h + in.items[h].n
  PROVE  /\ ~Faulty(in, k)
         /\ EndsStream(in, k) <=> in.items[h].final /\ k = h + in.items[h].n
         /\ k > h => in.items[k] = Raw
<1>1. /\ in.items \in Seq(Item) /\ Len(in.items) \in Nat
      /\ StoredBytesFollow(in.items)
  BY InflateAssumption
<1>2. in.items[h].n \in Nat /\ h \in Nat /\ k \in Nat
  <2>1. in.items[h] \in Item
    BY <1>1
  <2>2. QED
    BY <2>1, YieldType
<1>3. \A j \in (h + 1)..(h + in.items[h].n) : j <= Len(in.items) => in.items[j] = Raw
  BY <1>1 DEF StoredBytesFollow
<1>4. \A j \in (h + 1)..k : in.items[j] = Raw
  <2> SUFFICES ASSUME NEW j \in (h + 1)..k
               PROVE  in.items[j] = Raw
    OBVIOUS
  <2>1. j \in (h + 1)..(h + in.items[h].n) /\ j <= Len(in.items)
    BY <1>1, <1>2
  <2>2. QED
    BY <1>3, <2>1
<1>5. Governs(in, h, k)
  BY <1>2, <1>4 DEF Governs, Raw
<1>6. k > h => in.items[k] = Raw
  BY <1>2, <1>4
<1>7. ~Faulty(in, k)
  <2>1. CASE k = h
    BY <2>1 DEF Faulty
  <2>2. CASE k > h
    BY <1>6, <2>2 DEF Faulty, Raw
  <2>3. QED
    BY <1>2, <2>1, <2>2
<1>8. QED
  BY <1>2, <1>5, <1>6, <1>7, Governing

\* A Huffman block that starts with item h and has symbols up to k - 1.
LEMMA InsideHuffman ==
  ASSUME NEW in, NEW h \in Nat \ {0}, NEW k \in Nat, h <= k,
         in.items[h].k = "header", in.items[h].typ = "huffman",
         \A j \in (h + 1)..(k - 1) : in.items[j].k \in {"lit", "pair"},
         k > h => in.items[k].k # "header"
  PROVE  EndsStream(in, k) <=> in.items[h].final /\ in.items[k].k = "eob"
<1>1. \A j \in (h + 1)..k : in.items[j].k # "header"
  <2> SUFFICES ASSUME NEW j \in (h + 1)..k
               PROVE  in.items[j].k # "header"
    OBVIOUS
  <2>1. CASE j = k
    BY <2>1
  <2>2. CASE j # k
    <3>1. j \in (h + 1)..(k - 1)
      BY <2>2
    <3>2. QED
      BY <3>1
  <2>3. QED
    BY <2>1, <2>2
<1>2. Governs(in, h, k)
  BY <1>1 DEF Governs
<1>3. QED
  BY <1>2, Governing

\* The stored bytes that are there are the next items, and only the end of the
\* input or another item stops them.
LEMMA RawCounted ==
  ASSUME NEW n \in Nat, pos \in Nat \ {0}, Len(items) \in Nat
  PROVE  /\ RawAvailable(n) \in 0..n
         /\ \A i \in 1..RawAvailable(n) : pos + i - 1 <= Len(items) /\ items[pos + i - 1] = Raw
         /\ RawAvailable(n) < n =>
              ~(pos + RawAvailable(n) <= Len(items) /\ items[pos + RawAvailable(n)] = Raw)
<1> DEFINE good(j) == pos + j <= Len(items) /\ items[pos + j] = Raw
           S == {i \in 1..n : \A j \in 0..(i - 1) : good(j)}
           T == {i \in 0..n : i = n \/ ~good(i)}
<1>1. RawAvailable(n) = Cardinality(S)
  BY DEF RawAvailable
<1>2. PICK c \in T : \A m \in T : c <= m
  <2>1. n \in T /\ T \in SUBSET Nat
    OBVIOUS
  <2> HIDE DEF T
  <2>2. T # {}
    BY <2>1
  <2>3. QED
    BY <2>1, <2>2, LeastNat
<1>3. c \in 0..n /\ (c = n \/ ~good(c))
  OBVIOUS
<1>4. ASSUME NEW j \in 0..(c - 1)
      PROVE  good(j)
  <2>1. j \in 0..n /\ j # n /\ ~(c <= j)
    BY <1>3
  <2>2. j \notin T
    BY <1>2, <2>1
  <2> HIDE DEF good
  <2>3. QED
    BY <2>1, <2>2
<1> HIDE DEF T, good
<1>5. S = 1..c
  <2>1. ASSUME NEW i \in S
        PROVE  i \in 1..c
    <3>1. i \in 1..n /\ \A j \in 0..(i - 1) : good(j)
      OBVIOUS
    <3>2. CASE c < i
      <4>1. c \in 0..(i - 1) /\ c # n
        BY <1>3, <3>1, <3>2
      <4>2. QED
        BY <1>3, <3>1, <4>1
    <3>3. QED
      BY <1>3, <3>1, <3>2
  <2>2. ASSUME NEW i \in 1..c
        PROVE  i \in S
    <3>1. i \in 1..n
      BY <1>3
    <3>2. ASSUME NEW j \in 0..(i - 1) PROVE good(j)
      <4>1. j \in 0..(c - 1)
        BY <1>3
      <4>2. QED
        BY <1>4, <4>1
    <3>3. QED
      BY <3>1, <3>2
  <2> HIDE DEF S
  <2>3. QED
    BY <2>1, <2>2
<1> HIDE DEF S
<1>6. Cardinality(1..c) = c
  <2>1. 1 \in Int /\ c \in Int /\ c \in Nat
    BY <1>3
  <2>2. Cardinality(1..c) = IF 1 > c THEN 0 ELSE c - 1 + 1
    BY <2>1, FS_Interval
  <2>3. QED
    BY <2>1, <2>2
<1>7. RawAvailable(n) = c
  BY <1>1, <1>5, <1>6
<1>8. \A i \in 1..c : pos + i - 1 <= Len(items) /\ items[pos + i - 1] = Raw
  <2> SUFFICES ASSUME NEW i \in 1..c
               PROVE  pos + i - 1 <= Len(items) /\ items[pos + i - 1] = Raw
    OBVIOUS
  <2>1. i - 1 \in 0..(c - 1) /\ pos + (i - 1) = pos + i - 1
    BY <1>3
  <2>2. good(i - 1)
    BY <1>4, <2>1
  <2>3. QED
    BY <2>1, <2>2 DEF good
<1>9. c < n => ~(pos + c <= Len(items) /\ items[pos + c] = Raw)
  BY <1>3 DEF good
<1>10. QED
  BY <1>3, <1>7, <1>8, <1>9
-----------------------------------------------------------------------------
(* Where the decoder stands in its input, when it has decoded n bytes.     *)

\* Between two blocks, before item p.
At(in, p, n) ==
  /\ p \in 1..(Len(in.items) + 1)
  /\ n = Produced(in)[p - 1]
  /\ Clear(in, p - 1)

\* In a stored block, before item p, with left bytes of the block to come.
InStored(in, p, n, left, fin) ==
  /\ p \in 1..(Len(in.items) + 1)
  /\ n = Produced(in)[p - 1]
  /\ \E h \in 1..(p - 1) :
       /\ in.items[h].k = "header" /\ in.items[h].typ = "stored"
       /\ in.items[h].final = fin
       /\ h + in.items[h].n = (p - 1) + left
       /\ Clear(in, h - 1)

\* In a Huffman block, before item p, with left bytes of the pair before it to
\* be copied.
InHuffman(in, p, n, left, fin) ==
  /\ p \in 1..(Len(in.items) + 1)
  /\ n + left = Produced(in)[p - 1]
  /\ \E h \in 1..(p - 1) :
       /\ in.items[h].k = "header" /\ in.items[h].typ = "huffman"
       /\ in.items[h].final = fin
       /\ \A j \in (h + 1)..(p - 1) : in.items[j].k \in {"lit", "pair"} /\ ~Faulty(in, j)
       /\ Clear(in, h - 1)

\* A block ended with item q - 1.
BlockDone(in, q, n, fin) ==
  /\ q - 1 \in 1..Len(in.items) /\ q \in Nat
  /\ n = Produced(in)[q - 1]
  /\ Clear(in, q - 2)
  /\ ~Faulty(in, q - 1)
  /\ EndsStream(in, q - 1) <=> fin

\* The stream has ended with error e.
Ended(in, n, e) ==
  \/ e = "EOF" /\ \E k \in 1..Len(in.items) :
       EndsStream(in, k) /\ Clear(in, k - 1) /\ n = Produced(in)[k]
  \/ e = "Corrupt" /\ \E k \in 1..Len(in.items) :
       /\ Faulty(in, k) /\ ~EndsStream(in, k) /\ Clear(in, k - 1)
       /\ n = Produced(in)[k - 1]
  \/ e \in {in.tail.error, noEOF(in.tail.error)} /\ Clear(in, Len(in.items))
       /\ n = Produced(in)[Len(in.items)]

\* One more item at which nothing stops.
LEMMA ClearNext ==
  ASSUME NEW in, NEW k \in Nat \ {0}, Clear(in, k - 1), ~Faulty(in, k), ~EndsStream(in, k)
  PROVE  Clear(in, k)
<1> SUFFICES ASSUME NEW j \in 1..k
             PROVE  ~Faulty(in, j) /\ ~EndsStream(in, j)
  BY DEF Clear
<1>1. CASE j = k
  BY <1>1
<1>2. CASE j # k
  <2>1. j \in 1..(k - 1)
    BY <1>2
  <2>2. QED
    BY <2>1 DEF Clear
<1>3. QED
  BY <1>1, <1>2

\* After a block comes the next one, or the end.
LEMMA AfterBlock ==
  ASSUME NEW in \in Inputs, NEW q, NEW n, NEW fin \in BOOLEAN, BlockDone(in, q, n, fin)
  PROVE  IF fin THEN Ended(in, n, "EOF") ELSE At(in, q, n)
<1>1. Len(in.items) \in Nat
  BY InflateAssumption
<1>2. q - 1 \in 1..Len(in.items) /\ q \in Nat /\ (q - 1) - 1 = q - 2
  BY <1>1 DEF BlockDone
<1>3. CASE fin
  BY <1>2, <1>3 DEF BlockDone, Ended
<1>4. CASE ~fin
  <2>1. Clear(in, q - 1)
    <3>1. q - 1 \in Nat \ {0}
      BY <1>2
    <3>2. Clear(in, (q - 1) - 1) /\ ~Faulty(in, q - 1) /\ ~EndsStream(in, q - 1)
      BY <1>2, <1>4 DEF BlockDone
    <3>3. QED
      BY <3>1, <3>2, ClearNext
  <2>2. q \in 1..(Len(in.items) + 1)
    BY <1>1, <1>2
  <2>3. QED
    BY <1>4, <2>1, <2>2 DEF At, BlockDone
<1>5. QED
  BY <1>3, <1>4

\* A header begins a stored block.
LEMMA StoredBegins ==
  ASSUME NEW in \in Inputs, NEW p \in 1..Len(in.items), NEW n, At(in, p, n),
         in.items[p].k = "header", in.items[p].typ = "stored"
  PROVE  InStored(in, p + 1, n, in.items[p].n, in.items[p].final)
<1>1. Len(in.items) \in Nat
  BY InflateAssumption
<1>2. /\ in.items[p].n \in Nat /\ (p + 1) - 1 = p /\ p + 1 \in 1..(Len(in.items) + 1)
      /\ Produced(in)[p] = Produced(in)[p - 1]
  BY <1>1, ProducedNext, YieldType
<1>3. n = Produced(in)[(p + 1) - 1]
  BY <1>2 DEF At
<1>4. Clear(in, p - 1) /\ p \in 1..((p + 1) - 1) /\ p + in.items[p].n = ((p + 1) - 1) + in.items[p].n
  BY <1>2 DEF At
<1>5. QED
  BY <1>2, <1>3, <1>4 DEF InStored

\* m of its bytes are taken.
LEMMA StoredGoesOn ==
  ASSUME NEW in \in Inputs, NEW p \in Nat, NEW n, NEW left \in Nat, NEW fin, NEW m \in 0..left,
         InStored(in, p, n, left, fin),
         \A i \in 1..m : p + i - 1 <= Len(in.items) /\ in.items[p + i - 1] = Raw
  PROVE  InStored(in, p + m, n + m, left - m, fin)
<1>1. Len(in.items) \in Nat
  BY InflateAssumption
<1>2. p \in 1..(Len(in.items) + 1) /\ n = Produced(in)[p - 1] /\ m \in Nat
  BY DEF InStored
<1>3. p + m <= Len(in.items) + 1
  <2>1. CASE m = 0
    BY <1>1, <1>2, <2>1
  <2>2. CASE m # 0
    <3>1. m \in 1..m
      BY <2>2
    <3>2. p + m - 1 <= Len(in.items)
      BY <3>1
    <3>3. QED
      BY <1>1, <1>2, <3>2
  <2>3. QED
    BY <2>1, <2>2
<1>4. Produced(in)[p + m - 1] = Produced(in)[p - 1] + m
  <2>1. p \in Nat \ {0} /\ m \in Nat
    BY <1>2
  <2>2. \A i \in 1..m : in.items[p + i - 1] = Raw
    OBVIOUS
  <2>3. QED
    BY <1>3, <2>1, <2>2, ProducedRaw
<1>5. /\ p + m \in 1..(Len(in.items) + 1) /\ (p + m) - 1 = p + m - 1
      /\ n + m = Produced(in)[(p + m) - 1]
  BY <1>1, <1>2, <1>3, <1>4
<1>6. PICK h \in 1..(p - 1) :
        /\ in.items[h].k = "header" /\ in.items[h].typ = "stored"
        /\ in.items[h].final = fin
        /\ h + in.items[h].n = (p - 1) + left
        /\ Clear(in, h - 1)
  BY DEF InStored
<1>7. h \in 1..((p + m) - 1) /\ (p - 1) + left = ((p + m) - 1) + (left - m)
  BY <1>2
<1>8. QED
  BY <1>5, <1>6, <1>7 DEF InStored

\* All of them were taken.
LEMMA StoredEnds ==
  ASSUME NEW in \in Inputs, NEW p \in Nat, NEW n, NEW fin \in BOOLEAN, InStored(in, p, n, 0, fin)
  PROVE  BlockDone(in, p, n, fin)
<1>1. Len(in.items) \in Nat
  BY InflateAssumption
<1>2. PICK h \in 1..(p - 1) :
        /\ in.items[h].k = "header" /\ in.items[h].typ = "stored"
        /\ in.items[h].final = fin
        /\ h + in.items[h].n = (p - 1) + 0
        /\ Clear(in, h - 1)
  BY DEF InStored
<1>3. p - 1 \in 1..Len(in.items) /\ h \in 1..Len(in.items) /\ h + in.items[h].n = p - 1
  BY <1>1, <1>2 DEF InStored
<1>4. ASSUME NEW k \in h..(p - 1)
      PROVE  ~Faulty(in, k) /\ (EndsStream(in, k) <=> fin /\ k = p - 1)
  <2>1. k \in h..Len(in.items) /\ k <= h + in.items[h].n
    BY <1>1, <1>3
  <2>2. QED
    BY <1>2, <1>3, <2>1, InsideStored
<1>5. Clear(in, p - 2)
  <2> SUFFICES ASSUME NEW k \in 1..(p - 2)
               PROVE  ~Faulty(in, k) /\ ~EndsStream(in, k)
    BY DEF Clear
  <2>1. CASE k <= h - 1
    BY <1>2, <2>1 DEF Clear
  <2>2. CASE k >= h
    <3>1. k \in h..(p - 1) /\ k # p - 1
      BY <1>3, <2>2
    <3>2. QED
      BY <1>4, <3>1
  <2>3. QED
    BY <1>3, <2>1, <2>2
<1>6. p - 1 \in h..(p - 1)
  BY <1>3
<1>7. ~Faulty(in, p - 1) /\ (EndsStream(in, p - 1) <=> fin)
  BY <1>4, <1>6
<1>8. QED
  BY <1>3, <1>5, <1>7 DEF BlockDone, InStored

\* The input ends inside it.
LEMMA StoredCut ==
  ASSUME NEW in \in Inputs, NEW p \in Nat, NEW n, NEW fin, NEW left \in Nat \ {0},
         InStored(in, p, n, left, fin), ~(p <= Len(in.items) /\ in.items[p] = Raw),
         NEW e \in {in.tail.error, noEOF(in.tail.error)}
  PROVE  Ended(in, n, e)
<1>1. Len(in.items) \in Nat
  BY InflateAssumption
<1>2. PICK h \in 1..(p - 1) :
        /\ in.items[h].k = "header" /\ in.items[h].typ = "stored"
        /\ in.items[h].final = fin
        /\ h + in.items[h].n = (p - 1) + left
        /\ Clear(in, h - 1)
  BY DEF InStored
<1>3. p \in 1..(Len(in.items) + 1) /\ h \in 1..Len(in.items) /\ p <= h + in.items[h].n
  BY <1>1, <1>2 DEF InStored
<1>4. p = Len(in.items) + 1
  <2> SUFFICES ASSUME p <= Len(in.items)
               PROVE  FALSE
    BY <1>1, <1>3
  <2>1. p \in h..Len(in.items) /\ p > h
    BY <1>1, <1>3
  <2>2. QED
    BY <1>2, <1>3, <2>1, InsideStored
<1>5. Clear(in, Len(in.items))
  <2> SUFFICES ASSUME NEW k \in 1..Len(in.items)
               PROVE  ~Faulty(in, k) /\ ~EndsStream(in, k)
    BY DEF Clear
  <2>1. CASE k <= h - 1
    BY <1>2, <2>1 DEF Clear
  <2>2. CASE k >= h
    <3>0. h + in.items[h].n = Len(in.items) + left
      BY <1>1, <1>2, <1>4
    <3>1. k \in h..Len(in.items) /\ k <= h + in.items[h].n /\ k # h + in.items[h].n
      BY <1>1, <1>3, <2>2, <3>0
    <3>2. QED
      BY <1>2, <1>3, <3>1, InsideStored
  <2>3. QED
    BY <1>3, <2>1, <2>2
<1>6. n = Produced(in)[Len(in.items)]
  <2>1. p - 1 = Len(in.items)
    BY <1>1, <1>4
  <2>2. QED
    BY <2>1 DEF InStored
<1>7. QED
  BY <1>5, <1>6 DEF Ended

\* A header begins a Huffman block.
LEMMA HuffmanBegins ==
  ASSUME NEW in \in Inputs, NEW p \in 1..Len(in.items), NEW n, At(in, p, n),
         in.items[p].k = "header", in.items[p].typ = "huffman"
  PROVE  InHuffman(in, p + 1, n, 0, in.items[p].final)
<1>1. Len(in.items) \in Nat
  BY InflateAssumption
<1>2. /\ (p + 1) - 1 = p /\ p + 1 \in 1..(Len(in.items) + 1)
      /\ Produced(in)[p] = Produced(in)[p - 1] /\ Produced(in)[p] \in Nat
  BY <1>1, ProducedNext, YieldType
<1>3. n + 0 = Produced(in)[(p + 1) - 1]
  BY <1>2 DEF At
<1>4. /\ Clear(in, p - 1) /\ p \in 1..((p + 1) - 1)
      /\ \A j \in (p + 1)..((p + 1) - 1) : in.items[j].k \in {"lit", "pair"} /\ ~Faulty(in, j)
  BY <1>2 DEF At
<1>5. QED
  BY <1>2, <1>3, <1>4 DEF InHuffman

\* A literal or a pair of it.
LEMMA HuffmanGoesOn ==
  ASSUME NEW in \in Inputs, NEW p \in 1..Len(in.items), NEW n \in Nat, NEW fin,
         InHuffman(in, p, n, 0, fin), in.items[p].k \in {"lit", "pair"}, ~Faulty(in, p),
         NEW m \in Nat, NEW left \in Nat, m + left = Yield(in.items[p])
  PROVE  InHuffman(in, p + 1, n + m, left, fin)
<1>1. Len(in.items) \in Nat
  BY InflateAssumption
<1>2. /\ (p + 1) - 1 = p /\ p + 1 \in 1..(Len(in.items) + 1)
      /\ Produced(in)[p] = Produced(in)[p - 1] + Yield(in.items[p])
      /\ Produced(in)[p - 1] \in Nat /\ n + 0 = Produced(in)[p - 1]
  BY <1>1, ProducedNext DEF InHuffman
<1>3. (n + m) + left = Produced(in)[(p + 1) - 1]
  BY <1>2
<1>4. PICK h \in 1..(p - 1) :
       /\ in.items[h].k = "header" /\ in.items[h].typ = "huffman"
       /\ in.items[h].final = fin
       /\ \A j \in (h + 1)..(p - 1) : in.items[j].k \in {"lit", "pair"} /\ ~Faulty(in, j)
       /\ Clear(in, h - 1)
  BY DEF InHuffman
<1>5. h \in 1..((p + 1) - 1)
  OBVIOUS
<1>6. ASSUME NEW j \in (h + 1)..((p + 1) - 1)
      PROVE  in.items[j].k \in {"lit", "pair"} /\ ~Faulty(in, j)
  <2>1. CASE j = p
    BY <2>1
  <2>2. CASE j # p
    <3>1. j \in (h + 1)..(p - 1)
      BY <2>2
    <3>2. QED
      BY <1>4, <3>1
  <2>3. QED
    BY <2>1, <2>2
<1>7. QED
  BY <1>2, <1>3, <1>4, <1>5, <1>6 DEF InHuffman

\* Some of a pair is copied.
LEMMA PairGoesOn ==
  ASSUME NEW in \in Inputs, NEW p, NEW n \in Nat, NEW left \in Nat, NEW m \in 0..left, NEW fin,
         InHuffman(in, p, n, left, fin)
  PROVE  InHuffman(in, p, n + m, left - m, fin)
<1>1. (n + m) + (left - m) = n + left
  OBVIOUS
<1>2. QED
  BY <1>1 DEF InHuffman

\* In a Huffman block nothing has stopped yet.
LEMMA InsideClear ==
  ASSUME NEW in \in Inputs, NEW p \in Nat, NEW n, NEW fin, InHuffman(in, p, n, 0, fin)
  PROVE  Clear(in, p - 1)
<1>1. Len(in.items) \in Nat
  BY InflateAssumption
<1>2. PICK h \in 1..(p - 1) :
       /\ in.items[h].k = "header" /\ in.items[h].typ = "huffman"
       /\ in.items[h].final = fin
       /\ \A j \in (h + 1)..(p - 1) : in.items[j].k \in {"lit", "pair"} /\ ~Faulty(in, j)
       /\ Clear(in, h - 1)
  BY DEF InHuffman
<1> SUFFICES ASSUME NEW k \in 1..(p - 1)
             PROVE  ~Faulty(in, k) /\ ~EndsStream(in, k)
  BY DEF Clear
<1>3. CASE k <= h - 1
  BY <1>2, <1>3 DEF Clear
<1>4. CASE k = h
  BY <1>2, <1>4, HeaderItem
<1>5. CASE k > h
  <2>1. k \in (h + 1)..(p - 1)
    BY <1>5
  <2>2. in.items[k].k \in {"lit", "pair"} /\ ~Faulty(in, k)
    BY <1>2, <2>1
  <2>3. h \in Nat \ {0} /\ k \in Nat /\ h <= k
    BY <1>5
  <2>4. \A j \in (h + 1)..(k - 1) : in.items[j].k \in {"lit", "pair"}
    <3> SUFFICES ASSUME NEW j \in (h + 1)..(k - 1)
                 PROVE  in.items[j].k \in {"lit", "pair"}
      OBVIOUS
    <3>1. j \in (h + 1)..(p - 1)
      BY <2>3
    <3>2. QED
      BY <1>2, <3>1
  <2>5. EndsStream(in, k) <=> in.items[h].final /\ in.items[k].k = "eob"
    BY <1>2, <2>2, <2>3, <2>4, InsideHuffman
  <2>6. QED
    BY <2>2, <2>5
<1>6. QED
  BY <1>3, <1>4, <1>5

\* The item after the symbols of a Huffman block ends the stream if it is an end
\* of block and the block is final.
LEMMA AfterSymbols ==
  ASSUME NEW in \in Inputs, NEW p \in 1..Len(in.items), NEW n, NEW fin \in BOOLEAN,
         InHuffman(in, p, n, 0, fin), in.items[p].k # "header"
  PROVE  EndsStream(in, p) <=> fin /\ in.items[p].k = "eob"
<1>1. PICK h \in 1..(p - 1) :
       /\ in.items[h].k = "header" /\ in.items[h].typ = "huffman"
       /\ in.items[h].final = fin
       /\ \A j \in (h + 1)..(p - 1) : in.items[j].k \in {"lit", "pair"} /\ ~Faulty(in, j)
       /\ Clear(in, h - 1)
  BY DEF InHuffman
<1>2. h \in Nat \ {0} /\ p \in Nat /\ h <= p
  OBVIOUS
<1>3. EndsStream(in, p) <=> in.items[h].final /\ in.items[p].k = "eob"
  BY <1>1, <1>2, InsideHuffman
<1>4. QED
  BY <1>1, <1>3

\* The end-of-block symbol of the last block ends the stream.
LEMMA HuffmanEnds ==
  ASSUME NEW in \in Inputs, NEW p \in 1..Len(in.items), NEW n \in Nat, NEW fin \in BOOLEAN,
         InHuffman(in, p, n, 0, fin), in.items[p].k = "eob"
  PROVE  BlockDone(in, p + 1, n, fin)
<1>1. /\ (p + 1) - 1 = p /\ (p + 1) - 2 = p - 1 /\ p + 1 \in Nat /\ p \in Nat
  OBVIOUS
<1>2. n + 0 = Produced(in)[p - 1] /\ Produced(in)[p] = Produced(in)[p - 1] /\ n + 0 = n
  BY ProducedNext, YieldType DEF InHuffman
<1>3. Clear(in, p - 1)
  BY <1>1, InsideClear
<1>4. EndsStream(in, p) <=> fin
  BY AfterSymbols
<1>5. ~Faulty(in, p)
  BY DEF Faulty
<1>6. QED
  BY <1>1, <1>2, <1>3, <1>4, <1>5 DEF BlockDone

\* An invalid symbol, or a pair that reaches back too far.
LEMMA HuffmanFails ==
  ASSUME NEW in \in Inputs, NEW p \in 1..Len(in.items), NEW n \in Nat, NEW fin \in BOOLEAN,
         InHuffman(in, p, n, 0, fin), in.items[p].k \in {"bad", "pair"}, Faulty(in, p)
  PROVE  Ended(in, n, "Corrupt")
<1>1. n = Produced(in)[p - 1] /\ p \in Nat
  BY ProducedNext DEF InHuffman
<1>2. Clear(in, p - 1)
  BY <1>1, InsideClear
<1>3. ~EndsStream(in, p)
  BY AfterSymbols
<1>4. QED
  BY <1>1, <1>2, <1>3 DEF Ended

\* An input that is cut off inside a Huffman block.
LEMMA HuffmanCut ==
  ASSUME NEW in \in Inputs, NEW p \in Nat, NEW n \in Nat, NEW fin,
         InHuffman(in, p, n, 0, fin), ~(p <= Len(in.items)),
         NEW e \in {in.tail.error, noEOF(in.tail.error)}
  PROVE  Ended(in, n, e)
<1>1. Len(in.items) \in Nat
  BY InflateAssumption
<1>2. p - 1 = Len(in.items)
  BY <1>1 DEF InHuffman
<1>3. Clear(in, Len(in.items))
  BY <1>2, InsideClear
<1>4. n = Produced(in)[Len(in.items)]
  BY <1>2 DEF InHuffman
<1>5. QED
  BY <1>3, <1>4 DEF Ended

\* There is no header, or an invalid one.
LEMMA HeaderCut ==
  ASSUME NEW in \in Inputs, NEW p \in Nat, NEW n, At(in, p, n), ~(p <= Len(in.items)),
         NEW e \in {in.tail.error, noEOF(in.tail.error)}
  PROVE  Ended(in, n, e)
<1>1. Len(in.items) \in Nat
  BY InflateAssumption
<1>2. p - 1 = Len(in.items)
  BY <1>1 DEF At
<1>3. QED
  BY <1>2 DEF At, Ended

\* A header that cannot be read: what was decoded is all there is.
LEMMA HeaderFails ==
  ASSUME NEW in \in Inputs, NEW p \in 1..Len(in.items), NEW n, At(in, p, n),
         in.items[p].k = "header", in.items[p].typ = "invalid"
  PROVE  Ended(in, n, "Corrupt")
<1>1. Faulty(in, p) /\ ~EndsStream(in, p)
  BY HeaderItem
<1>2. QED
  BY <1>1 DEF At, Ended

\* Where the first stop is.
LEMMA FirstStop ==
  ASSUME NEW in \in Inputs, NEW k \in 1..Len(in.items), Clear(in, k - 1),
         Faulty(in, k) \/ EndsStream(in, k)
  PROVE  Stops(in) # {} /\ LastItem(in) = k
<1> DEFINE S == Stops(in)
<1>1. Len(in.items) \in Nat
  BY InflateAssumption
<1>2. k \in S
  BY DEF Stops
<1>3. ASSUME NEW j \in S
      PROVE  k <= j /\ j \in Nat
  <2>1. j \in 1..Len(in.items) /\ (Faulty(in, j) \/ EndsStream(in, j))
    BY DEF Stops
  <2>2. CASE j < k
    <3>1. j \in 1..(k - 1)
      BY <2>1, <2>2
    <3>2. QED
      BY <2>1, <3>1 DEF Clear
  <2>3. QED
    BY <2>1, <2>2
<1>4. LastItem(in) = CHOOSE i \in S : \A j \in S : i <= j
  BY <1>2 DEF LastItem
<1> HIDE DEF S
<1>5. \E i \in S : \A j \in S : i <= j
  BY <1>2, <1>3
<1> DEFINE c == CHOOSE i \in S : \A j \in S : i <= j
<1>6. c \in S /\ \A j \in S : c <= j
  BY <1>5
<1> HIDE DEF c
<1>7. c = k
  <2>1. c <= k /\ k <= c /\ c \in Nat /\ k \in Nat
    BY <1>2, <1>3, <1>6
  <2>2. QED
    BY <2>1
<1>8. QED
  BY <1>2, <1>4, <1>7 DEF c, S

\* A stream that has ended has ended as its items say.
LEMMA Meaning ==
  ASSUME NEW in \in Inputs, NEW n, NEW e, Ended(in, n, e)
  PROVE  n = TotalBytes(in) /\ e \in EndErrors(in)
<1>1. Len(in.items) \in Nat
  BY InflateAssumption
<1>2. ASSUME e = "EOF", NEW k \in 1..Len(in.items),
             EndsStream(in, k), Clear(in, k - 1), n = Produced(in)[k]
      PROVE  n = TotalBytes(in) /\ e \in EndErrors(in)
  <2>1. Stops(in) # {} /\ LastItem(in) = k
    BY <1>2, FirstStop
  <2>2. Complete(in)
    BY <1>2, <2>1 DEF Complete
  <2>3. QED
    BY <1>2, <2>1, <2>2 DEF TotalBytes, EndErrors
<1>3. ASSUME e = "Corrupt", NEW k \in 1..Len(in.items),
             Faulty(in, k), ~EndsStream(in, k), Clear(in, k - 1), n = Produced(in)[k - 1]
      PROVE  n = TotalBytes(in) /\ e \in EndErrors(in)
  <2>1. Stops(in) # {} /\ LastItem(in) = k
    BY <1>3, FirstStop
  <2>2. ~Complete(in)
    BY <1>3, <2>1 DEF Complete
  <2>3. QED
    BY <1>3, <2>1, <2>2 DEF TotalBytes, EndErrors
<1>4. ASSUME e \in {in.tail.error, noEOF(in.tail.error)}, Clear(in, Len(in.items)),
             n = Produced(in)[Len(in.items)]
      PROVE  n = TotalBytes(in) /\ e \in EndErrors(in)
  <2>1. Stops(in) = {}
    BY <1>4 DEF Stops, Clear
  <2>2. LastItem(in) = Len(in.items) /\ ~Complete(in)
    BY <2>1 DEF LastItem, Complete
  <2>3. QED
    BY <1>4, <2>1, <2>2 DEF TotalBytes, EndErrors
<1>5. QED
  BY <1>2, <1>3, <1>4 DEF Ended
-----------------------------------------------------------------------------
(* The decoder follows its input.                                          *)

\* Where it stands, as long as nothing went wrong, and how it ended else.
Position ==
  /\ err = "nil" =>
       /\ Between /\ step = "nextBlock" => At(input, pos, written)
       /\ (Between /\ step = "copyData") \/ pc = "copyData" =>
            InStored(input, pos, written, copyLen, final)
       /\ (Between /\ step = "huffman") \/ pc \in {"readLiteral", "copyHistory"} =>
            InHuffman(input, pos, written, copyLen, final)
  /\ err \notin {"nil", "sink"} => Ended(input, written, err)

\* When it has ended, what was left in the window is flushed, and the call that
\* reports the end has handed out all of it.
Drained ==
  err \notin {"nil", "sink"} =>
    /\ pc \in {"idle", "loop"} => availRead(dict) = 0
    /\ pc = "stepped" => SliceLen(toRead) = 0 \/ availRead(dict) = 0
    /\ pc = "idle" /\ call.ret # "none" /\ SliceLen(toRead) = 0 =>
         Len(delivered) = written

\* WriteTo flushes what is left once, after an error.
FlushedOnce ==
  /\ pc \notin {"idle", "loop"} => ~call.flushed
  /\ pc = "loop" /\ call.flushed => err # "nil"

\* A checkpoint is where a block has ended.
CheckpointPlaces ==
  \A cp \in cps :
    /\ cp.at \in 1..(Len(input.items) + 1)
    /\ cp.unc = Produced(input)[cp.at - 1]
    /\ ~cp.final => Clear(input, cp.at - 1)

\* The second inductive invariant: it rests on the first.
Follows == Position /\ Drained /\ FlushedOnce /\ CheckpointPlaces

\* The input, and what is known of its next item.
LEMMA InputKnown ==
  ASSUME IInv
  PROVE  /\ input \in Inputs /\ items = input.items /\ Len(items) \in Nat
         /\ pos \in Nat \ {0} /\ written \in Nat /\ copyLen \in Nat
         /\ more => pos \in 1..Len(input.items) /\ items[pos] \in Item
         /\ ~more => ~(pos <= Len(input.items))
<1>1. input \in Inputs /\ pos \in Nat \ {0} /\ written \in Nat /\ copyLen \in Nat
  BY DEF IInv, TypeOK
<1>2. items = input.items
  BY DEF items
<1>3. items \in Seq(Item)
  BY <1>1, <1>2, InflateAssumption
<1>4. QED
  BY <1>1, <1>2, <1>3 DEF more

\* final is what the header of the block says.
LEMMA FinalKnown ==
  ASSUME NEW in \in Inputs, NEW p \in Nat, NEW n, NEW left, NEW fin,
         InStored(in, p, n, left, fin) \/ InHuffman(in, p, n, left, fin)
  PROVE  fin \in BOOLEAN
<1>1. in.items \in Seq(Item) /\ Len(in.items) \in Nat
  BY InflateAssumption
<1>2. PICK h \in 1..(p - 1) : in.items[h].k = "header" /\ in.items[h].final = fin
  BY DEF InStored, InHuffman
<1>3. p \in 1..(Len(in.items) + 1)
  BY DEF InStored, InHuffman
<1>4. h \in 1..Len(in.items)
  BY <1>1, <1>3
<1>5. in.items[h] \in Item
  BY <1>1, <1>4
<1>6. QED
  BY <1>2, <1>5, YieldType

\* How far a pair can reach back.
LEMMA HistoryKnown ==
  ASSUME IInv
  PROVE  histSize(dict) = Least(W, input.preset + written)
<1>1. /\ Window(dict, written, input.preset)
      /\ written \in Nat /\ input.preset \in Nat
  BY InflateAssumption DEF IInv, TypeOK, InWindow
<1>2. /\ dict.wrPos \in Nat /\ dict.wrPos <= W /\ dict.full \in BOOLEAN
      /\ IF dict.full THEN input.preset + written >= W
                      ELSE dict.wrPos = input.preset + written
  BY <1>1 DEF Window, Dict
<1>3. input.preset + written \in Nat
  BY <1>1
<1> DEFINE n == input.preset + written
<1> HIDE DEF n
<1>4. CASE dict.full
  <2>1. n >= W /\ n \in Nat
    BY <1>2, <1>3, <1>4 DEF n
  <2>2. Least(W, n) = W
    BY <2>1 DEF Least
  <2>3. QED
    BY <1>4, <2>2 DEF histSize, n
<1>5. CASE ~dict.full
  <2>1. dict.wrPos = n /\ n \in Nat /\ n <= W
    BY <1>2, <1>3, <1>5 DEF n
  <2>2. Least(W, n) = n
    BY <2>1 DEF Least
  <2>3. QED
    BY <1>5, <2>1, <2>2 DEF histSize, n
<1>6. QED
  BY <1>4, <1>5

\* A step of the decoder fails.
LEMMA FailingFollows ==
  ASSUME Follows, Working, NEW e, fail(e), e # "nil", SliceLen(toRead) = 0,
         Ended(input, written', e), UNCHANGED <<input, toRead, call, cps>>
  PROVE  Follows'
<1>1. err' = e /\ pc' = "stepped"
  BY DEF fail
<1>2. Position' /\ Drained'
  BY <1>1 DEF Position, Drained
<1>3. FlushedOnce'
  BY <1>1 DEF Follows, FlushedOnce, Working
<1>4. CheckpointPlaces'
  BY DEF Follows, CheckpointPlaces
<1>5. QED
  BY <1>2, <1>3, <1>4 DEF Follows

\* A step of the decoder succeeds, inside a block.
LEMMA WorkingFollows ==
  ASSUME Follows, Working, err' = "nil", Position',
         pc' \in {"stepped", "copyData", "readLiteral", "copyHistory"},
         UNCHANGED <<input, call, cps>>
  PROVE  Follows'
<1>1. Drained'
  BY DEF Drained
<1>2. FlushedOnce'
  BY DEF Follows, FlushedOnce, Working
<1>3. CheckpointPlaces'
  BY DEF Follows, CheckpointPlaces
<1>4. QED
  BY <1>1, <1>2, <1>3 DEF Follows

\* finishBlock: the end of the stream is where its items say, and so is the
\* checkpoint (inflate.go lines 673-697).
LEMMA FinishingFollows ==
  ASSUME IInv, Follows, Working, NEW d, NEW s, NEW fin \in BOOLEAN, NEW q,
         finishBlock(d, s, fin, q), pos' = q,
         UNCHANGED <<input, uncOffset, call, delivered>>,
         written' \in Nat, Standing(d, s, written'), availRead(d) > 0 => SliceLen(s) = 0,
         BlockDone(input, q, written', fin)
  PROVE  Follows'
<1> DEFINE flush == (fin \/ flushMode = "partialFlush") /\ availRead(d) > 0
           d2 == IF flush THEN readFlush(d) ELSE d
           n == written'
           cp == [unc |-> uncOffset + decoded(d2), at |-> q,
                  offset |-> (8 * roffset' - nb') \div 8,
                  bit |-> (8 * roffset' - nb') % 8,
                  final |-> fin, window |-> appendWindow(d2)]
<1>1. /\ dict' = d2
      /\ toRead' = IF flush THEN Slice(d) ELSE s
      /\ err' = IF fin THEN "EOF" ELSE err
      /\ cps' \subseteq cps \cup {cp}
      /\ step' = "nextBlock"
      /\ pc' = "stepped"
  BY DEF finishBlock
<1>2. err = "nil" /\ input \in Inputs
  BY AtWork DEF IInv, TypeOK
<1>3. input.preset \in Nat /\ Len(delivered) \in Nat
  BY InflateAssumption DEF IInv, TypeOK, InOrder
<1>4. availRead(d) \in Nat /\ uncOffset + decoded(d) = n /\ n \in Nat
  BY DEF Standing, Window, Dict, availRead
<1>5. uncOffset + decoded(d2) = n
  <2>1. CASE flush
    <3>1. SliceLen(s) = 0
      BY <2>1
    <3>2. Standing(readFlush(d), Slice(d), n)
      BY <1>3, <1>4, <3>1, StandingFlushed
    <3>3. QED
      BY <2>1, <3>2 DEF Standing
  <2>2. CASE ~flush
    BY <1>4, <2>2
  <2>3. QED
    BY <2>1, <2>2
<1>6. SliceLen(toRead') = 0 \/ availRead(dict') = 0
  <2>1. CASE flush
    <3>1. SliceLen(s) = 0
      BY <2>1
    <3>2. availRead(readFlush(d)) = 0
      BY <1>3, <1>4, <3>1, StandingFlushed
    <3>3. dict' = readFlush(d)
      BY <1>1, <2>1
    <3>4. QED
      BY <3>2, <3>3
  <2>2. CASE ~flush
    <3>1. dict' = d /\ toRead' = s
      BY <1>1, <2>2
    <3>2. QED
      BY <1>4, <3>1
  <2>3. QED
    BY <2>1, <2>2
<1>7. cp.unc = n /\ cp.at = q /\ cp.final = fin
  BY <1>5
<1> HIDE DEF cp, d2, flush, n
<1>8. IF fin THEN Ended(input, n, "EOF") ELSE At(input, q, n)
  BY <1>2, AfterBlock DEF n
<1>9. Position'
  BY <1>1, <1>2, <1>8 DEF Position, n
<1>10. Drained'
  BY <1>1, <1>6 DEF Drained
<1>11. FlushedOnce'
  BY <1>1 DEF Follows, FlushedOnce, Working
<1>12. CheckpointPlaces'
  <2>1. /\ q \in 1..(Len(input.items) + 1)
        /\ n = Produced(input)[q - 1]
        /\ ~fin => Clear(input, q - 1)
    <3>1. q - 1 \in 1..Len(input.items) /\ q \in Nat /\ n = Produced(input)[q - 1]
      BY DEF BlockDone, n
    <3>2. Len(input.items) \in Nat
      BY <1>2, InflateAssumption
    <3>3. ~fin => Clear(input, q - 1)
      BY <1>8 DEF At
    <3>4. QED
      BY <3>1, <3>2, <3>3
  <2>2. ASSUME NEW c \in cps'
        PROVE  /\ c.at \in 1..(Len(input.items) + 1)
               /\ c.unc = Produced(input)[c.at - 1]
               /\ ~c.final => Clear(input, c.at - 1)
    <3>1. CASE c \in cps
      BY <3>1 DEF Follows, CheckpointPlaces
    <3>2. CASE c = cp
      BY <1>7, <2>1, <3>2
    <3>3. QED
      BY <1>1, <3>1, <3>2
  <2>3. QED
    BY <2>2 DEF CheckpointPlaces
<1>13. QED
  BY <1>9, <1>10, <1>11, <1>12 DEF Follows

\* copyData (inflate.go lines 648-671): the stored bytes are taken in turn, and
\* the input that ends inside them ends the stream.
LEMMA CopyDataFollows ==
  ASSUME IInv, Follows, pc = "copyData" \/ (pc = "step" /\ step = "copyData"),
         copyData(copyLen, pos, final),
         UNCHANGED <<input, flushMode, stepState, final, copyDist, uncOffset, call,
                     delivered, cb, reused>>
  PROVE  Follows'
<1> DEFINE want == Least(availWrite(dict), copyLen)
           cnt == RawAvailable(want)
           d == wrote(dict, cnt, written + 1)
           q == pos + cnt
           w == written + cnt
           left == copyLen - cnt
<1>1. /\ pos' = q /\ copyLen' = left /\ written' = w
      /\ \/ /\ cnt < want /\ fail(ReadError) /\ dict' = d
            /\ UNCHANGED <<step, toRead, cps>>
         \/ /\ cnt = want /\ (availWrite(d) = 0 \/ left > 0)
            /\ step' = "copyData" /\ pc' = "stepped"
            /\ UNCHANGED <<err, cps>>
         \/ /\ cnt = want /\ ~(availWrite(d) = 0 \/ left > 0)
            /\ finishBlock(d, toRead, final, q)
  BY DEF copyData
<1>2. Working
  BY DEF Working
<1>3. /\ Standing(dict, toRead, written)
      /\ written \in Nat /\ input.preset \in Nat /\ Len(delivered) \in Nat
      /\ uncOffset \in Nat /\ copyLen \in Nat /\ pos \in Nat \ {0}
      /\ availWrite(dict) \in Nat \ {0} /\ SliceLen(toRead) = 0 /\ err = "nil"
  BY <1>2, AtWork
<1>4. want \in Nat /\ want <= availWrite(dict) /\ want <= copyLen
  BY <1>3 DEF Least
<1>5. input \in Inputs /\ items = input.items /\ Len(items) \in Nat
  BY InputKnown
<1> HIDE DEF want
<1>6. /\ cnt \in 0..want
      /\ \A i \in 1..cnt : pos + i - 1 <= Len(items) /\ items[pos + i - 1] = Raw
      /\ cnt < want => ~(pos + cnt <= Len(items) /\ items[pos + cnt] = Raw)
  BY <1>3, <1>4, <1>5, RawCounted
<1> HIDE DEF cnt
<1>7. cnt \in 0..copyLen /\ cnt \in Nat /\ cnt <= availWrite(dict)
  BY <1>3, <1>4, <1>6
<1>8. Standing(d, toRead, w)
  BY <1>3, <1>7, StandingWrote
<1> HIDE DEF d
<1>9. InStored(input, pos, written, copyLen, final)
  BY <1>3 DEF Follows, Position, Between
<1>10. final \in BOOLEAN
  BY <1>3, <1>5, <1>9, FinalKnown
<1>11. InStored(input, q, w, left, final)
  <2>1. \A i \in 1..cnt : pos + i - 1 <= Len(input.items) /\ input.items[pos + i - 1] = Raw
    BY <1>5, <1>6
  <2>2. pos \in Nat
    BY <1>3
  <2>3. QED
    BY <1>3, <1>5, <1>7, <1>9, <2>1, <2>2, StoredGoesOn
<1>12. q \in Nat \ {0} /\ w \in Nat /\ left \in Nat
  BY <1>3, <1>7
<1>13. cnt < want => left > 0 /\ ~(q <= Len(items) /\ items[q] = Raw)
  BY <1>3, <1>4, <1>6
<1> HIDE DEF q, w, left
<1>14. CASE /\ cnt < want /\ fail(ReadError) /\ dict' = d
            /\ UNCHANGED <<step, toRead, cps>>
  <2>1. ReadError \in {input.tail.error, noEOF(input.tail.error)}
    BY DEF ReadError
  <2>2. ReadError # "nil"
    BY ReadErrors DEF IInv
  <2>3. left \in Nat \ {0} /\ ~(q <= Len(input.items) /\ input.items[q] = Raw) /\ q \in Nat
    BY <1>5, <1>12, <1>13, <1>14
  <2>4. Ended(input, w, ReadError)
    BY <1>5, <1>11, <2>1, <2>3, StoredCut
  <2>5. QED
    BY <1>1, <1>2, <1>3, <1>14, <2>2, <2>4, FailingFollows
<1>15. CASE /\ cnt = want /\ (availWrite(d) = 0 \/ left > 0)
            /\ step' = "copyData" /\ pc' = "stepped"
            /\ UNCHANGED <<err, cps>>
  <2>1. Position'
    BY <1>1, <1>3, <1>11, <1>15 DEF Position
  <2>2. QED
    BY <1>2, <1>3, <1>15, <2>1, WorkingFollows
<1>16. CASE /\ cnt = want /\ ~(availWrite(d) = 0 \/ left > 0)
            /\ finishBlock(d, toRead, final, q)
  <2>1. left = 0
    BY <1>12, <1>16
  <2>2. BlockDone(input, q, w, final)
    <3>1. InStored(input, q, w, 0, final)
      BY <1>11, <2>1
    <3>2. q \in Nat
      BY <1>12
    <3>3. QED
      BY <1>5, <1>10, <3>1, <3>2, StoredEnds
  <2>3. Standing(d, toRead, written') /\ written' \in Nat /\ BlockDone(input, q, written', final)
    BY <1>1, <1>8, <1>12, <2>2 DEF w
  <2>4. QED
    BY <1>1, <1>2, <1>3, <1>10, <1>16, <2>3, FinishingFollows
<1>17. QED
  BY <1>1, <1>14, <1>15, <1>16

\* nextBlock without a header, or with an invalid one.
LEMMA NextBlockFailsFollows ==
  ASSUME IInv, Follows, NextBlockFails
  PROVE  Follows'
<1>1. /\ pc = "step" /\ step = "nextBlock" /\ Working
      /\ UNCHANGED <<input, toRead, call, cps>> /\ written' = written
  BY DEF NextBlockFails, Take, Working
<1>2. err = "nil" /\ SliceLen(toRead) = 0
  BY <1>1, AtWork
<1>3. At(input, pos, written)
  BY <1>1, <1>2 DEF Follows, Position, Between
<1>4. CASE ~more /\ fail(ReadError)
  <2>1. ReadError \in {input.tail.error, noEOF(input.tail.error)} /\ ReadError # "nil"
    BY ReadErrors DEF ReadError, IInv
  <2>2. input \in Inputs /\ pos \in Nat /\ ~(pos <= Len(input.items))
    BY <1>4, InputKnown
  <2>3. Ended(input, written', ReadError)
    BY <1>1, <1>3, <2>1, <2>2, HeaderCut
  <2>4. QED
    BY <1>1, <1>2, <1>4, <2>1, <2>3, FailingFollows
<1>5. CASE atHeader("invalid") /\ fail("Corrupt")
  <2>1. more /\ items[pos].k = "header" /\ items[pos].typ = "invalid"
    BY <1>5 DEF atHeader
  <2>2. /\ input \in Inputs /\ pos \in 1..Len(input.items)
        /\ input.items[pos].k = "header" /\ input.items[pos].typ = "invalid"
    BY <2>1, InputKnown
  <2>3. Ended(input, written', "Corrupt")
    BY <1>1, <1>3, <2>2, HeaderFails
  <2>4. QED
    BY <1>1, <1>2, <1>5, <2>3, FailingFollows
<1>6. QED
  BY <1>4, <1>5 DEF NextBlockFails, Take

\* A stored block begins; an empty one is done.
LEMMA NextBlockStoredFollows ==
  ASSUME IInv, Follows, NextBlockStored
  PROVE  Follows'
<1>1. /\ pc = "step" /\ step = "nextBlock" /\ atHeader("stored") /\ Working
      /\ pos' = pos + 1 /\ final' = items[pos].final
      /\ UNCHANGED <<input, uncOffset, call, delivered>>
  BY DEF NextBlockStored, Working
<1>2. /\ Standing(dict, toRead, written)
      /\ written \in Nat /\ input.preset \in Nat /\ Len(delivered) \in Nat
      /\ SliceLen(toRead) = 0 /\ err = "nil"
  BY <1>1, AtWork
<1>3. At(input, pos, written)
  BY <1>1, <1>2 DEF Follows, Position, Between
<1>4. /\ input \in Inputs /\ pos \in 1..Len(input.items) /\ items = input.items
      /\ items[pos] \in Item /\ items[pos].k = "header" /\ items[pos].typ = "stored"
  BY <1>1, InputKnown DEF atHeader
<1>5. items[pos].n \in Nat /\ items[pos].final \in BOOLEAN
  BY <1>4, YieldType
<1>6. InStored(input, pos + 1, written, items[pos].n, final')
  BY <1>1, <1>3, <1>4, StoredBegins
<1>7. CASE /\ items[pos].n = 0
           /\ IF flushMode = "syncFlush"
              THEN finishBlock(readFlush(dict), Slice(dict), final', pos + 1)
              ELSE finishBlock(dict, toRead, final', pos + 1)
           /\ UNCHANGED <<copyLen, written>>
  <2>1. BlockDone(input, pos + 1, written', final')
    <3>1. InStored(input, pos + 1, written, 0, final')
      BY <1>6, <1>7
    <3>2. pos + 1 \in Nat /\ final' \in BOOLEAN
      BY <1>1, <1>4, <1>5
    <3>3. BlockDone(input, pos + 1, written, final')
      BY <1>4, <3>1, <3>2, StoredEnds
    <3>4. QED
      BY <1>7, <3>3
  <2>2. CASE flushMode = "syncFlush"
    <3> DEFINE d == readFlush(dict)
               s == Slice(dict)
    <3>1. Standing(d, s, written) /\ availRead(d) = 0
      BY <1>2, StandingFlushed
    <3>2. finishBlock(d, s, final', pos + 1)
      BY <1>7, <2>2
    <3> HIDE DEF d, s
    <3>3. Standing(d, s, written') /\ written' \in Nat /\ final' \in BOOLEAN
      BY <1>1, <1>2, <1>5, <1>7, <3>1
    <3>4. availRead(d) > 0 => SliceLen(s) = 0
      BY <3>1
    <3>5. QED
      BY <1>1, <2>1, <3>2, <3>3, <3>4, FinishingFollows
  <2>3. CASE flushMode # "syncFlush"
    <3>1. finishBlock(dict, toRead, final', pos + 1)
      BY <1>7, <2>3
    <3>2. Standing(dict, toRead, written') /\ written' \in Nat /\ final' \in BOOLEAN
      BY <1>1, <1>2, <1>5, <1>7
    <3>3. QED
      BY <1>1, <1>2, <2>1, <3>1, <3>2, FinishingFollows
  <2>4. QED
    BY <2>2, <2>3
<1>8. CASE /\ items[pos].n > 0
           /\ copyLen' = items[pos].n
           /\ pc' = "copyData"
           /\ UNCHANGED <<dict, toRead, err, cps, step, written>>
  <2>1. InStored(input', pos', written', copyLen', final')
    BY <1>1, <1>6, <1>8
  <2>2. Position'
    BY <1>2, <1>8, <2>1 DEF Position, Between
  <2>3. QED
    BY <1>1, <1>2, <1>8, <2>2, WorkingFollows
<1>9. QED
  BY <1>7, <1>8 DEF NextBlockStored

\* A Huffman block is entered or continued.  One that is entered at copyHistory,
\* where the block before it left stepState, has nothing to copy.
LEMMA HuffmanEntryFollows ==
  ASSUME IInv, Follows, NextBlockHuffman \/ StepHuffman
  PROVE  Follows'
<1>1. /\ pc = "step" /\ pc' \in {"readLiteral", "copyHistory"} /\ Working
      /\ UNCHANGED <<input, step, err, call, cps, copyLen, written>>
  BY DEF NextBlockHuffman, Take, StepHuffman, decoder, entry, Working
<1>2. err = "nil"
  BY <1>1, AtWork
<1>3. CASE NextBlockHuffman
  <2>1. step = "nextBlock" /\ atHeader("huffman") /\ pos' = pos + 1 /\ final' = items[pos].final
    BY <1>3 DEF NextBlockHuffman, Take
  <2>2. /\ input \in Inputs /\ pos \in 1..Len(input.items) /\ items = input.items
        /\ items[pos].k = "header" /\ items[pos].typ = "huffman"
    BY <2>1, InputKnown DEF atHeader
  <2>3. At(input, pos, written) /\ copyLen = 0
    BY <1>1, <1>2, <2>1 DEF Follows, Position, Between, IInv, CopyDone
  <2>4. InHuffman(input, pos + 1, written, 0, items[pos].final)
    BY <2>2, <2>3, HuffmanBegins
  <2>5. InHuffman(input', pos', written', copyLen', final')
    BY <1>1, <2>1, <2>3, <2>4
  <2>6. Position'
    BY <1>1, <1>2, <2>5 DEF Position, Between
  <2>7. QED
    BY <1>1, <1>2, <2>6, WorkingFollows
<1>4. CASE StepHuffman
  <2>1. step = "huffman" /\ UNCHANGED <<pos, final>>
    BY <1>4 DEF StepHuffman, decoder
  <2>2. InHuffman(input, pos, written, copyLen, final)
    BY <1>1, <1>2, <2>1 DEF Follows, Position, Between
  <2>3. InHuffman(input', pos', written', copyLen', final')
    BY <1>1, <2>1, <2>2
  <2>4. Position'
    BY <1>1, <1>2, <2>3 DEF Position, Between
  <2>5. QED
    BY <1>1, <1>2, <2>4, WorkingFollows
<1>5. QED
  BY <1>3, <1>4

\* What the symbols of a Huffman block are read from.
LEMMA AtSymbol ==
  ASSUME IInv, Follows, pc = "readLiteral"
  PROVE  /\ Working /\ err = "nil" /\ SliceLen(toRead) = 0
         /\ input \in Inputs /\ items = input.items /\ pos \in Nat /\ written \in Nat
         /\ copyLen = 0
         /\ InHuffman(input, pos, written, 0, final) /\ final \in BOOLEAN
         /\ more => pos \in 1..Len(input.items) /\ items[pos] \in Item
         /\ ~more => ~(pos <= Len(input.items))
<1>1. Working
  BY DEF Working
<1>2. err = "nil" /\ SliceLen(toRead) = 0 /\ copyLen = 0
  BY <1>1, AtWork DEF IInv, CopyDone
<1>3. InHuffman(input, pos, written, 0, final)
  BY <1>2 DEF Follows, Position
<1>4. input \in Inputs /\ pos \in Nat
  BY InputKnown
<1>5. final \in BOOLEAN
  BY <1>3, <1>4, FinalKnown
<1>6. QED
  BY <1>1, <1>2, <1>3, <1>5, InputKnown

\* The input ends at a symbol, or the symbol is invalid, or a pair reaches back
\* before the start: exactly then the item is at fault.
LEMMA SymbolFailsFollows ==
  ASSUME IInv, Follows, SymbolFails
  PROVE  Follows'
<1>1. pc = "readLiteral" /\ written' = written /\ UNCHANGED <<input, toRead, call, cps>>
  BY DEF SymbolFails, Take
<1>2. /\ Working /\ err = "nil" /\ SliceLen(toRead) = 0
      /\ input \in Inputs /\ items = input.items /\ pos \in Nat /\ written \in Nat
      /\ InHuffman(input, pos, written, 0, final) /\ final \in BOOLEAN
  BY <1>1, AtSymbol
<1>3. CASE ~more /\ fail(ReadError)
  <2>1. ReadError \in {input.tail.error, noEOF(input.tail.error)} /\ ReadError # "nil"
    BY ReadErrors DEF ReadError, IInv
  <2>2. ~(pos <= Len(input.items))
    BY <1>1, <1>3, AtSymbol
  <2>3. Ended(input, written', ReadError)
    BY <1>1, <1>2, <2>1, <2>2, HuffmanCut
  <2>4. QED
    BY <1>1, <1>2, <1>3, <2>1, <2>3, FailingFollows
<1>4. CASE /\ more /\ fail("Corrupt")
           /\ \/ items[pos].k = "bad"
              \/ items[pos].k = "pair" /\ items[pos].dist > histSize(dict)
  <2>1. pos \in 1..Len(input.items)
    BY <1>1, <1>4, AtSymbol
  <2>2. Faulty(input, pos)
    <3>1. CASE items[pos].k = "bad"
      BY <1>2, <3>1 DEF Faulty
    <3>2. CASE items[pos].k = "pair" /\ items[pos].dist > histSize(dict)
      <4>1. written + 0 = Produced(input)[pos - 1] /\ written + 0 = written
        BY <1>2 DEF InHuffman
      <4>2. histSize(dict) = Least(W, input.preset + Produced(input)[pos - 1])
        BY <4>1, HistoryKnown
      <4>3. QED
        BY <1>2, <3>2, <4>2 DEF Faulty
    <3>3. QED
      BY <1>4, <3>1, <3>2
  <2>3. Ended(input, written', "Corrupt")
    BY <1>1, <1>2, <1>4, <2>1, <2>2, HuffmanFails
  <2>4. QED
    BY <1>1, <1>2, <1>4, <2>3, FailingFollows
<1>5. QED
  BY <1>3, <1>4 DEF SymbolFails, Take

\* readLiteral, a literal.
LEMMA LiteralFollows ==
  ASSUME IInv, Follows, Literal
  PROVE  Follows'
<1>1. /\ pc = "readLiteral" /\ more /\ items[pos].k = "lit"
      /\ pos' = pos + 1 /\ written' = written + 1
      /\ \/ step' = "huffman" /\ pc' = "stepped"
         \/ UNCHANGED <<step, pc>>
      /\ UNCHANGED <<input, call, cps, copyLen, final, err>>
  BY DEF Literal, Take
<1>2. /\ Working /\ err = "nil"
      /\ input \in Inputs /\ items = input.items /\ written \in Nat /\ copyLen = 0
      /\ InHuffman(input, pos, written, 0, final)
      /\ pos \in 1..Len(input.items) /\ items[pos] \in Item
  BY <1>1, AtSymbol
<1>3. ~Faulty(input, pos) /\ Yield(input.items[pos]) = 1
  BY <1>1, <1>2, YieldType DEF Faulty
<1>4. 1 \in Nat /\ 0 \in Nat /\ 1 + 0 = Yield(input.items[pos])
  BY <1>3
<1>5. InHuffman(input, pos + 1, written + 1, 0, final)
  BY <1>1, <1>2, <1>3, <1>4, HuffmanGoesOn
<1>6. InHuffman(input', pos', written', copyLen', final')
  BY <1>1, <1>2, <1>5
<1>7. Position'
  BY <1>1, <1>2, <1>6 DEF Position, Between
<1>8. pc' \in {"stepped", "readLiteral"}
  BY <1>1
<1>9. QED
  BY <1>1, <1>2, <1>7, <1>8, WorkingFollows

\* readLiteral, the end-of-block symbol.
LEMMA EndOfBlockFollows ==
  ASSUME IInv, Follows, EndOfBlock
  PROVE  Follows'
<1>1. /\ pc = "readLiteral" /\ more /\ items[pos].k = "eob" /\ pos' = pos + 1
      /\ finishBlock(dict, toRead, final, pos + 1) /\ written' = written
      /\ UNCHANGED <<input, uncOffset, call, delivered>>
  BY DEF EndOfBlock, Take
<1>2. /\ Working /\ SliceLen(toRead) = 0
      /\ input \in Inputs /\ items = input.items /\ written \in Nat
      /\ InHuffman(input, pos, written, 0, final) /\ final \in BOOLEAN
      /\ pos \in 1..Len(input.items)
  BY <1>1, AtSymbol
<1>3. BlockDone(input, pos + 1, written', final)
  BY <1>1, <1>2, HuffmanEnds
<1>4. Standing(dict, toRead, written') /\ written' \in Nat
  BY <1>1, <1>2, AtWork
<1>5. QED
  BY <1>1, <1>2, <1>3, <1>4, FinishingFollows

\* readLiteral, a match whose distance is looked up next.
LEMMA MatchPairFollows ==
  ASSUME IInv, Follows, MatchPair
  PROVE  Follows'
<1>1. /\ pc = "readLiteral" /\ more /\ items[pos].k = "pair"
      /\ items[pos].dist <= histSize(dict)
      /\ pos' = pos + 1 /\ copyLen' = items[pos].len /\ pc' = "copyHistory"
      /\ UNCHANGED <<input, call, cps, written, final, err>>
  BY DEF MatchPair, Take
<1>2. /\ Working /\ err = "nil"
      /\ input \in Inputs /\ items = input.items /\ written \in Nat
      /\ InHuffman(input, pos, written, 0, final)
      /\ pos \in 1..Len(input.items) /\ items[pos] \in Item
  BY <1>1, AtSymbol
<1>3. /\ items[pos].len \in Nat /\ items[pos].dist \in Nat
      /\ Yield(items[pos]) = items[pos].len
  BY <1>1, <1>2, YieldType
<1>4. ~Faulty(input, pos)
  <2>1. written + 0 = Produced(input)[pos - 1] /\ written + 0 = written
    BY <1>2 DEF InHuffman
  <2>2. histSize(dict) = Least(W, input.preset + Produced(input)[pos - 1])
    BY <2>1, HistoryKnown
  <2>3. histSize(dict) \in Nat
    BY DEF IInv, InWindow, Window, Dict, histSize
  <2>4. ~(items[pos].dist > Least(W, input.preset + Produced(input)[pos - 1]))
    BY <1>1, <1>3, <2>2, <2>3
  <2>5. QED
    BY <1>1, <1>2, <2>4 DEF Faulty
<1>5. 0 \in Nat /\ 0 + items[pos].len = Yield(items[pos]) /\ written + 0 = written
  BY <1>2, <1>3
<1>6. InHuffman(input, pos + 1, written + 0, items[pos].len, final)
  BY <1>1, <1>2, <1>3, <1>4, <1>5, HuffmanGoesOn
<1>7. InHuffman(input', pos', written', copyLen', final')
  BY <1>1, <1>5, <1>6
<1>8. Position'
  BY <1>1, <1>2, <1>7 DEF Position, Between
<1>9. QED
  BY <1>1, <1>2, <1>8, WorkingFollows

\* copyHistory, as much of a match as the window has room for.
LEMMA CopyHistoryFollows ==
  ASSUME IInv, Follows, copyHistory
  PROVE  Follows'
<1> DEFINE cnt == Least(copyLen, availWrite(dict))
<1>1. /\ pc = "copyHistory" /\ copyLen' = copyLen - cnt /\ written' = written + cnt
      /\ \/ step' = "huffman" /\ pc' = "stepped"
         \/ pc' = "readLiteral" /\ UNCHANGED step
      /\ UNCHANGED <<input, call, cps, pos, final, err>>
  BY DEF copyHistory
<1>2. Working
  BY <1>1 DEF Working
<1>3. /\ written \in Nat /\ availWrite(dict) \in Nat /\ copyLen \in Nat /\ err = "nil"
      /\ input \in Inputs
  BY <1>2, AtWork, InputKnown
<1>4. cnt \in 0..copyLen
  BY <1>3 DEF Least
<1> HIDE DEF cnt
<1>5. InHuffman(input, pos, written, copyLen, final)
  BY <1>1, <1>3 DEF Follows, Position
<1>6. InHuffman(input, pos, written + cnt, copyLen - cnt, final)
  BY <1>3, <1>4, <1>5, PairGoesOn
<1>7. InHuffman(input', pos', written', copyLen', final')
  BY <1>1, <1>6
<1>8. Position'
  BY <1>1, <1>3, <1>7 DEF Position, Between
<1>9. QED
  BY <1>1, <1>2, <1>3, <1>8, WorkingFollows

\* A step of a call between two steps of the decoder.
LEMMA CallingFollows ==
  ASSUME Follows, Between, pc' \in {"idle", "loop", "step", "stepped"},
         err' \in {err, "sink"}, Drained', FlushedOnce',
         UNCHANGED <<input, pos, step, copyLen, final, written, cps>>
  PROVE  Follows'
<1>1. Position'
  BY DEF Follows, Position, Between
<1>2. CheckpointPlaces'
  BY DEF Follows, CheckpointPlaces
<1>3. QED
  BY <1>1, <1>2 DEF Follows

\* Read and WriteTo are called.
LEMMA CallsFollows ==
  ASSUME Follows, Calls
  PROVE  Follows'
<1>0. PICK n \in Buffers \cup {0} : Read(n) \/ WriteTo
  BY DEF Calls
<1>1. /\ pc = "idle" /\ pc' = "loop"
      /\ call' \in {[kind |-> "Read", n |-> n, flushed |-> FALSE, ret |-> "none"],
                    [kind |-> "WriteTo", n |-> 0, flushed |-> FALSE, ret |-> "none"]}
      /\ UNCHANGED <<input, pos, step, copyLen, final, written, cps>>
      /\ UNCHANGED <<dict, toRead, err>>
  BY <1>0 DEF Read, WriteTo, decoder
<1>2. Between /\ ~call'.flushed
  BY <1>1 DEF Between
<1>3. Drained' /\ FlushedOnce'
  BY <1>1, <1>2 DEF Follows, Drained, FlushedOnce
<1>4. QED
  BY <1>1, <1>2, <1>3, CallingFollows

\* When the window is empty and nothing waits any more, the caller has it all.
LEMMA AllTaken ==
  ASSUME IInv, ~Stopped, availRead(dict) = 0
  PROVE  /\ SliceLen(toRead) \in Nat
         /\ Len(delivered) \in Nat
         /\ Len(delivered) + SliceLen(toRead) = written
<1>1. Len(delivered) + SliceLen(toRead) + availRead(dict) = written
  BY DEF IInv, InOrder, InTurn
<1>2. SliceLen(toRead) \in Nat
  BY DEF IInv, InWindow, Proper, Slices, SliceLen
<1>3. Len(delivered) \in Nat
  BY DEF IInv, InOrder
<1>4. QED
  BY <1>1, <1>2, <1>3

\* One turn of the loop of Read.
LEMMA ReadLoopFollows ==
  ASSUME IInv, Follows, ReadLoop
  PROVE  Follows'
<1>1. /\ pc = "loop"
      /\ UNCHANGED <<input, pos, step, copyLen, final, written, cps>>
      /\ UNCHANGED <<dict, err>>
  BY DEF ReadLoop
<1>2. Between /\ ~Stopped /\ pc' \in {"idle", "step"}
  BY <1>1 DEF Between, Stopped, ReadLoop
<1>3. call \in CallStates /\ call.n \in Nat
  BY CallFields DEF IInv, TypeOK
<1>4. SliceLen(toRead) \in Nat /\ Proper(toRead)
  BY DEF IInv, InWindow, Proper, Slices, SliceLen
<1>5. err \notin {"nil", "sink"} => availRead(dict) = 0
  BY <1>1 DEF Follows, Drained
<1>6. Drained'
  <2> DEFINE m == Least(call.n, SliceLen(toRead))
  <2> SUFFICES ASSUME err \notin {"nil", "sink"}
               PROVE  Drained'
    BY <1>1 DEF Drained
  <2>1. /\ availRead(dict') = 0 /\ availRead(dict) = 0
        /\ Len(delivered) + SliceLen(toRead) = written /\ Len(delivered) \in Nat
    BY <1>1, <1>2, <1>5, AllTaken
  <2>2. CASE /\ delivered' = delivered \o Bytes(toRead, m)
             /\ toRead' = [toRead EXCEPT !.lo = @ + m]
             /\ pc' = "idle"
    <3>1. m \in Nat /\ m <= SliceLen(toRead)
      BY <1>3, <1>4 DEF Least
    <3>2. toRead' = Shorter(toRead, m)
      BY <2>2 DEF Shorter
    <3>3. delivered' = delivered \o Bytes(toRead, m)
      BY <2>2
    <3> HIDE DEF m
    <3>4. SliceLen(toRead') = SliceLen(toRead) - m
      BY <1>4, <3>1, <3>2, ShorterFields
    <3>5. Len(delivered') = Len(delivered) + m
      BY <1>2, <3>1, <3>3, Delivering
    <3>6. SliceLen(toRead') = 0 => Len(delivered') = written
      <4>1. SliceLen(toRead') = 0 => m = SliceLen(toRead)
        BY <1>4, <3>1, <3>4
      <4>2. QED
        BY <2>1, <3>5, <4>1
    <3>7. QED
      BY <1>1, <2>1, <2>2, <3>6 DEF Drained
  <2>3. CASE SliceLen(toRead) = 0 /\ pc' = "idle" /\ UNCHANGED <<delivered, toRead>>
    <3>1. Len(delivered) = written
      BY <2>1, <2>3
    <3>2. QED
      BY <1>1, <2>1, <2>3, <3>1 DEF Drained
  <2>4. CASE err = "nil"
    BY <2>4
  <2>5. QED
    BY <2>2, <2>3, <2>4 DEF ReadLoop
<1>7. FlushedOnce'
  <2>1. CASE pc' = "idle"
    BY <2>1 DEF FlushedOnce
  <2>2. CASE pc' = "step" /\ err = "nil" /\ UNCHANGED call
    BY <1>1, <2>2 DEF Follows, FlushedOnce
  <2>3. QED
    BY <2>1, <2>2 DEF ReadLoop
<1>8. QED
  BY <1>1, <1>2, <1>6, <1>7, CallingFollows

\* What Read and WriteTo do when a step has returned.
LEMMA SteppedFollows ==
  ASSUME IInv, Follows, ReadStepped \/ WriteToStepped
  PROVE  Follows'
<1>1. /\ pc = "stepped" /\ pc' = "loop"
      /\ UNCHANGED <<input, pos, step, copyLen, final, written, cps>>
      /\ UNCHANGED <<delivered, err>>
  BY DEF ReadStepped, WriteToStepped
<1>2. Between /\ ~Stopped /\ ~call.flushed
  BY <1>1 DEF Between, Stopped, Follows, FlushedOnce
<1>3. \/ /\ err # "nil" /\ SliceLen(toRead) = 0
         /\ dict' = readFlush(dict)
      \/ /\ ~(err # "nil" /\ SliceLen(toRead) = 0)
         /\ UNCHANGED <<dict, call>>
  BY <1>2 DEF ReadStepped, WriteToStepped
<1>4. availRead(readFlush(dict)) = 0 \/ SliceLen(toRead) # 0
  <2>1. /\ Standing(dict, toRead, written) /\ written \in Nat
        /\ input.preset \in Nat /\ Len(delivered) \in Nat
    BY <1>2, Running
  <2>2. QED
    BY <2>1, StandingFlushed
<1>5. err \notin {"nil", "sink"} => SliceLen(toRead) = 0 \/ availRead(dict) = 0
  BY <1>1 DEF Follows, Drained
<1>6. err \notin {"nil", "sink"} => availRead(dict') = 0
  BY <1>3, <1>4, <1>5
<1>7. Drained'
  BY <1>1, <1>6 DEF Drained
<1>8. FlushedOnce'
  <2>1. err # "nil" \/ call' = call
    BY <1>3
  <2>2. QED
    BY <1>1, <1>2, <2>1 DEF FlushedOnce
<1>9. QED
  BY <1>1, <1>2, <1>7, <1>8, CallingFollows

\* One turn of the loop of WriteTo.
LEMMA WriteToLoopFollows ==
  ASSUME IInv, Follows, WriteToLoop
  PROVE  Follows'
<1> DEFINE m == SliceLen(toRead)
<1>1. /\ pc = "loop"
      /\ delivered' = delivered \o Bytes(toRead, m)
      /\ toRead' = [toRead EXCEPT !.lo = toRead.hi]
      /\ UNCHANGED <<input, pos, step, copyLen, final, written, cps>>
      /\ UNCHANGED <<dict, err>>
  BY DEF WriteToLoop
<1>2. Between /\ ~Stopped
  BY <1>1 DEF Between, Stopped
<1>3. /\ Proper(toRead) /\ toRead \in Slices /\ m \in Nat /\ m <= SliceLen(toRead)
      /\ toRead.lo + m = toRead.hi /\ m - m = 0 /\ SliceLen(toRead) = m
  BY DEF IInv, InWindow, Proper, Slices, SliceLen
<1>4. toRead' = Shorter(toRead, m)
  BY <1>1, <1>3 DEF Shorter, Slices
<1>5. SliceLen(toRead') = 0
  BY <1>3, <1>4, ShorterFields
<1> HIDE DEF m
<1>6. Len(delivered') = Len(delivered) + m
  BY <1>1, <1>2, <1>3, Delivering
<1>7. Drained'
  <2> SUFFICES ASSUME err \notin {"nil", "sink"}
               PROVE  Drained'
    BY <1>1 DEF Drained
  <2>1. availRead(dict) = 0 /\ availRead(dict') = 0
    BY <1>1 DEF Follows, Drained
  <2>2. Len(delivered) + SliceLen(toRead) = written
    BY <1>2, <2>1, AllTaken
  <2>3. Len(delivered') = written
    BY <1>3, <1>6, <2>2
  <2>4. QED
    BY <1>1, <1>5, <2>1, <2>3 DEF Drained
<1>8. /\ pc' \in {"idle", "step", "stepped"}
      /\ pc' # "idle" => ~(err # "nil" /\ call.flushed) /\ UNCHANGED call
  BY DEF WriteToLoop
<1>9. FlushedOnce'
  BY <1>1, <1>8 DEF Follows, FlushedOnce
<1>10. QED
  BY <1>1, <1>2, <1>7, <1>8, <1>9, CallingFollows

\* The sink of WriteTo takes less than it was given.
LEMMA WriteToFailsFollows ==
  ASSUME IInv, Follows, NEW n \in 0..W, WriteToFails(n)
  PROVE  Follows'
<1>1. /\ pc = "loop" /\ SliceLen(toRead) > 0 /\ pc' = "idle"
      /\ err' \in {err, "sink"}
      /\ UNCHANGED <<input, pos, step, copyLen, final, written, cps>>
      /\ UNCHANGED <<dict, toRead>>
  BY DEF WriteToFails
<1>2. Between
  BY <1>1 DEF Between
<1>3. SliceLen(toRead) # 0
  BY <1>1 DEF IInv, InWindow, Proper, Slices, SliceLen
<1>4. Drained' /\ FlushedOnce'
  BY <1>1, <1>3 DEF Follows, Drained, FlushedOnce
<1>5. QED
  BY <1>1, <1>2, <1>4, CallingFollows

\* A decompressor that starts anew stands between two blocks.
LEMMA RestartFollows ==
  ASSUME NEW p, NEW base, NEW n, NEW old, Fresh(p, base, n, old),
         At(input', p, base), CheckpointPlaces'
  PROVE  Follows'
<1>1. /\ pos' = p /\ step' = "nextBlock" /\ err' = "nil" /\ pc' = "idle" /\ written' = base
  BY DEF Fresh
<1>2. Position'
  BY <1>1 DEF Position
<1>3. Drained' /\ FlushedOnce'
  BY <1>1 DEF Drained, FlushedOnce
<1>4. QED
  BY <1>2, <1>3 DEF Follows

\* Before the first item nothing was decoded.
LEMMA AtStart ==
  ASSUME NEW in \in Inputs
  PROVE  At(in, 1, 0)
<1>1. Len(in.items) \in Nat
  BY InflateAssumption
<1>2. Produced(in)[0] = 0
  BY ProducedCounts DEF Counting
<1>3. Clear(in, 1 - 1)
  BY DEF Clear
<1>4. 1 - 1 = 0 /\ 1 \in 1..(Len(in.items) + 1)
  BY <1>1
<1>5. QED
  BY <1>2, <1>3, <1>4 DEF At

\* Reset starts another input.
LEMMA ResetFollows ==
  ASSUME NEW in \in Reusable, Reset(in)
  PROVE  Follows'
<1>1. input' = in /\ cps' = {} /\ Fresh(1, 0, in.preset, dict.hist)
  BY DEF Reset
<1>2. in \in Inputs
  BY InflateAssumption
<1>3. At(input', 1, 0)
  BY <1>1, <1>2, AtStart
<1>4. CheckpointPlaces'
  BY <1>1 DEF CheckpointPlaces
<1>5. QED
  BY <1>1, <1>3, <1>4, RestartFollows

\* A new decoder starts at a checkpoint.
LEMMA ResumeFollows ==
  ASSUME Follows, NEW cp \in cps, ~cp.final,
         ResetCP(cp) \/ \E mode \in Modes : NewReaderFrom(cp, mode)
  PROVE  Follows'
<1>1. PICK old \in {dict.hist, [i \in Index |-> 0]} :
        Fresh(cp.at, cp.unc, Len(cp.window), old)
  BY DEF ResetCP, NewReaderFrom
<1>2. UNCHANGED <<input, cps>>
  BY DEF ResetCP, NewReaderFrom
<1>3. At(input, cp.at, cp.unc)
  BY DEF Follows, CheckpointPlaces, At
<1>4. At(input', cp.at, cp.unc)
  BY <1>2, <1>3
<1>5. CheckpointPlaces'
  BY <1>2 DEF Follows, CheckpointPlaces
<1>6. QED
  BY <1>1, <1>4, <1>5, RestartFollows

\* A new decoder has decoded nothing.
LEMMA InitFollows ==
  ASSUME Init
  PROVE  Follows
<1>1. /\ input \in Inputs /\ pos = 1 /\ step = "nextBlock" /\ err = "nil"
      /\ pc = "idle" /\ written = 0 /\ cps = {}
  BY DEF Init
<1>2. At(input, pos, written)
  BY <1>1, AtStart
<1>3. QED
  BY <1>1, <1>2 DEF Follows, Position, Drained, FlushedOnce, CheckpointPlaces

\* Every step of the decompressor and of its caller keeps the second invariant.
THEOREM InductiveFollows == IInv /\ Follows /\ [Next]_vars => Follows'
<1> SUFFICES ASSUME IInv, Follows, [Next]_vars
             PROVE  Follows'
  OBVIOUS
<1>1. CASE StepCopyData \/ FirstCopyData
  <2>1. /\ pc = "copyData" \/ (pc = "step" /\ step = "copyData")
        /\ copyData(copyLen, pos, final)
        /\ UNCHANGED <<input, flushMode, stepState, final, copyDist, uncOffset, call,
                       delivered, cb, reused>>
    BY <1>1 DEF StepCopyData, FirstCopyData
  <2>2. QED
    BY <2>1, CopyDataFollows
<1>2. CASE NextBlockFails
  BY <1>2, NextBlockFailsFollows
<1>3. CASE NextBlockStored
  BY <1>3, NextBlockStoredFollows
<1>4. CASE NextBlockHuffman \/ StepHuffman
  BY <1>4, HuffmanEntryFollows
<1>5. CASE SymbolFails
  BY <1>5, SymbolFailsFollows
<1>6. CASE Literal
  BY <1>6, LiteralFollows
<1>7. CASE EndOfBlock
  BY <1>7, EndOfBlockFollows
<1>8. CASE MatchPair
  BY <1>8, MatchPairFollows
<1>9. CASE copyHistory
  BY <1>9, CopyHistoryFollows
<1>10. CASE ReadLoop
  BY <1>10, ReadLoopFollows
<1>11. CASE ReadStepped \/ WriteToStepped
  BY <1>11, SteppedFollows
<1>12. CASE WriteToLoop
  BY <1>12, WriteToLoopFollows
<1>13. CASE Calls
  BY <1>13, CallsFollows
<1>14. ASSUME NEW n \in 0..W, WriteToFails(n)
       PROVE  Follows'
  BY <1>14, WriteToFailsFollows
<1>15. ASSUME NEW in \in Reusable, Reset(in)
       PROVE  Follows'
  BY <1>15, ResetFollows
<1>16. ASSUME NEW cp \in cps, ~cp.final,
              ResetCP(cp) \/ \E mode \in Modes : NewReaderFrom(cp, mode)
       PROVE  Follows'
  BY <1>16, ResumeFollows
<1>17. CASE Done \/ UNCHANGED vars
  <2>1. /\ UNCHANGED <<input, pos, dict, step, err, copyLen, final>>
        /\ UNCHANGED <<toRead, pc, call, delivered, written, cps>>
    BY <1>17 DEF Done, vars
  <2>2. Position' /\ CheckpointPlaces'
    BY <2>1 DEF Follows, Position, CheckpointPlaces, Between
  <2>3. Drained' /\ FlushedOnce'
    BY <2>1 DEF Follows, Drained, FlushedOnce
  <2>4. QED
    BY <2>2, <2>3 DEF Follows
<1>18. CASE Step
  BY <1>1, <1>2, <1>3, <1>4, <1>5, <1>6, <1>7, <1>8, <1>9, <1>10, <1>11, <1>12,
     <1>18 DEF Step
<1>19. QED
  BY <1>13, <1>14, <1>15, <1>16, <1>17, <1>18 DEF Next

\* The decoder follows what its input means: in every state as much was decoded
\* as the items before pos stand for, less what is left of a copy, and no item
\* before them stops the stream (flate/inflate.go doStep, nextBlock, dataBlock,
\* copyData, huffmanBlock, finishBlock).
THEOREM InvarianceFollows == Spec => []Follows
<1>1. Init => IInv /\ Follows
  BY Initially, InitFollows
<1>2. (IInv /\ Follows) /\ [Next]_vars => (IInv /\ Follows)'
  BY Inductive, InductiveFollows
<1>3. QED
  BY <1>1, <1>2, PTL DEF Spec

\* When a call of Read or WriteTo has reported the end, the caller got every byte
\* that the input stands for up to where it ends, fails or is cut off, and the
\* error is the right one, whatever the sizes of window and buffers, and after
\* every Reset and resumption (inflate.go lines 397-450, 673-697).
THEOREM OutcomeAlwaysCorrect == Spec => []OutcomeCorrect
<1>1. IInv /\ Follows => OutcomeCorrect
  <2> SUFFICES ASSUME IInv, Follows,
                      pc = "idle", call.ret # "none", err \notin {"nil", "sink"},
                      SliceLen(toRead) = 0
               PROVE  Len(delivered) = TotalBytes(input) /\ err \in EndErrors(input)
    BY DEF OutcomeCorrect
  <2>1. Len(delivered) = written
    BY DEF Follows, Drained
  <2>2. input \in Inputs /\ Ended(input, written, err)
    BY InputKnown DEF Follows, Position
  <2>3. written = TotalBytes(input) /\ err \in EndErrors(input)
    BY <2>2, Meaning
  <2>4. QED
    BY <2>1, <2>3
<1>2. QED
  BY Invariance, InvarianceFollows, <1>1, PTL

-----------------------------------------------------------------------------
(* Where in the compressed input.                                          *)

\* At the head of a block less than a byte is in b, or as much as the end of
\* the Huffman block before it was read with.
AtHead(in, p, r, n) ==
  \/ n <= 7
  \/ /\ p > 1 /\ in.items[p - 1] = EOB
     /\ 8 * r <= Fetched(in.start[p - 1] + in.maxRead[p - 1])

\* Inside a Huffman block no more was read than the end of the block needs.
InBlock(in, p, r) ==
  \A e \in p..Len(in.items) : in.items[e] = EOB /\ SameBlock(in.items, p, e) =>
    8 * r <= Fetched(in.start[e] + in.maxRead[e])

\* The bytes read, less the bits that wait, are where the next item starts,
\* until bytes are counted twice.
ReadTo ==
  err = "nil" /\ CountedTwice(input, pos) = {} =>
    /\ 8 * roffset - nb = input.start[pos]
    /\ Between /\ step = "nextBlock" => AtHead(input, pos, roffset, nb)
    /\ (Between /\ step = "huffman") \/ pc \in {"readLiteral", "copyHistory"} =>
         InBlock(input, pos, roffset)
    /\ (Between /\ step = "copyData") \/ pc = "copyData" => nb = 0

Counts == roffset \in Int /\ nb \in Nat /\ pos \in 1..(Len(input.items) + 1)

CheckpointsPlaced ==
  \A cp \in cps :
    /\ cp.at \in 1..(Len(input.items) + 1)
    /\ cp.offset \in Int /\ cp.bit \in 0..7
    /\ CountedTwice(input, cp.at) = {} => Placed(cp)

\* The third inductive invariant: it rests on the first.
Reads == Counts /\ ReadTo /\ CheckpointsPlaced

\* Whole bytes.
LEMMA FetchedLeast ==
  ASSUME NEW x \in Nat
  PROVE  /\ Fetched(x) \in Nat
         /\ x <= Fetched(x) /\ Fetched(x) <= x + 7
         /\ \A m \in Int : 8 * m <= x + 7 => 8 * m <= Fetched(x)
         /\ \A m \in Int : x <= 8 * m => Fetched(x) <= 8 * m
BY DEF Fetched

LEMMA FetchedMonotone ==
  ASSUME NEW x \in Nat, NEW y \in Nat, x <= y
  PROVE  Fetched(x) <= Fetched(y)
BY DEF Fetched

\* What is known of where the items lie.
LEMMA PlacesKnown ==
  ASSUME NEW in \in Inputs
  PROVE  /\ Len(in.items) \in Nat
         /\ \A k \in 1..(Len(in.items) + 1) : in.start[k] \in Nat
         /\ \A k \in 1..Len(in.items) : in.maxRead[k] \in Nat
         /\ in.start[1] = 0
         /\ \A j, k \in 1..(Len(in.items) + 1) : j < k => in.start[j] < in.start[k]
         /\ \A k \in 1..Len(in.items) : in.items[k].k = "header" =>
              /\ in.maxRead[k] = 0
              /\ in.items[k].typ = "stored" =>
                   in.start[k + 1] = Fetched(in.start[k] + 3) + 32
         /\ \A j, k \in 1..(Len(in.items) + 1) :
              j <= k /\ (\A i \in j..(k - 1) : in.items[i] = Raw) =>
                in.start[k] = in.start[j] + 8 * (k - j)
         /\ \A e \in 1..Len(in.items) : in.items[e] = EOB =>
              /\ in.maxRead[e] >= in.start[e + 1] - in.start[e]
              /\ in.start[e] + in.maxRead[e] <= in.start[e + 1] + 10
              /\ \A k \in 1..e : SameBlock(in.items, k, e) => in.maxRead[k] = in.maxRead[e]
              /\ \A h \in 1..(e - 1) : in.items[h].k = "header" /\ SameBlock(in.items, h + 1, e) =>
                   in.start[e] + in.maxRead[e] >= in.start[h] + 10
<1>1. /\ in.items \in Seq(Item) /\ Laid(in.items, in.start)
      /\ ReadAhead(in.items, in.start, in.maxRead)
  BY InflateAssumption
<1>2. Len(in.items) \in Nat
  BY <1>1
<1>3. \A k \in 1..(Len(in.items) + 1) : in.start[k] \in Nat
  BY <1>1 DEF Laid
<1>4. \A k \in 1..Len(in.items) : in.maxRead[k] \in Nat
  BY <1>1 DEF ReadAhead
<1>5. \A j, k \in 1..(Len(in.items) + 1) : j < k => in.start[j] < in.start[k]
  BY <1>1 DEF Laid
<1>6. in.start[1] = 0
  BY <1>1 DEF Laid
<1>7. ASSUME NEW k \in 1..Len(in.items), in.items[k].k = "header"
      PROVE  /\ in.maxRead[k] = 0
             /\ in.items[k].typ = "stored" =>
                  in.start[k + 1] = Fetched(in.start[k] + 3) + 32
  BY <1>1, <1>7 DEF Laid, ReadAhead
<1>8. \A j, k \in 1..(Len(in.items) + 1) :
        j <= k /\ (\A i \in j..(k - 1) : in.items[i] = Raw) =>
          in.start[k] = in.start[j] + 8 * (k - j)
  BY <1>1 DEF Laid
<1>9. ASSUME NEW e \in 1..Len(in.items), in.items[e] = EOB
      PROVE  /\ in.maxRead[e] >= in.start[e + 1] - in.start[e]
             /\ in.start[e] + in.maxRead[e] <= in.start[e + 1] + 10
             /\ \A k \in 1..e : SameBlock(in.items, k, e) => in.maxRead[k] = in.maxRead[e]
             /\ \A h \in 1..(e - 1) : in.items[h].k = "header" /\ SameBlock(in.items, h + 1, e) =>
                  in.start[e] + in.maxRead[e] >= in.start[h] + 10
  <2>1. /\ in.maxRead[e] \in {in.start[e + 1] - in.start[e], in.start[e + 1] - in.start[e] + 10}
        /\ \A k \in 1..e : SameBlock(in.items, k, e) => in.maxRead[k] = in.maxRead[e]
        /\ \A h \in 1..(e - 1) : in.items[h].k = "header" /\ SameBlock(in.items, h + 1, e) =>
             in.start[e] + in.maxRead[e] >= in.start[h] + 10
    BY <1>1, <1>9 DEF ReadAhead
  <2>2. in.start[e] \in Nat /\ in.start[e + 1] \in Nat /\ in.maxRead[e] \in Nat
    BY <1>2, <1>3, <1>4
  <2>3. \A a, b, c \in Nat : c \in {b - a, b - a + 10} => c >= b - a /\ a + c <= b + 10
    OBVIOUS
  <2>4. /\ in.maxRead[e] >= in.start[e + 1] - in.start[e]
        /\ in.start[e] + in.maxRead[e] <= in.start[e + 1] + 10
    BY ONLY <2>1, <2>2, <2>3
  <2>5. QED
    BY <2>1, <2>4
<1>10. QED
  BY <1>2, <1>3, <1>4, <1>5, <1>6, <1>7, <1>8, <1>9

\* What is counted twice before an item is so before the next.
LEMMA CountedOnce ==
  ASSUME NEW in, NEW p \in Int, NEW q \in Int, p <= q, CountedTwice(in, q) = {}
  PROVE  CountedTwice(in, p) = {}
BY DEF CountedTwice

\* The bytes that are read so that need bits are there.
LEMMA BytesRead ==
  ASSUME NEW r \in Int, NEW n \in Nat, NEW need \in Nat, NEW st \in Nat
  PROVE  LET c == IF n >= need THEN 0 ELSE (need - n + 7) \div 8
         IN /\ c \in Nat
            /\ n + 8 * c >= need
            /\ 8 * r - n = st => 8 * (r + c) = 8 * r \/ 8 * (r + c) <= Fetched(st + need)
<1> DEFINE m == (need - n + 7) \div 8
<1>1. CASE n >= need
  BY <1>1
<1>2. CASE ~(n >= need)
  <2>1. need - n + 7 \in Nat
    BY <1>2
  <2>2. m \in Nat /\ 8 * m <= need - n + 7 /\ need - n <= 8 * m
    BY <2>1
  <2> HIDE DEF m
  <2>3. 8 * r - n = st => 8 * (r + m) <= st + need + 7
    BY <2>2
  <2>4. st + need \in Nat /\ r + m \in Int
    BY <2>2
  <2>5. 8 * r - n = st => 8 * (r + m) <= Fetched(st + need)
    BY ONLY <2>3, <2>4, FetchedLeast
  <2>6. QED
    BY <1>2, <2>2, <2>5 DEF m
<1>3. QED
  BY <1>1, <1>2

\* An item is taken (inflate.go lines 352-366, 728-783; the reads of
\* inflate_gen.go).
LEMMA Took ==
  ASSUME IInv, Counts, more, Take, input' = input
  PROVE  /\ Counts' /\ pos' = pos + 1
         /\ ~(items[pos].k = "header" /\ items[pos].typ = "stored")
              /\ 8 * roffset - nb = input.start[pos] =>
              /\ 8 * roffset' - nb' = input.start[pos + 1]
              /\ \/ 8 * roffset' = 8 * roffset
                 \/ 8 * roffset' <= Fetched(input.start[pos]
                      + Most(input.maxRead[pos], input.start[pos + 1] - input.start[pos]))
<1>1. /\ input \in Inputs /\ items = input.items /\ Len(items) \in Nat
      /\ pos \in 1..Len(items)
  BY InputKnown
<1>2. PICK x \in Nat : x = input.start[pos]
  BY <1>1, PlacesKnown
<1>3. PICK y \in Nat : y = input.start[pos + 1] /\ x < y
  <2>1. pos + 1 \in 1..(Len(items) + 1) /\ pos \in 1..(Len(items) + 1) /\ pos < pos + 1
    BY <1>1
  <2>2. input.start[pos + 1] \in Nat /\ input.start[pos] < input.start[pos + 1]
    BY <1>1, <2>1, PlacesKnown
  <2>3. QED
    BY <1>2, <2>2
<1>4. PICK m \in Nat : m = input.maxRead[pos]
  BY <1>1, PlacesKnown
<1>5. PICK b \in Nat : /\ b = Bits(pos)
                       /\ ~(items[pos].k = "header" /\ items[pos].typ = "stored") => b = y - x
  BY <1>2, <1>3 DEF Bits
<1>6. PICK need \in Nat : need = Most(m, b) /\ need >= b
  BY DEF Most
<1>7. PICK r \in Int : r = roffset
  BY DEF Counts
<1>8. PICK n \in Nat : n = nb
  BY DEF Counts
<1>9. PICK c \in Nat : /\ c = BytesFor(pos) /\ n + 8 * c >= need
                       /\ 8 * r - n = x => 8 * (r + c) = 8 * r \/ 8 * (r + c) <= Fetched(x + need)
  <2> DEFINE e == IF n >= need THEN 0 ELSE (need - n + 7) \div 8
  <2>1. /\ e \in Nat /\ n + 8 * e >= need
        /\ 8 * r - n = x => 8 * (r + e) = 8 * r \/ 8 * (r + e) <= Fetched(x + need)
    BY BytesRead
  <2>2. e = BytesFor(pos)
    BY <1>4, <1>5, <1>6, <1>8 DEF BytesFor
  <2> HIDE DEF e
  <2>3. QED
    BY <2>1, <2>2
<1>10. pos' = pos + 1 /\ roffset' = r + c /\ nb' = n + 8 * c - b
  BY <1>5, <1>7, <1>8, <1>9 DEF Take
<1>11. roffset' \in Int /\ nb' \in Nat
  BY ONLY <1>6, <1>9, <1>10
<1>12. Counts'
  BY <1>1, <1>10, <1>11 DEF Counts
<1>13. ASSUME ~(items[pos].k = "header" /\ items[pos].typ = "stored"), 8 * r - n = x
       PROVE  8 * (r + c) - (n + 8 * c - b) = y
  <2>1. b = y - x
    BY <1>5, <1>13
  <2>2. QED
    BY ONLY <2>1, <1>13
<1>14. ASSUME ~(items[pos].k = "header" /\ items[pos].typ = "stored"), 8 * r - n = x
       PROVE  8 * (r + c) = 8 * r \/ 8 * (r + c) <= Fetched(x + Most(m, y - x))
  BY <1>5, <1>6, <1>9, <1>14
<1>15. QED
  BY <1>2, <1>3, <1>4, <1>7, <1>8, <1>10, <1>12, <1>13, <1>14

\* Nothing is read.
LEMMA Resting ==
  ASSUME Reads, UNCHANGED <<input, pos, source, cps>>, err' = "nil" => err = "nil",
         (Between /\ step = "nextBlock")' => Between /\ step = "nextBlock",
         ((Between /\ step = "huffman") \/ pc \in {"readLiteral", "copyHistory"})' =>
           (Between /\ step = "huffman") \/ pc \in {"readLiteral", "copyHistory"},
         ((Between /\ step = "copyData") \/ pc = "copyData")' =>
           (Between /\ step = "copyData") \/ pc = "copyData"
  PROVE  Reads'
<1>1. Counts' /\ CheckpointsPlaced'
  BY DEF Reads, Counts, CheckpointsPlaced, Placed, source
<1>2. ReadTo'
  BY DEF Reads, ReadTo, source
<1>3. QED
  BY <1>1, <1>2 DEF Reads

\* Something goes wrong.
LEMMA FailingReads ==
  ASSUME Reads, Counts', UNCHANGED <<input, cps>>, err' # "nil"
  PROVE  Reads'
<1>1. CheckpointsPlaced'
  BY DEF Reads, CheckpointsPlaced, Placed
<1>2. QED
  BY <1>1 DEF Reads, ReadTo

\* A block ends and a checkpoint is given (inflate.go lines 673-697).
LEMMA FinishingReads ==
  ASSUME Reads, Counts', NEW d, NEW s, NEW fin, NEW p \in 1..(Len(input.items) + 1),
         finishBlock(d, s, fin, p), pos' = p, input' = input, err = "nil",
         CountedTwice(input, p) = {} =>
           8 * roffset' - nb' = input.start[p] /\ AtHead(input, p, roffset', nb')
  PROVE  Reads'
<1>1. step' = "nextBlock" /\ pc' = "stepped"
  BY DEF finishBlock
<1>2. ReadTo'
  BY <1>1 DEF ReadTo, Between
<1>3. PICK bitPos \in Int : bitPos = 8 * roffset' - nb'
  <2>1. roffset' \in Int /\ nb' \in Nat
    BY DEF Counts
  <2>2. 8 * roffset' - nb' \in Int
    BY ONLY <2>1
  <2>3. QED
    BY <2>2
<1>4. PICK v : cps' \subseteq cps \cup {v} /\ v.at = p /\ v.offset = bitPos \div 8 /\ v.bit = bitPos % 8
  <2> DEFINE flush == (fin \/ flushMode = "partialFlush") /\ availRead(d) > 0
             d2 == IF flush THEN readFlush(d) ELSE d
             v == [unc |-> uncOffset + decoded(d2), at |-> p, offset |-> bitPos \div 8,
                   bit |-> bitPos % 8, final |-> fin, window |-> appendWindow(d2)]
  <2>1. cps' = IF ~cb THEN cps ELSE cps \cup {v}
    BY <1>3 DEF finishBlock
  <2>2. v.at = p /\ v.offset = bitPos \div 8 /\ v.bit = bitPos % 8
    OBVIOUS
  <2> HIDE DEF v
  <2>3. QED
    BY <2>1, <2>2
<1>5. /\ v.offset \in Int /\ v.bit \in 0..7 /\ 8 * v.offset + v.bit = bitPos
  BY <1>4
<1>6. CountedTwice(input, v.at) = {} => Placed(v)
  BY <1>3, <1>4, <1>5 DEF Placed
<1>7. CheckpointsPlaced'
  <2>1. ASSUME NEW cp \in cps'
        PROVE  /\ cp.at \in 1..(Len(input.items) + 1)
               /\ cp.offset \in Int /\ cp.bit \in 0..7
               /\ CountedTwice(input, cp.at) = {} => Placed(cp)
    <3>1. CASE cp \in cps
      BY <3>1 DEF Reads, CheckpointsPlaced
    <3>2. CASE cp = v
      BY <1>4, <1>5, <1>6, <3>2
    <3>3. QED
      BY <1>4, <3>1, <3>2
  <2>2. \A cp : Placed(cp)' <=> Placed(cp)
    BY DEF Placed
  <2>3. QED
    BY <2>1, <2>2 DEF CheckpointsPlaced
<1>8. QED
  BY <1>2, <1>7 DEF Reads

\* A header and its tables, a symbol: what is taken of a Huffman block.
LEMMA Following ==
  ASSUME NEW in \in Inputs, NEW k \in 1..Len(in.items), NEW r \in Int, NEW q \in Int,
         \/ 8 * q = 8 * r
         \/ 8 * q <= Fetched(in.start[k] + Most(in.maxRead[k], in.start[k + 1] - in.start[k]))
  PROVE  /\ in.items[k].k # "header" /\ in.items[k] # EOB /\ InBlock(in, k, r) =>
              InBlock(in, k + 1, q)
         /\ in.items[k] = EOB /\ InBlock(in, k, r) =>
              8 * q <= Fetched(in.start[k] + in.maxRead[k])
         /\ in.items[k].k = "header" /\ 8 * r <= Fetched(in.start[k] + 10) =>
              InBlock(in, k + 1, q)
<1>1. Len(in.items) \in Nat
  BY PlacesKnown
<1>2. PICK x \in Nat : x = in.start[k]
  <2>1. k \in 1..(Len(in.items) + 1)
    BY <1>1
  <2>2. in.start[k] \in Nat
    BY <2>1, PlacesKnown
  <2>3. QED
    BY <2>2
<1>3. PICK y \in Nat : y = in.start[k + 1] /\ x < y
  <2>1. k + 1 \in 1..(Len(in.items) + 1) /\ k \in 1..(Len(in.items) + 1) /\ k < k + 1
    BY <1>1
  <2>2. in.start[k + 1] \in Nat /\ in.start[k] < in.start[k + 1]
    BY <2>1, PlacesKnown
  <2>3. QED
    BY <1>2, <2>2
<1>4. PICK m \in Nat : m = in.maxRead[k]
  <2>1. in.maxRead[k] \in Nat
    BY PlacesKnown
  <2>2. QED
    BY <2>1
<1>5. 8 * q = 8 * r \/ 8 * q <= Fetched(x + Most(m, y - x))
  BY <1>2, <1>3, <1>4
<1>6. ASSUME NEW e \in (k + 1)..Len(in.items), in.items[e] = EOB
      PROVE  /\ e \in 1..Len(in.items) /\ in.start[e] \in Nat /\ in.maxRead[e] \in Nat
             /\ y <= in.start[e]
  <2>1. e \in 1..Len(in.items) /\ e \in 1..(Len(in.items) + 1)
        /\ k + 1 \in 1..(Len(in.items) + 1)
    BY <1>1, <1>6
  <2>2. in.start[e] \in Nat /\ in.maxRead[e] \in Nat
    BY <2>1, PlacesKnown
  <2>3. e = k + 1 \/ k + 1 < e
    BY <2>1
  <2>4. k + 1 < e => in.start[k + 1] < in.start[e]
    BY <2>1, PlacesKnown
  <2>5. QED
    BY <1>3, <2>1, <2>2, <2>3, <2>4
<1>7. ASSUME in.items[k].k # "header", in.items[k] # EOB, InBlock(in, k, r),
             NEW e \in (k + 1)..Len(in.items), in.items[e] = EOB,
             SameBlock(in.items, k + 1, e)
      PROVE  8 * q <= Fetched(in.start[e] + in.maxRead[e])
  <2>1. e \in 1..Len(in.items) /\ e \in k..Len(in.items) /\ k \in 1..e
    BY <1>1, <1>6, <1>7
  <2>2. SameBlock(in.items, k, e)
    BY <1>7, <2>1 DEF SameBlock
  <2>3. 8 * r <= Fetched(in.start[e] + in.maxRead[e])
    BY <1>7, <2>1, <2>2 DEF InBlock
  <2>4. in.maxRead[e] = m
    BY <1>4, <1>7, <2>1, <2>2, PlacesKnown
  <2>5. PICK z \in Nat : z = in.start[e] /\ y <= z
    BY <1>6, <1>7
  <2>6. x + Most(m, y - x) \in Nat /\ z + m \in Nat /\ x + Most(m, y - x) <= z + m
    <3>1. Most(m, y - x) = m \/ Most(m, y - x) = y - x
      BY DEF Most
    <3>2. x + m \in Nat /\ x + (y - x) \in Nat /\ z + m \in Nat
          /\ x + m <= z + m /\ x + (y - x) <= z + m
      <4>1. x < y /\ y <= z
        BY <1>3, <2>5
      <4>2. x + (y - x) = y
        BY ONLY x \in Nat, y \in Nat
      <4>3. QED
        BY ONLY <4>1, <4>2, m \in Nat, x \in Nat, y \in Nat, z \in Nat
    <3>3. CASE Most(m, y - x) = m
      BY ONLY <3>2, <3>3
    <3>4. CASE Most(m, y - x) = y - x
      BY ONLY <3>2, <3>4
    <3>5. QED
      BY ONLY <3>1, <3>3, <3>4
  <2>7. Fetched(x + Most(m, y - x)) <= Fetched(z + m)
    BY <2>6, FetchedMonotone
  <2>8. Fetched(x + Most(m, y - x)) \in Nat /\ Fetched(z + m) \in Nat
    BY <2>6, FetchedLeast
  <2>9. QED
    BY ONLY <1>5, <2>3, <2>4, <2>5, <2>7, <2>8, q \in Int, r \in Int
<1>8. ASSUME in.items[k] = EOB, InBlock(in, k, r)
      PROVE  8 * q <= Fetched(in.start[k] + in.maxRead[k])
  <2>1. k \in k..Len(in.items) /\ SameBlock(in.items, k, k)
    BY <1>8 DEF SameBlock, EOB
  <2>2. 8 * r <= Fetched(in.start[k] + in.maxRead[k])
    BY <1>8, <2>1 DEF InBlock
  <2>3. m >= y - x
    BY <1>2, <1>3, <1>4, <1>8, PlacesKnown
  <2>4. Most(m, y - x) = m
    BY ONLY <2>3, m \in Nat, x \in Nat, y \in Nat DEF Most
  <2>5. QED
    BY <1>2, <1>4, <1>5, <2>2, <2>4
<1>9. ASSUME in.items[k].k = "header", 8 * r <= Fetched(in.start[k] + 10),
             NEW e \in (k + 1)..Len(in.items), in.items[e] = EOB,
             SameBlock(in.items, k + 1, e)
      PROVE  8 * q <= Fetched(in.start[e] + in.maxRead[e])
  <2>1. e \in 1..Len(in.items) /\ k \in 1..(e - 1)
    BY <1>1, <1>6, <1>9
  <2>2. PICK z \in Nat, w \in Nat : z = in.start[e] /\ w = in.maxRead[e] /\ y <= z
    BY <1>6, <1>9
  <2>3. z + w >= x + 10
    BY <1>2, <1>9, <2>1, <2>2, PlacesKnown
  <2>4. m = 0
    BY <1>4, <1>9, PlacesKnown
  <2>5. Most(m, y - x) = y - x
    BY ONLY <1>3, <2>4, x \in Nat, y \in Nat DEF Most
  <2>6. y \in Nat /\ x + (y - x) = y /\ z + w \in Nat /\ y <= z + w /\ x + 10 \in Nat
    BY ONLY <2>2, x \in Nat, y \in Nat, z \in Nat, w \in Nat
  <2>7. Fetched(y) <= Fetched(z + w) /\ Fetched(x + 10) <= Fetched(z + w)
    BY <2>3, <2>6, FetchedMonotone
  <2>8. Fetched(y) \in Nat /\ Fetched(z + w) \in Nat /\ Fetched(x + 10) \in Nat
    BY <2>6, FetchedLeast
  <2>9. 8 * q = 8 * r \/ 8 * q <= Fetched(y)
    BY <1>5, <2>5, <2>6
  <2>10. 8 * r <= Fetched(x + 10)
    BY <1>2, <1>9
  <2>11. 8 * q <= Fetched(z + w)
    BY ONLY <2>7, <2>8, <2>9, <2>10, q \in Int, r \in Int
  <2>12. QED
    BY <2>2, <2>11
<1>10. QED
  BY <1>7, <1>8, <1>9 DEF InBlock

\* copyData, in the step that starts a stored block or in one that continues
\* it.
LEMMA CopyDataReads ==
  ASSUME IInv, Reads, pc = "copyData" \/ (pc = "step" /\ step = "copyData"),
         copyData(copyLen, pos, final), UNCHANGED input
  PROVE  Reads'
<1> DEFINE want == Least(availWrite(dict), copyLen)
           c == RawAvailable(want)
           d == wrote(dict, c, written + 1)
<1>1. /\ input \in Inputs /\ items = input.items /\ Len(items) \in Nat
      /\ copyLen \in Nat
  BY InputKnown
<1>2. want \in Nat
  <2>1. dict.wrPos \in Nat /\ dict.wrPos <= W
    BY DEF IInv, InWindow, Window, Dict
  <2>2. availWrite(dict) \in Nat
    BY <2>1 DEF availWrite
  <2>3. QED
    BY <1>1, <2>2 DEF Least
<1>3. /\ pos' = pos + c /\ roffset' = roffset + c /\ nb' = nb
      /\ \/ c < want /\ err' = ReadError /\ UNCHANGED cps
         \/ /\ c = want /\ step' = "copyData" /\ pc' = "stepped"
            /\ UNCHANGED <<err, cps>>
         \/ c = want /\ finishBlock(d, toRead, final, pos + c)
  BY DEF copyData, fail
<1> HIDE DEF want, d
<1>4. /\ c \in 0..want
      /\ \A i \in 1..c : pos + i - 1 <= Len(items) /\ items[pos + i - 1] = Raw
  <2>1. pos \in Nat \ {0}
    BY InputKnown
  <2>2. QED
    BY <1>1, <1>2, <2>1, RawCounted
<1> HIDE DEF c
<1>5. pos \in 1..(Len(items) + 1) /\ roffset \in Int /\ nb \in Nat
  BY <1>1 DEF Reads, Counts
<1>6. pos + c \in 1..(Len(items) + 1)
  <2>1. c = 0 \/ pos + c - 1 <= Len(items)
    <3>1. c = 0 \/ c \in 1..c
      BY <1>2, <1>4
    <3>2. QED
      BY <1>4, <3>1
  <2>2. c \in Nat
    BY <1>2, <1>4
  <2>3. QED
    BY <1>1, <1>5, <2>1, <2>2
<1>7. Counts'
  <2>1. roffset' \in Int /\ nb' \in Nat
    <3>1. c \in Nat
      BY <1>2, <1>4
    <3>2. QED
      BY <1>3, <1>5, <3>1
  <2>2. input' = input /\ pos' \in 1..(Len(input.items) + 1)
    BY <1>1, <1>3, <1>6
  <2>3. QED
    BY <2>1, <2>2 DEF Counts
<1>8. \A i \in pos..(pos + c - 1) : items[i] = Raw
  <2>1. ASSUME NEW i \in pos..(pos + c - 1)
        PROVE  items[i] = Raw
    <3>1. i - pos + 1 \in 1..c /\ pos + (i - pos + 1) - 1 = i
      BY <1>2, <1>4, <1>5
    <3>2. QED
      BY <1>4, <3>1
  <2>2. QED
    BY <2>1
<1>9. input.start[pos + c] = input.start[pos] + 8 * c
  <2>1. PICK k \in 1..(Len(input.items) + 1) : k = pos + c
    BY <1>1, <1>6
  <2>2. c \in Nat /\ pos \in 1..(Len(input.items) + 1)
    BY <1>1, <1>2, <1>4, <1>5
  <2>3. pos <= k /\ k - pos = c /\ pos..(k - 1) = pos..(pos + c - 1)
    BY ONLY <2>1, <2>2
  <2>4. \A i \in pos..(k - 1) : input.items[i] = Raw
    BY <1>1, <1>8, <2>3
  <2>5. \A j, m \in 1..(Len(input.items) + 1) :
          j <= m /\ (\A i \in j..(m - 1) : input.items[i] = Raw) =>
            input.start[m] = input.start[j] + 8 * (m - j)
    BY <1>1, PlacesKnown
  <2>6. input.start[k] = input.start[pos] + 8 * (k - pos)
    BY ONLY <2>2, <2>3, <2>4, <2>5, k \in 1..(Len(input.items) + 1)
  <2>7. QED
    BY <2>1, <2>3, <2>6
<1>10. err = "nil"
  BY DEF IInv, Quiet, Working
<1>11. CountedTwice(input, pos + c) = {} => CountedTwice(input, pos) = {}
  <2>1. pos \in Int /\ pos + c \in Int /\ pos <= pos + c
    BY <1>2, <1>4, <1>5
  <2>2. QED
    BY <2>1, CountedOnce
<1>12. CountedTwice(input, pos + c) = {} =>
         8 * roffset' - nb' = input.start[pos + c] /\ nb' = 0
  <2> SUFFICES ASSUME CountedTwice(input, pos + c) = {}
               PROVE  8 * roffset' - nb' = input.start[pos + c] /\ nb' = 0
    OBVIOUS
  <2>1. 8 * roffset - nb = input.start[pos] /\ nb = 0
    BY <1>10, <1>11 DEF Reads, ReadTo, Between
  <2>2. input.start[pos] \in Nat /\ c \in Nat
    BY <1>1, <1>2, <1>4, <1>5, PlacesKnown
  <2>3. QED
    BY <1>3, <1>5, <1>9, <2>1, <2>2
<1>13. CASE c < want /\ err' = ReadError /\ UNCHANGED cps
  <2>1. err' # "nil"
    BY <1>13, ReadErrors DEF IInv
  <2>2. QED
    BY <1>7, <1>13, <2>1, FailingReads
<1>14. CASE c = want /\ step' = "copyData" /\ pc' = "stepped" /\ UNCHANGED <<err, cps>>
  <2>1. ReadTo'
    BY <1>3, <1>12, <1>14 DEF ReadTo, Between
  <2>2. CheckpointsPlaced'
    BY <1>14 DEF Reads, CheckpointsPlaced, Placed
  <2>3. QED
    BY <1>7, <2>1, <2>2 DEF Reads
<1>15. CASE c = want /\ finishBlock(d, toRead, final, pos + c)
  <2>1. CountedTwice(input, pos + c) = {} =>
          8 * roffset' - nb' = input.start[pos + c] /\ AtHead(input, pos + c, roffset', nb')
    BY <1>12 DEF AtHead
  <2>2. pos + c \in 1..(Len(input.items) + 1)
    BY <1>1, <1>6
  <2>3. QED
    BY <1>3, <1>7, <1>10, <1>15, <2>1, <2>2, FinishingReads
<1>16. QED
  BY <1>3, <1>13, <1>14, <1>15

\* nextBlock with too little input for a header, or an invalid one.
LEMMA NextBlockFailsReads ==
  ASSUME IInv, Reads, NextBlockFails
  PROVE  Reads'
<1>1. UNCHANGED <<input, cps>>
  BY DEF NextBlockFails
<1>2. err' # "nil"
  BY ReadErrors DEF NextBlockFails, fail, IInv
<1>3. CASE ~more /\ UNCHANGED <<pos, source>>
  <2>1. Counts'
    BY <1>1, <1>3 DEF Reads, Counts, source
  <2>2. QED
    BY <1>1, <1>2, <2>1, FailingReads
<1>4. CASE atHeader("invalid") /\ Take
  <2>1. Counts'
    BY <1>1, <1>4, Took DEF Reads, atHeader
  <2>2. QED
    BY <1>1, <1>2, <2>1, FailingReads
<1>5. QED
  BY <1>3, <1>4 DEF NextBlockFails

\* A symbol that cannot be decoded or is not there.
LEMMA SymbolFailsReads ==
  ASSUME IInv, Reads, SymbolFails
  PROVE  Reads'
<1>1. UNCHANGED <<input, cps>>
  BY DEF SymbolFails
<1>2. err' # "nil"
  BY ReadErrors DEF SymbolFails, fail, IInv
<1>3. CASE ~more /\ UNCHANGED <<pos, source>>
  <2>1. Counts'
    BY <1>1, <1>3 DEF Reads, Counts, source
  <2>2. QED
    BY <1>1, <1>2, <2>1, FailingReads
<1>4. CASE more /\ Take
  <2>1. Counts'
    BY <1>1, <1>4, Took DEF Reads
  <2>2. QED
    BY <1>1, <1>2, <2>1, FailingReads
<1>5. QED
  BY <1>3, <1>4 DEF SymbolFails

\* What is left in b behind the header of a stored block, less than a byte: its
\* length starts with the next byte of the input (inflate.go lines 600-617).
LEMMA StoredHeaderReads ==
  ASSUME IInv, Reads, pc = "step", step = "nextBlock", atHeader("stored"),
         StoredHeader, pos' = pos + 1, UNCHANGED input
  PROVE  /\ Counts' /\ nb' = 0
         /\ CountedTwice(input, pos + 1) = {} =>
              8 * roffset' - nb' = input.start[pos + 1]
<1>1. /\ input \in Inputs /\ items = input.items /\ Len(items) \in Nat
      /\ pos \in 1..Len(items) /\ items[pos].k = "header" /\ items[pos].typ = "stored"
  BY InputKnown DEF atHeader
<1>2. PICK x \in Nat : x = input.start[pos]
  <2>1. pos \in 1..(Len(items) + 1)
    BY <1>1
  <2>2. input.start[pos] \in Nat
    BY <1>1, <2>1, PlacesKnown
  <2>3. QED
    BY <2>2
<1>3. input.maxRead[pos] = 0 /\ input.start[pos + 1] = Fetched(x + 3) + 32
  BY <1>1, <1>2, PlacesKnown
<1>4. PICK r \in Int, n \in Nat : r = roffset /\ n = nb
  BY DEF Reads, Counts
<1>5. PICK c \in Nat : c = BytesFor(pos) /\ c = (IF n >= 3 THEN 0 ELSE (3 - n + 7) \div 8)
  <2>1. Bits(pos) = 3
    BY <1>1 DEF Bits
  <2>2. Most(0, 3) = 3
    BY DEF Most
  <2>3. BytesFor(pos) = (IF n >= 3 THEN 0 ELSE (3 - n + 7) \div 8)
    BY <1>3, <1>4, <2>1, <2>2 DEF BytesFor
  <2>4. (IF n >= 3 THEN 0 ELSE (3 - n + 7) \div 8) \in Nat
    BY BytesRead
  <2>5. QED
    BY <2>3, <2>4
<1>6. n < 3 => c = 1
  BY ONLY <1>5, n \in Nat
<1>7. n >= 3 => c = 0
  BY ONLY <1>5, n \in Nat
<1>8. PICK left \in Nat : left = n + 8 * c - 3 /\ left = nb + 8 * BytesFor(pos) - Bits(pos)
  <2>1. n + 8 * c - 3 \in Nat
    BY ONLY <1>6, <1>7, n \in Nat, c \in Nat
  <2>2. Bits(pos) = 3
    BY <1>1 DEF Bits
  <2>3. QED
    BY <1>4, <1>5, <2>1, <2>2
<1>9. roffset' = r + c + (left \div 8) + (4 - (left \div 8)) /\ nb' = 0
  BY <1>4, <1>5, <1>8 DEF StoredHeader
<1>10. left \div 8 \in Nat
  BY ONLY left \in Nat
<1>11. roffset' = r + c + 4
  BY ONLY <1>9, <1>10, r \in Int, c \in Nat
<1>12. Counts'
  BY <1>1, <1>9, <1>11 DEF Counts
<1>13. ASSUME CountedTwice(input, pos + 1) = {}
       PROVE  8 * (r + c + 4) = input.start[pos + 1]
  <2>1. pos \in Int /\ pos + 1 \in Int /\ pos <= pos + 1
    BY <1>1
  <2>2. CountedTwice(input, pos) = {}
    BY <1>13, <2>1, CountedOnce
  <2>3. err = "nil" /\ Between
    BY DEF IInv, Quiet, Working, Between
  <2>4. 8 * r - n = x /\ AtHead(input, pos, r, n)
    BY <1>2, <1>4, <2>2, <2>3 DEF Reads, ReadTo
  <2>5. n <= 10
    <3>1. CASE n <= 7
      BY <3>1
    <3>2. CASE /\ pos > 1 /\ input.items[pos - 1] = EOB
               /\ 8 * r <= Fetched(input.start[pos - 1] + input.maxRead[pos - 1])
      <4>1. PICK f \in Nat : f = Fetched(input.start[pos - 1] + input.maxRead[pos - 1])
        <5>1. pos - 1 \in 1..Len(input.items) /\ pos - 1 \in 1..(Len(input.items) + 1)
          BY <1>1, <3>2
        <5>2. PICK y \in Nat, m \in Nat :
                y = input.start[pos - 1] /\ m = input.maxRead[pos - 1]
          BY <1>1, <5>1, PlacesKnown
        <5>3. y + m \in Nat
          OBVIOUS
        <5>4. QED
          BY <5>2, <5>3, FetchedLeast
      <4>2. pos \in 2..((pos + 1) - 1)
        BY <1>1, <3>2
      <4>3. ~(f >= x + 3 + 8)
        BY <1>1, <1>2, <1>13, <3>2, <4>1, <4>2 DEF CountedTwice
      <4>4. 8 * r <= f
        BY <3>2, <4>1
      <4>5. QED
        BY ONLY <2>4, <4>3, <4>4, f \in Nat, r \in Int, n \in Nat, x \in Nat
    <3>3. QED
      BY <2>4, <3>1, <3>2 DEF AtHead
  <2>6. 8 * (r + c) >= x + 3 /\ 8 * (r + c) <= x + 3 + 7
    BY ONLY <1>6, <1>7, <2>4, <2>5, r \in Int, n \in Nat, x \in Nat, c \in Nat
  <2>7. 8 * (r + c) = Fetched(x + 3)
    <3>1. x + 3 \in Nat /\ r + c \in Int
      OBVIOUS
    <3>2. 8 * (r + c) <= Fetched(x + 3) /\ Fetched(x + 3) <= 8 * (r + c)
          /\ Fetched(x + 3) \in Nat
      BY ONLY <2>6, <3>1, FetchedLeast
    <3>3. QED
      BY ONLY <3>1, <3>2
  <2>8. QED
    BY <1>3, <2>7
<1>14. QED
  BY <1>9, <1>11, <1>12, <1>13

LEMMA NextBlockStoredReads ==
  ASSUME IInv, Reads, NextBlockStored
  PROVE  Reads'
<1>1. /\ Counts' /\ nb' = 0
      /\ CountedTwice(input, pos + 1) = {} => 8 * roffset' - nb' = input.start[pos + 1]
  BY StoredHeaderReads DEF NextBlockStored
<1>2. err = "nil"
  BY DEF IInv, Quiet, Working, NextBlockStored
<1>3. pos' = pos + 1 /\ input' = input
  BY DEF NextBlockStored
<1>4. pos + 1 \in 1..(Len(input.items) + 1)
  BY <1>1, <1>3 DEF Counts
<1>5. ASSUME NEW d, NEW s, finishBlock(d, s, final', pos + 1)
      PROVE  Reads'
  <2>1. CountedTwice(input, pos + 1) = {} =>
          8 * roffset' - nb' = input.start[pos + 1] /\ AtHead(input, pos + 1, roffset', nb')
    BY <1>1 DEF AtHead
  <2>2. QED
    BY <1>1, <1>2, <1>3, <1>4, <1>5, <2>1, FinishingReads
<1>6. CASE pc' = "copyData" /\ UNCHANGED <<err, cps>>
  <2>1. ReadTo'
    BY <1>1, <1>3, <1>6 DEF ReadTo, Between
  <2>2. CheckpointsPlaced'
    BY <1>3, <1>6 DEF Reads, CheckpointsPlaced, Placed
  <2>3. QED
    BY <1>1, <2>1, <2>2 DEF Reads
<1>7. QED
  BY <1>5, <1>6 DEF NextBlockStored

\* A Huffman block, entered with what was read ahead of its header.
LEMMA NextBlockHuffmanReads ==
  ASSUME IInv, Reads, NextBlockHuffman
  PROVE  Reads'
<1>1. /\ input \in Inputs /\ items = input.items /\ Len(items) \in Nat
      /\ pos \in 1..Len(items) /\ items[pos].k = "header" /\ items[pos].typ = "huffman"
  BY InputKnown DEF NextBlockHuffman, atHeader
<1>2. /\ more /\ Take /\ input' = input /\ UNCHANGED <<err, cps>> /\ pos' = pos + 1
      /\ pc' \in {"readLiteral", "copyHistory"} /\ pc = "step" /\ step = "nextBlock"
  BY DEF NextBlockHuffman, atHeader, entry, Take
<1>3. Counts /\ Counts'
  BY <1>2, Took DEF Reads
<1>4. ASSUME err = "nil", CountedTwice(input, pos + 1) = {}
      PROVE  8 * roffset' - nb' = input.start[pos + 1] /\ InBlock(input, pos + 1, roffset')
  <2>1. CountedTwice(input, pos) = {}
    <3>1. pos \in Int /\ pos + 1 \in Int /\ pos <= pos + 1
      BY <1>1
    <3>2. QED
      BY <1>4, <3>1, CountedOnce
  <2>2. 8 * roffset - nb = input.start[pos] /\ AtHead(input, pos, roffset, nb)
    BY <1>2, <1>4, <2>1 DEF Reads, ReadTo, Between
  <2>3. /\ 8 * roffset' - nb' = input.start[pos + 1]
        /\ \/ 8 * roffset' = 8 * roffset
           \/ 8 * roffset' <= Fetched(input.start[pos]
                + Most(input.maxRead[pos], input.start[pos + 1] - input.start[pos]))
    BY <1>1, <1>2, <1>3, <2>2, Took
  <2>4. PICK r \in Int, n \in Nat : r = roffset /\ n = nb
    BY <1>3 DEF Counts
  <2>5. PICK x \in Nat : x = input.start[pos]
    <3>1. pos \in 1..(Len(items) + 1)
      BY <1>1
    <3>2. input.start[pos] \in Nat
      BY <1>1, <3>1, PlacesKnown
    <3>3. QED
      BY <3>2
  <2>6. 8 * r <= Fetched(x + 10)
    <3>1. x + 10 \in Nat /\ x + 10 <= Fetched(x + 10) /\ Fetched(x + 10) \in Nat
      BY FetchedLeast
    <3>2. CASE n <= 7
      BY ONLY <2>2, <2>4, <2>5, <3>1, <3>2, r \in Int, n \in Nat, x \in Nat
    <3>3. CASE /\ pos > 1 /\ input.items[pos - 1] = EOB
               /\ 8 * r <= Fetched(input.start[pos - 1] + input.maxRead[pos - 1])
      <4>1. pos - 1 \in 1..Len(input.items) /\ pos - 1 \in 1..(Len(input.items) + 1)
            /\ (pos - 1) + 1 = pos
        BY <1>1, <3>3
      <4>2. PICK y \in Nat, m \in Nat : y = input.start[pos - 1] /\ m = input.maxRead[pos - 1]
        BY <1>1, <4>1, PlacesKnown
      <4>3. input.start[pos - 1] + input.maxRead[pos - 1] <= input.start[(pos - 1) + 1] + 10
        BY <1>1, <3>3, <4>1, PlacesKnown
      <4>4. y + m <= x + 10 /\ y + m \in Nat
        BY <2>5, <4>1, <4>2, <4>3
      <4>5. Fetched(y + m) <= Fetched(x + 10) /\ Fetched(y + m) \in Nat
        BY <3>1, <4>4, FetchedMonotone, FetchedLeast
      <4>6. 8 * r <= Fetched(y + m)
        BY <3>3, <4>2
      <4>7. QED
        BY ONLY <3>1, <4>5, <4>6, r \in Int
    <3>4. QED
      BY <2>2, <2>4, <3>2, <3>3 DEF AtHead
  <2>7. roffset' \in Int
    BY <1>3 DEF Counts
  <2>8. InBlock(input, pos + 1, roffset')
    BY <1>1, <2>3, <2>4, <2>5, <2>6, <2>7, Following
  <2>9. QED
    BY <2>3, <2>8
<1>5. ReadTo'
  BY <1>2, <1>4 DEF ReadTo, Between
<1>6. CheckpointsPlaced'
  BY <1>2 DEF Reads, CheckpointsPlaced, Placed
<1>7. QED
  BY <1>3, <1>5, <1>6 DEF Reads

\* A symbol of a Huffman block, read with as many bits as the end of the block
\* has, or more.
LEMMA SymbolReads ==
  ASSUME IInv, Reads, pc = "readLiteral", more, items[pos].k # "header", Take,
         UNCHANGED input
  PROVE  /\ Counts'
         /\ CountedTwice(input, pos + 1) = {} =>
              /\ 8 * roffset' - nb' = input.start[pos + 1]
              /\ items[pos] # EOB => InBlock(input, pos + 1, roffset')
              /\ items[pos] = EOB => AtHead(input, pos + 1, roffset', nb')
<1>1. /\ input \in Inputs /\ items = input.items /\ Len(items) \in Nat
      /\ pos \in 1..Len(items) /\ pos \in Nat \ {0}
  BY InputKnown
<1>2. Counts /\ Counts'
  BY Took DEF Reads
<1>3. ASSUME CountedTwice(input, pos + 1) = {}
      PROVE  /\ 8 * roffset' - nb' = input.start[pos + 1]
             /\ items[pos] # EOB => InBlock(input, pos + 1, roffset')
             /\ items[pos] = EOB => AtHead(input, pos + 1, roffset', nb')
  <2>1. CountedTwice(input, pos) = {}
    <3>1. pos \in Int /\ pos + 1 \in Int /\ pos <= pos + 1
      BY <1>1
    <3>2. QED
      BY <1>3, <3>1, CountedOnce
  <2>2. err = "nil"
    BY DEF IInv, Quiet, Working
  <2>3. 8 * roffset - nb = input.start[pos] /\ InBlock(input, pos, roffset)
    BY <2>1, <2>2 DEF Reads, ReadTo
  <2>4. /\ 8 * roffset' - nb' = input.start[pos + 1]
        /\ \/ 8 * roffset' = 8 * roffset
           \/ 8 * roffset' <= Fetched(input.start[pos]
                + Most(input.maxRead[pos], input.start[pos + 1] - input.start[pos]))
    BY <1>1, <1>2, <2>3, Took
  <2>5. roffset \in Int /\ roffset' \in Int
    BY <1>2 DEF Counts
  <2>6. /\ items[pos] # EOB => InBlock(input, pos + 1, roffset')
        /\ items[pos] = EOB =>
             8 * roffset' <= Fetched(input.start[pos] + input.maxRead[pos])
    BY <1>1, <2>3, <2>4, <2>5, Following
  <2>7. (pos + 1) - 1 = pos /\ pos + 1 > 1
    BY <1>1
  <2>8. items[pos] = EOB => AtHead(input, pos + 1, roffset', nb')
    BY <1>1, <2>6, <2>7 DEF AtHead
  <2>9. QED
    BY <2>4, <2>6, <2>8
<1>4. QED
  BY <1>2, <1>3

\* A literal, or a length and its distance.
LEMMA GoingOnReads ==
  ASSUME IInv, Reads, Literal \/ MatchPair
  PROVE  Reads'
<1>1. /\ pc = "readLiteral" /\ more /\ items[pos].k # "header" /\ Take /\ pos' = pos + 1
      /\ items[pos].k # "eob" /\ UNCHANGED <<input, err, cps>>
      /\ \/ pc' \in {"readLiteral", "copyHistory"}
         \/ pc' = "stepped" /\ step' = "huffman"
  BY DEF Literal, MatchPair, Take
<1>2. items[pos] # EOB
  BY <1>1 DEF EOB
<1>3. /\ Counts'
      /\ CountedTwice(input, pos + 1) = {} =>
           8 * roffset' - nb' = input.start[pos + 1] /\ InBlock(input, pos + 1, roffset')
  BY <1>1, <1>2, SymbolReads
<1>4. ReadTo'
  BY <1>1, <1>3 DEF ReadTo, Between
<1>5. CheckpointsPlaced'
  BY <1>1 DEF Reads, CheckpointsPlaced, Placed
<1>6. QED
  BY <1>3, <1>4, <1>5 DEF Reads

LEMMA EndOfBlockReads ==
  ASSUME IInv, Reads, EndOfBlock
  PROVE  Reads'
<1>1. /\ pc = "readLiteral" /\ more /\ items[pos].k = "eob" /\ Take /\ pos' = pos + 1
      /\ finishBlock(dict, toRead, final, pos + 1) /\ input' = input
  BY DEF EndOfBlock, Take
<1>2. items[pos] = EOB
  <2>1. items[pos] \in Item
    BY <1>1, InputKnown
  <2>2. QED
    BY <1>1, <2>1 DEF Item, EOB, Raw, Lit, BadSym
<1>3. items[pos].k # "header"
  BY <1>1
<1>4. /\ Counts'
      /\ CountedTwice(input, pos + 1) = {} =>
           8 * roffset' - nb' = input.start[pos + 1]
             /\ AtHead(input, pos + 1, roffset', nb')
  BY <1>1, <1>2, <1>3, SymbolReads
<1>5. pos + 1 \in 1..(Len(input.items) + 1)
  BY <1>1, <1>4 DEF Counts
<1>6. err = "nil"
  BY <1>1 DEF IInv, Quiet, Working
<1>7. QED
  BY <1>1, <1>4, <1>5, <1>6, FinishingReads

\* Steps that take nothing of the input.
LEMMA RestingReads ==
  ASSUME Reads,
         \/ StepHuffman \/ copyHistory \/ ReadLoop \/ ReadStepped \/ WriteToLoop
         \/ WriteToStepped \/ Calls \/ Done \/ UNCHANGED vars
         \/ \E n \in 0..W : WriteToFails(n)
  PROVE  Reads'
<1>1. CASE StepHuffman
  <2>1. /\ UNCHANGED <<input, pos, source, cps, err, step>> /\ step = "huffman" /\ pc = "step"
        /\ pc' \in {"readLiteral", "copyHistory"}
    BY <1>1 DEF StepHuffman, entry, decoder
  <2>2. QED
    BY <2>1, Resting DEF Between
<1>2. CASE copyHistory
  <2>1. /\ UNCHANGED <<input, pos, source, cps, err>> /\ pc = "copyHistory"
        /\ \/ pc' = "stepped" /\ step' = "huffman"
           \/ pc' = "readLiteral"
    BY <1>2 DEF copyHistory
  <2>2. QED
    BY <2>1, Resting DEF Between
<1>3. CASE ReadLoop \/ ReadStepped \/ WriteToLoop \/ WriteToStepped
  <2>1. /\ UNCHANGED <<input, pos, source, cps, err, step>> /\ pc \in {"loop", "stepped"}
        /\ pc' \in {"idle", "loop", "step", "stepped"}
    BY <1>3 DEF ReadLoop, ReadStepped, WriteToLoop, WriteToStepped
  <2>2. QED
    BY <2>1, Resting DEF Between
<1>4. CASE Calls
  <2>1. /\ UNCHANGED <<input, pos, source, cps, err, step>> /\ pc = "idle" /\ pc' = "loop"
    BY <1>4 DEF Calls, Read, WriteTo, decoder
  <2>2. QED
    BY <2>1, Resting DEF Between
<1>5. CASE Done \/ UNCHANGED vars
  <2>1. UNCHANGED <<input, pos, source, cps, err, step, pc>>
    BY <1>5 DEF Done, vars
  <2>2. QED
    BY <2>1, Resting DEF Between
<1>6. CASE \E n \in 0..W : WriteToFails(n)
  <2>1. /\ UNCHANGED <<input, pos, source, cps, step>> /\ pc = "loop" /\ pc' = "idle"
        /\ err' = "sink" \/ err' = err
    BY <1>6 DEF WriteToFails
  <2>2. QED
    BY <2>1, Resting DEF Between
<1>7. QED
  BY <1>1, <1>2, <1>3, <1>4, <1>5, <1>6

\* Another stream, or the same one from a checkpoint on (inflate.go lines
\* 803-863).
LEMMA SeekReads ==
  ASSUME NEW p, NEW base, NEW n, NEW old, NEW offset \in Int, NEW bit \in 0..7,
         Fresh(p, base, n, old), Seek(offset, bit), p \in 1..(Len(input'.items) + 1),
         8 * offset + bit = input'.start[p], CheckpointsPlaced'
  PROVE  Reads'
<1>1. /\ pos' = p /\ step' = "nextBlock" /\ pc' = "idle"
  BY DEF Fresh
<1>2. roffset' \in Int /\ nb' \in 0..7 /\ 8 * roffset' - nb' = 8 * offset + bit
  BY DEF Seek
<1>3. Counts'
  BY <1>1, <1>2 DEF Counts
<1>4. AtHead(input', p, roffset', nb')
  BY <1>2 DEF AtHead
<1>5. ReadTo'
  BY <1>1, <1>2, <1>4 DEF ReadTo, Between
<1>6. QED
  BY <1>3, <1>5 DEF Reads

LEMMA ResetReads ==
  ASSUME NEW in \in Reusable, Reset(in)
  PROVE  Reads'
<1>1. in \in Inputs
  BY InflateAssumption
<1>2. Len(in.items) \in Nat /\ in.start[1] = 0
  BY <1>1, PlacesKnown
<1>3. /\ input' = in /\ cps' = {} /\ Fresh(1, 0, in.preset, dict.hist) /\ Seek(0, 0)
  BY DEF Reset
<1>4. CheckpointsPlaced'
  BY <1>3 DEF CheckpointsPlaced
<1>5. 1 \in 1..(Len(input'.items) + 1) /\ 8 * 0 + 0 = input'.start[1]
  BY <1>2, <1>3
<1>6. QED
  BY <1>3, <1>4, <1>5, SeekReads

LEMMA ResumeReads ==
  ASSUME IInv, Reads, NEW cp \in cps, ResetCP(cp) \/ \E mode \in Modes : NewReaderFrom(cp, mode)
  PROVE  Reads'
<1>1. PICK old : /\ UNCHANGED <<input, cps>> /\ Placed(cp) /\ Seek(cp.offset, cp.bit)
                 /\ Fresh(cp.at, cp.unc, Len(cp.window), old)
  BY DEF ResetCP, NewReaderFrom
<1>2. cp.at \in 1..(Len(input.items) + 1) /\ cp.offset \in Int /\ cp.bit \in 0..7
  BY DEF Reads, CheckpointsPlaced
<1>3. CheckpointsPlaced'
  BY <1>1 DEF Reads, CheckpointsPlaced, Placed
<1>4. 8 * cp.offset + cp.bit = input'.start[cp.at]
  BY <1>1 DEF Placed
<1>5. QED
  BY <1>1, <1>2, <1>3, <1>4, SeekReads

LEMMA InitReads ==
  ASSUME Init
  PROVE  Reads
<1>1. /\ input \in Inputs /\ pos = 1 /\ step = "nextBlock" /\ pc = "idle"
      /\ roffset = 0 /\ nb = 0 /\ cps = {}
  BY DEF Init
<1>2. Len(input.items) \in Nat /\ input.start[1] = 0
  BY <1>1, PlacesKnown
<1>3. Counts /\ CheckpointsPlaced
  BY <1>1, <1>2 DEF Counts, CheckpointsPlaced
<1>4. ReadTo
  BY <1>1, <1>2 DEF ReadTo, Between, AtHead
<1>5. QED
  BY <1>3, <1>4 DEF Reads

\* Every step of the decompressor and of its caller keeps the third invariant.
THEOREM InductiveReads == IInv /\ Reads /\ [Next]_vars => Reads'
<1> SUFFICES ASSUME IInv, Reads, [Next]_vars
             PROVE  Reads'
  OBVIOUS
<1>1. CASE StepCopyData \/ FirstCopyData
  BY <1>1, CopyDataReads DEF StepCopyData, FirstCopyData
<1>2. CASE NextBlockFails
  BY <1>2, NextBlockFailsReads
<1>3. CASE NextBlockStored
  BY <1>3, NextBlockStoredReads
<1>4. CASE NextBlockHuffman
  BY <1>4, NextBlockHuffmanReads
<1>5. CASE SymbolFails
  BY <1>5, SymbolFailsReads
<1>6. CASE Literal \/ MatchPair
  BY <1>6, GoingOnReads
<1>7. CASE EndOfBlock
  BY <1>7, EndOfBlockReads
<1>8. CASE \/ StepHuffman \/ copyHistory \/ ReadLoop \/ ReadStepped \/ WriteToLoop
           \/ WriteToStepped \/ Calls \/ Done \/ UNCHANGED vars
           \/ \E n \in 0..W : WriteToFails(n)
  BY <1>8, RestingReads
<1>9. ASSUME NEW in \in Reusable, Reset(in)
      PROVE  Reads'
  BY <1>9, ResetReads
<1>10. ASSUME NEW cp \in cps, ResetCP(cp) \/ \E mode \in Modes : NewReaderFrom(cp, mode)
       PROVE  Reads'
  BY <1>10, ResumeReads
<1>11. CASE Step
  BY <1>1, <1>2, <1>3, <1>4, <1>5, <1>6, <1>7, <1>8, <1>11 DEF Step
<1>12. QED
  BY <1>8, <1>9, <1>10, <1>11 DEF Next

\* The decoder knows where it stands in its input: until bytes are counted
\* twice, the bytes it says it has read, less the bits of them it has not used,
\* are where the next block, byte or symbol starts (flate/inflate.go moreBits,
\* huffSym, readHuffman, dataBlock, copyData, finishBlock, applyCP).
THEOREM InvarianceReads == Spec => []Reads
<1>1. Init => IInv /\ Reads
  BY Initially, InitReads
<1>2. (IInv /\ Reads) /\ [Next]_vars => (IInv /\ Reads)'
  BY Inductive, InductiveReads
<1>3. QED
  BY <1>1, <1>2, PTL DEF Spec

\* A checkpoint says how many bytes the blocks before it decode to, has the last
\* of them as its window and says at which bit of the input the next block
\* starts, unless dataBlock has counted bytes twice before it, as it does behind
\* a dynamic block that was read ahead: resuming there continues the stream
\* (inflate.go lines 582-617, 684-694, 846-863).
THEOREM CheckpointsAlwaysExact == Spec => []CheckpointsExact
<1>1. CheckpointWindows /\ Follows /\ Reads => CheckpointsExact
  BY DEF CheckpointsExact, Follows, CheckpointPlaces, Reads, CheckpointsPlaced
<1>2. QED
  BY WindowsAlwaysExact, InvarianceFollows, InvarianceReads, <1>1, PTL
=============================================================================
