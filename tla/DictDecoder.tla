---------------------------- MODULE DictDecoder ----------------------------
(***************************************************************************)
(* The sliding window of the decompressor: type dictDecoder of             *)
(* flate/dict_decoder.go.  A buffer of W bytes is both the history that    *)
(* copies read from and the staging area for output: bytes are written at  *)
(* wrPos, hist[rdPos..wrPos-1] is what the reader has not been given yet,  *)
(* and once wrPos reaches W a flush wraps it to 0, over the oldest bytes.  *)
(*                                                                         *)
(* The methods are called by one goroutine, one after the other, under the *)
(* preconditions their comments state.  A copy is the one operation with a *)
(* loop: each call of the builtin copy inside it is a step of its own, so  *)
(* that what the loop computes is a consequence of its steps.              *)
(*                                                                         *)
(* emitted is a history variable: the preset dictionary and every byte     *)
(* that readFlush has returned.                                            *)
(***************************************************************************)
EXTENDS Integers, Sequences

CONSTANTS
  Byte,         \* the values of a byte
  W,            \* len(hist); maxMatchOffset in the decompressor
  Dictionaries, \* the dict arguments init may be called with
  MaxLength,    \* the longest length of a (dist, length) pair
  MaxStream     \* bound: bytes written between two calls of init

ASSUME WAssumption == W \in Nat \ {0}
ASSUME ByteAssumption == 0 \in Byte
ASSUME DictAssumption == Dictionaries \subseteq Seq(Byte)
ASSUME BoundAssumption == MaxLength \in Nat /\ MaxStream \in Nat

VARIABLES
  hist,    \* [0..W-1 -> Byte]
  wrPos,   \* current output position in hist
  rdPos,   \* hist[0..rdPos-1] has been emitted already
  flushed, \* bytes returned by readFlush since init
  full,    \* has a full window been written yet
  pc,      \* "idle", or where writeCopy/tryWriteCopy stands
  local,   \* the local variables of writeCopy/tryWriteCopy
  emitted  \* history: the preset bytes, then what readFlush returned

dd == <<hist, wrPos, rdPos, flushed, full>>
vars == <<hist, wrPos, rdPos, flushed, full, pc, local, emitted>>

Index == 0..(W - 1)
Minimum(a, b) == IF a <= b THEN a ELSE b

histSize == IF full THEN W ELSE wrPos
availRead == wrPos - rdPos
availWrite == W - wrPos
decoded == flushed + (wrPos - rdPos)

\* The current window, oldest byte first.
appendWindow ==
  IF full
  THEN [i \in 1..W |-> IF i <= W - wrPos THEN hist[wrPos + i - 1]
                                         ELSE hist[i - (W - wrPos) - 1]]
  ELSE [i \in 1..wrPos |-> hist[i - 1]]

\* What has been decoded since init, preset bytes included: the bytes that
\* were emitted and those still waiting in hist[rdPos..wrPos-1].
Stream ==
  [i \in 1..(Len(emitted) + availRead) |->
     IF i <= Len(emitted) THEN emitted[i]
                          ELSE hist[rdPos + (i - Len(emitted)) - 1]]

NoLocal == [dist |-> 0, length |-> 0, dst |-> 0, src |-> 0, end |-> 0]

idle == pc = "idle"

\* The builtin copy(hist[dst:end], hist[src:lim]), with memmove semantics.
CopyLen(dst, end, src, lim) == Minimum(end - dst, lim - src)
Copied(dst, src, n) ==
  [i \in Index |-> IF i \in dst..(dst + n - 1) THEN hist[src + (i - dst)]
                                               ELSE hist[i]]

-----------------------------------------------------------------------------
(* init: positions, counters and full are zeroed, the old buffer and its   *)
(* contents are kept, and at most the last W bytes of dict are copied in.  *)
Tail_(dict) ==
  IF Len(dict) > W THEN [i \in 1..W |-> dict[Len(dict) - W + i]] ELSE dict

InitState(old, dict) ==
  LET d == Tail_(dict)
      n == Len(d)
  IN [hist |-> [i \in Index |-> IF i < n THEN d[i + 1] ELSE old[i]],
      pos  |-> IF n = W THEN 0 ELSE n,
      full |-> n = W]

init(dict) ==
  LET s == InitState(hist, dict)
  IN /\ idle
     /\ hist' = s.hist
     /\ wrPos' = s.pos
     /\ rdPos' = s.pos
     /\ full' = s.full
     /\ flushed' = 0
     /\ emitted' = Tail_(dict)
     /\ UNCHANGED <<pc, local>>

\* writeByte; its precondition is 0 < availWrite().
writeByte(c) ==
  /\ idle
  /\ availWrite > 0
  /\ decoded < MaxStream
  /\ hist' = [hist EXCEPT ![wrPos] = c]
  /\ wrPos' = wrPos + 1
  /\ UNCHANGED <<rdPos, flushed, full, pc, local, emitted>>

\* writeSlice, filled with bs by the caller (copyData), then writeMark.
writeMark(bs) ==
  /\ idle
  /\ Len(bs) \in 1..availWrite
  /\ decoded + Len(bs) <= MaxStream
  /\ hist' = [i \in Index |-> IF i \in wrPos..(wrPos + Len(bs) - 1)
                              THEN bs[(i - wrPos) + 1] ELSE hist[i]]
  /\ wrPos' = wrPos + Len(bs)
  /\ UNCHANGED <<rdPos, flushed, full, pc, local, emitted>>

\* Mutated forms of the copies: the end of the buffer not minded, the source
\* off by one, and a forward copy left to one memmove.
writeCopyUncut(dist, length) ==
  /\ idle
  /\ dist \in 1..histSize
  /\ decoded + length <= MaxStream
  /\ LET src == wrPos - dist
     IN local' = [dist |-> dist, length |-> length, dst |-> wrPos,
                  src |-> IF src < 0 THEN src + W ELSE src,
                  end |-> wrPos + length]
  /\ pc' = IF wrPos - dist < 0 THEN "wrap" ELSE "loop"
  /\ UNCHANGED <<dd, emitted>>
tryWriteCopyOffByOne(dist, length) ==
  /\ idle
  /\ dist \in 1..histSize
  /\ decoded + length <= MaxStream
  /\ ~(wrPos < dist \/ wrPos + length > W)
  /\ local' = [dist |-> dist, length |-> length, dst |-> wrPos,
               src |-> wrPos - dist + 1, end |-> wrPos + length]
  /\ pc' = "loop"
  /\ UNCHANGED <<dd, emitted>>
loopCopyMemmove ==
  /\ pc = "loop"
  /\ local.dst < local.end
  /\ hist' = Copied(local.dst, local.src, local.end - local.dst)
  /\ local' = [local EXCEPT !.dst = local.end]
  /\ UNCHANGED <<wrPos, rdPos, flushed, full, pc, emitted>>

\* writeCopy up to its first copy; its precondition is 0 < dist <= histSize().
writeCopy(dist, length) ==
  /\ idle
  /\ dist \in 1..histSize
  /\ decoded + length <= MaxStream
  /\ LET src == wrPos - dist
     IN local' = [dist |-> dist, length |-> length, dst |-> wrPos,
                  src |-> IF src < 0 THEN src + W ELSE src,
                  end |-> Minimum(wrPos + length, W)]
  /\ pc' = IF wrPos - dist < 0 THEN "wrap" ELSE "loop"
  /\ UNCHANGED <<dd, emitted>>

\* The section of the source that lies beyond wrPos, around the wrap.
wrapCopy ==
  /\ pc = "wrap"
  /\ LET n == CopyLen(local.dst, local.end, local.src, W)
     IN /\ hist' = Copied(local.dst, local.src, n)
        /\ local' = [local EXCEPT !.dst = @ + n, !.src = 0]
  /\ pc' = "loop"
  /\ UNCHANGED <<wrPos, rdPos, flushed, full, emitted>>

\* One iteration of the forward copying loop.
loopCopy ==
  /\ pc = "loop"
  /\ local.dst < local.end
  /\ LET n == CopyLen(local.dst, local.end, local.src, local.dst)
     IN /\ hist' = Copied(local.dst, local.src, n)
        /\ local' = [local EXCEPT !.dst = @ + n]
  /\ UNCHANGED <<wrPos, rdPos, flushed, full, pc, emitted>>

\* The loop is left: wrPos is moved.
endCopy ==
  /\ pc = "loop"
  /\ local.dst >= local.end
  /\ wrPos' = local.dst
  /\ local' = NoLocal
  /\ pc' = "idle"
  /\ UNCHANGED <<hist, rdPos, flushed, full, emitted>>

\* tryWriteCopy: declines (returns 0, a stutter) when the source wraps or
\* the destination would be cut short, else enters the same loop.
tryWriteCopy(dist, length) ==
  /\ idle
  /\ dist \in 1..histSize
  /\ decoded + length <= MaxStream
  /\ ~(wrPos < dist \/ wrPos + length > W)
  /\ local' = [dist |-> dist, length |-> length, dst |-> wrPos,
               src |-> wrPos - dist, end |-> wrPos + length]
  /\ pc' = "loop"
  /\ UNCHANGED <<dd, emitted>>

\* Mutated form of readFlush: full is left as it was.
readFlushNotFull ==
  /\ idle
  /\ emitted' = Stream
  /\ flushed' = flushed + availRead
  /\ IF wrPos = W THEN wrPos' = 0 /\ rdPos' = 0
                  ELSE rdPos' = wrPos /\ UNCHANGED wrPos
  /\ UNCHANGED <<hist, full, pc, local>>

readFlush ==
  /\ idle
  /\ emitted' = Stream
  /\ flushed' = flushed + availRead
  /\ IF wrPos = W
     THEN wrPos' = 0 /\ rdPos' = 0 /\ full' = TRUE
     ELSE rdPos' = wrPos /\ UNCHANGED <<wrPos, full>>
  /\ UNCHANGED <<hist, pc, local>>

Init ==
  \E dict \in Dictionaries :
    LET s == InitState([i \in Index |-> 0], dict)
    IN /\ hist = s.hist
       /\ wrPos = s.pos
       /\ rdPos = s.pos
       /\ full = s.full
       /\ flushed = 0
       /\ pc = "idle"
       /\ local = NoLocal
       /\ emitted = Tail_(dict)

Slices == UNION {[1..n -> Byte] : n \in 1..W}

Next ==
  \/ \E dict \in Dictionaries : init(dict)
  \/ \E c \in Byte : writeByte(c)
  \/ \E bs \in Slices : writeMark(bs)
  \/ \E dist \in 1..W, length \in 0..MaxLength : writeCopy(dist, length)
  \/ \E dist \in 1..W, length \in 0..MaxLength : tryWriteCopy(dist, length)
  \/ wrapCopy
  \/ loopCopy
  \/ endCopy
  \/ readFlush

Spec == Init /\ [][Next]_vars

\* A copy that was begun runs on: it is straight-line code of one call.
FairSpec == Spec /\ WF_vars(wrapCopy \/ loopCopy \/ endCopy)

-----------------------------------------------------------------------------
(* Properties.                                                             *)

\* The fields have their types, and the documented invariant of the struct
\* holds: 0 <= rdPos <= wrPos <= len(hist) (dict_decoder.go line 30).
TypeOK ==
  /\ hist \in [Index -> Byte]
  /\ wrPos \in 0..W
  /\ rdPos \in 0..wrPos
  /\ flushed \in Nat
  /\ full \in BOOLEAN
  /\ pc \in {"idle", "wrap", "loop"}
  /\ local \in [dist : 0..W, length : 0..MaxLength, dst : 0..W, src : 0..W,
                end : 0..W]
  /\ emitted \in Seq(Byte)

\* Between calls the window a copy (or appendWindow, for a checkpoint) reads
\* is exactly the last histSize() bytes of the stream, and histSize() is all
\* of the last W bytes: a wrap never lets a stale byte, of an overwritten
\* part or of before init, be taken for history.
WindowIntact ==
  idle =>
    /\ histSize = Minimum(W, Len(Stream))
    /\ appendWindow = [i \in 1..histSize |-> Stream[Len(Stream) - histSize + i]]

\* The ring buffer implements the unbounded LZ77 stream: what is decoded is
\* never altered by later writes before it is delivered, and every copied
\* byte equals the byte dist before it.
LZ == INSTANCE LZ77 WITH
        stream <- Stream,
        delivered <- Len(emitted),
        pair <- [dist |-> local.dist, length |-> local.length]
RefinesLZ77 == LZ!LZSpec

\* Every copy loop ends: dstPos - srcPos stays positive, so that each call of
\* the builtin copy moves dstPos.
CopyEnds == (pc # "idle") ~> (pc = "idle")
=============================================================================
