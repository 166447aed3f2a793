-------------------------- MODULE DecodingProofs --------------------------
(***************************************************************************)
(* Proofs about DictDecoder, for every window size, set of bytes, set of   *)
(* dictionaries and bound: its type invariant, the integrity of the window *)
(* and that it implements LZ77.                                            *)
(*                                                                         *)
(* Proofs about HuffmanCode and CodeTables, for every block whose symbols  *)
(* are no more than there are codewords within the limit: the codes that   *)
(* generate makes are complete prefix codes within their limits, and       *)
(* generateCodegen overwrites no code length that it has not read.         *)
(*                                                                         *)
(* The argument for the codes.  Sorting puts every symbol at a place of    *)
(* its own (Places); each step of buildTree gives two nodes a parent       *)
(* further on, so that every node but the root has one (TreeRight).  From  *)
(* the root down, computeLengthCounts gives each node the depth of its     *)
(* parent and one (DepthsKept).  While no node is too deep, Level says     *)
(* what lenCounts holds; beyond the limit a node finds a shorter codeword  *)
(* to split; either way lenCounts uses up the code space exactly           *)
(* (LevelKept, CountStepKeeps, CountsRight).  The lengths handed out are   *)
(* those counts, the longest to the rarest (LengthsCounted, LengthsGood).  *)
(***************************************************************************)
EXTENDS DictDecoder, CodeTables, FiniteSetTheorems, SequenceTheorems,
        WellFoundedInduction, TLAPS

-----------------------------------------------------------------------------
(* The dictionary decoder.                                                 *)

\* Where the part of the buffer not yet overwritten in this round begins.
Frontier == IF pc = "idle" THEN wrPos ELSE local.dst

\* What was emitted in this round is still in the buffer; before the first
\* wrap that is all there is.
RoundInv ==
  /\ full => Len(emitted) >= W + rdPos
  /\ ~full => Len(emitted) = rdPos
  /\ \A x \in 0..(rdPos - 1) : hist[x] = emitted[Len(emitted) - rdPos + 1 + x]

\* Beyond the frontier lies what was emitted in the round before.
OldInv ==
  full => \A x \in Frontier..(W - 1) :
            hist[x] = emitted[Len(emitted) - rdPos - W + 1 + x]

\* A copy that is about to take its wrapped section.
WrapInv ==
  pc = "wrap" =>
    /\ full
    /\ local.dist \in 1..W
    /\ wrPos < local.dist
    /\ local.dst = wrPos
    /\ local.src = wrPos - local.dist + W
    /\ local.end = Minimum(wrPos + local.length, W)

\* A copy in its loop: the bytes copied so far repeat at distance dist, and
\* hist[src..dst-1] is a whole number of periods, so that the next chunk,
\* which starts over at src, continues the repetition.
LoopInv ==
  pc = "loop" =>
    /\ local.dist \in 1..W
    /\ local.dist <= histSize
    /\ wrPos <= local.dst
    /\ local.dst <= local.end
    /\ local.end <= wrPos + local.length
    /\ \A x \in wrPos..(local.dst - 1) :
         /\ x >= local.dist => hist[x] = hist[x - local.dist]
         /\ x < local.dist => hist[x] = emitted[Len(emitted) - rdPos + 1 + x - local.dist]
    /\ local.dst < local.end =>
         /\ local.src + local.dist <= local.dst
         /\ \A x \in (local.src + local.dist)..(local.dst - 1) :
              hist[x] = hist[x - local.dist]
         /\ \A i \in 0..(local.dist - 1) :
              hist[local.dst - local.dist + i] = hist[local.src + i]

\* The call state outside a copy.
IdleInv == pc = "idle" => local = NoLocal

IInv == TypeOK /\ RoundInv /\ OldInv /\ WrapInv /\ LoopInv /\ IdleInv

-----------------------------------------------------------------------------
(* Sequences given by a function on 1..n.                                  *)

\* A function from 1..n to S is a sequence over S of length n.
LEMMA FunctionIsSeq ==
  ASSUME NEW S, NEW n \in Nat, NEW fn \in [1..n -> S]
  PROVE  fn \in Seq(S) /\ Len(fn) = n
OBVIOUS

\* The preset bytes that init keeps (dict_decoder.go lines 48-51): at most W
\* of them, a sequence of bytes.
LEMMA TailType ==
  ASSUME NEW dict \in Dictionaries
  PROVE  /\ Tail_(dict) \in Seq(Byte)
         /\ Len(Tail_(dict)) \in 0..W
         /\ Tail_(dict) = LZ!LastW(dict)
<1>1. dict \in Seq(Byte)
  BY DictAssumption
<1>2. CASE Len(dict) > W
  <2> DEFINE t == [i \in 1..W |-> dict[Len(dict) - W + i]]
  <2>1. t \in [1..W -> Byte]
    BY <1>1, <1>2, WAssumption
  <2>2. Tail_(dict) = t /\ LZ!LastW(dict) = t
    BY <1>2 DEF Tail_, LZ!LastW
  <2>3. W \in Nat
    BY WAssumption
  <2> HIDE DEF t
  <2>4. t \in Seq(Byte) /\ Len(t) = W
    BY <2>1, <2>3, FunctionIsSeq
  <2>5. QED
    BY <2>2, <2>3, <2>4
<1>3. CASE ~(Len(dict) > W)
  BY <1>1, <1>3, WAssumption DEF Tail_, LZ!LastW
<1>4. QED
  BY <1>2, <1>3

\* The decoded stream is a sequence of bytes, as long as what was emitted and
\* what waits between rdPos and wrPos.
LEMMA StreamType ==
  ASSUME TypeOK
  PROVE  /\ Stream \in Seq(Byte)
         /\ Len(Stream) = Len(emitted) + (wrPos - rdPos)
<1> DEFINE n == Len(emitted) + (wrPos - rdPos)
<1>1. n \in Nat
  BY WAssumption DEF TypeOK
<1>2. ASSUME NEW i \in 1..n
      PROVE  IF i <= Len(emitted) THEN emitted[i] \in Byte
             ELSE hist[rdPos + (i - Len(emitted)) - 1] \in Byte
  <2>1. CASE i <= Len(emitted)
    BY <2>1 DEF TypeOK
  <2>2. CASE ~(i <= Len(emitted))
    <3>1. rdPos + (i - Len(emitted)) - 1 \in Index
      BY <2>2, WAssumption DEF TypeOK, Index
    <3>2. QED
      BY <2>2, <3>1 DEF TypeOK
  <2>3. QED
    BY <2>1, <2>2
<1>3. Stream \in [1..n -> Byte]
  BY <1>2 DEF Stream, availRead
<1>4. QED
  BY <1>1, <1>3, FunctionIsSeq

-----------------------------------------------------------------------------
(* The inductive invariant.                                                *)

\* The state init leaves (dict_decoder.go lines 40-57), whatever the buffer
\* held before.
Fresh ==
  \E dict \in Dictionaries, old \in [Index -> Byte] :
    /\ hist = InitState(old, dict).hist
    /\ wrPos = InitState(old, dict).pos
    /\ rdPos = InitState(old, dict).pos
    /\ full = InitState(old, dict).full
    /\ flushed = 0
    /\ pc = "idle"
    /\ local = NoLocal
    /\ emitted = Tail_(dict)

\* The state that init leaves (dict_decoder.go lines 40-57) satisfies IInv.
LEMMA FreshIInv == Fresh => IInv
<1> SUFFICES ASSUME Fresh PROVE IInv
  OBVIOUS
<1>1. PICK dict \in Dictionaries, old \in [Index -> Byte] :
        /\ hist = InitState(old, dict).hist
        /\ wrPos = InitState(old, dict).pos
        /\ rdPos = InitState(old, dict).pos
        /\ full = InitState(old, dict).full
        /\ flushed = 0
        /\ pc = "idle"
        /\ local = NoLocal
        /\ emitted = Tail_(dict)
  BY DEF Fresh
<1>2. /\ emitted \in Seq(Byte)
      /\ Len(emitted) \in 0..W
  BY <1>1, TailType
<1>3. /\ hist = [i \in Index |-> IF i < Len(emitted) THEN emitted[i + 1] ELSE old[i]]
      /\ wrPos = IF Len(emitted) = W THEN 0 ELSE Len(emitted)
      /\ rdPos = IF Len(emitted) = W THEN 0 ELSE Len(emitted)
      /\ full <=> (Len(emitted) = W)
  <2>1. full = (Len(emitted) = W)
    BY <1>1 DEF InitState
  <2>2. full <=> (Len(emitted) = W)
    BY <2>1, Zenon
  <2>3. QED
    BY <1>1, <2>2 DEF InitState
<1>4. hist \in [Index -> Byte]
  <2>1. ASSUME NEW i \in Index
        PROVE  (IF i < Len(emitted) THEN emitted[i + 1] ELSE old[i]) \in Byte
    BY <1>2, WAssumption DEF Index
  <2>2. QED
    BY <1>3, <2>1
<1>5. \A x \in Index : x < Len(emitted) => hist[x] = emitted[x + 1]
  BY <1>3
<1>6. TypeOK
  <2>1. full \in BOOLEAN
    BY <1>1 DEF InitState
  <2>2. QED
    BY <1>1, <1>2, <1>3, <1>4, <2>1, WAssumption, BoundAssumption DEF TypeOK, NoLocal
<1>7. RoundInv
  <2>1. CASE Len(emitted) = W
    BY <1>3, <2>1, WAssumption DEF RoundInv
  <2>2. CASE Len(emitted) # W
    <3>1. ~full /\ rdPos = Len(emitted) /\ rdPos \in 0..(W - 1)
      BY <1>2, <1>3, <2>2, WAssumption
    <3>2. ASSUME NEW x \in 0..(rdPos - 1)
          PROVE  hist[x] = emitted[Len(emitted) - rdPos + 1 + x]
      <4>1. Len(emitted) - rdPos + 1 + x = x + 1
        BY <3>1, WAssumption
      <4>2. x \in Index /\ x < Len(emitted)
        BY <3>1, WAssumption DEF Index
      <4>3. QED
        BY <1>5, <4>1, <4>2
    <3>3. QED
      BY <3>1, <3>2 DEF RoundInv
  <2>3. QED
    BY <2>1, <2>2
<1>8. OldInv
  BY <1>1, <1>2, <1>3, <1>5, WAssumption DEF OldInv, Frontier, Index
<1>9. WrapInv /\ LoopInv /\ IdleInv
  BY <1>1 DEF WrapInv, LoopInv, IdleInv
<1>10. QED
  BY <1>6, <1>7, <1>8, <1>9 DEF IInv

\* A new decoder is in such a state.
LEMMA InitFresh == Init => Fresh
<1>1. [i \in Index |-> 0] \in [Index -> Byte]
  BY ByteAssumption
<1>2. QED
  BY <1>1 DEF Init, Fresh

\* Bytes appended at wrPos (writeByte, writeMark) leave the history alone.
LEMMA AppendIInv ==
  ASSUME IInv, idle, hist' \in [Index -> Byte], wrPos' \in wrPos..W,
         \A i \in Index : i < wrPos \/ i >= wrPos' => hist'[i] = hist[i],
         UNCHANGED <<rdPos, flushed, full, pc, local, emitted>>
  PROVE  IInv'
<1>1. /\ TypeOK /\ RoundInv /\ OldInv
      /\ wrPos \in 0..W /\ rdPos \in 0..wrPos /\ W \in Nat
  BY WAssumption DEF IInv, TypeOK
<1>2. TypeOK'
  BY <1>1 DEF TypeOK
<1>3. \A x \in 0..(rdPos - 1) : hist'[x] = hist[x]
  BY <1>1 DEF Index
<1>4. \A x \in wrPos'..(W - 1) : x \in wrPos..(W - 1) /\ hist'[x] = hist[x]
  BY <1>1 DEF Index
<1>5. RoundInv'
  BY <1>1, <1>3 DEF RoundInv
<1>6. OldInv'
  BY <1>1, <1>4 DEF OldInv, Frontier, idle
<1>7. WrapInv' /\ LoopInv' /\ IdleInv'
  BY DEF IInv, WrapInv, LoopInv, IdleInv, idle
<1>8. QED
  BY <1>2, <1>5, <1>6, <1>7 DEF IInv

\* writeByte and writeMark are such appends.
LEMMA WriteIInv ==
  ASSUME IInv,
         (\E c \in Byte : writeByte(c)) \/ (\E bs \in Slices : writeMark(bs))
  PROVE  IInv'
<1>1. ASSUME NEW c \in Byte, writeByte(c) PROVE IInv'
  BY <1>1, AppendIInv, WAssumption
     DEF writeByte, availWrite, IInv, TypeOK, Index
<1>2. ASSUME NEW bs \in Slices, writeMark(bs) PROVE IInv'
  <2>1. PICK n \in 1..W : bs \in [1..n -> Byte]
    BY DEF Slices
  <2>2. Len(bs) = n /\ n \in 1..(W - wrPos)
    BY <1>2, <2>1, WAssumption DEF writeMark, availWrite
  <2>3. wrPos \in 0..W /\ hist \in [Index -> Byte]
    BY DEF IInv, TypeOK
  <2>4. hist' = [i \in Index |-> IF i \in wrPos..(wrPos + n - 1)
                                 THEN bs[(i - wrPos) + 1] ELSE hist[i]]
    BY <1>2, <2>2 DEF writeMark
  <2>5. hist' \in [Index -> Byte]
    BY <2>1, <2>2, <2>3, <2>4, WAssumption DEF Index
  <2>6. wrPos' = wrPos + n
    BY <1>2, <2>2 DEF writeMark
  <2>7. wrPos' \in wrPos..W
    BY <2>2, <2>3, <2>6, WAssumption
  <2>8. \A i \in Index : i < wrPos \/ i >= wrPos' => hist'[i] = hist[i]
    BY <2>2, <2>3, <2>4, <2>6, WAssumption DEF Index
  <2>9. idle /\ UNCHANGED <<rdPos, flushed, full, pc, local, emitted>>
    BY <1>2 DEF writeMark
  <2>10. QED
    BY <2>5, <2>7, <2>8, <2>9, AppendIInv
<1>3. QED
  BY <1>1, <1>2

\* A copy whose source does not wrap starts its loop (tryWriteCopy, and
\* writeCopy when srcPos >= 0): the dist bytes before wrPos are one period.
LEMMA BeginLoopIInv ==
  ASSUME IInv, idle, NEW dist \in 1..W, NEW length \in 0..MaxLength,
         NEW end \in wrPos..W, end <= wrPos + length, dist <= wrPos,
         dist <= histSize,
         local' = [dist |-> dist, length |-> length, dst |-> wrPos,
                   src |-> wrPos - dist, end |-> end],
         pc' = "loop", UNCHANGED <<dd, emitted>>
  PROVE  IInv'
<1>1. /\ TypeOK /\ RoundInv /\ OldInv
      /\ wrPos \in 0..W /\ rdPos \in 0..wrPos /\ W \in Nat
  BY WAssumption DEF IInv, TypeOK
<1>2. UNCHANGED <<hist, wrPos, rdPos, flushed, full, emitted>>
  BY DEF dd
<1>3. TypeOK'
  BY <1>1, <1>2 DEF TypeOK, Index
<1>4. RoundInv'
  BY <1>1, <1>2 DEF RoundInv
<1>5. OldInv'
  BY <1>1, <1>2 DEF OldInv, Frontier, idle
<1>6. WrapInv' /\ IdleInv'
  BY DEF WrapInv, IdleInv
<1>7. LoopInv'
  <2>1. histSize' = histSize
    BY <1>2 DEF histSize
  <2>2. QED
    BY <1>1, <1>2, <2>1, BoundAssumption DEF LoopInv
<1>8. QED
  BY <1>3, <1>4, <1>5, <1>6, <1>7 DEF IInv

\* writeCopy and tryWriteCopy enter their loops in a state of IInv, whether the
\* source wraps or not.
LEMMA BeginCopyIInv ==
  ASSUME IInv, NEW dist \in 1..W, NEW length \in 0..MaxLength,
         writeCopy(dist, length) \/ tryWriteCopy(dist, length)
  PROVE  IInv'
<1>1. /\ TypeOK /\ RoundInv /\ OldInv
      /\ wrPos \in 0..W /\ rdPos \in 0..wrPos /\ W \in Nat /\ length \in Nat
      /\ full \in BOOLEAN
  BY WAssumption, BoundAssumption DEF IInv, TypeOK
<1>2. idle /\ UNCHANGED <<dd, emitted>> /\ dist <= histSize
  BY <1>1 DEF writeCopy, tryWriteCopy, histSize
<1>3. Minimum(wrPos + length, W) \in wrPos..W
      /\ Minimum(wrPos + length, W) <= wrPos + length
  BY <1>1 DEF Minimum
<1>4. CASE writeCopy(dist, length) /\ wrPos < dist
  <2>1. UNCHANGED <<hist, wrPos, rdPos, flushed, full, emitted>>
    BY <1>2 DEF dd
  <2>2. full
    BY <1>2, <1>4, <1>1 DEF histSize
  <2>3. /\ local' = [dist |-> dist, length |-> length, dst |-> wrPos,
                     src |-> wrPos - dist + W,
                     end |-> Minimum(wrPos + length, W)]
        /\ pc' = "wrap"
    BY <1>1, <1>4 DEF writeCopy
  <2>4. TypeOK'
    BY <1>1, <1>3, <1>4, <2>1, <2>3 DEF TypeOK, Index
  <2>5. RoundInv' /\ OldInv'
    BY <1>1, <1>2, <2>1, <2>3 DEF RoundInv, OldInv, Frontier, idle
  <2>6. WrapInv' /\ LoopInv' /\ IdleInv'
    BY <1>4, <2>1, <2>2, <2>3 DEF WrapInv, LoopInv, IdleInv
  <2>7. QED
    BY <2>4, <2>5, <2>6 DEF IInv
<1>5. CASE writeCopy(dist, length) /\ ~(wrPos < dist)
  <2>1. /\ local' = [dist |-> dist, length |-> length, dst |-> wrPos,
                     src |-> wrPos - dist,
                     end |-> Minimum(wrPos + length, W)]
        /\ pc' = "loop"
    BY <1>1, <1>5 DEF writeCopy
  <2>2. QED
    BY <1>1, <1>2, <1>3, <1>5, <2>1, BeginLoopIInv
<1>6. CASE tryWriteCopy(dist, length)
  <2>1. /\ local' = [dist |-> dist, length |-> length, dst |-> wrPos,
                     src |-> wrPos - dist, end |-> wrPos + length]
        /\ pc' = "loop"
        /\ dist <= wrPos
        /\ wrPos + length \in wrPos..W
    BY <1>1, <1>6 DEF tryWriteCopy
  <2>2. QED
    BY <1>1, <1>2, <2>1, BeginLoopIInv
<1>7. QED
  BY <1>4, <1>5, <1>6

\* The builtin copy changes hist[dst..dst+n-1] and nothing else.
LEMMA CopiedValue ==
  ASSUME hist \in [Index -> Byte], NEW dst \in Nat, NEW src \in Nat,
         NEW n \in Nat, dst + n <= W, src + n <= W
  PROVE  /\ Copied(dst, src, n) \in [Index -> Byte]
         /\ \A i \in Index : i < dst \/ i >= dst + n =>
              Copied(dst, src, n)[i] = hist[i]
         /\ \A i \in Index : dst <= i /\ i < dst + n =>
              Copied(dst, src, n)[i] = hist[src + (i - dst)]
<1>1. ASSUME NEW i \in Index, i \in dst..(dst + n - 1)
      PROVE  src + (i - dst) \in Index
  BY <1>1, WAssumption DEF Index
<1>2. ASSUME NEW i \in Index
      PROVE  (i \in dst..(dst + n - 1)) <=> (dst <= i /\ i < dst + n)
  BY WAssumption DEF Index
<1>3. \A i \in Index : i \in Int
  BY WAssumption DEF Index
<1>4. QED
  BY <1>1, <1>2, <1>3, WAssumption DEF Copied

\* The wrapped section: hist[src..W-1] is from the round before, the dist - wrPos
\* bytes that come first in the period.
LEMMA WrapIInv == IInv /\ wrapCopy => IInv'
<1> SUFFICES ASSUME IInv, wrapCopy PROVE IInv'
  OBVIOUS
<1> DEFINE dist == local.dist
           n == CopyLen(local.dst, local.end, local.src, W)
<1>1. /\ TypeOK /\ RoundInv /\ OldInv
      /\ wrPos \in 0..W /\ rdPos \in 0..wrPos /\ W \in Nat
      /\ hist \in [Index -> Byte]
      /\ local.length \in Nat
  BY WAssumption, BoundAssumption DEF IInv, TypeOK
<1>2. /\ full /\ dist \in 1..W /\ wrPos < dist
      /\ local.dst = wrPos
      /\ local.src = wrPos - dist + W
      /\ local.end \in wrPos..W
      /\ local.end <= wrPos + local.length
  BY <1>1 DEF IInv, WrapInv, wrapCopy, Minimum
<1>3. /\ n \in Nat
      /\ wrPos + n <= local.end
      /\ n <= dist - wrPos
      /\ wrPos + n < local.end => n = dist - wrPos
  BY <1>1, <1>2 DEF CopyLen, Minimum
<1>4. /\ hist' = Copied(wrPos, wrPos - dist + W, n)
      /\ local' = [local EXCEPT !.dst = wrPos + n, !.src = 0]
      /\ pc' = "loop"
      /\ UNCHANGED <<wrPos, rdPos, flushed, full, emitted>>
  BY <1>2 DEF wrapCopy
<1> HIDE DEF n
<1>5. /\ local'.dst = wrPos + n /\ local'.src = 0 /\ local'.dist = dist
      /\ local'.end = local.end /\ local'.length = local.length
  BY <1>1, <1>4 DEF TypeOK
<1>6. /\ hist' \in [Index -> Byte]
      /\ \A i \in Index : i < wrPos \/ i >= wrPos + n => hist'[i] = hist[i]
      /\ \A i \in Index : wrPos <= i /\ i < wrPos + n =>
           hist'[i] = hist[wrPos - dist + W + (i - wrPos)]
  <2>1. /\ wrPos \in Nat /\ wrPos - dist + W \in Nat
        /\ wrPos + n <= W /\ (wrPos - dist + W) + n <= W
    BY <1>1, <1>2, <1>3
  <2>2. QED
    BY <1>1, <1>3, <1>4, <2>1, CopiedValue
<1>7. TypeOK'
  <2>1. wrPos + n \in 0..W
    BY <1>1, <1>2, <1>3
  <2>2. local' \in [dist : 0..W, length : 0..MaxLength, dst : 0..W, src : 0..W,
                    end : 0..W]
    <3>1. local' = [dist |-> local.dist, length |-> local.length,
                    dst |-> wrPos + n, src |-> 0, end |-> local.end]
      BY <1>1, <1>4 DEF TypeOK
    <3>2. QED
      BY <1>1, <2>1, <3>1 DEF TypeOK
  <2>3. QED
    BY <1>1, <1>4, <1>6, <2>2 DEF TypeOK
<1>8. RoundInv'
  BY <1>1, <1>4, <1>6 DEF RoundInv, Index
<1>9. OldInv'
  <2>1. \A x \in (wrPos + n)..(W - 1) :
          x \in Index /\ x \in wrPos..(W - 1) /\ hist'[x] = hist[x]
    BY <1>1, <1>3, <1>6 DEF Index
  <2>2. Frontier = wrPos /\ Frontier' = wrPos + n
    BY <1>2, <1>4, <1>5 DEF Frontier, wrapCopy
  <2>3. QED
    BY <1>1, <1>4, <2>1, <2>2 DEF OldInv
<1>10. WrapInv' /\ IdleInv'
  BY <1>4 DEF WrapInv, IdleInv
<1>11. LoopInv'
  <2>1. ASSUME NEW x \in wrPos..(wrPos + n - 1)
        PROVE  /\ ~(x >= dist)
               /\ hist'[x] = emitted[Len(emitted) - rdPos + 1 + x - dist]
    <3>1. x \in Index /\ x \in Int /\ x < dist
      BY <1>1, <1>2, <1>3 DEF Index
    <3>2. hist'[x] = hist[W - dist + x]
      BY <1>1, <1>2, <1>3, <1>6, <3>1
    <3>3. W - dist + x \in wrPos..(W - 1)
      BY <1>1, <1>2, <3>1
    <3>4. hist[W - dist + x] = emitted[Len(emitted) - rdPos - W + 1 + (W - dist + x)]
      BY <1>1, <1>2, <3>3 DEF OldInv, Frontier, wrapCopy
    <3>5. Len(emitted) - rdPos - W + 1 + (W - dist + x)
            = Len(emitted) - rdPos + 1 + x - dist
      BY <1>1, <1>2, <3>1, SMTT(40) DEF TypeOK
    <3>6. QED
      BY <1>2, <3>1, <3>2, <3>4, <3>5
  <2>2. histSize' = W
    BY <1>2, <1>4 DEF histSize
  <2>3. wrPos + n < local.end => n = dist - wrPos
    BY <1>3
  <2>4. wrPos + n < local.end =>
          /\ 0 + dist <= wrPos + n
          /\ \A x \in (0 + dist)..(wrPos + n - 1) : hist'[x] = hist'[x - dist]
          /\ \A i \in 0..(dist - 1) : hist'[wrPos + n - dist + i] = hist'[0 + i]
    BY <1>1, <1>2, <1>3
  <2>5. dist \in 1..W /\ dist <= W /\ wrPos <= wrPos + n
        /\ wrPos + n <= local.end /\ local.end <= wrPos + local.length
    BY <1>1, <1>2, <1>3
  <2> HIDE DEF dist
  <2>6. \A x \in wrPos'..(local'.dst - 1) :
          /\ x >= local'.dist => hist'[x] = hist'[x - local'.dist]
          /\ x < local'.dist => hist'[x] = emitted'[Len(emitted') - rdPos' + 1 + x - local'.dist]
    <3>1. /\ wrPos' = wrPos /\ rdPos' = rdPos /\ emitted' = emitted
          /\ local'.dst = wrPos + n /\ local'.dist = dist
      BY <1>4, <1>5 DEF dist
    <3>2. ASSUME NEW x \in wrPos'..(local'.dst - 1)
          PROVE  /\ x >= local'.dist => hist'[x] = hist'[x - local'.dist]
                 /\ x < local'.dist =>
                      hist'[x] = emitted'[Len(emitted') - rdPos' + 1 + x - local'.dist]
      <4>1. x \in wrPos..(wrPos + n - 1)
        BY <1>1, <1>3, <3>1
      <4>2. /\ x >= dist => hist'[x] = hist'[x - dist]
            /\ x < dist => hist'[x] = emitted[Len(emitted) - rdPos + 1 + x - dist]
        BY <4>1, <2>1
      <4>3. QED
        BY <3>1, <4>2
    <3>3. QED
      BY <3>2
  <2>7. /\ wrPos' = wrPos /\ pc' = "loop"
        /\ local'.dst = wrPos + n /\ local'.src = 0 /\ local'.dist = dist
        /\ local'.end = local.end /\ local'.length = local.length
    BY <1>4, <1>5 DEF dist
  <2>8. QED
    BY <1>1, <1>3, <2>2, <2>4, <2>5, <2>6, <2>7 DEF LoopInv
<1>12. QED
  BY <1>7, <1>8, <1>9, <1>10, <1>11 DEF IInv

\* One chunk of the loop: copying hist[src..] again after a whole number of
\* periods continues the repetition.
LEMMA LoopIInv == IInv /\ loopCopy => IInv'
<1> SUFFICES ASSUME IInv, loopCopy PROVE IInv'
  OBVIOUS
<1> DEFINE dist == local.dist
           dst == local.dst
           src == local.src
           n == CopyLen(dst, local.end, src, dst)
<1>1. /\ TypeOK /\ RoundInv /\ OldInv /\ LoopInv
      /\ wrPos \in 0..W /\ rdPos \in 0..wrPos /\ W \in Nat
      /\ hist \in [Index -> Byte]
      /\ local.length \in Nat
      /\ dst \in 0..W /\ src \in 0..W /\ local.end \in 0..W
  BY WAssumption, BoundAssumption DEF IInv, TypeOK
<1>2. /\ dist \in 1..W /\ dist <= histSize
      /\ wrPos <= dst /\ dst < local.end
      /\ local.end <= wrPos + local.length
      /\ src + dist <= dst
  BY <1>1 DEF LoopInv, loopCopy
<1>3. /\ \A x \in wrPos..(dst - 1) :
           /\ x >= dist => hist[x] = hist[x - dist]
           /\ x < dist => hist[x] = emitted[Len(emitted) - rdPos + 1 + x - dist]
      /\ \A x \in (src + dist)..(dst - 1) : hist[x] = hist[x - dist]
      /\ \A i \in 0..(dist - 1) : hist[dst - dist + i] = hist[src + i]
  BY <1>1, <1>2 DEF LoopInv, loopCopy
<1>4. /\ n \in Nat
      /\ dst + n <= local.end
      /\ n <= dst - src
      /\ dst + n < local.end => n = dst - src
  BY <1>1, <1>2 DEF CopyLen, Minimum
<1>5. /\ hist' = Copied(dst, src, n)
      /\ local' = [local EXCEPT !.dst = dst + n]
      /\ pc = "loop" /\ pc' = "loop"
      /\ UNCHANGED <<wrPos, rdPos, flushed, full, emitted>>
  BY DEF loopCopy
<1> HIDE DEF n
<1>6. /\ local'.dst = dst + n /\ local'.src = src /\ local'.dist = dist
      /\ local'.end = local.end /\ local'.length = local.length
  BY <1>1, <1>5 DEF TypeOK
<1>7. /\ hist' \in [Index -> Byte]
      /\ \A i \in Index : i < dst \/ i >= dst + n => hist'[i] = hist[i]
      /\ \A i \in Index : dst <= i /\ i < dst + n => hist'[i] = hist[src + (i - dst)]
  <2>1. dst \in Nat /\ src \in Nat /\ dst + n <= W /\ src + n <= W
    BY <1>1, <1>2, <1>4
  <2> HIDE DEF dist, dst, src
  <2>2. QED
    BY <1>1, <1>4, <1>5, <2>1, CopiedValue
<1>8. TypeOK'
  <2>1. dst + n \in 0..W
    BY <1>1, <1>2, <1>4
  <2>2. local' \in [dist : 0..W, length : 0..MaxLength, dst : 0..W, src : 0..W,
                    end : 0..W]
    BY <1>1, <1>5, <2>1 DEF TypeOK
  <2>3. QED
    BY <1>1, <1>5, <1>7, <2>2 DEF TypeOK
<1>9. RoundInv'
  <2>1. \A x \in 0..(rdPos - 1) : x \in Index /\ x < dst
    BY <1>1, <1>2 DEF Index
  <2>2. QED
    BY <1>1, <1>5, <1>7, <2>1 DEF RoundInv
<1>10. OldInv'
  <2>1. \A x \in (dst + n)..(W - 1) :
          x \in Index /\ x \in dst..(W - 1) /\ hist'[x] = hist[x]
    BY <1>1, <1>4, <1>7 DEF Index
  <2>2. Frontier = dst /\ Frontier' = dst + n
    BY <1>5, <1>6 DEF Frontier
  <2>3. QED
    BY <1>1, <1>5, <2>1, <2>2 DEF OldInv
<1>11. WrapInv' /\ IdleInv'
  BY <1>5 DEF WrapInv, IdleInv
<1> HIDE DEF dist, dst, src
<1>12. \A x \in 0..(dst - 1) : x \in Index /\ hist'[x] = hist[x]
  BY <1>1, <1>7 DEF Index
<1>13. ASSUME NEW x \in dst..(dst + n - 1)
       PROVE  x >= dist /\ x - dist >= src /\ hist'[x] = hist'[x - dist]
  <2>1. x \in Index /\ x >= dist /\ x - dist \in Index /\ x \in Int /\ x - dist >= src
    BY <1>1, <1>2, <1>4 DEF Index
  <2>2. hist'[x] = hist[src + (x - dst)]
    <3>1. dst <= x /\ x < dst + n
      BY <1>1, <1>4
    <3>2. QED
      BY <1>7, <2>1, <3>1
  <2>3. CASE x - dst >= dist
    <3>1. hist'[x - dist] = hist[src + ((x - dist) - dst)]
      <4>1. dst <= x - dist /\ x - dist < dst + n
        BY <1>1, <1>2, <1>4, <2>1, <2>3
      <4>2. QED
        BY <1>7, <2>1, <4>1
    <3>2. src + (x - dst) \in (src + dist)..(dst - 1)
      BY <1>1, <1>2, <1>4, <2>1, <2>3
    <3>3. hist[src + (x - dst)] = hist[(src + (x - dst)) - dist]
      BY <1>3, <3>2
    <3>4. (src + (x - dst)) - dist = src + ((x - dist) - dst)
      BY <1>1, <1>2, <2>1
    <3>5. QED
      BY <2>1, <2>2, <3>1, <3>3, <3>4
  <2>4. CASE ~(x - dst >= dist)
    <3>1. hist'[x - dist] = hist[x - dist]
      BY <1>1, <1>2, <1>7, <2>1, <2>4
    <3>2. x - dst \in 0..(dist - 1)
      BY <1>1, <1>2, <2>1, <2>4
    <3>3. hist[dst - dist + (x - dst)] = hist[src + (x - dst)]
      BY <1>3, <3>2
    <3>4. dst - dist + (x - dst) = x - dist
      BY <1>1, <1>2, <2>1
    <3>5. QED
      BY <2>1, <2>2, <3>1, <3>3, <3>4
  <2>5. QED
    BY <2>3, <2>4
<1>14. ASSUME NEW x \in wrPos..(dst + n - 1)
       PROVE  /\ x >= dist => hist'[x] = hist'[x - dist]
              /\ x < dist => hist'[x] = emitted[Len(emitted) - rdPos + 1 + x - dist]
  <2>1. CASE x >= dst
    <3>1. x \in dst..(dst + n - 1) /\ x \in Int
      BY <1>1, <1>4, <2>1
    <3>2. x >= dist /\ hist'[x] = hist'[x - dist]
      BY <1>13, <3>1
    <3>3. ~(x < dist)
      BY <1>2, <3>1, <3>2
    <3>4. QED
      BY <3>2, <3>3
  <2>2. CASE ~(x >= dst)
    <3>1. x \in wrPos..(dst - 1) /\ x \in 0..(dst - 1)
      BY <1>1, <1>4, <2>2
    <3>2. CASE x >= dist
      <4>1. x - dist \in 0..(dst - 1)
        BY <1>1, <1>2, <3>1, <3>2
      <4>2. QED
        BY <1>3, <1>12, <3>1, <3>2, <4>1
    <3>3. CASE ~(x >= dist)
      BY <1>3, <1>12, <3>1, <3>3
    <3>4. QED
      BY <3>2, <3>3
  <2>3. QED
    BY <2>1, <2>2
<1>15. ASSUME dst + n < local.end
       PROVE  /\ src + dist <= dst + n
              /\ \A x \in (src + dist)..(dst + n - 1) : hist'[x] = hist'[x - dist]
              /\ \A i \in 0..(dist - 1) : hist'[dst + n - dist + i] = hist'[src + i]
  <2>1. n = dst - src
    BY <1>4, <1>15
  <2>2. src + dist <= dst + n
    BY <1>1, <1>2, <2>1
  <2>3. ASSUME NEW x \in (src + dist)..(dst + n - 1)
        PROVE  hist'[x] = hist'[x - dist]
    <3>1. CASE x >= dst
      BY <1>1, <1>13, <3>1, <1>2, <1>4
    <3>2. CASE ~(x >= dst)
      <4>1. /\ x \in (src + dist)..(dst - 1)
            /\ x \in 0..(dst - 1)
            /\ x - dist \in 0..(dst - 1)
        BY <1>1, <1>2, <1>4, <3>2
      <4>2. QED
        BY <1>3, <1>12, <4>1
    <3>3. QED
      BY <3>1, <3>2
  <2>4. ASSUME NEW i \in 0..(dist - 1)
        PROVE  hist'[dst + n - dist + i] = hist'[src + i]
    <3>1. /\ dst + n - dist + i \in Index
          /\ dst <= dst + n - dist + i
          /\ dst + n - dist + i < dst + n
      BY <1>1, <1>2, <1>4, <2>1 DEF Index
    <3>2. hist'[dst + n - dist + i] = hist[src + ((dst + n - dist + i) - dst)]
      BY <1>7, <3>1
    <3>3. src + ((dst + n - dist + i) - dst) = dst - dist + i
      BY <1>1, <1>2, <1>4, <2>1
    <3>4. hist[dst - dist + i] = hist[src + i]
      BY <1>3
    <3>5. src + i \in 0..(dst - 1)
      BY <1>1, <1>2
    <3>6. QED
      BY <1>12, <3>2, <3>3, <3>4, <3>5
  <2>5. QED
    BY <2>2, <2>3, <2>4
<1>16. LoopInv'
  <2>1. histSize' = histSize
    BY <1>5 DEF histSize
  <2>2. /\ dist \in 1..W /\ dist <= histSize /\ wrPos <= dst + n
        /\ dst + n <= local.end /\ local.end <= wrPos + local.length
    BY <1>1, <1>2, <1>4
  <2>3. \A x \in wrPos'..(local'.dst - 1) :
          /\ x >= local'.dist => hist'[x] = hist'[x - local'.dist]
          /\ x < local'.dist => hist'[x] = emitted'[Len(emitted') - rdPos' + 1 + x - local'.dist]
    <3>1. /\ wrPos' = wrPos /\ rdPos' = rdPos /\ emitted' = emitted
          /\ local'.dst = dst + n /\ local'.dist = dist
      BY <1>5, <1>6
    <3>2. ASSUME NEW x \in wrPos'..(local'.dst - 1)
          PROVE  /\ x >= local'.dist => hist'[x] = hist'[x - local'.dist]
                 /\ x < local'.dist =>
                      hist'[x] = emitted'[Len(emitted') - rdPos' + 1 + x - local'.dist]
      <4>1. x \in wrPos..(dst + n - 1)
        BY <1>1, <1>4, <3>1
      <4>2. /\ x >= dist => hist'[x] = hist'[x - dist]
            /\ x < dist => hist'[x] = emitted[Len(emitted) - rdPos + 1 + x - dist]
        BY <4>1, <1>14
      <4>3. QED
        BY <3>1, <4>2
    <3>3. QED
      BY <3>2
  <2>4. /\ wrPos' = wrPos /\ pc' = "loop"
        /\ local'.dst = dst + n /\ local'.src = src /\ local'.dist = dist
        /\ local'.end = local.end /\ local'.length = local.length
    BY <1>5, <1>6
  <2>5. QED
    BY <1>1, <1>2, <1>4, <1>15, <2>1, <2>2, <2>3, <2>4 DEF LoopInv
<1>17. QED
  BY <1>8, <1>9, <1>10, <1>11, <1>16 DEF IInv

\* The copy returns: the frontier becomes wrPos.
LEMMA EndCopyIInv == IInv /\ endCopy => IInv'
<1> SUFFICES ASSUME IInv, endCopy PROVE IInv'
  OBVIOUS
<1>1. /\ TypeOK /\ RoundInv /\ OldInv /\ LoopInv
      /\ wrPos \in 0..W /\ rdPos \in 0..wrPos /\ W \in Nat
      /\ local.dst \in 0..W /\ MaxLength \in Nat
  BY WAssumption, BoundAssumption DEF IInv, TypeOK
<1>2. /\ pc = "loop" /\ pc' = "idle" /\ wrPos' = local.dst /\ local' = NoLocal
      /\ UNCHANGED <<hist, rdPos, flushed, full, emitted>>
      /\ wrPos <= local.dst
  BY <1>1 DEF endCopy, LoopInv
<1>3. TypeOK'
  BY <1>1, <1>2 DEF TypeOK, NoLocal
<1>4. RoundInv'
  BY <1>1, <1>2 DEF RoundInv
<1>5. OldInv'
  BY <1>1, <1>2 DEF OldInv, Frontier
<1>6. WrapInv' /\ LoopInv' /\ IdleInv'
  BY <1>2 DEF WrapInv, LoopInv, IdleInv
<1>7. QED
  BY <1>3, <1>4, <1>5, <1>6 DEF IInv

\* The buffer, read as the end of the stream.
LEMMA StreamAt ==
  ASSUME TypeOK, RoundInv
  PROVE  /\ \A i \in 1..Len(emitted) : Stream[i] = emitted[i]
         /\ \A x \in 0..(wrPos - 1) : hist[x] = Stream[Len(emitted) - rdPos + 1 + x]
<1>1. /\ wrPos \in 0..W /\ rdPos \in 0..wrPos /\ W \in Nat /\ Len(emitted) \in Nat
      /\ Len(emitted) >= rdPos
      /\ full \in BOOLEAN
  BY WAssumption DEF TypeOK, RoundInv
<1>2. ASSUME NEW i \in 1..Len(emitted)
      PROVE  Stream[i] = emitted[i]
  BY <1>1 DEF Stream, availRead
<1>3. ASSUME NEW x \in 0..(wrPos - 1)
      PROVE  hist[x] = Stream[Len(emitted) - rdPos + 1 + x]
  <2> DEFINE i == Len(emitted) - rdPos + 1 + x
  <2>1. i \in 1..(Len(emitted) + (wrPos - rdPos)) /\ x \in Int
    BY <1>1
  <2>2. CASE x < rdPos
    <3>1. i <= Len(emitted) /\ x \in 0..(rdPos - 1)
      BY <1>1, <2>1, <2>2
    <3>2. hist[x] = emitted[i]
      BY <3>1 DEF RoundInv
    <3>3. QED
      BY <1>2, <2>1, <3>1, <3>2, <1>1
  <2>3. CASE ~(x < rdPos)
    <3>1. ~(i <= Len(emitted)) /\ rdPos + (i - Len(emitted)) - 1 = x
      BY <1>1, <2>1, <2>3
    <3>2. QED
      BY <2>1, <3>1 DEF Stream, availRead
  <2>4. QED
    BY <2>2, <2>3
<1>4. QED
  BY <1>2, <1>3

StreamPlaces ==
  /\ \A i \in 1..Len(emitted) : Stream[i] = emitted[i]
  /\ \A x \in 0..(wrPos - 1) : hist[x] = Stream[Len(emitted) - rdPos + 1 + x]

\* StreamAt for the current state, and for the next one.
LEMMA StreamAtNow == TypeOK /\ RoundInv => StreamPlaces
  BY StreamAt DEF StreamPlaces

\* The same in the next state.
LEMMA StreamAtNext == TypeOK' /\ RoundInv' => StreamPlaces'
  BY StreamAtNow, PTL

\* readFlush: what it emits is what the buffer held, and after a wrap the whole
\* buffer is the round before.
LEMMA FlushIInv == IInv /\ readFlush => IInv'
<1> SUFFICES ASSUME IInv, readFlush PROVE IInv'
  OBVIOUS
<1>1. /\ TypeOK /\ RoundInv /\ OldInv
      /\ wrPos \in 0..W /\ rdPos \in 0..wrPos /\ W \in Nat /\ Len(emitted) \in Nat
      /\ flushed \in Nat /\ full \in BOOLEAN
  BY WAssumption DEF IInv, TypeOK
<1>2. /\ pc = "idle" /\ emitted' = Stream /\ flushed' = flushed + (wrPos - rdPos)
      /\ UNCHANGED <<hist, pc, local>>
  BY DEF readFlush, idle, availRead
<1>3. /\ Stream \in Seq(Byte)
      /\ Len(Stream) = Len(emitted) + (wrPos - rdPos)
      /\ \A i \in 1..Len(emitted) : Stream[i] = emitted[i]
      /\ \A x \in 0..(wrPos - 1) : hist[x] = Stream[Len(emitted) - rdPos + 1 + x]
  BY <1>1, StreamType, StreamAt
<1>4. /\ full => Len(emitted) >= W + rdPos
      /\ ~full => Len(emitted) = rdPos
  BY <1>1 DEF RoundInv
<1>5. WrapInv' /\ LoopInv' /\ IdleInv'
  BY <1>2 DEF IInv, WrapInv, LoopInv, IdleInv
<1>6. CASE wrPos = W
  <2>1. wrPos' = 0 /\ rdPos' = 0 /\ full' = TRUE
    BY <1>6 DEF readFlush
  <2>2. TypeOK'
    BY <1>1, <1>2, <1>3, <2>1, SMTT(30) DEF TypeOK
  <2>3. RoundInv'
    BY <1>1, <1>2, <1>3, <1>4, <1>6, <2>1 DEF RoundInv
  <2>4. OldInv'
    <3>1. ASSUME NEW x \in 0..(W - 1)
          PROVE  hist'[x] = emitted'[Len(emitted') - rdPos' - W + 1 + x]
      <4>1. Len(emitted') - rdPos' - W + 1 + x = Len(emitted) - rdPos + 1 + x
        BY <1>1, <1>2, <1>3, <1>6, <2>1
      <4>2. QED
        BY <1>1, <1>2, <1>3, <1>6, <4>1
    <3>2. Frontier' = 0
      BY <1>2, <2>1 DEF Frontier
    <3>3. QED
      BY <3>1, <3>2 DEF OldInv
  <2>5. QED
    BY <1>5, <2>2, <2>3, <2>4 DEF IInv
<1>7. CASE wrPos # W
  <2>1. wrPos' = wrPos /\ rdPos' = wrPos /\ full' = full
    BY <1>7 DEF readFlush
  <2>2. TypeOK'
    BY <1>1, <1>2, <1>3, <2>1 DEF TypeOK
  <2>3. RoundInv'
    <3>1. ASSUME NEW x \in 0..(wrPos - 1)
          PROVE  hist'[x] = emitted'[Len(emitted') - rdPos' + 1 + x]
      <4>1. Len(emitted') - rdPos' + 1 + x = Len(emitted) - rdPos + 1 + x
        BY <1>1, <1>2, <1>3, <2>1
      <4>2. QED
        BY <1>2, <1>3, <4>1
    <3>2. /\ full' => Len(emitted') >= W + rdPos'
          /\ ~full' => Len(emitted') = rdPos'
      BY <1>1, <1>2, <1>3, <1>4, <2>1
    <3>3. QED
      BY <1>1, <2>1, <3>1, <3>2 DEF RoundInv
  <2>4. OldInv'
    <3>1. ASSUME full, NEW x \in wrPos..(W - 1)
          PROVE  hist'[x] = emitted'[Len(emitted') - rdPos' - W + 1 + x]
      <4>1. Len(emitted') - rdPos' - W + 1 + x = Len(emitted) - rdPos - W + 1 + x
        BY <1>1, <1>2, <1>3, <2>1
      <4>2. Len(emitted) - rdPos - W + 1 + x \in 1..Len(emitted)
        BY <1>1, <1>4, <3>1
      <4>3. hist[x] = emitted[Len(emitted) - rdPos - W + 1 + x]
        BY <1>1, <1>2, <3>1 DEF OldInv, Frontier
      <4>4. QED
        BY <1>2, <1>3, <4>1, <4>2, <4>3
    <3>2. Frontier' = wrPos
      BY <1>2, <2>1 DEF Frontier
    <3>3. QED
      BY <2>1, <3>1, <3>2 DEF OldInv
  <2>5. QED
    BY <1>5, <2>2, <2>3, <2>4 DEF IInv
<1>8. QED
  BY <1>6, <1>7

\* Fresh => IInv in the next state: init puts the decoder in a Fresh state.
LEMMA FreshIInvNext == Fresh' => IInv'
  BY FreshIInv, PTL

\* Every step preserves IInv, action by action.
LEMMA NextIInv == IInv /\ [Next]_vars => IInv'
<1> SUFFICES ASSUME IInv, [Next]_vars PROVE IInv'
  OBVIOUS
<1>1. ASSUME NEW dict \in Dictionaries, init(dict) PROVE IInv'
  <2>1. hist \in [Index -> Byte] /\ pc = "idle" /\ local = NoLocal
    BY <1>1 DEF IInv, TypeOK, IdleInv, init, idle
  <2>2. Fresh'
    BY <1>1, <2>1 DEF Fresh, init
  <2>3. QED
    BY <2>2, FreshIInvNext
<1>2. CASE UNCHANGED vars
  BY <1>2 DEF vars, IInv, TypeOK, RoundInv, OldInv, WrapInv, LoopInv, IdleInv,
              Frontier, histSize
<1>3. QED
  BY <1>1, <1>2, WriteIInv, BeginCopyIInv, WrapIInv, LoopIInv, EndCopyIInv,
     FlushIInv DEF Next

\* IInv holds throughout every behaviour.
LEMMA AlwaysIInv == Spec => []IInv
  BY InitFresh, FreshIInv, NextIInv, PTL DEF Spec

-----------------------------------------------------------------------------
(* The theorems.                                                           *)

\* The documented invariant of dictDecoder, 0 <= rdPos <= wrPos <= len(hist),
\* and the types of its fields hold after every sequence of calls that keeps
\* the preconditions, for every window size.
THEOREM TypeCorrect == Spec => []TypeOK
  BY AlwaysIInv, PTL DEF IInv

\* What a copy or a checkpoint reads as history is the end of the stream, for
\* every window size and every sequence of writes, copies and flushes: no
\* stale byte of an earlier round, or of before init, is ever part of it.
THEOREM WindowCorrect == Spec => []WindowIntact
<1>1. IInv => WindowIntact
  <2> SUFFICES ASSUME IInv, idle
               PROVE  /\ histSize = Minimum(W, Len(Stream))
                      /\ appendWindow = [i \in 1..histSize |->
                                           Stream[Len(Stream) - histSize + i]]
    BY DEF WindowIntact
  <2>1. /\ TypeOK /\ RoundInv /\ OldInv
        /\ wrPos \in 0..W /\ rdPos \in 0..wrPos /\ W \in Nat /\ Len(emitted) \in Nat
        /\ full \in BOOLEAN
    BY WAssumption DEF IInv, TypeOK
  <2>2. /\ Len(Stream) = Len(emitted) + (wrPos - rdPos)
        /\ \A i \in 1..Len(emitted) : Stream[i] = emitted[i]
        /\ \A x \in 0..(wrPos - 1) : hist[x] = Stream[Len(emitted) - rdPos + 1 + x]
    BY <2>1, StreamType, StreamAt
  <2>3. CASE full
    <3>1. Len(emitted) >= W + rdPos /\ histSize = W
      BY <2>1, <2>3 DEF RoundInv, histSize
    <3>2. W = Minimum(W, Len(Stream))
      BY <2>1, <2>2, <3>1 DEF Minimum
    <3>3. ASSUME NEW i \in 1..W, i <= W - wrPos
          PROVE  hist[wrPos + i - 1] = Stream[Len(Stream) - W + i]
      <4>1. wrPos + i - 1 \in wrPos..(W - 1)
        BY <2>1, <3>3
      <4>2. hist[wrPos + i - 1] = emitted[Len(emitted) - rdPos - W + 1 + (wrPos + i - 1)]
        BY <2>3, <2>1, <4>1 DEF OldInv, Frontier, idle
      <4>3. /\ Len(emitted) - rdPos - W + 1 + (wrPos + i - 1) = Len(Stream) - W + i
            /\ Len(Stream) - W + i \in 1..Len(emitted)
        BY <2>1, <2>2, <3>1, <3>3
      <4>4. QED
        BY <2>2, <4>2, <4>3
    <3>4. ASSUME NEW i \in 1..W, ~(i <= W - wrPos)
          PROVE  hist[i - (W - wrPos) - 1] = Stream[Len(Stream) - W + i]
      <4>1. /\ i - (W - wrPos) - 1 \in 0..(wrPos - 1)
            /\ Len(emitted) - rdPos + 1 + (i - (W - wrPos) - 1) = Len(Stream) - W + i
        BY <2>1, <2>2, <3>4
      <4>2. QED
        BY <2>2, <4>1
    <3>5. appendWindow = [i \in 1..W |-> Stream[Len(Stream) - W + i]]
      BY <2>3, <3>3, <3>4 DEF appendWindow
    <3>6. QED
      BY <3>1, <3>2, <3>5
  <2>4. CASE ~full
    <3>1. Len(emitted) = rdPos /\ histSize = wrPos
      BY <2>1, <2>4 DEF RoundInv, histSize
    <3>2. wrPos = Minimum(W, Len(Stream)) /\ Len(Stream) = wrPos
      BY <2>1, <2>2, <3>1 DEF Minimum
    <3>3. ASSUME NEW i \in 1..wrPos
          PROVE  hist[i - 1] = Stream[Len(Stream) - wrPos + i]
      <4>1. /\ i - 1 \in 0..(wrPos - 1)
            /\ Len(emitted) - rdPos + 1 + (i - 1) = Len(Stream) - wrPos + i
        BY <2>1, <3>1, <3>2
      <4>2. QED
        BY <2>2, <4>1
    <3>4. appendWindow = [i \in 1..wrPos |-> Stream[Len(Stream) - wrPos + i]]
      BY <2>4, <3>3 DEF appendWindow
    <3>5. QED
      BY <3>1, <3>2, <3>4
  <2>5. QED
    BY <2>3, <2>4
<1>2. QED
  BY <1>1, AlwaysIInv, PTL

-----------------------------------------------------------------------------
(* The refinement of LZ77, action by action.                               *)

StreamLength == Len(Stream) = Len(emitted) + (wrPos - rdPos)

\* The length of the stream in the current state.
LEMMA StreamLengthNow == TypeOK => StreamLength
  BY StreamType DEF StreamLength

\* The same in the next state.
LEMMA StreamLengthNext == TypeOK' => StreamLength'
  BY StreamLengthNow, PTL

\* A write that leaves hist[0..wrPos-1] alone and moves wrPos makes the stream
\* grow by as many bytes.
LEMMA GrowsStream ==
  ASSUME IInv, IInv', wrPos' \in wrPos..W,
         \A x \in 0..(wrPos - 1) : hist'[x] = hist[x],
         UNCHANGED <<rdPos, emitted>>
  PROVE  LZ!Grows(wrPos' - wrPos)
<1>1. /\ TypeOK /\ TypeOK'
      /\ wrPos \in 0..W /\ rdPos \in 0..wrPos /\ W \in Nat /\ Len(emitted) \in Nat
  BY WAssumption DEF IInv, TypeOK
<1>2. Len(Stream) = Len(emitted) + (wrPos - rdPos)
  BY <1>1, StreamType
<1>3. Len(Stream') = Len(emitted') + (wrPos' - rdPos')
  BY <1>1, StreamLengthNext DEF StreamLength
<1>4. ASSUME NEW i \in 1..Len(Stream) PROVE Stream'[i] = Stream[i]
  <2>1. i \in 1..(Len(emitted) + (wrPos - rdPos))
        /\ i \in 1..(Len(emitted) + (wrPos' - rdPos))
    BY <1>1, <1>2
  <2>2. CASE i <= Len(emitted)
    BY <2>1, <2>2 DEF Stream, availRead
  <2>3. CASE ~(i <= Len(emitted))
    <3>1. rdPos + (i - Len(emitted)) - 1 \in 0..(wrPos - 1)
      BY <1>1, <2>1, <2>3
    <3>2. QED
      BY <2>1, <2>3, <3>1 DEF Stream, availRead
  <2>4. QED
    BY <2>2, <2>3
<1>5. QED
  BY <1>1, <1>2, <1>3, <1>4 DEF LZ!Grows

\* endCopy, with the repetition the loop left in hist[wrPos..dst-1], is the
\* abstract copy.
LEMMA EndCopyRefines ==
  ASSUME IInv, IInv', endCopy
  PROVE  LZ!EndCopy
<1>1. /\ TypeOK /\ RoundInv /\ OldInv /\ LoopInv
      /\ wrPos \in 0..W /\ rdPos \in 0..wrPos /\ W \in Nat /\ Len(emitted) \in Nat
      /\ local.dst \in 0..W /\ local.length \in Nat /\ local.end \in 0..W
      /\ TypeOK' /\ RoundInv' /\ full \in BOOLEAN
  BY WAssumption, BoundAssumption, SMTT(40) DEF IInv, TypeOK
<1>2. /\ pc = "loop" /\ wrPos' = local.dst /\ local' = NoLocal
      /\ UNCHANGED <<hist, rdPos, flushed, full, emitted>>
      /\ wrPos <= local.dst /\ local.dst = local.end
      /\ local.dst <= wrPos + local.length
      /\ local.dist \in 1..W
  BY <1>1 DEF endCopy, LoopInv
<1>3. LZ!Grows(wrPos' - wrPos) /\ wrPos' - wrPos \in 0..local.length
  BY <1>1, <1>2, GrowsStream
<1>4. /\ Len(Stream) = Len(emitted) + (wrPos - rdPos)
      /\ Len(Stream') = Len(emitted) + (local.dst - rdPos)
  BY <1>1, <1>2, StreamLengthNow, StreamLengthNext DEF StreamLength
<1>5. /\ \A i \in 1..Len(emitted) : Stream'[i] = emitted[i]
      /\ \A x \in 0..(local.dst - 1) : hist[x] = Stream'[Len(emitted) - rdPos + 1 + x]
  BY <1>1, <1>2, StreamAtNext DEF StreamPlaces
<1>6. ASSUME NEW i \in (Len(Stream) + 1)..Len(Stream')
      PROVE  Stream'[i] = Stream'[i - local.dist]
  <2> DEFINE x == i - (Len(emitted) - rdPos + 1)
             dist == local.dist
  <2>1. /\ x \in wrPos..(local.dst - 1) /\ x \in 0..(local.dst - 1)
        /\ Len(emitted) - rdPos + 1 + x = i
        /\ x \in Int /\ i \in Int /\ dist \in Int
    <3>1. i \in (Len(emitted) + (wrPos - rdPos) + 1)..(Len(emitted) + (local.dst - rdPos))
      BY <1>4
    <3>2. i \in Int
      BY <1>1, <3>1
    <3>3. QED
      BY <1>1, <1>2, <3>1, <3>2, SMTT(40)
  <2> HIDE DEF x, dist
  <2>2. hist[x] = Stream'[i]
    BY <1>5, <2>1
  <2>3. /\ x >= dist => hist[x] = hist[x - dist]
        /\ x < dist => hist[x] = emitted[Len(emitted) - rdPos + 1 + x - dist]
        /\ dist \in 1..W
    BY <1>1, <1>2, <2>1 DEF LoopInv, dist
  <2>4. CASE x >= dist
    <3>1. /\ x - dist \in 0..(local.dst - 1)
          /\ Len(emitted) - rdPos + 1 + (x - dist) = i - dist
      BY <1>1, <2>1, <2>3, <2>4
    <3>2. QED
      BY <1>5, <2>2, <2>3, <2>4, <3>1 DEF dist
  <2>5. CASE x < dist
    <3>1. dist <= histSize /\ wrPos < dist
      BY <1>1, <1>2, <2>1, <2>5 DEF LoopInv, dist
    <3>2. Len(emitted) >= W + rdPos
      BY <1>1, <2>3, <3>1 DEF histSize, RoundInv
    <3>3. /\ Len(emitted) - rdPos + 1 + x - dist = i - dist
          /\ i - dist \in 1..Len(emitted)
      BY <1>1, <2>1, <2>3, <2>5, <3>2
    <3>4. QED
      BY <1>5, <2>2, <2>3, <2>5, <3>3 DEF dist
  <2>6. QED
    BY <2>1, <2>4, <2>5 DEF dist
<1>7. [dist |-> local.dist, length |-> local.length] # LZ!NoPair
  BY <1>2 DEF LZ!NoPair
<1>8. [dist |-> local.dist, length |-> local.length]' = LZ!NoPair
  BY <1>2 DEF LZ!NoPair, NoLocal
<1>9. QED
  BY <1>3, <1>6, <1>7, <1>8 DEF LZ!EndCopy

\* Steps that leave what lies before wrPos alone leave the stream alone.
LEMMA SameStream ==
  ASSUME TypeOK, \A x \in 0..(wrPos - 1) : hist'[x] = hist[x],
         UNCHANGED <<wrPos, rdPos, emitted>>
  PROVE  Stream' = Stream
<1>1. wrPos \in 0..W /\ rdPos \in 0..wrPos /\ W \in Nat /\ Len(emitted) \in Nat
  BY WAssumption DEF TypeOK
<1>2. ASSUME NEW i \in 1..(Len(emitted) + (wrPos - rdPos)), ~(i <= Len(emitted))
      PROVE  hist'[rdPos + (i - Len(emitted)) - 1] = hist[rdPos + (i - Len(emitted)) - 1]
  <2>1. rdPos + (i - Len(emitted)) - 1 \in 0..(wrPos - 1)
    BY <1>1, <1>2
  <2>2. QED
    BY <2>1
<1>3. QED
  BY <1>2 DEF Stream, availRead

\* With nothing waiting, the stream is what was emitted.
Drained == Stream = emitted
NothingWaits == rdPos = wrPos

\* When nothing waits (after init and readFlush) the stream is what was emitted.
LEMMA DrainedNow == TypeOK /\ NothingWaits => Drained
<1> SUFFICES ASSUME TypeOK, rdPos = wrPos PROVE Stream = emitted
  BY DEF Drained, NothingWaits
<1>1. emitted \in Seq(Byte) /\ wrPos \in 0..W /\ W \in Nat
  BY WAssumption DEF TypeOK
<1>2. Stream = [i \in 1..Len(emitted) |-> emitted[i]]
  BY <1>1 DEF Stream, availRead
<1>3. QED
  BY <1>1, <1>2

\* The same in the next state.
LEMMA DrainedNext == TypeOK' /\ NothingWaits' => Drained'
  BY DrainedNow, PTL

\* A copy in progress leaves everything before wrPos alone.
LEMMA CopyKeepsHistory ==
  ASSUME IInv, wrapCopy \/ loopCopy
  PROVE  /\ \A x \in 0..(wrPos - 1) : hist'[x] = hist[x]
         /\ UNCHANGED <<wrPos, rdPos, emitted>>
         /\ local'.dist = local.dist /\ local'.length = local.length
<1>1. /\ TypeOK
      /\ wrPos \in 0..W /\ W \in Nat /\ local.dst \in 0..W
      /\ local.dst >= wrPos
  BY WAssumption DEF IInv, TypeOK, WrapInv, LoopInv, wrapCopy, loopCopy
<1>2. PICK n : hist' = Copied(local.dst, local.src, n)
  BY DEF wrapCopy, loopCopy
<1>3. ASSUME NEW x \in 0..(wrPos - 1)
      PROVE  hist'[x] = hist[x]
  <2>1. x \in Index /\ x \notin local.dst..(local.dst + n - 1)
    BY <1>1 DEF Index
  <2>2. QED
    BY <1>2, <2>1 DEF Copied
<1>4. QED
  BY <1>1, <1>3 DEF wrapCopy, loopCopy, TypeOK

\* Every step of the ring buffer is a step of the LZ77 stream or a stutter.
LEMMA StepRefines ==
  ASSUME IInv, IInv', [Next]_vars
  PROVE  [LZ!LZNext]_(LZ!lzVars)
<1> DEFINE pair == [dist |-> local.dist, length |-> local.length]
<1>1. /\ TypeOK /\ TypeOK' /\ RoundInv /\ IdleInv
      /\ wrPos \in 0..W /\ rdPos \in 0..wrPos /\ W \in Nat /\ Len(emitted) \in Nat
      /\ full \in BOOLEAN /\ hist \in [Index -> Byte]
  BY WAssumption, SMTT(40) DEF IInv, TypeOK
<1>2. pc = "idle" => pair = LZ!NoPair
  BY <1>1 DEF IdleInv, NoLocal, LZ!NoPair
<1>3. Len(Stream) = Len(emitted) + (wrPos - rdPos)
  BY <1>1, StreamLengthNow DEF StreamLength
<1>4. ASSUME NEW dict \in Dictionaries, init(dict) PROVE LZ!Restart
  <2>1. /\ pc = "idle" /\ local' = local
        /\ emitted' = Tail_(dict) /\ rdPos' = wrPos'
    BY <1>4 DEF init, idle
  <2>2. Stream' = emitted'
    BY <1>1, <2>1, DrainedNext DEF Drained, NothingWaits
  <2>3. emitted' = LZ!LastW(dict)
    BY <2>1, TailType
  <2>4. pair' = pair
    BY <2>1
  <2>5. QED
    BY <1>2, <2>1, <2>2, <2>3, <2>4 DEF LZ!Restart
<1>5. ASSUME NEW c \in Byte, writeByte(c) PROVE LZ!Literals
  <2>1. /\ pc = "idle" /\ local' = local /\ wrPos' = wrPos + 1 /\ wrPos < W
        /\ UNCHANGED <<rdPos, emitted>>
        /\ hist' = [hist EXCEPT ![wrPos] = c]
    BY <1>1, <1>5 DEF writeByte, idle, availWrite
  <2>2. \A x \in 0..(wrPos - 1) : hist'[x] = hist[x]
    BY <1>1, <2>1 DEF Index
  <2>3. LZ!Grows(wrPos' - wrPos)
    BY <1>1, <2>1, <2>2, GrowsStream
  <2>4. wrPos' - wrPos \in 1..W /\ pair' = pair
    BY <1>1, <2>1
  <2>5. QED
    BY <1>2, <2>1, <2>3, <2>4 DEF LZ!Literals
<1>6. ASSUME NEW bs \in Slices, writeMark(bs) PROVE LZ!Literals
  <2>1. PICK n \in 1..W : bs \in [1..n -> Byte]
    BY DEF Slices
  <2>2. Len(bs) = n
    BY <2>1, <1>1
  <2>3. /\ pc = "idle" /\ local' = local /\ wrPos' = wrPos + n /\ n \in 1..(W - wrPos)
        /\ UNCHANGED <<rdPos, emitted>>
        /\ hist' = [i \in Index |-> IF i \in wrPos..(wrPos + n - 1)
                                    THEN bs[(i - wrPos) + 1] ELSE hist[i]]
    BY <1>6, <2>2 DEF writeMark, idle, availWrite
  <2>4. \A x \in 0..(wrPos - 1) : x \in Index /\ x \notin wrPos..(wrPos + n - 1)
    BY <1>1, <2>1 DEF Index
  <2>5. \A x \in 0..(wrPos - 1) : hist'[x] = hist[x]
    BY <2>3, <2>4
  <2>6. wrPos' \in wrPos..W /\ wrPos' - wrPos \in 1..W
    BY <1>1, <2>1, <2>3
  <2>7. LZ!Grows(wrPos' - wrPos)
    BY <2>3, <2>5, <2>6, GrowsStream
  <2>8. pair' = pair
    BY <2>3
  <2>9. QED
    BY <1>2, <2>3, <2>6, <2>7, <2>8 DEF LZ!Literals
<1>7. ASSUME NEW dist \in 1..W, NEW length \in 0..MaxLength,
             writeCopy(dist, length) \/ tryWriteCopy(dist, length)
      PROVE  LZ!BeginCopy
  <2>1. /\ pc = "idle" /\ UNCHANGED <<hist, wrPos, rdPos, emitted>>
        /\ dist <= histSize
        /\ local'.dist = dist
    BY <1>1, <1>7 DEF writeCopy, tryWriteCopy, idle, dd, histSize
  <2>2. Stream' = Stream
    BY <1>1, <2>1, SameStream
  <2>3. dist <= Len(Stream)
    BY <1>1, <1>3, <2>1 DEF histSize, RoundInv
  <2>4. pair'.dist = dist
    BY <2>1
  <2>5. QED
    BY <1>2, <2>1, <2>2, <2>3, <2>4 DEF LZ!BeginCopy
<1>8. ASSUME wrapCopy \/ loopCopy PROVE UNCHANGED LZ!lzVars
  <2>1. Stream' = Stream /\ emitted' = emitted
    BY <1>1, <1>8, CopyKeepsHistory, SameStream
  <2>2. pair' = pair
    BY <1>8, CopyKeepsHistory
  <2>3. QED
    BY <2>1, <2>2 DEF LZ!lzVars
<1>9. ASSUME endCopy PROVE LZ!EndCopy
  BY <1>9, EndCopyRefines
<1>10. ASSUME readFlush PROVE LZ!Deliver
  <2>1. /\ pc = "idle" /\ emitted' = Stream /\ rdPos' = wrPos' /\ local' = local
    BY <1>10 DEF readFlush, idle
  <2>2. Stream' = Stream
    BY <1>1, <2>1, DrainedNext DEF Drained, NothingWaits
  <2>3. pair' = pair
    BY <2>1
  <2>4. QED
    BY <1>2, <2>1, <2>2, <2>3 DEF LZ!Deliver
<1>11. ASSUME UNCHANGED vars PROVE UNCHANGED LZ!lzVars
  BY <1>11 DEF vars, LZ!lzVars, Stream, availRead
<1>12. QED
  BY <1>4, <1>5, <1>6, <1>7, <1>8, <1>9, <1>10, <1>11 DEF Next, LZ!LZNext

\* The ring buffer implements the unbounded LZ77 stream, for every window
\* size: decoded bytes are delivered once, in order and unaltered, and a copy
\* of any distance and length reproduces the bytes dist before, whether it
\* wraps around the buffer, overlaps itself or is cut short by its end.
THEOREM ImplementsLZ77 == Spec => RefinesLZ77
<1>1. Init => LZ!LZInit
  <2> SUFFICES ASSUME Init PROVE LZ!LZInit
    OBVIOUS
  <2>1. TypeOK
    BY InitFresh, FreshIInv DEF IInv
  <2>2. PICK dict \in Dictionaries : emitted = Tail_(dict) /\ rdPos = wrPos
                                     /\ local = NoLocal
    BY DEF Init
  <2>3. Stream = emitted /\ emitted = LZ!LastW(dict)
    BY <2>1, <2>2, DrainedNow, TailType DEF Drained, NothingWaits
  <2>4. QED
    BY <2>2, <2>3 DEF LZ!LZInit, LZ!NoPair, NoLocal
<1>2. IInv /\ IInv' /\ [Next]_vars => [LZ!LZNext]_(LZ!lzVars)
  BY StepRefines
<1>3. QED
  BY <1>1, <1>2, AlwaysIInv, PTL DEF Spec, RefinesLZ77, LZ!LZSpec

-----------------------------------------------------------------------------
(* Huffman codes: numbers and recursions.                                  *)

\* The order on the natural numbers.
Smaller == OpToRel(<, Nat)

\* Every set of natural numbers that is not empty has a least one.
LEMMA LeastNat ==
  ASSUME NEW T \in SUBSET Nat, T # {}
  PROVE  \E x \in T : \A y \in T : x <= y
<1>1. IsWellFoundedOn(Smaller, Nat)
  BY NatLessThanWellFounded DEF Smaller
<1>2. Smaller = {ss \in Nat \X Nat : ss[1] < ss[2]}
  BY DEF Smaller, OpToRel
<1>3. PICK x \in T : \A y \in T : ~(<<y, x>> \in Smaller)
  BY <1>1, WFMin
<1>4. ASSUME NEW y \in T PROVE x <= y
  <2>1. x \in Nat /\ y \in Nat
    OBVIOUS
  <2>2. ~(<<y, x>> \in {ss \in Nat \X Nat : ss[1] < ss[2]})
    BY <1>2, <1>3
  <2>3. QED
    BY <2>1, <2>2
<1>5. QED
  BY <1>4

\* Induction up to n, for a set.
LEMMA UpTo ==
  ASSUME NEW n \in Nat, NEW P, 0 \in P, \A k \in 1..n : k - 1 \in P => k \in P
  PROVE  \A k \in 0..n : k \in P
<1> DEFINE T == {k \in 0..n : k \notin P}
<1>1. SUFFICES ASSUME T # {} PROVE FALSE
  OBVIOUS
<1>2. T \in SUBSET Nat
  OBVIOUS
<1>3. PICK x \in T : \A y \in T : x <= y
  BY <1>1, <1>2, LeastNat
<1>4. x \in 1..n /\ x \notin P
  BY <1>3
<1>5. x - 1 \in 0..n /\ x - 1 < x
  BY <1>4
<1>6. x - 1 \notin T
  <2>1. x - 1 \in T => x <= x - 1
    BY <1>3
  <2>2. QED
    BY <2>1, <1>5, <1>4
<1>7. x - 1 \in P
  BY <1>5, <1>6
<1>8. QED
  BY <1>4, <1>7

\* Steps on a set, the values a recursion takes in it, and what makes it one.
StepsOn(n, S) == [1..n -> [S -> S]]
ValuesIn(n, S) == [0..n -> S]
Solves(g, n, x, F) == \A k \in 0..n : g[k] = IF k = 0 THEN x ELSE F[k][g[k - 1]]

\* A recursion over the numbers up to n, whose values stay in a set, has a solution.
LEMMA Recursion ==
  ASSUME NEW n \in Nat, NEW S, NEW x \in S, NEW F \in StepsOn(n, S)
  PROVE  \E g \in ValuesIn(n, S) : Solves(g, n, x, F)
<1> USE DEF StepsOn, ValuesIn, Solves
<1> DEFINE Sol(g, m) == \A k \in 0..m : g[k] = IF k = 0 THEN x ELSE F[k][g[k - 1]]
           P == {m \in 0..n : \E g \in [0..m -> S] : Sol(g, m)}
<1>1. 0 \in P
  <2>1. [k \in 0..0 |-> x] \in [0..0 -> S] /\ Sol([k \in 0..0 |-> x], 0)
    OBVIOUS
  <2> HIDE DEF Sol
  <2>2. QED
    BY <2>1
<1>2. ASSUME NEW m \in 1..n, m - 1 \in P PROVE m \in P
  <2>1. PICK g \in [0..(m - 1) -> S] : Sol(g, m - 1)
    BY <1>2
  <2>2. g[m - 1] \in S /\ F[m] \in [S -> S]
    OBVIOUS
  <2> DEFINE h == [k \in 0..m |-> IF k = m THEN F[m][g[m - 1]] ELSE g[k]]
  <2>3. h \in [0..m -> S]
    <3> SUFFICES ASSUME NEW k \in 0..m PROVE h[k] \in S
      OBVIOUS
    <3>1. CASE k = m
      BY <2>2, <3>1
    <3>2. CASE k # m
      BY <3>2
    <3>3. QED
      BY <3>1, <3>2
  <2>4. Sol(h, m)
    <3> SUFFICES ASSUME NEW k \in 0..m PROVE h[k] = IF k = 0 THEN x ELSE F[k][h[k - 1]]
      OBVIOUS
    <3>1. CASE k = m
      <4>1. h[m - 1] = g[m - 1] /\ m # 0
        OBVIOUS
      <4>2. QED
        BY <3>1, <4>1
    <3>2. CASE k # m
      <4>1. k \in 0..(m - 1) /\ h[k] = g[k] /\ (k # 0 => k - 1 \in 0..m /\ k - 1 # m)
        BY <3>2
      <4>2. k # 0 => h[k - 1] = g[k - 1]
        BY <4>1
      <4>3. QED
        BY <2>1, <4>1, <4>2
    <3>3. QED
      BY <3>1, <3>2
  <2> HIDE DEF Sol, h
  <2>5. QED
    BY <2>3, <2>4
<1>3. n \in P
  <2> HIDE DEF P
  <2>1. \A k \in 1..n : k - 1 \in P => k \in P
    BY <1>2
  <2>2. \A k \in 0..n : k \in P
    BY ONLY n \in Nat, <1>1, <2>1, UpTo
  <2>3. QED
    BY <2>2
<1>4. QED
  BY <1>3

-----------------------------------------------------------------------------
(* The order of the symbols.                                               *)

\* Frequencies of symbols of an alphabet.
Freqs(n) == UNION {[S -> Nat \ {0}] : S \in SUBSET (0..(n - 1))}

\* The symbols that occur are finitely many.
LEMMA SymbolsFinite ==
  ASSUME NEW n \in Nat, NEW freq \in Freqs(n)
  PROVE  /\ DOMAIN freq \in SUBSET (0..(n - 1)) /\ freq \in [DOMAIN freq -> Nat \ {0}]
         /\ IsFiniteSet(DOMAIN freq) /\ Cardinality(DOMAIN freq) \in Nat
<1>1. DOMAIN freq \in SUBSET (0..(n - 1)) /\ freq \in [DOMAIN freq -> Nat \ {0}]
  BY DEF Freqs
<1>2. IsFiniteSet(0..(n - 1))
  BY FS_Interval
<1>3. IsFiniteSet(DOMAIN freq)
  BY <1>1, <1>2, FS_Subset
<1>4. QED
  BY <1>1, <1>3, FS_CardinalityType

\* It is an order: of two symbols one is first, and who is before the first is before
\* the second.
LEMMA SortOrder ==
  ASSUME NEW n \in Nat, NEW freq \in Freqs(n)
  PROVE  LET S == DOMAIN freq
             lt(t, s) == sortsFirst(freq, n, t, s)
         IN /\ \A s \in S : ~lt(s, s)
            /\ \A s, t \in S : s # t => lt(s, t) \/ lt(t, s)
            /\ \A r, s, t \in S : lt(r, s) /\ lt(s, t) => lt(r, t)
            /\ \A s, t \in S : freq[s] < freq[t] => lt(s, t)
<1> USE DEF sortsFirst
<1>1. /\ DOMAIN freq \in SUBSET Int /\ \A s \in DOMAIN freq : freq[s] \in Nat
      /\ n \in Int
  BY SymbolsFinite
<1> DEFINE S == DOMAIN freq
<1>2. \A s, t \in S : freq[s] < freq[t] => sortsFirst(freq, n, s, t)
  BY <1>1
<1>3. \A s, t \in S : sortsFirst(freq, n, s, t) <=> freq[s] < freq[t] \/ (freq[s] = freq[t] /\ s < t)
  BY <1>1
<1>4. QED
  BY ONLY <1>1, <1>2, <1>3

\* Every symbol has a place of its own among them, and every place a symbol.
LEMMA Places ==
  ASSUME NEW n \in Nat, NEW freq \in Freqs(n)
  PROVE  LET S == DOMAIN freq
             at(s) == place(freq, n, s)
         IN /\ \A s \in S : at(s) \in 1..Cardinality(S)
            /\ \A s, t \in S : at(s) = at(t) => s = t
            /\ \A s, t \in S : freq[s] < freq[t] => at(s) < at(t)
            /\ \A i \in 1..Cardinality(S) : \E s \in S : at(s) = i
<1> DEFINE S == DOMAIN freq
           lt(t, s) == sortsFirst(freq, n, t, s)
           B(s) == {t \in S : lt(t, s)}
           m == Cardinality(S)
<1>1. /\ \A s \in S : ~lt(s, s)
      /\ \A s, t \in S : s # t => lt(s, t) \/ lt(t, s)
      /\ \A r, s, t \in S : lt(r, s) /\ lt(s, t) => lt(r, t)
      /\ \A s, t \in S : freq[s] < freq[t] => lt(s, t)
  BY SortOrder
<1>2. IsFiniteSet(S) /\ m \in Nat
  BY SymbolsFinite
<1>3. \A s \in S : place(freq, n, s) = Cardinality(B(s)) + 1
  BY DEF place
<1> HIDE DEF lt
<1>4. \A s \in S : IsFiniteSet(B(s)) /\ Cardinality(B(s)) \in Nat
  <2> SUFFICES ASSUME NEW s \in S PROVE IsFiniteSet(B(s)) /\ Cardinality(B(s)) \in Nat
    OBVIOUS
  <2>1. B(s) \in SUBSET S
    OBVIOUS
  <2> HIDE DEF B
  <2>2. QED
    BY <2>1, <1>2, FS_Subset, FS_CardinalityType
<1>5. ASSUME NEW s \in S, NEW t \in S, lt(s, t) PROVE Cardinality(B(s)) < Cardinality(B(t))
  <2>1. B(s) \in SUBSET B(t)
    BY <1>1, <1>5
  <2>2. s \in B(t) /\ s \notin B(s)
    BY <1>1, <1>5
  <2> HIDE DEF B
  <2>3. Cardinality(B(s)) <= Cardinality(B(t)) /\ Cardinality(B(s)) # Cardinality(B(t))
    BY <1>4, <2>1, <2>2, FS_Subset
  <2>4. QED
    BY <1>4, <2>3
<1>6. \A s \in S : place(freq, n, s) \in 1..m
  <2> SUFFICES ASSUME NEW s \in S PROVE place(freq, n, s) \in 1..m
    OBVIOUS
  <2>1. B(s) \in SUBSET S /\ s \notin B(s)
    BY <1>1
  <2> HIDE DEF B, m, S
  <2>2. Cardinality(B(s)) <= Cardinality(S) /\ Cardinality(B(s)) # Cardinality(S)
    BY <1>2, <2>1, FS_Subset
  <2>3. Cardinality(B(s)) \in Nat /\ Cardinality(B(s)) < m
    BY <1>2, <1>4, <2>2 DEF m
  <2>4. QED
    BY <1>2, <1>3, <2>3
<1>7. \A s, t \in S : lt(s, t) => place(freq, n, s) < place(freq, n, t)
  <2> HIDE DEF B, S
  <2>1. QED
    BY <1>3, <1>4, <1>5
<1> DEFINE fn == [s \in S |-> place(freq, n, s)]
<1>8. \A s, t \in S : place(freq, n, s) = place(freq, n, t) => s = t
  <2> HIDE DEF B, S
  <2>1. QED
    BY <1>1, <1>6, <1>7
<1>9. fn \in Injection(S, 1..m)
  BY <1>6, <1>8 DEF Injection, IsInjective
<1>10. IsFiniteSet(1..m) /\ Cardinality(1..m) = m
  BY <1>2, FS_Interval
<1>11. fn \in Surjection(S, 1..m)
  <2> HIDE DEF fn, S
  <2>1. Cardinality(S) = Cardinality(1..m)
    BY <1>10 DEF m
  <2>2. QED
    BY <1>9, <1>10, <2>1, FS_Injection
<1>12. \A i \in 1..m : \E s \in S : place(freq, n, s) = i
  BY <1>11 DEF Surjection
<1>13. QED
  <2> HIDE DEF B, m, S
  <2>1. \A s, t \in S : freq[s] < freq[t] => place(freq, n, s) < place(freq, n, t)
    BY <1>1, <1>7
  <2>2. QED
    BY <1>6, <1>8, <1>12, <2>1 DEF m, S

-----------------------------------------------------------------------------
(* The tree.                                                               *)

\* A sequence that is given by its domain.
LEMMA LenOf ==
  ASSUME NEW n \in Nat, NEW S, NEW a \in [1..n -> S]
  PROVE  a \in Seq(S) /\ Len(a) = n
<1>1. a \in Seq(S)
  BY SeqDef
<1>2. Len(a) \in Nat /\ DOMAIN a = 1..Len(a)
  BY <1>1, LenProperties
<1>3. 1..Len(a) = 1..n
  BY <1>2
<1>4. Len(a) = n
  BY <1>2, <1>3
<1>5. QED
  BY <1>1, <1>4

\* The first b inner nodes have parents: behind them, in the same order, and none
\* has three.
Parents(a, b, e) ==
  /\ \A j \in 0..(b - 1) : a[j + 1] \in (j + 1)..(e - 1)
  /\ \A j \in 0..(b - 2) : a[j + 1] <= a[j + 2]
  /\ \A j \in 0..(b - 3) : a[j + 1] < a[j + 3]

\* The states of buildTree, and what holds when e inner nodes have been built.
TreeStates(n) == [a : [1..n -> Nat], i : Nat, b : Nat]
TreeInv(n, t, e) ==
  /\ t \in TreeStates(n)
  /\ t.i <= n /\ t.i + t.b = 2 * e
  /\ t.b <= e /\ (e > 0 => t.b < e)
  /\ Parents(t.a, t.b, e)

\* Two nodes without parent are always left, and one of them a leaf if the other is not
\* an inner one.
LEMMA TreeStepKeeps ==
  ASSUME NEW n \in Nat, NEW e \in Nat, e < n - 1, NEW t, TreeInv(n, t, e)
  PROVE  TreeInv(n, treeStep(t, e), e + 1)
<1> DEFINE i == t.i
           b == t.b
           a == t.a
           last == Len(a) - 1
           twoInner == b + 2 <= e /\ (i > last \/ a[b + 1 + 1] < a[i + 1])
           leaves == IF twoLeaves(t, e) THEN 2 ELSE IF twoInner THEN 0 ELSE 1
           inner == b..(b + 1 - leaves)
           weight == CASE leaves = 2 -> a[i + 1] + a[i + 1 + 1]
                       [] leaves = 0 -> a[b + 1] + a[b + 1 + 1]
                       [] OTHER -> a[i + 1] + a[b + 1]
           c == [j \in DOMAIN a |-> IF j - 1 \in inner THEN e
                                    ELSE IF j - 1 = e THEN weight ELSE a[j]]
           u == treeStep(t, e)
<1>1. u = [a |-> c, i |-> i + leaves, b |-> b + 2 - leaves]
  BY DEF treeStep
<1>2. /\ a \in [1..n -> Nat] /\ i \in Nat /\ b \in Nat
      /\ i <= n /\ i + b = 2 * e /\ b <= e /\ (e > 0 => b < e) /\ Parents(a, b, e)
  BY DEF TreeInv, TreeStates
<1>3. last = n - 1
  BY <1>2, LenOf
<1>4. twoLeaves(t, e) => i + 1 <= n - 1
  BY <1>3 DEF twoLeaves
<1>5. b = e /\ i + 1 <= n - 1 => twoLeaves(t, e)
  BY <1>3 DEF twoLeaves
<1> HIDE DEF i, b, a, u, last
<1>6. /\ leaves \in {0, 1, 2}
      /\ leaves = 2 => i + 1 <= n - 1
      /\ leaves = 0 => b + 2 <= e
      /\ leaves = 1 => i <= n - 1 /\ b < e
  <2>1. CASE twoLeaves(t, e)
    BY <2>1, <1>4
  <2>2. CASE ~twoLeaves(t, e) /\ twoInner
    BY <2>2
  <2>3. CASE ~twoLeaves(t, e) /\ ~twoInner
    <3>1. leaves = 1
      BY <2>3
    <3>2. ~(b = e /\ i + 1 <= n - 1)
      BY <1>5, <2>3
    <3>3. ~(b + 2 <= e) \/ i <= n - 1
      BY <1>2, <1>3, <2>3
    <3> HIDE DEF leaves, twoInner
    <3>4. i <= n - 1 /\ b < e
      BY <1>2, <3>2, <3>3
    <3>5. QED
      BY <3>1, <3>4
  <2>4. QED
    BY <2>1, <2>2, <2>3
<1> HIDE DEF leaves
<1>7. weight \in Nat
  <2>1. CASE leaves = 2
    <3>1. i + 1 \in 1..n /\ i + 1 + 1 \in 1..n
      BY <1>2, <1>6, <2>1
    <3>2. a[i + 1] \in Nat /\ a[i + 1 + 1] \in Nat
      BY <1>2, <3>1
    <3>3. weight = a[i + 1] + a[i + 1 + 1]
      BY <2>1
    <3> HIDE DEF weight
    <3>4. QED
      BY <3>2, <3>3
  <2>2. CASE leaves = 0
    BY <2>2, <1>2, <1>6
  <2>3. CASE leaves = 1
    BY <2>3, <1>2, <1>6
  <2>4. QED
    BY <1>6, <2>1, <2>2, <2>3
<1> HIDE DEF weight
<1>8. c \in [1..n -> Nat] /\ \A j \in 1..n : c[j] = IF j - 1 \in inner THEN e
                                                    ELSE IF j - 1 = e THEN weight ELSE a[j]
  BY <1>2, <1>7
<1> DEFINE b2 == b + 2 - leaves
<1>9. /\ b2 \in Nat /\ b2 <= e /\ b <= b2 /\ b2 <= b + 2 /\ b2 < n
      /\ i + leaves \in Nat /\ i + leaves <= n /\ i + leaves + b2 = 2 * (e + 1)
  BY <1>2, <1>6
<1>10. \A j \in 0..(b2 - 1) : c[j + 1] = IF j < b THEN a[j + 1] ELSE e
  <2> SUFFICES ASSUME NEW j \in 0..(b2 - 1) PROVE c[j + 1] = IF j < b THEN a[j + 1] ELSE e
    OBVIOUS
  <2>1. j + 1 \in 1..n /\ (j + 1) - 1 = j /\ j # e /\ (j \in inner <=> ~(j < b))
    BY <1>2, <1>6, <1>9
  <2> HIDE DEF c, inner
  <2>2. QED
    BY <1>8, <2>1
<1> HIDE DEF c, inner, b2
<1>11. Parents(c, b2, e + 1)
  <2>1. \A j \in 0..(b2 - 1) : c[j + 1] \in (j + 1)..((e + 1) - 1)
    <3> SUFFICES ASSUME NEW j \in 0..(b2 - 1) PROVE c[j + 1] \in (j + 1)..((e + 1) - 1)
      OBVIOUS
    <3>1. c[j + 1] = IF j < b THEN a[j + 1] ELSE e
      BY <1>10
    <3>2. j < b => a[j + 1] \in (j + 1)..(e - 1)
      BY <1>2 DEF Parents
    <3>3. j + 1 <= e /\ j \in Nat
      BY <1>9
    <3>4. QED
      BY <1>2, <3>1, <3>2, <3>3
  <2>2. \A j \in 0..(b2 - 2) : c[j + 1] <= c[j + 2]
    <3> SUFFICES ASSUME NEW j \in 0..(b2 - 2) PROVE c[j + 1] <= c[j + 2]
      OBVIOUS
    <3>1. c[j + 1] = IF j < b THEN a[j + 1] ELSE e
      BY <1>9, <1>10
    <3>2. c[(j + 1) + 1] = IF j + 1 < b THEN a[(j + 1) + 1] ELSE e
      BY <1>9, <1>10
    <3>3. QED
      BY <1>2, <1>9, <3>1, <3>2 DEF Parents
  <2>3. \A j \in 0..(b2 - 3) : c[j + 1] < c[j + 3]
    <3> SUFFICES ASSUME NEW j \in 0..(b2 - 3) PROVE c[j + 1] < c[j + 3]
      OBVIOUS
    <3>1. c[j + 1] = IF j < b THEN a[j + 1] ELSE e
      BY <1>9, <1>10
    <3>2. c[(j + 2) + 1] = IF j + 2 < b THEN a[(j + 2) + 1] ELSE e
      BY <1>9, <1>10
    <3>3. j < b
      BY <1>2, <1>9
    <3>4. QED
      BY <1>2, <1>9, <3>1, <3>2, <3>3, SMTT(30) DEF Parents
  <2>4. QED
    BY <2>1, <2>2, <2>3 DEF Parents
<1>12. u \in TreeStates(n) /\ u.i = i + leaves /\ u.b = b2 /\ u.a = c
  BY <1>1, <1>8, <1>9 DEF TreeStates, b2
<1>13. QED
  BY <1>2, <1>9, <1>11, <1>12 DEF TreeInv, u

\* buildTree gives every inner node but the last, the root, its parent.
LEMMA TreeRight ==
  ASSUME NEW n \in Nat, n > 2, NEW wt \in [1..n -> Nat]
  PROVE  buildTree(wt) \in [1..n -> Nat] /\ Parents(buildTree(wt), n - 2, n - 1)
<1> DEFINE last == Len(wt) - 1
           x == [a |-> wt, i |-> 0, b |-> 0]
           S == TreeStates(n)
           next(y, k) == treeStep(y, k - 1)
           F == [k \in 1..last |-> [y \in S |-> IF next(y, k) \in S THEN next(y, k) ELSE y]]
           Eq(h) == h = [k \in 0..last |-> IF k = 0 THEN x ELSE next(h[k - 1], k)]
           fn == CHOOSE h : Eq(h)
<1>1. buildTree(wt) = fn[last].a
  BY DEF buildTree
<1>2. last = n - 1
  BY LenOf
<1> HIDE DEF last
<1>3. x \in S /\ TreeInv(n, x, 0)
  BY DEF TreeStates, TreeInv, Parents
<1>4. F \in StepsOn(last, S)
  BY DEF StepsOn
<1>5. PICK g \in ValuesIn(last, S) : Solves(g, last, x, F)
  <2> HIDE DEF F, S, x
  <2>1. last \in Nat
    BY <1>2
  <2>2. QED
    BY ONLY <2>1, <1>3, <1>4, Recursion
<1> DEFINE P == {k \in 0..last : TreeInv(n, g[k], k)}
<1>6. g[0] = x /\ 0 \in P
  <2>1. 0 \in 0..last
    BY <1>2
  <2> HIDE DEF F, S, x
  <2>2. g[0] = x
    BY <1>5, <2>1 DEF Solves
  <2>3. QED
    BY <1>3, <2>1, <2>2
<1>7. ASSUME NEW k \in 1..last, k - 1 \in P PROVE g[k] = next(g[k - 1], k) /\ k \in P
  <2>1. k - 1 \in Nat /\ k - 1 < n - 1 /\ TreeInv(n, g[k - 1], k - 1) /\ (k - 1) + 1 = k
    BY <1>2, <1>7
  <2>2. TreeInv(n, next(g[k - 1], k), k)
    BY <2>1, TreeStepKeeps
  <2>3. next(g[k - 1], k) \in S /\ g[k - 1] \in S
    BY <2>1, <2>2 DEF TreeInv
  <2>4. g[k] = F[k][g[k - 1]]
    <3>1. k \in 0..last /\ k # 0
      BY <1>2
    <3> HIDE DEF F, S, x
    <3>2. QED
      BY <1>5, <3>1 DEF Solves
  <2>5. F[k][g[k - 1]] = next(g[k - 1], k)
    BY <2>3
  <2> HIDE DEF F, next
  <2>6. QED
    BY <2>2, <2>4, <2>5
<1>8. \A k \in 0..last : k \in P
  <2> HIDE DEF P
  <2>1. \A k \in 1..last : k - 1 \in P => k \in P
    BY <1>7
  <2>2. last \in Nat
    BY <1>2
  <2>3. QED
    BY ONLY <2>1, <2>2, <1>6, UpTo
<1>9. Eq(g)
  <2>1. ASSUME NEW k \in 0..last PROVE g[k] = IF k = 0 THEN x ELSE next(g[k - 1], k)
    <3>1. k # 0 => k \in 1..last /\ k - 1 \in P
      BY <1>2, <1>8
    <3>2. k # 0 => g[k] = next(g[k - 1], k)
      BY <3>1, <1>7
    <3>3. QED
      BY <1>6, <3>2
  <2>2. QED
    BY <2>1 DEF ValuesIn
<1>10. Eq(fn)
  BY <1>9
<1> HIDE DEF fn, F
<1>11. fn[0] = x /\ \A k \in 1..last : fn[k] = next(fn[k - 1], k)
  BY <1>2, <1>10
<1> DEFINE Q == {k \in 0..last : TreeInv(n, fn[k], k)}
<1>12. 0 \in Q
  BY <1>2, <1>3, <1>11
<1>13. ASSUME NEW k \in 1..last, k - 1 \in Q PROVE k \in Q
  <2>1. k - 1 \in Nat /\ k - 1 < n - 1 /\ TreeInv(n, fn[k - 1], k - 1) /\ (k - 1) + 1 = k
    BY <1>2, <1>13
  <2>2. TreeInv(n, next(fn[k - 1], k), k)
    BY <2>1, TreeStepKeeps
  <2> HIDE DEF next
  <2>3. QED
    BY <1>2, <1>11, <2>2
<1>14. TreeInv(n, fn[last], last)
  <2> HIDE DEF Q
  <2>1. \A k \in 0..last : k \in Q
    <3>1. last \in Nat
      BY <1>2
    <3>2. QED
      BY ONLY <3>1, <1>12, <1>13, UpTo
  <2>2. last \in 0..last
    BY <1>2
  <2>3. QED
    BY <2>1, <2>2 DEF Q
<1>15. fn[last].b = n - 2 /\ fn[last].a \in [1..n -> Nat] /\ Parents(fn[last].a, fn[last].b, n - 1)
  <2>1. fn[last] \in TreeStates(n)
    BY <1>14 DEF TreeInv
  <2>2. /\ fn[last].a \in [1..n -> Nat] /\ fn[last].b \in Nat /\ fn[last].i \in Nat
    BY <2>1 DEF TreeStates
  <2>3. PICK i, b, e : i = fn[last].i /\ b = fn[last].b /\ e = last
    OBVIOUS
  <2>4. i <= n /\ i + b = 2 * e /\ (e > 0 => b < e) /\ Parents(fn[last].a, b, e)
    BY ONLY <1>14, <2>3 DEF TreeInv
  <2>5. e = n - 1
    BY <1>2, <2>3
  <2>6. i \in Nat /\ b \in Nat
    BY ONLY <2>2, <2>3
  <2>7. b = n - 2
    BY ONLY <2>4, <2>5, <2>6, n \in Nat, n > 2
  <2>8. Parents(fn[last].a, b, n - 1)
    BY ONLY <2>4, <2>5
  <2>9. QED
    BY ONLY <2>2, <2>3, <2>7, <2>8
<1>16. QED
  BY <1>1, <1>15

-----------------------------------------------------------------------------
(* Numbers of codewords.                                                   *)

\* unused and longerThan are what their equations say.
LEMMA UnusedIs ==
  ASSUME NEW m \in Nat, NEW lc, \A l \in 1..m : lc[l] \in Int
  PROVE  /\ unused(lc, m) \in [0..m -> Int]
         /\ unused(lc, m)[0] = 1
         /\ \A l \in 1..m : unused(lc, m)[l] = 2 * unused(lc, m)[l - 1] - lc[l]
<1> DEFINE F == [l \in 1..m |-> [y \in Int |-> 2 * y - lc[l]]]
           Eq(h) == h = [l \in 0..m |-> IF l = 0 THEN 1 ELSE 2 * h[l - 1] - lc[l]]
           fn == CHOOSE h : Eq(h)
<1>1. unused(lc, m) = fn
  BY DEF unused
<1>2. F \in StepsOn(m, Int)
  BY DEF StepsOn
<1>3. PICK g \in ValuesIn(m, Int) : Solves(g, m, 1, F)
  <2> HIDE DEF F
  <2>1. 1 \in Int
    OBVIOUS
  <2>2. QED
    BY ONLY <2>1, m \in Nat, <1>2, Recursion
<1>4. Eq(g)
  <2>1. ASSUME NEW l \in 0..m PROVE g[l] = IF l = 0 THEN 1 ELSE 2 * g[l - 1] - lc[l]
    <3>1. g[l] = IF l = 0 THEN 1 ELSE F[l][g[l - 1]]
      BY <1>3 DEF Solves
    <3>2. l # 0 => l \in 1..m /\ g[l - 1] \in Int
      BY DEF ValuesIn
    <3>3. l # 0 => F[l][g[l - 1]] = 2 * g[l - 1] - lc[l]
      BY <3>2
    <3> HIDE DEF F
    <3>4. QED
      BY <3>1, <3>3
  <2>2. QED
    BY <2>1 DEF ValuesIn
<1>5. Eq(fn)
  BY <1>4
<1> HIDE DEF fn, F
<1>6. fn[0] = 1 /\ \A l \in 1..m : fn[l] = 2 * fn[l - 1] - lc[l]
  BY <1>5
<1> DEFINE P == {l \in 0..m : fn[l] \in Int}
<1>7. 0 \in P /\ \A l \in 1..m : l - 1 \in P => l \in P
  BY <1>6
<1>8. \A l \in 0..m : fn[l] \in Int
  <2> HIDE DEF P
  <2>1. \A l \in 0..m : l \in P
    BY ONLY m \in Nat, <1>7, UpTo
  <2>2. QED
    BY <2>1 DEF P
<1>9. QED
  BY <1>1, <1>5, <1>6, <1>8

LEMMA LongerIs ==
  ASSUME NEW m \in Nat, NEW lc, \A l \in 1..m : lc[l] \in Int
  PROVE  /\ longerThan(lc, m) \in [0..m -> Int]
         /\ longerThan(lc, m)[m] = 0
         /\ \A l \in 1..m : longerThan(lc, m)[l - 1] = longerThan(lc, m)[l] + lc[l]
<1> DEFINE F == [k \in 1..m |-> [y \in Int |-> y + lc[m - k + 1]]]
           Eq(h) == h = [l \in 0..m |-> IF l = m THEN 0 ELSE h[l + 1] + lc[l + 1]]
           fn == CHOOSE h : Eq(h)
<1>1. longerThan(lc, m) = fn
  BY DEF longerThan
<1>2. F \in StepsOn(m, Int)
  <2>1. \A k \in 1..m : m - k + 1 \in 1..m
    OBVIOUS
  <2>2. QED
    BY <2>1 DEF StepsOn
<1>3. PICK g \in ValuesIn(m, Int) : Solves(g, m, 0, F)
  <2> HIDE DEF F
  <2>1. 0 \in Int
    OBVIOUS
  <2>2. QED
    BY ONLY <2>1, m \in Nat, <1>2, Recursion
<1> DEFINE h == [l \in 0..m |-> g[m - l]]
<1>4. Eq(h)
  <2>1. ASSUME NEW l \in 0..m PROVE h[l] = IF l = m THEN 0 ELSE h[l + 1] + lc[l + 1]
    <3> DEFINE k == m - l
    <3>1. k \in 0..m /\ (k = 0 <=> l = m)
      OBVIOUS
    <3>2. g[k] = IF k = 0 THEN 0 ELSE F[k][g[k - 1]]
      BY <1>3, <3>1 DEF Solves
    <3>3. k # 0 => k \in 1..m /\ g[k - 1] \in Int /\ m - k + 1 = l + 1 /\ l + 1 \in 0..m /\ m - (l + 1) = k - 1
      BY DEF ValuesIn
    <3>4. k # 0 => F[k][g[k - 1]] = g[k - 1] + lc[l + 1]
      BY <3>3
    <3>5. h[l] = g[k] /\ (k # 0 => h[l + 1] = g[k - 1])
      BY <3>3
    <3> HIDE DEF F, h, k
    <3>6. QED
      BY <3>1, <3>2, <3>4, <3>5
  <2> HIDE DEF F
  <2>2. h = [l \in 0..m |-> h[l]]
    OBVIOUS
  <2> HIDE DEF h
  <2>3. QED
    BY <2>1, <2>2
<1>5. Eq(fn)
  <2> HIDE DEF h
  <2>1. QED
    BY <1>4
<1> HIDE DEF fn, F
<1>6. fn[m] = 0 /\ \A l \in 1..m : fn[l - 1] = fn[l] + lc[l]
  <2>1. fn[m] = 0
    BY <1>5
  <2>2. ASSUME NEW l \in 1..m PROVE fn[l - 1] = fn[l] + lc[l]
    <3>1. l - 1 \in 0..m /\ l - 1 # m /\ (l - 1) + 1 = l
      OBVIOUS
    <3> HIDE DEF Eq
    <3>2. fn[l - 1] = fn[(l - 1) + 1] + lc[(l - 1) + 1]
      BY <1>5, <3>1 DEF Eq
    <3>3. QED
      BY <3>1, <3>2
  <2>3. QED
    BY <2>1, <2>2
<1> DEFINE P == {k \in 0..m : fn[m - k] \in Int}
<1>7. 0 \in P /\ \A k \in 1..m : k - 1 \in P => k \in P
  <2>1. 0 \in P
    BY <1>6
  <2>2. ASSUME NEW k \in 1..m, k - 1 \in P PROVE k \in P
    <3>1. m - (k - 1) \in 1..m /\ (m - (k - 1)) - 1 = m - k /\ fn[m - (k - 1)] \in Int
      BY <2>2
    <3>2. fn[m - k] = fn[m - (k - 1)] + lc[m - (k - 1)]
      BY <1>6, <3>1
    <3>3. QED
      BY <3>1, <3>2
  <2>3. QED
    BY <2>1, <2>2
<1>8. \A l \in 0..m : fn[l] \in Int
  <2> HIDE DEF P
  <2>1. \A k \in 0..m : k \in P
    BY ONLY m \in Nat, <1>7, UpTo
  <2>2. \A l \in 0..m : m - l \in 0..m /\ m - (m - l) = l
    OBVIOUS
  <2>3. QED
    BY <2>1, <2>2 DEF P
<1>9. QED
  BY <1>1, <1>5, <1>6, <1>8

\* A codeword of l bits gives way to two of one more: in all as many are unused.
LEMMA SplitCodeword ==
  ASSUME NEW m \in Nat, NEW lc \in [0..(m + 1) -> Int], NEW l \in 1..(m - 1),
         NEW nc, nc = [lc EXCEPT ![l] = @ - 1, ![l + 1] = @ + 2]
  PROVE  /\ nc \in [0..(m + 1) -> Int]
         /\ unused(nc, m)[m] = unused(lc, m)[m]
         /\ longerThan(nc, m)[0] = longerThan(lc, m)[0] + 1
<1>1. /\ nc \in [0..(m + 1) -> Int]
      /\ nc[l] = lc[l] - 1 /\ nc[l + 1] = lc[l + 1] + 2
      /\ \A j \in 0..(m + 1) : j # l /\ j # l + 1 => nc[j] = lc[j]
  OBVIOUS
<1> DEFINE u == unused(lc, m)
           v == unused(nc, m)
           s == longerThan(lc, m)
           t == longerThan(nc, m)
<1>0. m \in Nat /\ l \in Int /\ (\A j \in 1..m : lc[j] \in Int) /\ (\A j \in 1..m : nc[j] \in Int)
  <2>1. \A j \in 1..m : j \in 0..(m + 1)
    OBVIOUS
  <2>2. QED
    BY <1>1, <2>1, SMTT(30)
<1>2. /\ u \in [0..m -> Int] /\ u[0] = 1 /\ \A j \in 1..m : u[j] = 2 * u[j - 1] - lc[j]
  BY ONLY <1>0, UnusedIs DEF u, v
<1>3. /\ v \in [0..m -> Int] /\ v[0] = 1 /\ \A j \in 1..m : v[j] = 2 * v[j - 1] - nc[j]
  BY ONLY <1>0, UnusedIs DEF u, v
<1>4. /\ s \in [0..m -> Int] /\ s[m] = 0 /\ \A j \in 1..m : s[j - 1] = s[j] + lc[j]
  BY ONLY <1>0, LongerIs DEF s, t
<1>5. /\ t \in [0..m -> Int] /\ t[m] = 0 /\ \A j \in 1..m : t[j - 1] = t[j] + nc[j]
  BY ONLY <1>0, LongerIs DEF s, t
<1> HIDE DEF u, v, s, t
<1> DEFINE P == {j \in 0..m : v[j] = IF j = l THEN u[j] + 1 ELSE u[j]}
           Q == {k \in 0..m : t[m - k] = IF m - k < l THEN s[m - k] + 1
                                         ELSE IF m - k = l THEN s[m - k] + 2 ELSE s[m - k]}
<1>6. 0 \in P
  BY <1>2, <1>3
<1>7. ASSUME NEW j \in 1..m, j - 1 \in P PROVE j \in P
  <2>1. v[j - 1] = IF j - 1 = l THEN u[j - 1] + 1 ELSE u[j - 1]
    BY <1>7
  <2>2. u[j] = 2 * u[j - 1] - lc[j] /\ v[j] = 2 * v[j - 1] - nc[j]
    BY <1>2, <1>3
  <2>3. u[j - 1] \in Int /\ lc[j] \in Int /\ j \in Int
    <3>1. j \in Int /\ j - 1 \in 0..m /\ j \in 1..m
      BY ONLY <1>0, j \in 1..m
    <3>2. u[j - 1] \in Int
      BY ONLY <3>1, <1>2
    <3>3. QED
      BY ONLY <3>1, <3>2, <1>0
  <2>4. nc[j] = IF j = l THEN lc[j] - 1 ELSE IF j = l + 1 THEN lc[j] + 2 ELSE lc[j]
    BY <1>1
  <2>5. v[j] = IF j = l THEN u[j] + 1 ELSE u[j]
    <3>1. j < l \/ j = l \/ j = l + 1 \/ j > l + 1
      BY ONLY <1>0, <2>1
    <3>2. CASE j < l
      BY ONLY <1>0, <2>1, <2>2, <2>3, <2>4, <3>2
    <3>3. CASE j = l
      BY ONLY <1>0, <2>1, <2>2, <2>3, <2>4, <3>3
    <3>4. CASE j = l + 1
      <4>1. j - 1 = l /\ j # l
        BY ONLY <1>0, <2>3, <3>4
      <4>2. v[j - 1] = u[j - 1] + 1
        BY ONLY <2>1, <4>1
      <4>3. nc[j] = lc[j] + 2
        BY ONLY <2>4, <3>4, <4>1
      <4>4. PICK x, y, c : x = u[j - 1] /\ y = v[j - 1] /\ c = lc[j]
        OBVIOUS
      <4>5. u[j] = 2 * x - c /\ v[j] = 2 * y - (c + 2) /\ y = x + 1 /\ x \in Int /\ c \in Int
        BY ONLY <2>2, <2>3, <4>2, <4>3, <4>4
      <4>6. v[j] = u[j]
        BY ONLY <4>5
      <4>7. QED
        BY ONLY <4>1, <4>6
    <3>5. CASE j > l + 1
      BY ONLY <1>0, <2>1, <2>2, <2>3, <2>4, <3>5
    <3>6. QED
      BY ONLY <3>1, <3>2, <3>3, <3>4, <3>5
  <2>6. QED
    BY <2>5
<1>8. v[m] = u[m]
  <2> HIDE DEF P
  <2>1. \A j \in 0..m : j \in P
    BY ONLY m \in Nat, <1>6, <1>7, UpTo
  <2>2. QED
    BY <2>1 DEF P
<1>9. 0 \in Q
  BY <1>4, <1>5
<1>10. ASSUME NEW k \in 1..m, k - 1 \in Q PROVE k \in Q
  <2> DEFINE j == m - (k - 1)
  <2>1. j \in 1..m /\ j - 1 = m - k
    OBVIOUS
  <2>2. t[j] = IF j < l THEN s[j] + 1 ELSE IF j = l THEN s[j] + 2 ELSE s[j]
    BY <1>10
  <2> HIDE DEF j
  <2>3. s[j - 1] = s[j] + lc[j] /\ t[j - 1] = t[j] + nc[j]
    BY <1>4, <1>5, <2>1
  <2>4. s[j] \in Int /\ lc[j] \in Int /\ j \in Int
    BY ONLY <1>0, <1>4, <2>1
  <2>5. nc[j] = IF j = l THEN lc[j] - 1 ELSE IF j = l + 1 THEN lc[j] + 2 ELSE lc[j]
    BY <1>1, <2>1, SMTT(30)
  <2>6. t[j - 1] = IF j - 1 < l THEN s[j - 1] + 1 ELSE IF j - 1 = l THEN s[j - 1] + 2 ELSE s[j - 1]
    <3>1. j < l \/ j = l \/ j = l + 1 \/ j > l + 1
      BY ONLY <1>0, <2>4
    <3>2. CASE j < l
      BY ONLY <1>0, <2>2, <2>3, <2>4, <2>5, <3>2
    <3>3. CASE j = l
      BY ONLY <1>0, <2>2, <2>3, <2>4, <2>5, <3>3
    <3>4. CASE j = l + 1
      BY ONLY <1>0, <2>2, <2>3, <2>4, <2>5, <3>4
    <3>5. CASE j > l + 1
      BY ONLY <1>0, <2>2, <2>3, <2>4, <2>5, <3>5
    <3>6. QED
      BY ONLY <3>1, <3>2, <3>3, <3>4, <3>5
  <2>7. t[m - k] = IF m - k < l THEN s[m - k] + 1 ELSE IF m - k = l THEN s[m - k] + 2 ELSE s[m - k]
    BY ONLY <2>1, <2>6
  <2>8. QED
    BY <2>7
<1>11. t[0] = s[0] + 1
  <2> HIDE DEF Q
  <2>1. \A k \in 0..m : k \in Q
    BY ONLY m \in Nat, <1>9, <1>10, UpTo
  <2>2. m \in Q
    BY <2>1
  <2>3. m - m = 0 /\ 0 < l
    OBVIOUS
  <2>4. QED
    BY <2>2, <2>3 DEF Q
<1>12. QED
  BY <1>1, <1>8, <1>11 DEF u, v, s, t

\* 1 << l.
LEMMA Pow2Is ==
  pow2 \in [0..31 -> Nat] /\ pow2[0] = 1 /\ \A l \in 1..31 : pow2[l] = 2 * pow2[l - 1]
<1> DEFINE F == [l \in 1..31 |-> [y \in Nat |-> 2 * y]]
           Eq(h) == h = [l \in 0..31 |-> IF l = 0 THEN 1 ELSE 2 * h[l - 1]]
<1>1. pow2 = CHOOSE h : Eq(h)
  BY DEF pow2
<1>2. F \in StepsOn(31, Nat)
  BY DEF StepsOn
<1>3. PICK g \in ValuesIn(31, Nat) : Solves(g, 31, 1, F)
  <2> HIDE DEF F
  <2>1. 1 \in Nat /\ 31 \in Nat
    OBVIOUS
  <2>2. QED
    BY ONLY <2>1, <1>2, Recursion
<1>4. Eq(g)
  <2>1. ASSUME NEW l \in 0..31 PROVE g[l] = IF l = 0 THEN 1 ELSE 2 * g[l - 1]
    <3>1. g[l] = IF l = 0 THEN 1 ELSE F[l][g[l - 1]]
      BY <1>3, SMTT(30) DEF Solves
    <3>2. l # 0 => l \in 1..31 /\ g[l - 1] \in Nat
      BY DEF ValuesIn
    <3>3. l # 0 => F[l][g[l - 1]] = 2 * g[l - 1]
      BY <3>2
    <3> HIDE DEF F
    <3>4. QED
      BY <3>1, <3>3
  <2>2. QED
    BY <2>1 DEF ValuesIn
<1>5. Eq(pow2)
  BY <1>1, <1>4
<1> HIDE DEF F
<1>6. pow2[0] = 1 /\ \A l \in 1..31 : pow2[l] = 2 * pow2[l - 1]
  BY <1>5
<1> DEFINE P == {l \in 0..31 : pow2[l] \in Nat}
<1>7. 0 \in P /\ \A l \in 1..31 : l - 1 \in P => l \in P
  BY <1>6
<1>8. \A l \in 0..31 : pow2[l] \in Nat
  <2> HIDE DEF P
  <2>1. 31 \in Nat
    OBVIOUS
  <2>2. \A l \in 0..31 : l \in P
    BY ONLY <2>1, <1>7, UpTo
  <2>3. QED
    BY <2>2 DEF P
<1>9. QED
  BY <1>5, <1>6, <1>8

\* If the code is complete, but does not have as many codewords as it can, one of them is
\* shorter than the longest can be.
LEMMA SomeShort ==
  ASSUME NEW m \in 1..31, NEW lc \in [0..(m + 1) -> Int],
         unused(lc, m)[m] = 0, longerThan(lc, m)[0] < pow2[m]
  PROVE  \E l \in 1..(m - 1) : lc[l] # 0
<1> SUFFICES ASSUME \A l \in 1..(m - 1) : lc[l] = 0 PROVE FALSE
  OBVIOUS
<1> DEFINE u == unused(lc, m)
           s == longerThan(lc, m)
<1>0. m \in Nat /\ \A j \in 1..m : lc[j] \in Int
  <2>1. \A j \in 1..m : j \in 0..(m + 1)
    OBVIOUS
  <2>2. QED
    BY <2>1
<1>1. /\ u \in [0..m -> Int] /\ u[0] = 1 /\ \A j \in 1..m : u[j] = 2 * u[j - 1] - lc[j]
  BY <1>0, UnusedIs
<1>2. /\ s \in [0..m -> Int] /\ s[m] = 0 /\ \A j \in 1..m : s[j - 1] = s[j] + lc[j]
  BY <1>0, LongerIs, ZenonT(60)
<1>3. u[m] = 0 /\ s[0] < pow2[m]
  OBVIOUS
<1> HIDE DEF u, s
<1>4. m - 1 \in Nat
  OBVIOUS
<1> DEFINE P == {j \in 0..(m - 1) : u[j] = pow2[j]}
           Q == {k \in 0..(m - 1) : s[(m - 1) - k] = lc[m]}
<1>5. 0 \in P /\ \A j \in 1..(m - 1) : j - 1 \in P => j \in P
  <2>1. 0 \in P
    <3>1. 0 \in 0..(m - 1)
      BY <1>4
    <3>2. QED
      BY <1>1, <3>1, Pow2Is
  <2>2. ASSUME NEW j \in 1..(m - 1), j - 1 \in P PROVE j \in P
    <3>1. u[j] = 2 * u[j - 1] - lc[j] /\ lc[j] = 0 /\ u[j - 1] = pow2[j - 1]
      <4>1. j \in 1..m
        OBVIOUS
      <4>2. QED
        BY <1>1, <2>2, <4>1
    <3>2. pow2[j] = 2 * pow2[j - 1] /\ pow2[j - 1] \in Nat
      <4>1. j \in 1..31 /\ j - 1 \in 0..31
        OBVIOUS
      <4>2. QED
        BY <4>1, Pow2Is
    <3>3. QED
      BY <3>1, <3>2
  <2>3. QED
    BY <2>1, <2>2
<1>6. u[m - 1] = pow2[m - 1]
  <2> HIDE DEF P
  <2>1. \A j \in 0..(m - 1) : j \in P
    BY ONLY <1>4, <1>5, UpTo
  <2>2. m - 1 \in P
    BY <1>4, <2>1
  <2>3. QED
    BY <2>2 DEF P
<1>7. 0 \in Q /\ \A k \in 1..(m - 1) : k - 1 \in Q => k \in Q
  <2>1. 0 \in Q
    <3>1. s[m - 1] = s[m] + lc[m] /\ lc[m] \in Int
      BY <1>2
    <3>2. QED
      BY <1>2, <3>1
  <2>2. ASSUME NEW k \in 1..(m - 1), k - 1 \in Q PROVE k \in Q
    <3> DEFINE j == (m - 1) - (k - 1)
    <3>1. j \in 1..(m - 1) /\ j - 1 = (m - 1) - k
      OBVIOUS
    <3>2. s[j] = lc[m]
      BY <2>2
    <3> HIDE DEF j
    <3>3. s[j - 1] = s[j] + lc[j] /\ lc[j] = 0 /\ s[j] \in Int
      BY <1>2, <3>1
    <3>4. QED
      BY <3>1, <3>2, <3>3
  <2>3. QED
    BY <2>1, <2>2
<1>8. s[0] = lc[m]
  <2> HIDE DEF Q
  <2>1. \A k \in 0..(m - 1) : k \in Q
    BY ONLY <1>4, <1>7, UpTo
  <2>2. m - 1 \in Q /\ (m - 1) - (m - 1) = 0
    BY <1>4, <2>1
  <2>3. QED
    BY <2>2 DEF Q
<1>9. u[m] = 2 * u[m - 1] - lc[m] /\ pow2[m] = 2 * pow2[m - 1] /\ pow2[m - 1] \in Nat /\ lc[m] \in Int
  <2>1. m \in 1..m /\ m \in 1..31 /\ m - 1 \in 0..31
    OBVIOUS
  <2>2. QED
    BY <1>0, <1>1, <2>1, Pow2Is
<1>10. QED
  BY <1>3, <1>6, <1>8, <1>9

-----------------------------------------------------------------------------
(* The depths, and the lengths they stand for.                             *)

\* An order of parents in which none occurs three times is at least half as long as the nodes.
LEMMA Spread ==
  ASSUME NEW r \in Nat, NEW a, Parents(a, r, r + 1), NEW i \in 0..(r - 1), NEW j \in i..(r - 1)
  PROVE  a[i + 1] \in Int /\ a[j + 1] \in Int /\ j - i <= 2 * (a[j + 1] - a[i + 1]) + 1
<1>1. \A k \in 0..(r - 1) : a[k + 1] \in Int
  <2> SUFFICES ASSUME NEW k \in 0..(r - 1) PROVE a[k + 1] \in Int
    OBVIOUS
  <2>1. a[k + 1] \in (k + 1)..((r + 1) - 1)
    BY DEF Parents
  <2>2. QED
    BY <2>1
<1> DEFINE ok(d) == i + d <= r - 1 => d <= 2 * (a[i + d + 1] - a[i + 1]) + 1
           P == {d \in 0..r : (d > 0 => ok(d - 1)) /\ ok(d)}
<1>2. 0 \in P
  BY <1>1
<1>3. ASSUME NEW d \in 1..r, d - 1 \in P PROVE d \in P
  <2>1. ok(d - 1) /\ (d > 1 => ok(d - 2))
    <3>1. d > 1 => (d - 1) - 1 = d - 2
      OBVIOUS
    <3>2. ok(d - 1) /\ (d - 1 > 0 => ok((d - 1) - 1))
      BY <1>3
    <3> HIDE DEF ok
    <3>3. QED
      BY <3>1, <3>2
  <2>2. ok(d)
    <3> SUFFICES ASSUME i + d <= r - 1 PROVE d <= 2 * (a[i + d + 1] - a[i + 1]) + 1
      OBVIOUS
    <3>1. CASE d = 1
      <4>1. a[i + 1] <= a[i + 2]
        BY <3>1 DEF Parents
      <4>2. a[i + 1] \in Int /\ a[i + 2] \in Int
        <5>1. i + 1 \in 0..(r - 1) /\ (i + 1) + 1 = i + 2
          BY <3>1
        <5>2. QED
          BY <1>1, <5>1
      <4>3. i + d + 1 = i + 2
        BY <3>1
      <4>4. QED
        BY <3>1, <4>1, <4>2, <4>3
    <3>2. CASE d > 1
      <4> DEFINE e == i + (d - 2)
      <4>1. e \in 0..(r - 3) /\ i + d + 1 = e + 3 /\ i + (d - 2) + 1 = e + 1 /\ i + (d - 2) <= r - 1
        BY <3>2
      <4>2. a[e + 1] < a[e + 3]
        BY <4>1 DEF Parents
      <4>3. d - 2 <= 2 * (a[e + 1] - a[i + 1]) + 1
        BY <2>1, <3>2, <4>1
      <4>4. a[i + 1] \in Int /\ a[e + 1] \in Int /\ a[e + 3] \in Int
        <5>1. e + 2 \in 0..(r - 1) /\ (e + 2) + 1 = e + 3 /\ e \in 0..(r - 1)
          BY <4>1
        <5>2. QED
          BY <1>1, <5>1
      <4> HIDE DEF e
      <4>5. d \in Int
        OBVIOUS
      <4>6. d <= 2 * (a[e + 3] - a[i + 1]) + 1
        BY ONLY <4>2, <4>3, <4>4, <4>5
      <4>7. QED
        BY <4>1, <4>6
    <3>3. QED
      BY <3>1, <3>2
  <2> HIDE DEF ok
  <2>3. QED
    BY <2>1, <2>2
<1>4. \A d \in 0..r : d \in P
  <2> HIDE DEF P
  <2>1. QED
    BY ONLY r \in Nat, <1>2, <1>3, UpTo
<1>5. ok(j - i)
  <2>1. j - i \in 0..r
    OBVIOUS
  <2> HIDE DEF ok
  <2>2. QED
    BY <1>4, <2>1
<1>6. i + (j - i) + 1 = j + 1 /\ i + (j - i) <= r - 1
  OBVIOUS
<1>7. a[i + 1] \in Int /\ a[j + 1] \in Int
  BY <1>1
<1>8. QED
  BY <1>5, <1>6, <1>7

\* Nodes z and up have their depths in the place of their parents, the others not yet.
Depths(a, p, r, z) ==
  /\ \A j \in 0..(z - 1) : a[j + 1] = p[j + 1]
  /\ a[r + 1] = 0
  /\ \A j \in z..(r - 1) : a[j + 1] = a[p[j + 1] + 1] + 1
  /\ \A i, j \in z..r : i <= j => a[j + 1] <= a[i + 1]

\* Nodes z to f have the depth of z, those up to g one less, the others are higher; a
\* codeword belongs to every child that has not been taken for an inner node.
LevelFrom(a, lc, r, m, z, fn, g) ==
  LET D == a[z + 1]
  IN /\ fn <= g
     /\ \A j \in z..fn : a[j + 1] = D
     /\ \A j \in (fn + 1)..g : a[j + 1] = D - 1
     /\ \A j \in (g + 1)..r : a[j + 1] < D - 1
     /\ lc[D + 1] = 2 * (fn - z + 1)
     /\ D >= 1 => lc[D] = 2 * (g - fn) - (fn - z + 1)
     /\ \A l \in (D + 2)..(m + 1) : lc[l] = 0

Level(a, lc, r, m, z) == \E fn, g \in z..r : LevelFrom(a, lc, r, m, z, fn, g)

\* The invariant of computeLengthCounts: the code is complete, and as long as no node
\* was too deep it is the tree's.
CountStates(n, m) == [a : [1..n -> Nat], lenCounts : [0..(m + 1) -> Int]]
CountInv(n, m, p, c, z) ==
  /\ c \in CountStates(n, m)
  /\ Depths(c.a, p, n - 2, z)
  /\ \A l \in 0..(m + 1) : c.lenCounts[l] >= 0
  /\ unused(c.lenCounts, m)[m] = 0
  /\ longerThan(c.lenCounts, m)[0] = n - z
  /\ c.a[z + 1] < m => Level(c.a, c.lenCounts, n - 2, m, z)

\* A node gets its depth.
NodeGets(a, b, r, x, d) ==
  b[x + 1] = d /\ \A j \in 0..r : j # x => b[j + 1] = a[j + 1]

\* The node before those that have a depth gets one, and none of them is deeper.
LEMMA DepthsKept ==
  ASSUME NEW r \in Nat, NEW x \in Nat, x + 1 <= r, NEW p, Parents(p, r, r + 1),
         NEW a, \A j \in 0..r : a[j + 1] \in Nat, Depths(a, p, r, x + 1),
         NEW b, NEW d, NodeGets(a, b, r, x, d), d = a[a[x + 1] + 1] + 1
  PROVE  /\ a[x + 1] = p[x + 1]
         /\ d \in Nat /\ d >= a[x + 2] /\ Depths(b, p, r, x)
<1>1. a[x + 1] = p[x + 1]
  <2>1. x \in 0..((x + 1) - 1)
    OBVIOUS
  <2>2. QED
    BY <2>1 DEF Depths
<1>2. p[x + 1] \in (x + 1)..r
  <2>1. x \in 0..(r - 1) /\ (r + 1) - 1 = r
    OBVIOUS
  <2>2. QED
    BY <2>1 DEF Parents
<1>3. x + 1 < r => /\ p[x + 2] \in (x + 2)..r /\ p[x + 1] <= p[x + 2]
                   /\ a[x + 2] = a[p[x + 2] + 1] + 1
  <2> SUFFICES ASSUME x + 1 < r
               PROVE /\ p[x + 2] \in (x + 2)..r /\ p[x + 1] <= p[x + 2]
                     /\ a[x + 2] = a[p[x + 2] + 1] + 1
    OBVIOUS
  <2>1. x + 1 \in 0..(r - 1) /\ (x + 1) + 1 = x + 2 /\ (r + 1) - 1 = r /\ x \in 0..(r - 2) /\ x + 1 \in (x + 1)..(r - 1)
    OBVIOUS
  <2>2. p[(x + 1) + 1] \in ((x + 1) + 1)..((r + 1) - 1)
    BY <2>1 DEF Parents
  <2>3. p[x + 1] <= p[x + 2]
    BY <2>1 DEF Parents
  <2>4. a[(x + 1) + 1] = a[p[(x + 1) + 1] + 1] + 1
    BY <2>1 DEF Depths
  <2>5. QED
    BY <2>1, <2>2, <2>3, <2>4
<1>4. \A j \in 0..r : a[j + 1] \in Nat
  OBVIOUS
<1>5. d \in Nat /\ d = a[p[x + 1] + 1] + 1
  <2>1. p[x + 1] \in 0..r
    BY ONLY <1>2, r \in Nat, x \in Nat
  <2>2. QED
    BY ONLY <1>1, <1>4, <2>1, d = a[a[x + 1] + 1] + 1
<1>6. d >= a[x + 2]
  <2>1. CASE x + 1 = r
    <3>1. a[r + 1] = 0 /\ x + 2 = r + 1
      BY <2>1 DEF Depths
    <3>2. QED
      BY <1>5, <3>1
  <2>2. CASE x + 1 # r
    <3>1. p[x + 2] \in (x + 2)..r /\ p[x + 1] <= p[x + 2] /\ a[x + 2] = a[p[x + 2] + 1] + 1
      BY <1>3, <2>2
    <3>2. p[x + 1] \in (x + 1)..r /\ p[x + 2] \in (x + 1)..r
      BY <1>2, <3>1
    <3>3. a[p[x + 2] + 1] <= a[p[x + 1] + 1]
      BY <3>1, <3>2 DEF Depths
    <3>4. a[p[x + 2] + 1] \in Nat /\ a[p[x + 1] + 1] \in Nat
      <4>1. p[x + 1] \in 0..r /\ p[x + 2] \in 0..r
        BY ONLY <3>2, r \in Nat, x \in Nat
      <4>2. QED
        BY <1>4, <4>1
    <3>5. a[x + 2] = a[p[x + 2] + 1] + 1 /\ d = a[p[x + 1] + 1] + 1
      BY <1>5, <3>1
    <3>6. QED
      BY ONLY <3>3, <3>4, <3>5
  <2>3. QED
    BY <2>1, <2>2
<1>7. b[x + 1] = d /\ \A j \in 0..r : j # x => b[j + 1] = a[j + 1]
  BY DEF NodeGets
<1>8. Depths(b, p, r, x)
  <2>1. \A j \in 0..(x - 1) : b[j + 1] = p[j + 1]
    <3> SUFFICES ASSUME NEW j \in 0..(x - 1) PROVE b[j + 1] = p[j + 1]
      OBVIOUS
    <3>1. j \in 0..r /\ j # x /\ j \in 0..((x + 1) - 1)
      OBVIOUS
    <3>2. QED
      BY <1>7, <3>1 DEF Depths
  <2>2. b[r + 1] = 0
    <3>1. r \in 0..r /\ r # x
      OBVIOUS
    <3>2. QED
      BY <1>7, <3>1 DEF Depths
  <2>3. \A j \in x..(r - 1) : b[j + 1] = b[p[j + 1] + 1] + 1
    <3> SUFFICES ASSUME NEW j \in x..(r - 1) PROVE b[j + 1] = b[p[j + 1] + 1] + 1
      OBVIOUS
    <3>1. p[j + 1] \in (j + 1)..r
      <4>1. j \in 0..(r - 1) /\ (r + 1) - 1 = r
        OBVIOUS
      <4>2. QED
        BY <4>1 DEF Parents
    <3>2. p[j + 1] \in 0..r /\ p[j + 1] # x /\ j \in 0..r
      BY <3>1
    <3>3. b[p[j + 1] + 1] = a[p[j + 1] + 1]
      BY <1>7, <3>2
    <3>4. CASE j = x
      BY <1>5, <1>7, <3>3, <3>4
    <3>5. CASE j # x
      <4>1. j \in (x + 1)..(r - 1)
        BY <3>5
      <4>2. a[j + 1] = a[p[j + 1] + 1] + 1
        BY <4>1 DEF Depths
      <4>3. QED
        BY <1>7, <3>2, <3>3, <3>5, <4>2
    <3>6. QED
      BY <3>4, <3>5
  <2>4. \A i, j \in x..r : i <= j => b[j + 1] <= b[i + 1]
    <3> SUFFICES ASSUME NEW i \in x..r, NEW j \in x..r, i <= j PROVE b[j + 1] <= b[i + 1]
      OBVIOUS
    <3>1. i \in 0..r /\ j \in 0..r /\ x + 1 \in (x + 1)..r
      OBVIOUS
    <3>2. CASE i # x
      <4>1. i \in (x + 1)..r /\ j \in (x + 1)..r /\ j # x
        BY <3>2
      <4>2. a[j + 1] <= a[i + 1]
        BY <4>1 DEF Depths
      <4>3. QED
        BY <1>7, <3>1, <3>2, <4>1, <4>2
    <3>3. CASE i = x /\ j = x
      BY <1>5, <1>7, <3>3
    <3>4. CASE i = x /\ j # x
      <4>1. j \in (x + 1)..r /\ x + 1 <= j
        BY <3>4
      <4>2. a[j + 1] <= a[(x + 1) + 1]
        BY <3>1, <4>1 DEF Depths
      <4>3. (x + 1) + 1 = x + 2 /\ a[j + 1] \in Nat /\ a[x + 2] \in Nat
        BY <1>4, <3>1
      <4>4. b[i + 1] = d /\ b[j + 1] = a[j + 1]
        BY <1>7, <3>1, <3>4
      <4>5. QED
        BY ONLY <1>5, <1>6, <4>2, <4>3, <4>4
    <3>5. QED
      BY <3>2, <3>3, <3>4
  <2>5. QED
    BY <2>1, <2>2, <2>3, <2>4 DEF Depths
<1>9. QED
  BY <1>1, <1>5, <1>6, <1>7, <1>8

\* A codeword of l bits gives way to two of one more.
Splits(lc, nc, m, l) ==
  /\ nc[l] = lc[l] - 1 /\ nc[l + 1] = lc[l + 1] + 2
  /\ \A j \in 0..(m + 1) : j # l /\ j # l + 1 => nc[j] = lc[j]

\* What is known of them: nodes x + 1 and up, of depth D and less.
AtLevel(r, m, x, fn, g, D, a, lc) ==
  /\ r \in Nat /\ m \in Nat /\ x \in Nat /\ fn \in Nat /\ g \in Nat /\ D \in Nat
  /\ x + 1 <= fn /\ fn <= g /\ g <= r /\ a[x + 1 + 1] = D
  /\ \A j \in 0..r : a[j + 1] \in Nat
  /\ LevelFrom(a, lc, r, m, x + 1, fn, g)

\* A node that is deeper than the one after it begins a level.
LEMMA NextLevel ==
  ASSUME NEW r, NEW m, NEW x, NEW fn, NEW g, NEW D, NEW a, NEW b, NEW lc, NEW nc, NEW d,
         AtLevel(r, m, x, fn, g, D, a, lc), d = D + 1, d < m, NodeGets(a, b, r, x, d),
         Splits(lc, nc, m, d)
  PROVE  lc[d] >= 1 /\ LevelFrom(b, nc, r, m, x, x, fn)
<1> r \in Nat /\ m \in Nat /\ x \in Nat /\ fn \in Nat /\ g \in Nat /\ D \in Nat
  BY DEF AtLevel
<1> x + 1 <= fn /\ fn <= g /\ g <= r /\ a[x + 1 + 1] = D /\ D + 1 < m
  BY DEF AtLevel
<1> \A j \in 0..r : a[j + 1] \in Nat
  BY DEF AtLevel
<1> LevelFrom(a, lc, r, m, x + 1, fn, g) /\ NodeGets(a, b, r, x, D + 1) /\ Splits(lc, nc, m, D + 1)
  BY DEF AtLevel
<1>1. /\ \A j \in (x + 1)..fn : a[j + 1] = D
      /\ \A j \in (fn + 1)..g : a[j + 1] = D - 1
      /\ \A j \in (g + 1)..r : a[j + 1] < D - 1
      /\ lc[D + 1] = 2 * (fn - (x + 1) + 1)
      /\ \A l \in (D + 2)..(m + 1) : lc[l] = 0
  BY DEF LevelFrom
<1>2. b[x + 1] = D + 1 /\ \A j \in 0..r : j # x => b[j + 1] = a[j + 1]
  BY DEF NodeGets
<1>3. /\ nc[D + 1] = lc[D + 1] - 1 /\ nc[D + 1 + 1] = lc[D + 1 + 1] + 2
      /\ \A l \in 0..(m + 1) : l # D + 1 /\ l # D + 1 + 1 => nc[l] = lc[l]
  BY DEF Splits
<1>4. \A j \in x..x : b[j + 1] = D + 1
  <2> SUFFICES ASSUME NEW j \in x..x PROVE b[j + 1] = D + 1
    OBVIOUS
  <2>1. j = x
    OBVIOUS
  <2>2. QED
    BY <1>2, <2>1
<1>5. \A j \in (x + 1)..fn : b[j + 1] = D
  <2> SUFFICES ASSUME NEW j \in (x + 1)..fn PROVE b[j + 1] = D
    OBVIOUS
  <2>1. j \in 0..r /\ j # x
    BY ONLY j \in (x + 1)..fn, x \in Nat, fn \in Nat, g \in Nat, r \in Nat, fn <= g, g <= r
  <2>2. QED
    BY ONLY <1>1, <1>2, <2>1, j \in (x + 1)..fn
<1>6. \A j \in (fn + 1)..r : b[j + 1] < D
  <2> SUFFICES ASSUME NEW j \in (fn + 1)..r PROVE b[j + 1] < D
    OBVIOUS
  <2>1. j \in 0..r /\ j # x /\ (j \in (fn + 1)..g \/ j \in (g + 1)..r)
    BY ONLY j \in (fn + 1)..r, x \in Nat, fn \in Nat, g \in Nat, r \in Nat, x + 1 <= fn, fn <= g, g <= r
  <2>2. b[j + 1] = a[j + 1] /\ a[j + 1] \in Nat
    BY ONLY <1>2, <2>1, \A i \in 0..r : a[i + 1] \in Nat
  <2>3. a[j + 1] = D - 1 \/ a[j + 1] < D - 1
    BY ONLY <1>1, <2>1
  <2>4. QED
    BY ONLY <2>2, <2>3, D \in Nat
<1>7. nc[D + 1 + 1] = 2 * (x - x + 1)
  <2>1. D + 1 + 1 \in (D + 2)..(m + 1)
    BY ONLY D \in Nat, m \in Nat, D + 1 < m
  <2>2. lc[D + 1 + 1] = 0
    BY ONLY <1>1, <2>1
  <2>3. QED
    BY ONLY <1>3, <2>2, x \in Nat
<1>8. lc[D + 1] >= 1 /\ nc[D + 1] = 2 * (fn - x) - (x - x + 1)
  BY ONLY <1>1, <1>3, x \in Nat, fn \in Nat, x + 1 <= fn
<1>9. \A l \in (D + 1 + 2)..(m + 1) : nc[l] = 0
  <2> SUFFICES ASSUME NEW l \in (D + 1 + 2)..(m + 1) PROVE nc[l] = 0
    OBVIOUS
  <2>1. l \in 0..(m + 1) /\ l # D + 1 /\ l # D + 1 + 1 /\ l \in (D + 2)..(m + 1)
    BY ONLY l \in (D + 1 + 2)..(m + 1), D \in Nat, m \in Nat
  <2>2. QED
    BY ONLY <1>1, <1>3, <2>1
<1>10. \A j \in (x + 1)..fn : b[j + 1] = (D + 1) - 1
  <2>1. (D + 1) - 1 = D
    OBVIOUS
  <2>2. QED
    BY ONLY <1>5, <2>1
<1>11. \A j \in (fn + 1)..r : b[j + 1] < (D + 1) - 1
  <2>1. (D + 1) - 1 = D
    OBVIOUS
  <2>2. QED
    BY ONLY <1>6, <2>1
<1>12. x <= fn
  OBVIOUS
<1>13. QED
  BY ONLY <1>2, <1>4, <1>7, <1>8, <1>9, <1>10, <1>11, <1>12, d = D + 1 DEF LevelFrom

\* A node as deep as the one after it is one more of its level; the parents of the level
\* have not had all their children.
LEMMA SameLevel ==
  ASSUME NEW r, NEW m, NEW x, NEW fn, NEW g, NEW D, NEW a, NEW b, NEW lc, NEW nc,
         AtLevel(r, m, x, fn, g, D, a, lc), 1 <= D, D < m, fn - x <= 2 * (g - fn) - 1,
         NodeGets(a, b, r, x, D), Splits(lc, nc, m, D)
  PROVE  lc[D] >= 1 /\ LevelFrom(b, nc, r, m, x, fn, g)
<1> r \in Nat /\ m \in Nat /\ x \in Nat /\ fn \in Nat /\ g \in Nat /\ D \in Nat
  BY DEF AtLevel
<1> x + 1 <= fn /\ fn <= g /\ g <= r /\ a[x + 1 + 1] = D
  BY DEF AtLevel
<1> \A j \in 0..r : a[j + 1] \in Nat
  BY DEF AtLevel
<1> LevelFrom(a, lc, r, m, x + 1, fn, g)
  BY DEF AtLevel
<1>1. /\ \A j \in (x + 1)..fn : a[j + 1] = D
      /\ \A j \in (fn + 1)..g : a[j + 1] = D - 1
      /\ \A j \in (g + 1)..r : a[j + 1] < D - 1
      /\ lc[D + 1] = 2 * (fn - (x + 1) + 1)
      /\ lc[D] = 2 * (g - fn) - (fn - (x + 1) + 1)
      /\ \A l \in (D + 2)..(m + 1) : lc[l] = 0
  BY DEF LevelFrom
<1>2. b[x + 1] = D /\ \A j \in 0..r : j # x => b[j + 1] = a[j + 1]
  BY DEF NodeGets
<1>3. /\ nc[D] = lc[D] - 1 /\ nc[D + 1] = lc[D + 1] + 2
      /\ \A l \in 0..(m + 1) : l # D /\ l # D + 1 => nc[l] = lc[l]
  BY DEF Splits
<1>4. \A j \in x..fn : b[j + 1] = D
  <2> SUFFICES ASSUME NEW j \in x..fn PROVE b[j + 1] = D
    OBVIOUS
  <2>1. j = x \/ (j \in (x + 1)..fn /\ j \in 0..r /\ j # x)
    BY ONLY j \in x..fn, x \in Nat, fn \in Nat, g \in Nat, r \in Nat, fn <= g, g <= r
  <2>2. QED
    BY ONLY <1>1, <1>2, <2>1
<1>5. \A j \in (fn + 1)..g : b[j + 1] = D - 1
  <2> SUFFICES ASSUME NEW j \in (fn + 1)..g PROVE b[j + 1] = D - 1
    OBVIOUS
  <2>1. j \in 0..r /\ j # x
    BY ONLY j \in (fn + 1)..g, x \in Nat, fn \in Nat, g \in Nat, r \in Nat, x + 1 <= fn, g <= r
  <2>2. QED
    BY ONLY <1>1, <1>2, <2>1, j \in (fn + 1)..g
<1>6. \A j \in (g + 1)..r : b[j + 1] < D - 1
  <2> SUFFICES ASSUME NEW j \in (g + 1)..r PROVE b[j + 1] < D - 1
    OBVIOUS
  <2>1. j \in 0..r /\ j # x
    BY ONLY j \in (g + 1)..r, x \in Nat, fn \in Nat, g \in Nat, r \in Nat, x + 1 <= fn, fn <= g
  <2>2. QED
    BY ONLY <1>1, <1>2, <2>1, j \in (g + 1)..r
<1>7. nc[D + 1] = 2 * (fn - x + 1) /\ nc[D] = 2 * (g - fn) - (fn - x + 1) /\ lc[D] >= 1
  BY ONLY <1>1, <1>3, x \in Nat, fn \in Nat, g \in Nat, fn - x <= 2 * (g - fn) - 1
<1>8. \A l \in (D + 2)..(m + 1) : nc[l] = 0
  <2> SUFFICES ASSUME NEW l \in (D + 2)..(m + 1) PROVE nc[l] = 0
    OBVIOUS
  <2>1. l \in 0..(m + 1) /\ l # D /\ l # D + 1
    BY ONLY l \in (D + 2)..(m + 1), D \in Nat, m \in Nat
  <2>2. QED
    BY ONLY <1>1, <1>3, <2>1, l \in (D + 2)..(m + 1)
<1>9. QED
  BY ONLY <1>2, <1>4, <1>5, <1>6, <1>7, <1>8, fn <= g DEF LevelFrom

\* As long as no node is too deep there is a codeword for the next one to take.
LEMMA LevelKept ==
  ASSUME NEW r \in Nat, NEW m \in Nat, NEW x \in Nat, x + 1 <= r, NEW p, Parents(p, r, r + 1),
         NEW a, \A j \in 0..r : a[j + 1] \in Nat, Depths(a, p, r, x + 1),
         NEW b, NEW d, NodeGets(a, b, r, x, d), d = a[p[x + 1] + 1] + 1, d < m,
         NEW lc, NEW nc, Level(a, lc, r, m, x + 1), d \in 1..(m - 1) => Splits(lc, nc, m, d)
  PROVE  d \in 1..(m - 1) /\ lc[d] >= 1 /\ Level(b, nc, r, m, x)
<1>1. PICK fn \in (x + 1)..r, g \in (x + 1)..r : LevelFrom(a, lc, r, m, x + 1, fn, g)
  BY DEF Level
<1>2. PICK D : D = a[x + 1 + 1]
  OBVIOUS
<1>3. PICK q : q = p[x + 1]
  OBVIOUS
<1>4. /\ fn \in Nat /\ g \in Nat /\ x + 1 <= fn /\ fn <= r /\ g <= r /\ fn <= g
  BY ONLY <1>1, r \in Nat, x \in Nat DEF LevelFrom
<1>5. D \in Nat
  <2>1. x + 1 \in 0..r
    OBVIOUS
  <2>2. QED
    BY ONLY <1>2, <2>1, \A j \in 0..r : a[j + 1] \in Nat
<1>6. /\ \A j \in (x + 1)..fn : a[j + 1] = D
      /\ \A j \in (fn + 1)..g : a[j + 1] = D - 1
      /\ \A j \in (g + 1)..r : a[j + 1] < D - 1
  BY ONLY <1>1, <1>2 DEF LevelFrom
<1>7. \A j \in 0..(r - 1) : p[j + 1] \in Nat /\ j + 1 <= p[j + 1] /\ p[j + 1] <= r
  <2> SUFFICES ASSUME NEW j \in 0..(r - 1) PROVE p[j + 1] \in Nat /\ j + 1 <= p[j + 1] /\ p[j + 1] <= r
    OBVIOUS
  <2>1. p[j + 1] \in (j + 1)..((r + 1) - 1)
    BY DEF Parents
  <2>2. QED
    BY ONLY <2>1, r \in Nat, j \in 0..(r - 1)
<1>8. q \in Nat /\ x + 1 <= q /\ q <= r
  <2>1. x \in 0..(r - 1)
    BY ONLY r \in Nat, x \in Nat, x + 1 <= r
  <2>2. QED
    BY ONLY <1>3, <1>7, <2>1
<1>9. d = a[q + 1] + 1 /\ d \in 1..(m - 1) /\ a[q + 1] \in Nat
  <2>1. q \in 0..r
    BY ONLY <1>8, r \in Nat
  <2>2. a[q + 1] \in Nat
    BY ONLY <2>1, \A j \in 0..r : a[j + 1] \in Nat
  <2>3. d = a[q + 1] + 1
    BY ONLY <1>3, d = a[p[x + 1] + 1] + 1
  <2>4. QED
    BY ONLY <2>2, <2>3, d < m, m \in Nat
<1>10. Splits(lc, nc, m, d)
  BY ONLY <1>9, d \in 1..(m - 1) => Splits(lc, nc, m, d)
<1>11. AtLevel(r, m, x, fn, g, D, a, lc)
  BY ONLY <1>1, <1>2, <1>4, <1>5, r \in Nat, m \in Nat, x \in Nat, \A j \in 0..r : a[j + 1] \in Nat
     DEF AtLevel
<1>12. CASE q <= fn
  <2>1. d = D + 1
    <3>1. q \in (x + 1)..fn
      BY ONLY <1>4, <1>8, <1>12, x \in Nat
    <3>2. QED
      BY ONLY <1>6, <1>9, <3>1
  <2>2. lc[D + 1] >= 1 /\ LevelFrom(b, nc, r, m, x, x, fn)
    <3>1. lc[d] >= 1 /\ LevelFrom(b, nc, r, m, x, x, fn)
      BY ONLY <1>10, <1>11, <2>1, d < m, NodeGets(a, b, r, x, d), NextLevel
    <3>2. QED
      BY ONLY <2>1, <3>1
  <2>3. x \in x..r /\ fn \in x..r
    BY ONLY <1>4, x \in Nat, r \in Nat
  <2>4. QED
    BY ONLY <1>9, <2>1, <2>2, <2>3 DEF Level
<1>13. CASE q > fn
  <2>1. x + 1 < r /\ fn < r
    BY ONLY <1>4, <1>8, <1>13, x \in Nat, r \in Nat
  <2>2. PICK s : s = p[x + 1 + 1]
    OBVIOUS
  <2>3. s \in Nat /\ q <= s /\ s <= r /\ D = a[s + 1] + 1 /\ a[s + 1] \in Nat
    <3>1. x + 1 \in 0..(r - 1) /\ x \in 0..(r + 1 - 3) /\ x + 1 \in (x + 1)..(r - 1)
      BY ONLY <2>1, x \in Nat, r \in Nat
    <3>2. s \in Nat /\ s <= r
      BY ONLY <1>7, <2>2, <3>1
    <3>3. q <= s
      <4>1. x \in 0..(r - 2) /\ x + 2 = x + 1 + 1
        BY ONLY <2>1, x \in Nat, r \in Nat
      <4>2. p[x + 1] <= p[x + 2]
        BY ONLY <4>1, Parents(p, r, r + 1) DEF Parents
      <4>3. QED
        BY ONLY <1>3, <2>2, <4>1, <4>2
    <3>4. a[x + 1 + 1] = a[p[x + 1 + 1] + 1] + 1
      BY ONLY <3>1, Depths(a, p, r, x + 1) DEF Depths
    <3>5. s \in 0..r
      BY ONLY <3>2, r \in Nat
    <3>6. QED
      BY ONLY <1>2, <2>2, <3>2, <3>3, <3>4, <3>5, \A j \in 0..r : a[j + 1] \in Nat
  <2>4. s <= g
    <3>1. s > g => s \in (g + 1)..r
      BY ONLY <1>4, <2>3, r \in Nat
    <3>2. s > g => a[s + 1] < D - 1
      BY ONLY <1>6, <3>1
    <3>3. QED
      BY ONLY <1>4, <1>5, <2>3, <3>2
  <2>5. d = D
    <3>1. q \in (fn + 1)..g
      BY ONLY <1>4, <1>8, <1>13, <2>3, <2>4
    <3>2. a[q + 1] = D - 1
      BY ONLY <1>6, <3>1
    <3>3. QED
      BY ONLY <1>5, <1>9, <3>2
  <2>6. PICK t : t = p[fn + 1]
    OBVIOUS
  <2>7. t \in Nat /\ t <= g
    <3>1. fn \in 0..(r - 1) /\ fn \in (x + 1)..(r - 1) /\ fn \in (x + 1)..fn
      BY ONLY <1>4, <2>1, x \in Nat, r \in Nat
    <3>2. t \in Nat /\ t <= r
      BY ONLY <1>7, <2>6, <3>1
    <3>3. a[fn + 1] = a[t + 1] + 1
      BY ONLY <2>6, <3>1, Depths(a, p, r, x + 1) DEF Depths
    <3>4. a[fn + 1] = D
      BY ONLY <1>6, <3>1
    <3>5. a[t + 1] \in Nat
      <4>1. t \in 0..r
        BY ONLY <3>2, r \in Nat
      <4>2. QED
        BY ONLY <4>1, \A j \in 0..r : a[j + 1] \in Nat
    <3>6. t > g => t \in (g + 1)..r
      BY ONLY <1>4, <3>2, r \in Nat
    <3>7. t > g => a[t + 1] < D - 1
      BY ONLY <1>6, <3>6
    <3>8. QED
      BY ONLY <1>4, <1>5, <3>2, <3>3, <3>4, <3>5, <3>7
  <2>8. fn - x <= 2 * (t - q) + 1
    <3>1. x \in 0..(r - 1) /\ fn \in x..(r - 1)
      BY ONLY <1>4, <2>1, x \in Nat, r \in Nat
    <3>2. fn - x <= 2 * (p[fn + 1] - p[x + 1]) + 1
      BY ONLY <3>1, r \in Nat, Parents(p, r, r + 1), Spread
    <3>3. QED
      BY ONLY <1>3, <2>6, <3>2
  <2>9. fn - x <= 2 * (g - fn) - 1
    BY ONLY <1>4, <1>8, <1>13, <2>7, <2>8, x \in Nat
  <2>10. lc[D] >= 1 /\ LevelFrom(b, nc, r, m, x, fn, g)
    <3>1. NodeGets(a, b, r, x, D) /\ Splits(lc, nc, m, D) /\ D < m
      BY ONLY <1>10, <2>5, d < m, NodeGets(a, b, r, x, d)
    <3>2. 1 <= D
      BY ONLY <1>9, <2>5, m \in Nat
    <3>3. QED
      BY ONLY <1>11, <2>9, <3>1, <3>2, SameLevel
  <2>11. fn \in x..r /\ g \in x..r
    BY ONLY <1>4, x \in Nat, r \in Nat
  <2>12. QED
    BY ONLY <1>9, <2>5, <2>10, <2>11 DEF Level
<1>14. QED
  BY ONLY <1>4, <1>8, <1>12, <1>13

\* The greatest of a set of numbers up to m is one of them.
LEMMA MaxUpTo ==
  ASSUME NEW m \in Nat, NEW P \in SUBSET (0..m), P # {}
  PROVE  Max(P) \in P
<1>1. {m - p : p \in P} \in SUBSET Nat /\ {m - p : p \in P} # {}
  <2>1. \A p \in P : m - p \in Nat
    <3> SUFFICES ASSUME NEW p \in P PROVE m - p \in Nat
      OBVIOUS
    <3>1. p \in 0..m
      OBVIOUS
    <3>2. QED
      BY <3>1
  <2>2. QED
    BY <2>1
<1>2. PICK dq \in {m - p : p \in P} : \A e \in {m - p : p \in P} : dq <= e
  BY <1>1, LeastNat
<1>3. PICK p \in P : dq = m - p
  BY <1>2
<1>4. \A q \in P : p >= q
  <2> SUFFICES ASSUME NEW q \in P PROVE p >= q
    OBVIOUS
  <2>1. p \in 0..m /\ q \in 0..m /\ m - p <= m - q
    BY <1>2, <1>3
  <2>2. QED
    BY <2>1
<1>5. QED
  BY <1>4 DEF Max

\* An iteration of computeLengthCounts: a codeword is there to be taken, at the node's depth or,
\* where that is beyond the limit, at some length below it.
LEMMA CountStepKeeps ==
  ASSUME NEW n \in Nat, n > 2, NEW m \in 1..31, n <= pow2[m], NEW p, Parents(p, n - 2, n - 1),
         NEW x \in 0..(n - 3), NEW c, CountInv(n, m, p, c, x + 1)
  PROVE  CountInv(n, m, p, deeper(c, x, m), x)
<1>1. PICK r : r = n - 2
  OBVIOUS
<1>2. PICK a, lc : a = c.a /\ lc = c.lenCounts
  OBVIOUS
<1>3. PICK d : d = a[a[x + 1] + 1] + 1
  OBVIOUS
<1>4. PICK l : l = pulledUp(lc, d, m)
  OBVIOUS
<1>5. PICK b : b = [a EXCEPT ![x + 1] = d]
  OBVIOUS
<1>6. PICK nc : nc = [lc EXCEPT ![l] = @ - 1, ![l + 1] = @ + 2]
  OBVIOUS
<1>7. deeper(c, x, m) = [a |-> b, lenCounts |-> nc]
  BY ONLY <1>2, <1>3, <1>4, <1>5, <1>6 DEF deeper
<1>8. /\ r \in Nat /\ x \in Nat /\ x + 1 <= r /\ r + 1 = n - 1 /\ m \in Nat
  BY ONLY <1>1, n \in Nat, n > 2, x \in 0..(n - 3), m \in 1..31
<1>9. /\ a \in [1..n -> Nat] /\ lc \in [0..(m + 1) -> Int]
      /\ Depths(a, p, n - 2, x + 1)
      /\ \A j \in 0..(m + 1) : lc[j] >= 0
      /\ unused(lc, m)[m] = 0 /\ longerThan(lc, m)[0] = n - (x + 1)
      /\ a[x + 1 + 1] < m => Level(a, lc, r, m, x + 1)
  BY ONLY <1>1, <1>2, CountInv(n, m, p, c, x + 1) DEF CountInv, CountStates
<1>10. \A j \in 0..r : a[j + 1] \in Nat
  <2> SUFFICES ASSUME NEW j \in 0..r PROVE a[j + 1] \in Nat
    OBVIOUS
  <2>1. j + 1 \in 1..n
    BY ONLY <1>1, n \in Nat, n > 2, j \in 0..r
  <2>2. QED
    BY ONLY <1>9, <2>1
<1>11. NodeGets(a, b, r, x, d) /\ b[x + 1] = d
  <2>1. x + 1 \in 1..n
    BY ONLY n \in Nat, n > 2, x \in 0..(n - 3)
  <2>2. b[x + 1] = d
    BY ONLY <1>5, <1>9, <2>1
  <2>3. \A j \in 0..r : j # x => b[j + 1] = a[j + 1]
    <3> SUFFICES ASSUME NEW j \in 0..r, j # x PROVE b[j + 1] = a[j + 1]
      OBVIOUS
    <3>1. j + 1 \in 1..n /\ j + 1 # x + 1
      BY ONLY <1>1, <1>8, n \in Nat, n > 2, j \in 0..r, j # x
    <3>2. QED
      BY ONLY <1>5, <1>9, <3>1
  <2>4. QED
    BY ONLY <2>2, <2>3 DEF NodeGets
<1>12. /\ a[x + 1] = p[x + 1]
       /\ d \in Nat /\ d >= a[x + 2] /\ b \in [1..n -> Nat] /\ Depths(b, p, n - 2, x)
  <2>1. Depths(a, p, r, x + 1) /\ Parents(p, r, r + 1)
    BY ONLY <1>1, <1>8, <1>9, Parents(p, n - 2, n - 1)
  <2>2. /\ a[x + 1] = p[x + 1]
        /\ d \in Nat /\ d >= a[x + 2] /\ Depths(b, p, r, x)
    BY ONLY <1>3, <1>8, <1>10, <1>11, <2>1, DepthsKept
  <2>3. b \in [1..n -> Nat]
    BY ONLY <1>5, <1>9, <2>2
  <2>4. QED
    BY ONLY <1>1, <2>2, <2>3
<1>13. l \in 1..(m - 1) => Splits(lc, nc, m, l)
  <2> SUFFICES ASSUME l \in 1..(m - 1) PROVE Splits(lc, nc, m, l)
    OBVIOUS
  <2>1. l \in 0..(m + 1) /\ l + 1 \in 0..(m + 1) /\ l # l + 1
    BY ONLY l \in 1..(m - 1), m \in 1..31
  <2>2. QED
    BY ONLY <1>6, <1>9, <2>1 DEF Splits
<1>14. /\ l \in 1..(m - 1) /\ lc[l] >= 1
       /\ b[x + 1] < m => Level(b, nc, r, m, x)
  <2>1. CASE d < m
    <3>1. l = d
      BY ONLY <1>4, <2>1 DEF pulledUp
    <3>2. Level(a, lc, r, m, x + 1)
      <4>1. x + 2 = x + 1 + 1 /\ a[x + 2] \in Nat
        <5>1. x + 1 \in 0..r /\ x + 2 = x + 1 + 1
          BY ONLY <1>8
        <5>2. QED
          BY ONLY <1>10, <5>1
      <4>2. QED
        BY ONLY <1>8, <1>9, <1>12, <2>1, <4>1, SMTT(30)
    <3>3. Parents(p, r, r + 1) /\ Depths(a, p, r, x + 1)
      BY ONLY <1>1, <1>8, <1>9, Parents(p, n - 2, n - 1)
    <3>4. d = a[p[x + 1] + 1] + 1
      BY ONLY <1>3, <1>12
    <3>5. d \in 1..(m - 1) => Splits(lc, nc, m, d)
      BY ONLY <1>13, <3>1
    <3>6. d \in 1..(m - 1) /\ lc[d] >= 1 /\ Level(b, nc, r, m, x)
      BY ONLY <1>8, <1>10, <1>11, <2>1, <3>2, <3>3, <3>4, <3>5, LevelKept
    <3>7. QED
      BY ONLY <3>1, <3>6
  <2>2. CASE d >= m
    <3> DEFINE T == {j \in 1..(m - 1) : lc[j] # 0}
    <3>1. ~(d < m)
      BY ONLY <1>8, <1>12, <2>2
    <3>2. l = Max(T)
      BY ONLY <1>4, <3>1 DEF pulledUp
    <3>3. longerThan(lc, m)[0] < pow2[m]
      <4>1. pow2[m] \in Nat
        BY Pow2Is
      <4>2. QED
        BY ONLY <1>8, <1>9, <4>1, n \in Nat, n <= pow2[m], SMTT(30)
    <3>4. \E j \in 1..(m - 1) : lc[j] # 0
      BY ONLY <1>9, <3>3, m \in 1..31, SomeShort
    <3>5. T # {}
      BY ONLY <3>4
    <3>6. T \in SUBSET (0..m)
      OBVIOUS
    <3>7. Max(T) \in T
      <4> HIDE DEF T
      <4>1. QED
        BY ONLY <1>8, <3>5, <3>6, MaxUpTo
    <3>8. l \in 1..(m - 1) /\ lc[l] # 0
      BY ONLY <3>2, <3>7
    <3>9. lc[l] >= 1
      <4>1. l \in 0..(m + 1)
        BY ONLY <3>8, m \in 1..31
      <4>2. lc[l] \in Int /\ lc[l] >= 0
        BY ONLY <1>9, <4>1
      <4>3. QED
        BY ONLY <3>8, <4>2
    <3>10. QED
      BY ONLY <1>11, <3>1, <3>8, <3>9
  <2>3. QED
    BY ONLY <1>8, <1>12, <2>1, <2>2
<1>15. /\ nc \in [0..(m + 1) -> Int]
       /\ unused(nc, m)[m] = 0 /\ longerThan(nc, m)[0] = n - x
  <2>1. /\ nc \in [0..(m + 1) -> Int]
        /\ unused(nc, m)[m] = unused(lc, m)[m]
        /\ longerThan(nc, m)[0] = longerThan(lc, m)[0] + 1
    <3>1. m \in Nat /\ lc \in [0..(m + 1) -> Int] /\ l \in 1..(m - 1)
      BY ONLY <1>8, <1>9, <1>14
    <3>2. QED
      BY ONLY <1>6, <3>1, SplitCodeword
  <2>2. QED
    BY ONLY <1>8, <1>9, <2>1, n \in Nat
<1>16. \A j \in 0..(m + 1) : nc[j] >= 0
  <2> SUFFICES ASSUME NEW j \in 0..(m + 1) PROVE nc[j] >= 0
    OBVIOUS
  <2>1. lc[j] \in Int /\ lc[j] >= 0
    BY ONLY <1>9, j \in 0..(m + 1)
  <2>2. l \in Int
    BY ONLY <1>14
  <2>3. nc[j] = IF j = l + 1 THEN lc[j] + 2 ELSE IF j = l THEN lc[j] - 1 ELSE lc[j]
    BY ONLY <1>13, <1>14, <2>2, j \in 0..(m + 1) DEF Splits
  <2>4. QED
    BY ONLY <1>14, <2>1, <2>2, <2>3
<1>17. QED
  <2> DEFINE u == [a |-> b, lenCounts |-> nc]
  <2>1. u \in CountStates(n, m) /\ u.a = b /\ u.lenCounts = nc
    BY ONLY <1>12, <1>15 DEF CountStates
  <2> HIDE DEF u
  <2>2. CountInv(n, m, p, u, x)
    BY ONLY <1>1, <1>12, <1>14, <1>15, <1>16, <2>1 DEF CountInv
  <2>3. QED
    BY ONLY <1>7, <2>2 DEF u

\* Before the first iteration there are the root and its two children.
LEMMA FirstCounts ==
  ASSUME NEW n \in Nat, n > 2, NEW m \in 1..31, NEW p \in [1..n -> Nat],
         NEW c, c = [a |-> [p EXCEPT ![n - 2 + 1] = 0],
                     lenCounts |-> [l \in 0..(m + 1) |-> IF l = 1 THEN 2 ELSE 0]]
  PROVE  CountInv(n, m, p, c, n - 2)
<1>1. PICK r : r = n - 2
  OBVIOUS
<1>2. PICK a, lc : a = c.a /\ lc = c.lenCounts
  OBVIOUS
<1>3. r \in Nat /\ r + 1 = n - 1 /\ r + 1 \in 1..n /\ m \in Nat /\ r + 1 = n - 2 + 1
  BY ONLY <1>1, n \in Nat, n > 2, m \in 1..31
<1>4. a = [p EXCEPT ![r + 1] = 0] /\ lc = [l \in 0..(m + 1) |-> IF l = 1 THEN 2 ELSE 0]
  BY <1>1, <1>2
<1>5. a \in [1..n -> Nat] /\ a[r + 1] = 0 /\ \A j \in 1..n : j # r + 1 => a[j] = p[j]
  BY ONLY <1>3, <1>4, p \in [1..n -> Nat]
<1>6. lc \in [0..(m + 1) -> Int] /\ lc[1] = 2 /\ \A l \in 0..(m + 1) : l # 1 => lc[l] = 0
  BY ONLY <1>3, <1>4, m \in 1..31
<1>7. Depths(a, p, r, r)
  <2>1. \A j \in 0..(r - 1) : a[j + 1] = p[j + 1]
    <3> SUFFICES ASSUME NEW j \in 0..(r - 1) PROVE a[j + 1] = p[j + 1]
      OBVIOUS
    <3>1. j + 1 \in 1..n /\ j + 1 # r + 1
      BY ONLY <1>1, <1>3, j \in 0..(r - 1), n \in Nat
    <3>2. QED
      BY ONLY <1>5, <3>1
  <2>2. \A j \in r..(r - 1) : a[j + 1] = a[p[j + 1] + 1] + 1
    BY ONLY <1>3
  <2>3. \A i, j \in r..r : i <= j => a[j + 1] <= a[i + 1]
    <3> SUFFICES ASSUME NEW i \in r..r, NEW j \in r..r PROVE a[j + 1] <= a[i + 1]
      OBVIOUS
    <3>1. i = r /\ j = r
      BY ONLY <1>3, i \in r..r, j \in r..r
    <3>2. QED
      BY ONLY <1>5, <3>1
  <2>4. QED
    BY ONLY <1>5, <2>1, <2>2, <2>3 DEF Depths
<1>8. \A l \in 1..m : lc[l] \in Int
  BY ONLY <1>6, m \in 1..31
<1>9. unused(lc, m)[m] = 0
  <2> DEFINE u == unused(lc, m)
             P == {l \in 0..m : l > 0 => u[l] = 0}
  <2>1. u[0] = 1 /\ \A l \in 1..m : u[l] = 2 * u[l - 1] - lc[l]
    BY ONLY <1>3, <1>8, UnusedIs
  <2>2. 0 \in P
    BY ONLY <1>3
  <2> HIDE DEF u
  <2>3. ASSUME NEW l \in 1..m, l - 1 \in P PROVE l \in P
    <3>1. u[l] = 2 * u[l - 1] - lc[l] /\ l \in 0..(m + 1) /\ l \in 0..m
      BY ONLY <2>1, l \in 1..m, m \in 1..31
    <3>2. CASE l = 1
      <4>1. u[l] = 2 * u[0] - lc[1]
        BY ONLY <3>1, <3>2
      <4>2. QED
        BY ONLY <1>6, <2>1, <3>1, <4>1
    <3>3. CASE l # 1
      <4>1. u[l - 1] = 0
        BY ONLY <2>3, <3>3, l \in 1..m, m \in 1..31
      <4>2. QED
        BY ONLY <1>6, <3>1, <3>3, <4>1
    <3>4. QED
      BY ONLY <3>2, <3>3
  <2>4. m \in P
    <3> HIDE DEF P
    <3>1. \A l \in 0..m : l \in P
      BY ONLY <1>3, <2>2, <2>3, UpTo
    <3>2. QED
      BY ONLY <1>3, <3>1
  <2>5. QED
    BY ONLY <2>4, m \in 1..31 DEF u
<1>10. longerThan(lc, m)[0] = 2
  <2> DEFINE s == longerThan(lc, m)
             P == {k \in 0..m : k < m => s[m - k] = 0}
  <2>1. s[m] = 0 /\ \A l \in 1..m : s[l - 1] = s[l] + lc[l]
    BY ONLY <1>3, <1>8, LongerIs
  <2> HIDE DEF s
  <2>2. 0 \in P
    <3>1. m - 0 = m
      BY <1>3
    <3>2. QED
      BY ONLY <1>3, <2>1, <3>1
  <2>3. ASSUME NEW k \in 1..m, k - 1 \in P PROVE k \in P
    <3>1. CASE k < m
      <4>1. PICK e : e = m - (k - 1)
        OBVIOUS
      <4>2. e \in 1..m /\ e - 1 = m - k /\ e # 1 /\ e \in 0..(m + 1)
        BY ONLY <3>1, <4>1, m \in 1..31, k \in 1..m
      <4>3. s[e - 1] = s[e] + lc[e]
        BY ONLY <2>1, <4>2
      <4>4. s[e] = 0
        BY ONLY <2>3, <3>1, <4>1, k \in 1..m, m \in 1..31
      <4>5. lc[e] = 0
        BY ONLY <1>6, <4>2
      <4>6. s[m - k] = 0
        BY ONLY <4>2, <4>3, <4>4, <4>5
      <4>7. QED
        BY ONLY <4>6, k \in 1..m, m \in 1..31
    <3>2. QED
      BY <3>1
  <2>4. m - 1 \in P
    <3> HIDE DEF P
    <3>1. \A k \in 0..m : k \in P
      BY ONLY <1>3, <2>2, <2>3, UpTo
    <3>2. QED
      BY ONLY <3>1, m \in 1..31
  <2>5. s[1] = 0
    <3>1. m - (m - 1) = 1 /\ m - 1 < m
      BY ONLY <1>3
    <3>2. QED
      BY ONLY <2>4, <3>1
  <2>6. s[0] = s[1] + lc[1]
    <3>1. 1 \in 1..m /\ 1 - 1 = 0
      BY ONLY m \in 1..31
    <3>2. QED
      BY ONLY <2>1, <3>1
  <2>7. QED
    BY ONLY <1>6, <2>5, <2>6 DEF s
<1>11. Level(a, lc, r, m, r)
  <2>1. \A j \in r..r : a[j + 1] = 0
    <3> SUFFICES ASSUME NEW j \in r..r PROVE a[j + 1] = 0
      OBVIOUS
    <3>1. j = r
      BY ONLY <1>3, j \in r..r
    <3>2. QED
      BY ONLY <1>5, <3>1
  <2>2. /\ \A j \in (r + 1)..r : a[j + 1] = 0 - 1
        /\ \A j \in (r + 1)..r : a[j + 1] < 0 - 1
    BY ONLY <1>3
  <2>3. lc[0 + 1] = 2 * (r - r + 1)
    BY ONLY <1>3, <1>6
  <2>4. \A l \in (0 + 2)..(m + 1) : lc[l] = 0
    BY ONLY <1>3, <1>6
  <2>5. r \in r..r /\ r <= r
    BY ONLY <1>3
  <2>6. LevelFrom(a, lc, r, m, r, r, r)
    BY ONLY <1>5, <2>1, <2>2, <2>3, <2>4, <2>5 DEF LevelFrom
  <2>7. QED
    BY ONLY <2>5, <2>6 DEF Level
<1>12. \A l \in 0..(m + 1) : lc[l] >= 0
  BY ONLY <1>6
<1>13. c \in CountStates(n, m)
  <2>1. c = [a |-> a, lenCounts |-> lc]
    BY <1>2
  <2>2. QED
    BY ONLY <1>5, <1>6, <2>1 DEF CountStates
<1>14. longerThan(lc, m)[0] = n - r
  BY ONLY <1>1, <1>10, n \in Nat
<1>15. QED
  BY ONLY <1>1, <1>2, <1>7, <1>9, <1>11, <1>12, <1>13, <1>14 DEF CountInv

\* Numbers of codewords for n symbols, of a length up to m.
CountsFor(lc, n, m) ==
  /\ lc \in [0..(m + 1) -> Int] /\ \A l \in 0..(m + 1) : lc[l] >= 0
  /\ unused(lc, m)[m] = 0 /\ longerThan(lc, m)[0] = n

\* A tree of n leaves, as parents of its inner nodes: the root is r.
TreeOf(p, n, r) == r = n - 2 /\ p \in [1..n -> Nat] /\ Parents(p, r, n - 1)

\* What computeLengthCounts returns: numbers of codewords of a complete code for n symbols.
LEMMA CountsRight ==
  ASSUME NEW n \in Nat, n > 2, NEW m \in 1..31, n <= pow2[m],
         NEW p, NEW r, TreeOf(p, n, r),
         NEW lc, lc = computeLengthCounts(p, r, m)
  PROVE  CountsFor(lc, n, m)
<1> DEFINE x == [a |-> [p EXCEPT ![r + 1] = 0],
                 lenCounts |-> [l \in 0..(m + 1) |-> IF l = 1 THEN 2 ELSE 0]]
           S == CountStates(n, m)
<1>1. r = n - 2 /\ Parents(p, n - 2, n - 1) /\ p \in [1..n -> Nat]
  BY DEF TreeOf
<1> DEFINE next(y, k) == deeper(y, r - k, m)
           F == [k \in 1..r |-> [y \in S |-> IF next(y, k) \in S THEN next(y, k) ELSE y]]
           Eq(h) == h = [k \in 0..r |-> IF k = 0 THEN x ELSE next(h[k - 1], k)]
           fn == CHOOSE h : Eq(h)
           Inv(y, k) == CountInv(n, m, p, y, r - k)
<1>2. lc = fn[r].lenCounts
  BY <1>1 DEF computeLengthCounts
<1>3. r \in Nat
  BY ONLY <1>1, n \in Nat, n > 2
<1>4. Inv(x, 0) /\ x \in S
  <2>1. CountInv(n, m, p, x, n - 2)
    <3> HIDE DEF x
    <3>1. x = [a |-> [p EXCEPT ![n - 2 + 1] = 0],
               lenCounts |-> [l \in 0..(m + 1) |-> IF l = 1 THEN 2 ELSE 0]]
      BY <1>1 DEF x
    <3>2. QED
      BY ONLY <3>1, n \in Nat, n > 2, m \in 1..31, <1>1, FirstCounts
  <2> HIDE DEF x
  <2>2. r - 0 = n - 2
    BY ONLY <1>1, <1>3
  <2>3. QED
    BY ONLY <2>1, <2>2 DEF CountInv
<1>5. ASSUME NEW k \in 1..r, NEW y, Inv(y, k - 1) PROVE Inv(next(y, k), k) /\ next(y, k) \in S /\ y \in S
  <2>1. PICK i : i = r - k
    OBVIOUS
  <2>2. i \in 0..(n - 3) /\ r - (k - 1) = i + 1
    BY ONLY <1>1, <2>1, n \in Nat, n > 2, k \in 1..r
  <2>3. CountInv(n, m, p, y, i + 1)
    BY ONLY <1>5, <2>2
  <2>4. CountInv(n, m, p, deeper(y, i, m), i)
    BY ONLY <2>2, <2>3, n \in Nat, n > 2, m \in 1..31, n <= pow2[m], <1>1, CountStepKeeps
  <2>5. QED
    BY ONLY <2>1, <2>3, <2>4 DEF CountInv
<1> HIDE DEF x, S, Inv, next
<1>6. F \in StepsOn(r, S)
  BY ONLY TRUE DEF StepsOn
<1> HIDE DEF F
<1>7. PICK g \in ValuesIn(r, S) : Solves(g, r, x, F)
  BY ONLY <1>3, <1>4, <1>6, Recursion
<1> DEFINE P == {k \in 0..r : Inv(g[k], k)}
<1>8. g[0] = x /\ 0 \in P
  <2>1. 0 \in 0..r
    BY <1>3
  <2>2. g[0] = x
    BY ONLY <1>7, <2>1 DEF Solves
  <2>3. QED
    BY ONLY <1>4, <2>1, <2>2
<1>9. ASSUME NEW k \in 1..r, k - 1 \in P PROVE g[k] = next(g[k - 1], k) /\ k \in P
  <2>1. Inv(g[k - 1], k - 1)
    BY <1>9
  <2>2. Inv(next(g[k - 1], k), k) /\ next(g[k - 1], k) \in S /\ g[k - 1] \in S
    BY ONLY <1>5, <2>1, k \in 1..r
  <2>3. g[k] = F[k][g[k - 1]]
    <3>1. k \in 0..r /\ k # 0
      BY ONLY <1>3, k \in 1..r
    <3>2. QED
      BY ONLY <1>7, <3>1 DEF Solves
  <2>4. F[k][g[k - 1]] = next(g[k - 1], k)
    BY ONLY <2>2, k \in 1..r DEF F
  <2>5. k \in 0..r
    BY ONLY <1>3, k \in 1..r
  <2>6. QED
    BY ONLY <2>2, <2>3, <2>4, <2>5
<1>10. \A k \in 0..r : k \in P
  <2> HIDE DEF P
  <2>1. \A k \in 1..r : k - 1 \in P => k \in P
    BY ONLY <1>9
  <2>2. QED
    BY ONLY <1>3, <1>8, <2>1, UpTo
<1>11. Eq(g)
  <2>1. ASSUME NEW k \in 0..r PROVE g[k] = IF k = 0 THEN x ELSE next(g[k - 1], k)
    <3> HIDE DEF P
    <3>1. k # 0 => k \in 1..r /\ k - 1 \in 0..r
      BY ONLY <1>3, k \in 0..r
    <3>2. k # 0 => g[k] = next(g[k - 1], k)
      BY ONLY <1>9, <1>10, <3>1
    <3>3. QED
      BY ONLY <1>8, <3>2
  <2>2. QED
    BY ONLY <1>7, <2>1 DEF ValuesIn
<1>12. Eq(fn)
  <2> HIDE DEF Eq
  <2>1. QED
    BY ONLY <1>11 DEF fn
<1> HIDE DEF fn
<1>13. fn[0] = x /\ \A k \in 1..r : fn[k] = next(fn[k - 1], k)
  BY ONLY <1>3, <1>12
<1> DEFINE Q == {k \in 0..r : Inv(fn[k], k)}
<1>14. r \in Q
  <2>1. 0 \in Q
    BY ONLY <1>3, <1>4, <1>13
  <2>2. ASSUME NEW k \in 1..r, k - 1 \in Q PROVE k \in Q
    <3>1. Inv(fn[k - 1], k - 1)
      BY ONLY <2>2
    <3>2. Inv(next(fn[k - 1], k), k)
      BY ONLY <1>5, <3>1, k \in 1..r
    <3>3. k \in 0..r
      BY ONLY <1>3, k \in 1..r
    <3>4. QED
      BY ONLY <1>13, <3>2, <3>3, k \in 1..r
  <2> HIDE DEF Q
  <2>3. \A k \in 0..r : k \in Q
    BY ONLY <1>3, <2>1, <2>2, UpTo
  <2>4. QED
    BY ONLY <1>3, <2>3
<1>15. CountInv(n, m, p, fn[r], 0)
  <2>1. r - r = 0
    BY <1>3
  <2>2. Inv(fn[r], r)
    BY ONLY <1>14
  <2>3. QED
    BY ONLY <2>1, <2>2 DEF Inv
<1>16. n - 0 = n
  BY ONLY n \in Nat
<1>17. QED
  BY ONLY <1>2, <1>15, <1>16 DEF CountInv, CountStates, CountsFor

\* The same, as one fact about the tree.
LEMMA TreeCounts ==
  ASSUME NEW n \in Nat, n > 2, NEW m \in 1..15, n <= pow2[m],
         NEW p \in [1..n -> Nat], Parents(p, n - 2, n - 1)
  PROVE  CountsFor(computeLengthCounts(p, n - 2, m), n, m)
<1>1. PICK r : r = n - 2
  OBVIOUS
<1>2. PICK lc : lc = computeLengthCounts(p, r, m)
  OBVIOUS
<1>3. TreeOf(p, n, r)
  BY ONLY <1>1, p \in [1..n -> Nat], Parents(p, n - 2, n - 1) DEF TreeOf
<1>4. m \in 1..31
  OBVIOUS
<1>5. CountsFor(lc, n, m)
  BY ONLY <1>2, <1>3, <1>4, n \in Nat, n > 2, n <= pow2[m], CountsRight
<1>6. QED
  BY ONLY <1>1, <1>2, <1>5

-----------------------------------------------------------------------------
(* The lengths of the codewords.                                           *)

\* The length of the codeword of the i-th symbol.
LengthAt(lc, m, i) == Min({l \in 1..m : longerThan(lc, m)[l] < i})

\* The less the length, the more symbols have a greater one.
LEMMA LongerFalls ==
  ASSUME NEW n \in Nat, NEW m \in Nat, NEW lc, CountsFor(lc, n, m), NEW s, s = longerThan(lc, m)
  PROVE  /\ s \in [0..m -> Int] /\ s[0] = n /\ s[m] = 0
         /\ \A l \in 1..m : s[l - 1] = s[l] + lc[l] /\ lc[l] \in Nat
         /\ \A k, l \in 0..m : k <= l => s[l] <= s[k]
<1>1. m \in Nat /\ \A l \in 1..m : lc[l] \in Nat
  <2> SUFFICES ASSUME NEW l \in 1..m PROVE lc[l] \in Nat
    OBVIOUS
  <2>1. l \in 0..(m + 1)
    OBVIOUS
  <2>2. lc[l] \in Int /\ lc[l] >= 0
    BY ONLY <2>1, CountsFor(lc, n, m) DEF CountsFor
  <2>3. QED
    BY ONLY <2>2
<1>2. s \in [0..m -> Int] /\ s[m] = 0 /\ \A l \in 1..m : s[l - 1] = s[l] + lc[l]
  <2>1. \A l \in 1..m : lc[l] \in Int
    BY ONLY <1>1
  <2>2. QED
    BY ONLY <1>1, <2>1, s = longerThan(lc, m), LongerIs
<1>3. s[0] = n
  BY DEF CountsFor
<1>4. ASSUME NEW k \in 0..m PROVE \A l \in k..m : s[l] <= s[k]
  <2> DEFINE P == {d \in 0..m : k + d <= m => s[k + d] <= s[k]}
  <2>1. s[k] \in Int
    BY ONLY <1>2, k \in 0..m
  <2>2. 0 \in P
    <3>1. k + 0 = k
      OBVIOUS
    <3>2. QED
      BY ONLY <1>1, <2>1, <3>1
  <2>3. ASSUME NEW d \in 1..m, d - 1 \in P PROVE d \in P
    <3>1. ASSUME k + d <= m PROVE s[k + d] <= s[k]
      <4>1. PICK e : e = k + d
        OBVIOUS
      <4>2. e \in 1..m /\ e - 1 \in 0..m /\ e \in 0..m /\ k + (d - 1) = e - 1 /\ e - 1 <= m
        BY ONLY <3>1, <4>1, k \in 0..m, d \in 1..m, m \in Nat
      <4>3. s[e - 1] <= s[k]
        BY ONLY <2>3, <4>2
      <4>4. s[e - 1] = s[e] + lc[e] /\ s[e] \in Int /\ s[e - 1] \in Int /\ lc[e] \in Nat
        BY ONLY <1>1, <1>2, <4>2
      <4>5. QED
        BY ONLY <2>1, <4>1, <4>3, <4>4
    <3>2. d \in 0..m
      BY ONLY d \in 1..m
    <3>3. QED
      BY ONLY <3>1, <3>2
  <2>4. \A d \in 0..m : d \in P
    <3> HIDE DEF P
    <3>1. QED
      BY ONLY <1>1, <2>2, <2>3, UpTo
  <2>5. SUFFICES ASSUME NEW l \in k..m PROVE s[l] <= s[k]
    OBVIOUS
  <2>6. l - k \in 0..m /\ k + (l - k) = l /\ l <= m
    BY ONLY k \in 0..m, l \in k..m, m \in Nat
  <2>7. k + (l - k) <= m => s[k + (l - k)] <= s[k]
    BY ONLY <2>4, <2>6
  <2>8. QED
    BY ONLY <2>6, <2>7
<1>5. \A k, l \in 0..m : k <= l => s[l] <= s[k]
  <2> SUFFICES ASSUME NEW k \in 0..m, NEW l \in 0..m, k <= l PROVE s[l] <= s[k]
    OBVIOUS
  <2>1. l \in k..m
    OBVIOUS
  <2>2. QED
    BY ONLY <1>4, <2>1
<1>6. QED
  BY ONLY <1>1, <1>2, <1>3, <1>5

\* A symbol gets the length of which its place is one.
LEMMA LengthIs ==
  ASSUME NEW n \in Nat, NEW m \in Nat, m > 0, NEW lc, CountsFor(lc, n, m), NEW i \in 1..n,
         NEW s, s = longerThan(lc, m), NEW l, l = LengthAt(lc, m, i)
  PROVE  /\ l \in 1..m /\ s[l] < i /\ i <= s[l - 1]
         /\ \A k \in 1..m : s[k] < i => l <= k
         /\ \A k \in 1..m : s[k] < i /\ i <= s[k - 1] => l = k
<1> DEFINE T == {k \in 1..m : s[k] < i}
<1>1. /\ s \in [0..m -> Int] /\ s[0] = n /\ s[m] = 0
      /\ \A k \in 1..m : s[k - 1] = s[k] + lc[k] /\ lc[k] \in Nat
      /\ \A k, j \in 0..m : k <= j => s[j] <= s[k]
  BY ONLY n \in Nat, m \in Nat, CountsFor(lc, n, m), s = longerThan(lc, m), LongerFalls
<1>2. m \in T
  <2>1. m \in 1..m
    BY ONLY m \in Nat, m > 0
  <2>2. QED
    BY ONLY <1>1, <2>1, i \in 1..n, n \in Nat
<1>3. \E x \in T : \A y \in T : x <= y
  <2>1. T \in SUBSET Nat /\ T # {}
    BY <1>2
  <2> HIDE DEF T
  <2>2. QED
    BY ONLY <2>1, LeastNat
<1>4. l = Min(T)
  BY DEF LengthAt
<1>5. l \in T /\ \A y \in T : l <= y
  <2> HIDE DEF T
  <2>1. QED
    BY ONLY <1>3, <1>4 DEF Min
<1>6. l \in 1..m /\ s[l] < i /\ \A k \in 1..m : s[k] < i => l <= k
  BY ONLY <1>5
<1>7. i <= s[l - 1]
  <2>1. CASE l = 1
    <3>1. l - 1 = 0
      BY ONLY <2>1
    <3>2. QED
      BY ONLY <1>1, <3>1, i \in 1..n
  <2>2. CASE l # 1
    <3>1. l - 1 \in 1..m /\ l - 1 \in 0..m /\ ~(l <= l - 1)
      BY ONLY <1>6, <2>2, m \in Nat
    <3>2. ~(s[l - 1] < i) /\ s[l - 1] \in Int
      BY ONLY <1>1, <1>6, <3>1
    <3>3. QED
      BY ONLY <3>2, i \in 1..n, n \in Nat
  <2>3. QED
    BY ONLY <2>1, <2>2
<1>8. ASSUME NEW k \in 1..m, s[k] < i, i <= s[k - 1] PROVE l = k
  <2>1. l <= k
    BY ONLY <1>6, <1>8
  <2>2. ~(l < k)
    <3>1. SUFFICES ASSUME l < k PROVE FALSE
      OBVIOUS
    <3>2. k - 1 \in 0..m /\ l \in 0..m /\ l <= k - 1
      BY ONLY <1>6, <3>1, k \in 1..m, m \in Nat
    <3>3. s[k - 1] <= s[l] /\ s[l] \in Int /\ s[k - 1] \in Int
      BY ONLY <1>1, <3>2
    <3>4. QED
      BY ONLY <1>6, <1>8, <3>3, i \in 1..n, n \in Nat
  <2>3. QED
    BY ONLY <1>6, <2>1, <2>2, k \in 1..m
<1>9. QED
  BY ONLY <1>6, <1>7, <1>8

\* As many symbols have a length as there are codewords of that length.
LEMMA LengthsCounted ==
  ASSUME NEW N \in Nat, NEW freq \in Freqs(N), NEW n, n = Cardinality(DOMAIN freq),
         NEW m \in Nat, m > 0, NEW lc, CountsFor(lc, n, m), NEW l \in 1..m
  PROVE  Cardinality({x \in DOMAIN freq : LengthAt(lc, m, place(freq, N, x)) = l}) = lc[l]
<1>1. PICK s : s = longerThan(lc, m)
  OBVIOUS
<1> DEFINE X == DOMAIN freq
           at(x) == place(freq, N, x)
           A == {x \in X : LengthAt(lc, m, at(x)) = l}
           B == (s[l] + 1)..(s[l - 1])
           fn == [i \in B |-> CHOOSE x \in X : at(x) = i]
<1>2. n \in Nat
  BY SymbolsFinite
<1>3. /\ \A x \in X : at(x) \in 1..n
      /\ \A x, y \in X : at(x) = at(y) => x = y
      /\ \A i \in 1..n : \E x \in X : at(x) = i
  BY Places
<1>4. /\ s[l - 1] = s[l] + lc[l] /\ lc[l] \in Nat /\ s[l] \in Int /\ s[l - 1] \in Int
      /\ 0 <= s[l] /\ s[l - 1] <= n
  <2>1. /\ s \in [0..m -> Int] /\ s[0] = n /\ s[m] = 0
        /\ \A k \in 1..m : s[k - 1] = s[k] + lc[k] /\ lc[k] \in Nat
        /\ \A k, j \in 0..m : k <= j => s[j] <= s[k]
    BY ONLY <1>1, <1>2, m \in Nat, CountsFor(lc, n, m), LongerFalls
  <2>2. l \in 0..m /\ l - 1 \in 0..m /\ 0 \in 0..m /\ m \in 0..m /\ 0 <= l - 1 /\ l <= m
    BY ONLY l \in 1..m, m \in Nat
  <2>3. s[m] <= s[l] /\ s[l - 1] <= s[0]
    BY ONLY <2>1, <2>2
  <2>4. QED
    BY ONLY <2>1, <2>2, <2>3, l \in 1..m
<1> HIDE DEF at, X
<1>5. \A i \in B : i \in 1..n /\ fn[i] \in X /\ at(fn[i]) = i
  <2> SUFFICES ASSUME NEW i \in B PROVE i \in 1..n /\ fn[i] \in X /\ at(fn[i]) = i
    OBVIOUS
  <2>1. i \in 1..n
    BY ONLY <1>2, <1>4, i \in B
  <2>2. \E x \in X : at(x) = i
    BY ONLY <1>3, <2>1
  <2>3. QED
    BY ONLY <2>1, <2>2, i \in B
<1> HIDE DEF fn
<1>6. \A i \in B : fn[i] \in A
  <2> SUFFICES ASSUME NEW i \in B PROVE fn[i] \in A
    OBVIOUS
  <2>1. s[l] < i /\ i <= s[l - 1] /\ i \in 1..n
    BY ONLY <1>4, <1>5, i \in B
  <2>2. PICK k : k = LengthAt(lc, m, i)
    OBVIOUS
  <2>3. k = l
    <3>1. \A h \in 1..m : s[h] < i /\ i <= s[h - 1] => k = h
      BY ONLY <1>1, <1>2, <2>1, <2>2, m \in Nat, m > 0, CountsFor(lc, n, m), LengthIs
    <3>2. QED
      BY ONLY <2>1, <3>1, l \in 1..m
  <2>4. fn[i] \in X /\ at(fn[i]) = i
    BY ONLY <1>5
  <2>5. LengthAt(lc, m, at(fn[i])) = l
    BY ONLY <2>2, <2>3, <2>4
  <2> HIDE DEF B
  <2>6. QED
    BY ONLY <2>4, <2>5
<1>7. \A x \in A : at(x) \in B /\ fn[at(x)] = x
  <2> SUFFICES ASSUME NEW x \in A PROVE at(x) \in B /\ fn[at(x)] = x
    OBVIOUS
  <2>1. PICK i : i = at(x)
    OBVIOUS
  <2>2. i \in 1..n /\ l = LengthAt(lc, m, i) /\ x \in X
    BY ONLY <1>3, <2>1, x \in A
  <2>3. s[l] < i /\ i <= s[l - 1]
    BY ONLY <1>1, <1>2, <2>2, m \in Nat, m > 0, CountsFor(lc, n, m), LengthIs
  <2>4. i \in B
    BY ONLY <1>4, <2>2, <2>3, <1>2
  <2>5. fn[i] \in X /\ at(fn[i]) = i
    BY ONLY <1>5, <2>4
  <2>6. QED
    BY ONLY <1>3, <2>1, <2>2, <2>4, <2>5
<1>8. ExistsBijection(B, A)
  <2> HIDE DEF A, B
  <2>1. fn \in [B -> A]
    BY ONLY <1>6 DEF fn
  <2>2. \A i, j \in B : fn[i] = fn[j] => i = j
    BY ONLY <1>5
  <2>3. \A x \in A : \E i \in B : fn[i] = x
    BY ONLY <1>7
  <2>4. fn \in Bijection(B, A)
    BY ONLY <2>1, <2>2, <2>3 DEF Bijection, Injection, Surjection, IsInjective
  <2>5. QED
    BY ONLY <2>4 DEF ExistsBijection
<1>9. IsFiniteSet(B) /\ Cardinality(B) = lc[l]
  <2>1. s[l] + 1 \in Int /\ s[l - 1] \in Int
    BY ONLY <1>4
  <2>2. IsFiniteSet(B) /\ Cardinality(B) = IF s[l] + 1 > s[l - 1] THEN 0 ELSE s[l - 1] - (s[l] + 1) + 1
    BY ONLY <2>1, FS_Interval
  <2> HIDE DEF B
  <2>3. QED
    BY ONLY <1>4, <2>2
<1>10. Cardinality(A) = Cardinality(B)
  <2> HIDE DEF A, B
  <2>1. QED
    BY ONLY <1>8, <1>9, FS_Bijection
<1>11. QED
  BY ONLY <1>9, <1>10 DEF at, X

\* No codeword longer than those there are leaves the space used up.
LEMMA NoneLonger ==
  ASSUME NEW m \in Nat, NEW limit \in Nat, m <= limit, NEW lc, \A l \in 1..m : lc[l] \in Int,
         unused(lc, m)[m] = 0,
         NEW count, \A l \in 1..limit : count[l] = IF l <= m THEN lc[l] ELSE 0
  PROVE  unused(count, limit)[limit] = 0
<1>1. PICK u, v : u = unused(lc, m) /\ v = unused(count, limit)
  OBVIOUS
<1>2. \A l \in 1..limit : count[l] \in Int
  OBVIOUS
<1>3. u \in [0..m -> Int] /\ u[0] = 1 /\ u[m] = 0 /\ \A l \in 1..m : u[l] = 2 * u[l - 1] - lc[l]
  BY ONLY <1>1, m \in Nat, \A l \in 1..m : lc[l] \in Int, unused(lc, m)[m] = 0, UnusedIs
<1>4. v[0] = 1 /\ \A l \in 1..limit : v[l] = 2 * v[l - 1] - count[l]
  <2>1. /\ v \in [0..limit -> Int]
        /\ v[0] = 1
        /\ \A l \in 1..limit : v[l] = 2 * v[l - 1] - count[l]
    BY ONLY <1>1, <1>2, limit \in Nat, UnusedIs
  <2>2. QED
    BY ONLY <2>1
<1> DEFINE P == {l \in 0..limit : (l <= m => v[l] = u[l]) /\ (m <= l => v[l] = 0)}
<1>5. 0 \in P
  BY ONLY <1>3, <1>4, m \in Nat, limit \in Nat
<1>6. ASSUME NEW l \in 1..limit, l - 1 \in P PROVE l \in P
  <2>1. v[l] = 2 * v[l - 1] - count[l] /\ l \in 0..limit
    BY ONLY <1>4, l \in 1..limit, limit \in Nat
  <2>2. CASE l <= m
    <3>1. l \in 1..m /\ l - 1 <= m
      BY ONLY <2>2, l \in 1..limit, m \in Nat
    <3>2. v[l - 1] = u[l - 1] /\ u[l] = 2 * u[l - 1] - lc[l] /\ count[l] = lc[l]
      BY ONLY <1>3, <1>6, <2>2, <3>1, l \in 1..limit,
              \A k \in 1..limit : count[k] = IF k <= m THEN lc[k] ELSE 0
    <3>3. v[l] = u[l]
      BY ONLY <2>1, <3>2
    <3>4. m <= l => l = m
      BY ONLY <2>2, <3>1, m \in Nat
    <3>5. QED
      BY ONLY <1>3, <2>1, <2>2, <3>3, <3>4
  <2>3. CASE ~(l <= m)
    <3>1. m <= l - 1
      BY ONLY <2>3, l \in 1..limit, m \in Nat
    <3>2. v[l - 1] = 0 /\ count[l] = 0
      BY ONLY <1>6, <2>3, <3>1, l \in 1..limit,
              \A k \in 1..limit : count[k] = IF k <= m THEN lc[k] ELSE 0
    <3>3. v[l] = 0
      BY ONLY <2>1, <3>2
    <3>4. QED
      BY ONLY <2>1, <2>3, <3>3
  <2>4. QED
    BY ONLY <2>2, <2>3
<1>7. limit \in P
  <2> HIDE DEF P
  <2>1. \A l \in 0..limit : l \in P
    BY ONLY <1>5, <1>6, limit \in Nat, UpTo
  <2>2. QED
    BY ONLY <2>1, limit \in Nat
<1>8. QED
  BY ONLY <1>1, <1>7, m <= limit

\* The bits of a codeword are as many as are asked for.
LEMMA CodeBitsLen ==
  ASSUME NEW v, NEW n \in Nat
  PROVE  Len(codeBits(v, n)) = n /\ (n > 0 => codeBits(v, n) # << >>)
<1> DEFINE S == {(v \div 2 ^ (n - k)) % 2 : k \in 1..n}
<1>1. codeBits(v, n) \in [1..n -> S]
  BY DEF codeBits
<1>2. Len(codeBits(v, n)) = n
  <2> HIDE DEF S
  <2>1. QED
    BY ONLY <1>1, n \in Nat, LenOf
<1>3. codeBits(v, n) = << >> => Len(codeBits(v, n)) = 0
  OBVIOUS
<1>4. QED
  BY ONLY <1>2, <1>3, n \in Nat

\* Codewords whose lengths are the symbols' and have the numbers of a complete code.
Lengths(freq, codes, N, lc, m) ==
  /\ DOMAIN codes = 0..(N - 1)
  /\ \A x \in 0..(N - 1) : x \notin DOMAIN freq => codes[x] = << >>
  /\ \A x \in DOMAIN freq : codes[x] # << >> /\ Len(codes[x]) = LengthAt(lc, m, place(freq, N, x))

LEMMA LengthsGood ==
  ASSUME NEW N \in Nat, NEW freq \in Freqs(N), NEW n, n = Cardinality(DOMAIN freq),
         NEW m \in Nat, m > 0, NEW lc, CountsFor(lc, n, m),
         NEW codes, Lengths(freq, codes, N, lc, m), NEW limit \in Nat, m <= limit
  PROVE  goodCode(freq, codes, limit)
<1> DEFINE X == DOMAIN freq
           at(x) == place(freq, N, x)
           count == [l \in 1..limit |-> Cardinality({s \in X : Len(codes[s]) = l})]
<1>1. n \in Nat /\ X \in SUBSET (0..(N - 1)) /\ freq \in [X -> Nat \ {0}]
  BY SymbolsFinite
<1>2. /\ \A x \in X : at(x) \in 1..n
      /\ \A x, y \in X : freq[x] < freq[y] => at(x) < at(y)
  BY Places
<1>3. /\ DOMAIN codes = 0..(N - 1)
      /\ \A x \in 0..(N - 1) : x \notin X => codes[x] = << >>
      /\ \A x \in X : codes[x] # << >> /\ Len(codes[x]) = LengthAt(lc, m, at(x))
  BY DEF Lengths
<1> HIDE DEF at
<1>4. PICK s : s = longerThan(lc, m)
  OBVIOUS
<1>5. ASSUME NEW x \in X
      PROVE  /\ Len(codes[x]) \in 1..m /\ s[Len(codes[x])] < at(x)
             /\ \A k \in 1..m : s[k] < at(x) => Len(codes[x]) <= k
  <2>1. PICK i, l : i = at(x) /\ l = LengthAt(lc, m, i)
    OBVIOUS
  <2>2. i \in 1..n
    BY ONLY <1>2, <2>1, x \in X
  <2>3. /\ l \in 1..m /\ s[l] < i /\ i <= s[l - 1]
        /\ \A k \in 1..m : s[k] < i => l <= k
        /\ \A k \in 1..m : s[k] < i /\ i <= s[k - 1] => l = k
    BY ONLY <1>1, <1>4, <2>1, <2>2, m \in Nat, m > 0, CountsFor(lc, n, m), LengthIs
  <2>4. Len(codes[x]) = l
    BY ONLY <1>3, <2>1, x \in X
  <2>5. QED
    BY ONLY <2>1, <2>3, <2>4
<1>6. \A x \in X : Len(codes[x]) <= limit
  <2> SUFFICES ASSUME NEW x \in X PROVE Len(codes[x]) <= limit
    OBVIOUS
  <2>1. Len(codes[x]) \in 1..m
    BY ONLY <1>5, x \in X
  <2>2. QED
    BY ONLY <2>1, m \in Nat, limit \in Nat, m <= limit
<1>7. unused(count, limit)[limit] = 0
  <2>1. \A l \in 1..limit : count[l] = IF l <= m THEN lc[l] ELSE 0
    <3> SUFFICES ASSUME NEW l \in 1..limit PROVE count[l] = IF l <= m THEN lc[l] ELSE 0
      OBVIOUS
    <3>1. count[l] = Cardinality({x \in X : Len(codes[x]) = l})
      OBVIOUS
    <3> HIDE DEF count
    <3>2. CASE l <= m
      <4>1. l \in 1..m
        BY ONLY <3>2, l \in 1..limit, m \in Nat
      <4>2. Cardinality({x \in X : LengthAt(lc, m, at(x)) = l}) = lc[l]
        BY <4>1, LengthsCounted DEF at
      <4>3. {x \in X : LengthAt(lc, m, at(x)) = l} = {x \in X : Len(codes[x]) = l}
        BY ONLY <1>3
      <4>4. QED
        BY ONLY <3>1, <3>2, <4>2, <4>3
    <3>3. CASE ~(l <= m)
      <4>1. {x \in X : Len(codes[x]) = l} = {}
        <5> SUFFICES ASSUME NEW x \in X PROVE Len(codes[x]) # l
          OBVIOUS
        <5>1. Len(codes[x]) \in 1..m
          BY ONLY <1>5, x \in X
        <5>2. QED
          BY ONLY <3>3, <5>1
      <4>2. QED
        BY ONLY <3>1, <3>3, <4>1, FS_EmptySet
    <3>4. QED
      BY ONLY <3>2, <3>3
  <2>2. \A l \in 1..m : lc[l] \in Int
    <3>1. \A l \in 1..m : l \in 0..(m + 1)
      OBVIOUS
    <3>2. QED
      BY ONLY <3>1, CountsFor(lc, n, m) DEF CountsFor
  <2>3. unused(lc, m)[m] = 0
    BY DEF CountsFor
  <2> HIDE DEF count
  <2>4. QED
    BY ONLY <2>1, <2>2, <2>3, m \in Nat, limit \in Nat, m <= limit, NoneLonger
<1>8. \A x, y \in X : freq[x] < freq[y] => Len(codes[x]) >= Len(codes[y])
  <2> SUFFICES ASSUME NEW x \in X, NEW y \in X, freq[x] < freq[y]
               PROVE  Len(codes[x]) >= Len(codes[y])
    OBVIOUS
  <2>1. at(x) < at(y) /\ at(x) \in 1..n /\ at(y) \in 1..n
    BY ONLY <1>2, x \in X, y \in X, freq[x] < freq[y]
  <2>2. PICK l : l = Len(codes[x])
    OBVIOUS
  <2>3. l \in 1..m /\ s[l] < at(x) /\ s[l] \in Int
    <3>1. /\ s \in [0..m -> Int] /\ s[0] = n /\ s[m] = 0
          /\ \A k \in 1..m : s[k - 1] = s[k] + lc[k] /\ lc[k] \in Nat
          /\ \A k, j \in 0..m : k <= j => s[j] <= s[k]
      BY ONLY <1>1, <1>4, m \in Nat, CountsFor(lc, n, m), LongerFalls, SMTT(30)
    <3>2. l \in 1..m /\ s[l] < at(x)
      BY ONLY <1>5, <2>2, x \in X
    <3>3. l \in 0..m
      BY ONLY <3>2
    <3>4. QED
      BY ONLY <3>1, <3>2, <3>3
  <2>4. s[l] < at(y)
    BY ONLY <2>1, <2>3
  <2>5. Len(codes[y]) <= l
    BY ONLY <1>5, <2>3, <2>4, y \in X
  <2>6. Len(codes[y]) \in 1..m
    BY ONLY <1>5, y \in X
  <2>7. QED
    BY ONLY <2>2, <2>3, <2>5, <2>6
<1>9. \A x \in DOMAIN codes : codes[x] # << >> <=> x \in X
  BY ONLY <1>1, <1>3
<1>10. QED
  BY <1>6, <1>7, <1>8, <1>9 DEF goodCode

\* The least of three numbers.
LEMMA MinOfThree ==
  ASSUME NEW a \in Nat, NEW b \in Nat, NEW c \in Nat, NEW m, m = Min({a, b, c})
  PROVE  m \in {a, b, c} /\ m <= a /\ m <= b /\ m <= c
<1> DEFINE T == {a, b, c}
<1>1. T \in SUBSET Nat /\ T # {}
  OBVIOUS
<1> HIDE DEF T
<1>2. \E x \in T : \A y \in T : x <= y
  BY ONLY <1>1, LeastNat
<1>3. m = Min(T)
  BY DEF T
<1>4. m \in T /\ \A y \in T : m <= y
  BY ONLY <1>2, <1>3 DEF Min
<1>5. QED
  BY <1>4 DEF T

\* A number is less than the power of two of the number before it, from three on.
LEMMA Enough == ASSUME NEW n \in 2..16 PROVE n <= pow2[n - 1]
<1> DEFINE P == {k \in 0..16 : k > 1 => k <= pow2[k - 1] /\ pow2[k - 1] \in Nat}
<1>1. /\ pow2 \in [0..31 -> Nat] /\ pow2[0] = 1 /\ \A l \in 1..31 : pow2[l] = 2 * pow2[l - 1]
  BY Pow2Is
<1>2. 0 \in P
  OBVIOUS
<1>3. ASSUME NEW k \in 1..16, k - 1 \in P PROVE k \in P
  <2>1. CASE k = 1
    BY <2>1
  <2>2. CASE k = 2
    <3>1. pow2[1] = 2 * pow2[1 - 1] /\ 1 - 1 = 0 /\ k - 1 = 1
      BY ONLY <1>1, <2>2
    <3>2. pow2[k - 1] = 2
      BY ONLY <1>1, <3>1
    <3>3. QED
      BY ONLY <2>2, <3>2
  <2>3. CASE k > 2
    <3>1. PICK e : e = k - 1
      OBVIOUS
    <3>2. e \in 1..31 /\ e >= 2 /\ k = e + 1
      BY ONLY <2>3, <3>1, k \in 1..16
    <3>3. pow2[e] = 2 * pow2[e - 1] /\ e <= pow2[e - 1] /\ pow2[e - 1] \in Nat
      BY ONLY <1>1, <1>3, <3>1, <3>2
    <3>4. k <= pow2[e] /\ pow2[e] \in Nat
      BY ONLY <3>2, <3>3
    <3>5. QED
      BY ONLY <3>1, <3>4, k \in 1..16
  <2>4. QED
    BY ONLY <2>1, <2>2, <2>3, k \in 1..16
<1>4. \A k \in 0..16 : k \in P
  <2> HIDE DEF P
  <2>1. 16 \in Nat
    OBVIOUS
  <2>2. QED
    BY ONLY <1>2, <1>3, <2>1, UpTo
<1>5. n \in 0..16 /\ n > 1
  OBVIOUS
<1>6. QED
  BY ONLY <1>4, <1>5

\* One or two symbols get a bit each.
LEMMA FewSymbols ==
  ASSUME NEW N \in Nat, NEW freq \in Freqs(N), Cardinality(DOMAIN freq) <= 2,
         NEW limit \in Nat, limit > 0,
         NEW codes, codes = [s \in 0..(N - 1) |->
                               IF s \in DOMAIN freq THEN <<Cardinality({t \in DOMAIN freq : t < s})>>
                               ELSE << >>]
  PROVE  goodCode(freq, codes, limit)
<1> DEFINE X == DOMAIN freq
           count == [l \in 1..limit |-> Cardinality({s \in X : Len(codes[s]) = l})]
<1>1. X \in SUBSET (0..(N - 1)) /\ Cardinality(X) \in Nat
  BY SymbolsFinite
<1>2. DOMAIN codes = 0..(N - 1) /\ \A s \in 0..(N - 1) : s \notin X => codes[s] = << >>
  OBVIOUS
<1>3. \A s \in X : codes[s] # << >> /\ Len(codes[s]) = 1
  <2> SUFFICES ASSUME NEW s \in X PROVE codes[s] # << >> /\ Len(codes[s]) = 1
    OBVIOUS
  <2>1. PICK bit : bit = Cardinality({t \in X : t < s})
    OBVIOUS
  <2>2. codes[s] = <<bit>>
    BY <1>1, <2>1
  <2>3. <<bit>> # << >> /\ Len(<<bit>>) = 1
    OBVIOUS
  <2>4. QED
    BY ONLY <2>2, <2>3
<1>4. Cardinality(X) > 1 => unused(count, limit)[limit] = 0
  <2> SUFFICES ASSUME Cardinality(X) > 1 PROVE unused(count, limit)[limit] = 0
    OBVIOUS
  <2>1. Cardinality(X) = 2
    BY ONLY <1>1, Cardinality(X) > 1, Cardinality(X) <= 2
  <2>2. \A l \in 1..limit : count[l] = IF l <= 1 THEN 2 ELSE 0
    <3> SUFFICES ASSUME NEW l \in 1..limit PROVE count[l] = IF l <= 1 THEN 2 ELSE 0
      OBVIOUS
    <3>1. count[l] = Cardinality({x \in X : Len(codes[x]) = l})
      OBVIOUS
    <3> HIDE DEF count
    <3>2. CASE l = 1
      <4>1. {x \in X : Len(codes[x]) = l} = X
        BY ONLY <1>3, <3>2
      <4>2. QED
        BY ONLY <2>1, <3>1, <3>2, <4>1
    <3>3. CASE l # 1
      <4>1. {x \in X : Len(codes[x]) = l} = {}
        BY ONLY <1>3, <3>3
      <4>2. QED
        BY ONLY <3>1, <3>3, <4>1, FS_EmptySet, l \in 1..limit
    <3>4. QED
      BY ONLY <3>2, <3>3
  <2> DEFINE two == [l \in 1..1 |-> 2]
  <2>3. unused(two, 1)[1] = 0
    <3>1. /\ unused(two, 1) \in [0..1 -> Int]
          /\ unused(two, 1)[0] = 1
          /\ \A l \in 1..1 : unused(two, 1)[l] = 2 * unused(two, 1)[l - 1] - two[l]
      <4>1. 1 \in Nat /\ \A l \in 1..1 : two[l] \in Int
        OBVIOUS
      <4> HIDE DEF two
      <4>2. QED
        BY ONLY <4>1, UnusedIs
    <3>2. two[1] = 2
      OBVIOUS
    <3> HIDE DEF two
    <3>3. unused(two, 1)[1] = 2 * unused(two, 1)[1 - 1] - two[1]
      BY ONLY <3>1
    <3>4. QED
      BY ONLY <3>1, <3>2, <3>3
  <2>4. \A l \in 1..limit : count[l] = IF l <= 1 THEN two[l] ELSE 0
    <3> HIDE DEF count
    <3>1. QED
      BY ONLY <2>2
  <2>5. 1 \in Nat /\ 1 <= limit /\ \A l \in 1..1 : two[l] \in Int
    OBVIOUS
  <2> HIDE DEF count, two
  <2>6. QED
    BY ONLY <2>3, <2>4, <2>5, limit \in Nat, NoneLonger
<1>5. \A x \in DOMAIN codes : codes[x] # << >> <=> x \in X
  BY ONLY <1>1, <1>2, <1>3
<1>6. \A x \in X : Len(codes[x]) <= limit
  <2> SUFFICES ASSUME NEW x \in X PROVE Len(codes[x]) <= limit
    OBVIOUS
  <2>1. Len(codes[x]) = 1
    BY ONLY <1>3, x \in X
  <2>2. QED
    BY ONLY <2>1, limit \in Nat, limit > 0
<1>7. \A x, y \in X : freq[x] < freq[y] => Len(codes[x]) >= Len(codes[y])
  BY ONLY <1>3
<1>8. QED
  BY <1>4, <1>5, <1>6, <1>7 DEF goodCode

\* The lengths of the codewords of genCodewords are those of the symbols' places.
LEMMA GenLengths ==
  ASSUME NEW N \in Nat, NEW freq \in Freqs(N), NEW n, n = Cardinality(DOMAIN freq),
         NEW m \in Nat, m > 0, NEW lc, CountsFor(lc, n, m)
  PROVE  Lengths(freq, genCodewords(freq, lc, m, N), N, lc, m)
<1> DEFINE X == DOMAIN freq
           longer == longerThan(lc, m)
           next == CHOOSE h : h = [l \in 1..m |-> IF l = 1 THEN 0 ELSE 2 * (h[l - 1] + lc[l - 1])]
           lenOf == [s \in X |-> LET i == place(freq, N, s)
                                 IN Min({l \in 1..m : longer[l] < i})]
           before(s) == Cardinality({t \in X : t < s /\ lenOf[t] = lenOf[s]})
           codes == [s \in 0..(N - 1) |->
                       IF s \in X THEN codeBits(next[lenOf[s]] + before(s), lenOf[s]) ELSE << >>]
<1>1. genCodewords(freq, lc, m, N) = codes
  BY DEF genCodewords
<1>2. X \in SUBSET (0..(N - 1)) /\ n \in Nat
  BY SymbolsFinite
<1>3. \A s \in X : lenOf[s] = LengthAt(lc, m, place(freq, N, s))
  BY DEF LengthAt
<1> HIDE DEF lenOf, next, before
<1>4. \A s \in X : lenOf[s] \in Nat /\ lenOf[s] > 0
  <2> SUFFICES ASSUME NEW s \in X PROVE lenOf[s] \in Nat /\ lenOf[s] > 0
    OBVIOUS
  <2>1. PICK i, l, g : i = place(freq, N, s) /\ l = LengthAt(lc, m, i) /\ g = longerThan(lc, m)
    OBVIOUS
  <2>2. i \in 1..n
    BY <2>1, Places
  <2>3. /\ l \in 1..m /\ g[l] < i /\ i <= g[l - 1]
        /\ \A k \in 1..m : g[k] < i => l <= k
        /\ \A k \in 1..m : g[k] < i /\ i <= g[k - 1] => l = k
    BY ONLY <1>2, <2>1, <2>2, m \in Nat, m > 0, CountsFor(lc, n, m), LengthIs
  <2>4. lenOf[s] = l
    BY ONLY <1>3, <2>1, s \in X
  <2>5. QED
    BY ONLY <2>3, <2>4
<1>5. \A s \in X : codes[s] # << >> /\ Len(codes[s]) = lenOf[s]
  <2> SUFFICES ASSUME NEW s \in X PROVE codes[s] # << >> /\ Len(codes[s]) = lenOf[s]
    OBVIOUS
  <2>1. PICK v, l : v = next[lenOf[s]] + before(s) /\ l = lenOf[s]
    OBVIOUS
  <2>2. codes[s] = codeBits(v, l)
    BY <1>2, <2>1
  <2>3. l \in Nat /\ l > 0
    BY ONLY <1>4, <2>1, s \in X
  <2>4. Len(codeBits(v, l)) = l /\ (l > 0 => codeBits(v, l) # << >>)
    BY ONLY <2>3, CodeBitsLen
  <2>5. QED
    BY ONLY <2>1, <2>2, <2>3, <2>4
<1>6. DOMAIN codes = 0..(N - 1) /\ \A s \in 0..(N - 1) : s \notin X => codes[s] = << >>
  OBVIOUS
<1> HIDE DEF codes
<1>7. QED
  BY <1>1, <1>3, <1>5, <1>6 DEF Lengths

\* What generate makes of frequencies is a complete code within the limit, however deep the
\* tree is: there need only be as many codewords that short.
LEMMA GenerateGood ==
  ASSUME NEW N \in Nat, NEW freq \in Freqs(N), NEW maxBits \in 1..15,
         Cardinality(DOMAIN freq) <= pow2[maxBits]
  PROVE  goodCode(freq, generate(freq, N, maxBits), maxBits)
<1> DEFINE n == Cardinality(DOMAIN freq)
           sorted == sortSymbols(freq, N)
           weights == [i \in 1..n |-> freq[sorted[i]]]
<1>1. n \in Nat /\ freq \in [DOMAIN freq -> Nat \ {0}]
  BY SymbolsFinite
<1>2. CASE n <= 2
  <2>1. generate(freq, N, maxBits) = [s \in 0..(N - 1) |->
                               IF s \in DOMAIN freq THEN <<Cardinality({t \in DOMAIN freq : t < s})>>
                               ELSE << >>]
    BY <1>2 DEF generate
  <2>2. maxBits \in Nat /\ maxBits > 0
    OBVIOUS
  <2>3. QED
    BY <1>2, <2>1, <2>2, FewSymbols
<1>3. CASE ~(n <= 2)
  <2>1. PICK m : m = Min({maxBits, n - 1, 15})
    OBVIOUS
  <2>2. n > 2 /\ n - 1 \in Nat
    BY ONLY <1>1, <1>3
  <2>3. m \in {maxBits, n - 1} /\ m <= maxBits /\ m \in 1..15 /\ m \in Nat /\ m > 0
    <3>1. PICK k : k = n - 1
      OBVIOUS
    <3>2. maxBits \in Nat /\ k \in Nat /\ 15 \in Nat
      BY ONLY <2>2, <3>1, maxBits \in 1..15
    <3>3. m \in {maxBits, k, 15} /\ m <= maxBits /\ m <= k /\ m <= 15
      BY ONLY <2>1, <3>1, <3>2, MinOfThree
    <3>4. k >= 2 /\ (m = maxBits \/ m = k \/ m = 15)
      BY ONLY <1>1, <2>2, <3>1, <3>3
    <3>5. m = maxBits \/ m = k
      BY ONLY <3>3, <3>4, maxBits \in 1..15
    <3>6. m \in 1..15
      BY ONLY <3>2, <3>3, <3>4, <3>5, maxBits \in 1..15
    <3>7. QED
      BY ONLY <3>1, <3>3, <3>5, <3>6
  <2>4. n <= pow2[m]
    <3>1. CASE m = maxBits
      BY <3>1
    <3>2. CASE m = n - 1
      <4>1. n \in 2..16
        BY ONLY <1>1, <2>2, <2>3, <3>2
      <4>2. QED
        BY ONLY <3>2, <4>1, Enough
    <3>3. QED
      BY ONLY <2>3, <3>1, <3>2
  <2>5. weights \in [1..n -> Nat]
    <3> SUFFICES ASSUME NEW i \in 1..n PROVE freq[sorted[i]] \in Nat
      OBVIOUS
    <3>1. \E s \in DOMAIN freq : place(freq, N, s) = i
      BY Places
    <3>2. sorted[i] \in DOMAIN freq
      BY <3>1 DEF sortSymbols
    <3>3. QED
      BY ONLY <1>1, <3>2
  <2>6. PICK a : a = buildTree(weights)
    OBVIOUS
  <2>7. a \in [1..n -> Nat] /\ Parents(a, n - 2, n - 1)
    <3> HIDE DEF n, weights
    <3>1. QED
      BY ONLY <1>1, <2>2, <2>5, <2>6, TreeRight
  <2>8. PICK lc : lc = computeLengthCounts(a, n - 2, m)
    OBVIOUS
  <2>9. generate(freq, N, maxBits) = genCodewords(freq, lc, m, N)
    BY <1>3, <2>1, <2>6, <2>8 DEF generate
  <2> HIDE DEF n, weights, sorted
  <2>10. CountsFor(lc, n, m)
    <3>1. CountsFor(computeLengthCounts(a, n - 2, m), n, m)
      BY ONLY <1>1, <2>2, <2>3, <2>4, <2>7, TreeCounts
    <3>2. QED
      BY ONLY <2>8, <3>1
  <2>11. Lengths(freq, genCodewords(freq, lc, m, N), N, lc, m)
    BY <2>3, <2>10, GenLengths DEF n
  <2>12. maxBits \in Nat
    OBVIOUS
  <2>13. goodCode(freq, genCodewords(freq, lc, m, N), maxBits)
    BY <2>3, <2>10, <2>11, <2>12, LengthsGood DEF n
  <2>14. QED
    BY ONLY <2>9, <2>13
<1>4. QED
  BY <1>2, <1>3

-----------------------------------------------------------------------------
(* The codes of a run of equal lengths are no more than the lengths.       *)

\* Sequences put together, of which only p after the first o have two elements.
LEMMA FlattenShort ==
  ASSUME NEW S, NEW n \in Nat, NEW seqs \in [1..n -> Seq(S)], NEW o \in 0..1, NEW p \in Nat,
         \A i \in 1..n : Len(seqs[i]) <= 2 /\ (i <= o \/ i > o + p => Len(seqs[i]) <= 1)
  PROVE  Len(FlattenSeq(seqs)) \in Nat /\ Len(FlattenSeq(seqs)) <= n + p
<1>1. seqs \in Seq(Seq(S)) /\ Len(seqs) = n
  OBVIOUS
<1>2. CASE n = 0
  <2>1. FlattenSeq(seqs) = seqs
    BY ONLY <1>1, <1>2 DEF FlattenSeq
  <2>2. QED
    BY ONLY <1>1, <1>2, <2>1, p \in Nat
<1>3. CASE n # 0
  <2> DEFINE Eq(h) == h = [i \in 1..n |-> IF i = 1 THEN seqs[i] ELSE h[i - 1] \o seqs[i]]
             F == [k \in 1..n |-> [y \in Seq(S) |-> IF k = 1 THEN seqs[k] ELSE y \o seqs[k]]]
  <2>1. F \in StepsOn(n, Seq(S))
    <3> SUFFICES ASSUME NEW k \in 1..n, NEW y \in Seq(S)
                 PROVE (IF k = 1 THEN seqs[k] ELSE y \o seqs[k]) \in Seq(S)
      BY DEF StepsOn
    <3>1. seqs[k] \in Seq(S)
      OBVIOUS
    <3>2. QED
      BY ONLY <3>1, y \in Seq(S)
  <2>2. << >> \in Seq(S)
    OBVIOUS
  <2>3. PICK g \in ValuesIn(n, Seq(S)) : Solves(g, n, << >>, F)
    <3> HIDE DEF F
    <3>1. QED
      BY ONLY n \in Nat, <2>1, <2>2, Recursion
  <2>4. \A i \in 1..n : g[i] = IF i = 1 THEN seqs[i] ELSE g[i - 1] \o seqs[i]
    <3> SUFFICES ASSUME NEW i \in 1..n PROVE g[i] = IF i = 1 THEN seqs[i] ELSE g[i - 1] \o seqs[i]
      OBVIOUS
    <3>1. g[i] = F[i][g[i - 1]] /\ g[i - 1] \in Seq(S)
      <4> HIDE DEF F
      <4>1. g[i] = IF i = 0 THEN << >> ELSE F[i][g[i - 1]]
        BY ONLY <2>3, n \in Nat, i \in 1..n DEF Solves
      <4>2. g[i - 1] \in Seq(S)
        BY ONLY <2>3, n \in Nat, i \in 1..n DEF ValuesIn
      <4>3. QED
        BY ONLY <4>1, <4>2, i \in 1..n
    <3>2. QED
      BY <3>1
  <2> DEFINE e == [i \in 1..n |-> g[i]]
  <2>5. Eq(e)
    <3> SUFFICES ASSUME NEW i \in 1..n PROVE e[i] = IF i = 1 THEN seqs[i] ELSE e[i - 1] \o seqs[i]
      OBVIOUS
    <3>1. i # 1 => e[i - 1] = g[i - 1]
      OBVIOUS
    <3>2. QED
      BY <2>4, <3>1
  <2>6. PICK h : h = CHOOSE f1 : Eq(f1)
    OBVIOUS
  <2>7. Eq(h)
    <3> HIDE DEF Eq, e
    <3>1. QED
      BY <2>5, <2>6
  <2>8. FlattenSeq(seqs) = h[n]
    BY <1>1, <1>3, <2>6 DEF FlattenSeq
  <2> DEFINE bound(i) == i + (IF i <= o THEN 0 ELSE IF i <= o + p THEN i - o ELSE p)
             P == {i \in 0..n : i > 0 => h[i] \in Seq(S) /\ Len(h[i]) <= bound(i)}
  <2>9. 0 \in P
    OBVIOUS
  <2>10. ASSUME NEW i \in 1..n, i - 1 \in P PROVE i \in P
    <3>1. seqs[i] \in Seq(S) /\ Len(seqs[i]) \in Nat
      OBVIOUS
    <3>2. Len(seqs[i]) <= 2 /\ (i <= o \/ i > o + p => Len(seqs[i]) <= 1)
      OBVIOUS
    <3>3. CASE i = 1
      <4>1. h[i] = seqs[i]
        BY ONLY <2>7, <3>3, i \in 1..n
      <4>2. Len(seqs[i]) <= bound(i)
        BY ONLY <3>1, <3>2, <3>3, o \in 0..1, p \in Nat
      <4>3. QED
        BY ONLY <3>1, <4>1, <4>2, i \in 1..n, n \in Nat
    <3>4. CASE i # 1
      <4>1. h[i] = h[i - 1] \o seqs[i]
        BY ONLY <2>7, <3>4, i \in 1..n
      <4>2. PICK d : d = h[i - 1]
        OBVIOUS
      <4>3. d \in Seq(S) /\ Len(d) <= bound(i - 1) /\ Len(d) \in Nat
        <5>1. d \in Seq(S) /\ Len(d) <= bound(i - 1)
          BY ONLY <2>10, <3>4, <4>2, i \in 1..n, n \in Nat
        <5>2. QED
          BY ONLY <5>1
      <4>4. h[i] = d \o seqs[i]
        BY ONLY <4>1, <4>2
      <4>5. h[i] \in Seq(S) /\ Len(h[i]) = Len(d) + Len(seqs[i])
        BY ONLY <3>1, <4>3, <4>4
      <4>6. Len(d) + Len(seqs[i]) <= bound(i)
        BY ONLY <3>1, <3>2, <3>4, <4>3, o \in 0..1, p \in Nat, i \in 1..n, n \in Nat
      <4>7. QED
        BY ONLY <4>5, <4>6, i \in 1..n, n \in Nat
    <3>5. QED
      BY ONLY <3>3, <3>4
  <2>11. \A i \in 0..n : i \in P
    <3> HIDE DEF P
    <3>1. \A i \in 1..n : i - 1 \in P => i \in P
      BY ONLY <2>10
    <3>2. QED
      BY ONLY n \in Nat, <2>9, <3>1, UpTo
  <2>12. h[n] \in Seq(S) /\ Len(h[n]) <= bound(n)
    BY ONLY <1>3, <2>11, n \in Nat
  <2>13. Len(h[n]) \in Nat
    BY ONLY <2>12
  <2>14. bound(n) <= n + p
    BY ONLY n \in Nat, p \in Nat, o \in 0..1
  <2>15. bound(n) \in Int
    BY ONLY n \in Nat, p \in Nat, o \in 0..1
  <2>16. QED
    BY ONLY <2>8, <2>12, <2>13, <2>14, <2>15, n \in Nat, p \in Nat
<1>4. QED
  BY <1>2, <1>3

\* Where the elements of a concatenation come from.
LEMMA TwoParts ==
  ASSUME NEW T, NEW a \in Seq(T), NEW b \in Seq(T), NEW s, s = a \o b
  PROVE  /\ s \in Seq(T) /\ Len(s) = Len(a) + Len(b) /\ Len(a) \in Nat /\ Len(b) \in Nat
         /\ \A i \in 1..Len(s) :
              \/ i <= Len(a) /\ i \in 1..Len(a) /\ s[i] = a[i]
              \/ i > Len(a) /\ \E j \in 1..Len(b) : i = Len(a) + j /\ s[i] = b[j]
<1>1. s \in Seq(T) /\ Len(s) = Len(a) + Len(b) /\ Len(a) \in Nat /\ Len(b) \in Nat
  OBVIOUS
<1>2. ASSUME NEW i \in 1..Len(s)
      PROVE  \/ i <= Len(a) /\ i \in 1..Len(a) /\ s[i] = a[i]
             \/ i > Len(a) /\ \E j \in 1..Len(b) : i = Len(a) + j /\ s[i] = b[j]
  <2>1. s[i] = IF i <= Len(a) THEN a[i] ELSE b[i - Len(a)]
    BY <1>1
  <2>2. CASE i <= Len(a)
    BY ONLY <1>1, <2>1, <2>2, i \in 1..Len(s)
  <2>3. CASE ~(i <= Len(a))
    <3>1. PICK j : j = i - Len(a)
      OBVIOUS
    <3>2. j \in 1..Len(b) /\ i = Len(a) + j /\ s[i] = b[j] /\ i > Len(a)
      BY ONLY <1>1, <2>1, <2>3, <3>1, i \in 1..Len(s)
    <3>3. QED
      BY ONLY <3>2
  <2>4. QED
    BY ONLY <2>2, <2>3
<1>3. QED
  BY ONLY <1>1, <1>2

\* Copies of a sequence.
LEMMA TimesAre ==
  ASSUME NEW S, NEW n \in Nat, NEW x \in Seq(S)
  PROVE  /\ times(n, x) \in Seq(Seq(S)) /\ Len(times(n, x)) = n
         /\ \A i \in 1..n : times(n, x)[i] = x
BY DEF times

\* The limits of the repeat codes.
Limits(least, most) == (least = 3 /\ most = 6) \/ (least = 11 /\ most = 138)

\* What is left by codes that count up to most.
Leaves(count, most, left) == left = count % most

\* What the repeat codes count is twice what they are, and what they leave is less than
\* one of them counts.
LEMMA RepeatsAre ==
  ASSUME NEW count \in Nat, NEW least \in Nat, NEW most \in Nat, NEW code \in Nat,
         NEW S, Int \subseteq S,
         Limits(least, most), NEW left, Leaves(count, most, left)
  PROVE  /\ repeats(count, least, most, code) \in Seq(Seq(S))
         /\ \A i \in 1..Len(repeats(count, least, most, code)) :
              Len(repeats(count, least, most, code)[i]) <= 2
         /\ 2 * Len(repeats(count, least, most, code)) + (IF left < least THEN left ELSE 0) <= count
<1> USE DEF Limits, Leaves
<1> DEFINE quot == count \div most
           r == repeats(count, least, most, code)
           a == times(quot, <<code, most - least>>)
           b == IF left >= least THEN <<<<code, left - least>>>> ELSE << >>
<1>1. r = a \o b
  BY DEF repeats
<1>2. least \in Int /\ most \in Int /\ least >= 3 /\ most >= least
  OBVIOUS
<1>3. quot \in Nat /\ left \in Nat /\ count = most * quot + left
  OBVIOUS
<1>4. <<code, most - least>> \in Seq(S) /\ Len(<<code, most - least>>) = 2
  BY <1>2
<1>5. a \in Seq(Seq(S)) /\ Len(a) = quot /\ \A i \in 1..Len(a) : Len(a[i]) = 2
  <2> HIDE DEF quot
  <2>1. QED
    BY <1>3, <1>4 DEF times
<1>6. <<code, left - least>> \in Seq(S) /\ Len(<<code, left - least>>) = 2
  BY <1>2, <1>3
<1>7. b \in Seq(Seq(S)) /\ Len(b) = (IF left >= least THEN 1 ELSE 0) /\ \A i \in 1..Len(b) : Len(b[i]) = 2
  <2>1. QED
    BY <1>6
<1>8. Len(r) = Len(a) + Len(b) /\ r \in Seq(Seq(S)) /\ \A i \in 1..Len(r) : Len(r[i]) <= 2
  <2> HIDE DEF a, b, r
  <2>1. r \in Seq(Seq(S)) /\ Len(r) = Len(a) + Len(b)
    <3>1. PICK T : T = Seq(S)
      OBVIOUS
    <3>2. a \in Seq(T) /\ b \in Seq(T)
      BY ONLY <1>5, <1>7, <3>1
    <3>3. r \in Seq(T) /\ Len(r) = Len(a) + Len(b)
      BY ONLY <1>1, <3>2
    <3>4. QED
      BY ONLY <3>1, <3>3
  <2>2. ASSUME NEW i \in 1..Len(r) PROVE Len(r[i]) <= 2
    <3>1. PICK T : T = Seq(S)
      OBVIOUS
    <3>2. a \in Seq(T) /\ b \in Seq(T)
      BY ONLY <1>5, <1>7, <3>1
    <3>3. PICK c : c = a \o b
      OBVIOUS
    <3>4. /\ c \in Seq(T) /\ Len(c) = Len(a) + Len(b) /\ Len(a) \in Nat /\ Len(b) \in Nat
          /\ \A k \in 1..Len(c) :
               \/ k <= Len(a) /\ k \in 1..Len(a) /\ c[k] = a[k]
               \/ k > Len(a) /\ \E j \in 1..Len(b) : k = Len(a) + j /\ c[k] = b[j]
      BY ONLY <3>2, <3>3, TwoParts, SMTT(30)
    <3>5. c = r
      BY ONLY <1>1, <3>3
    <3>6. CASE i \in 1..Len(a) /\ r[i] = a[i]
      <4>1. Len(r[i]) = 2
        BY ONLY <1>5, <3>6
      <4>2. QED
        BY ONLY <4>1
    <3>7. CASE \E j \in 1..Len(b) : r[i] = b[j]
      <4>1. Len(r[i]) = 2
        BY ONLY <1>7, <3>7
      <4>2. QED
        BY ONLY <4>1
    <3>8. QED
      BY ONLY <3>4, <3>5, <3>6, <3>7, i \in 1..Len(r)
  <2>3. QED
    BY ONLY <2>1, <2>2
<1>9. 2 * Len(r) + (IF left < least THEN left ELSE 0) <= count
  <2>1. Len(r) = quot + (IF left >= least THEN 1 ELSE 0)
    BY ONLY <1>5, <1>7, <1>8
  <2>2. most * quot >= 2 * quot
    OBVIOUS
  <2> HIDE DEF quot
  <2>3. PICK q : q = most * quot
    OBVIOUS
  <2>4. q \in Int
    BY ONLY <1>2, <1>3, <2>3
  <2>5. QED
    BY ONLY <1>2, <1>3, <2>1, <2>2, <2>3, <2>4
<1>10. QED
  BY <1>8, <1>9

\* "the output is always shorter than the input used so far" (huffman_bit_writer.go:284), or
\* as long, for a run of equal lengths.
LEMMA RunShort ==
  ASSUME NEW size, NEW count \in Nat, count > 0, NEW codes, codes = runCodes(size, count)
  PROVE  /\ IsFiniteSet(DOMAIN codes)
         /\ Len(FlattenSeq(codes)) \in Nat /\ Len(FlattenSeq(codes)) <= count
<1> DEFINE S == Int \cup {size}
<1>1. Int \subseteq S /\ <<size>> \in Seq(S) /\ Len(<<size>>) = 1 /\ <<0>> \in Seq(S) /\ Len(<<0>>) = 1
  OBVIOUS
<1> HIDE DEF S
<1>2. PICK T : T = Seq(S)
  OBVIOUS
<1>3. ASSUME NEW n \in Nat, codes \in [1..n -> Seq(S)]
      PROVE  IsFiniteSet(DOMAIN codes)
  <2>1. DOMAIN codes = 1..n /\ IsFiniteSet(1..n)
    BY ONLY <1>3, FS_Interval
  <2>2. QED
    BY ONLY <2>1
<1>4. CASE size # 0
  <2>1. PICK again : again = count - 1
    OBVIOUS
  <2>2. again \in Nat /\ count = again + 1
    BY ONLY <2>1, count \in Nat, count > 0
  <2>3. PICK r : r = IF again % 6 < 3 THEN again % 6 ELSE 0
    OBVIOUS
  <2>4. r \in Nat
    BY ONLY <2>2, <2>3
  <2>5. PICK b : b = repeats(again, 3, 6, 16)
    OBVIOUS
  <2>6. /\ b \in Seq(Seq(S)) /\ \A i \in 1..Len(b) : Len(b[i]) <= 2
        /\ 2 * Len(b) + r <= again
    <3>0. PICK left : left = again % 6
      OBVIOUS
    <3>1. 3 \in Nat /\ 6 \in Nat /\ 16 \in Nat /\ Limits(3, 6) /\ Leaves(again, 6, left)
      BY ONLY <3>0 DEF Limits, Leaves
    <3>2. /\ b \in Seq(Seq(S)) /\ \A i \in 1..Len(b) : Len(b[i]) <= 2
          /\ 2 * Len(b) + (IF left < 3 THEN left ELSE 0) <= again
      BY ONLY <1>1, <2>2, <2>5, <3>1, RepeatsAre
    <3>3. QED
      BY ONLY <2>3, <3>0, <3>2
  <2>7. PICK d : d = times(r, <<size>>)
    OBVIOUS
  <2>8. d \in Seq(Seq(S)) /\ Len(d) = r /\ \A i \in 1..r : d[i] = <<size>>
    BY ONLY <1>1, <2>4, <2>7, TimesAre, ZenonT(60)
  <2>9. PICK a : a = <<<<size>>>>
    OBVIOUS
  <2>10. a \in Seq(Seq(S)) /\ Len(a) = 1 /\ a[1] = <<size>>
    BY ONLY <1>1, <2>9
  <2>11. PICK ab : ab = a \o b
    OBVIOUS
  <2>12. codes = ab \o d
    BY ONLY <1>4, <2>1, <2>3, <2>5, <2>7, <2>9, <2>11, codes = runCodes(size, count) DEF runCodes
  <2>13. /\ ab \in Seq(T) /\ Len(ab) = Len(a) + Len(b) /\ Len(b) \in Nat
         /\ \A i \in 1..Len(ab) :
              \/ i <= Len(a) /\ i \in 1..Len(a) /\ ab[i] = a[i]
              \/ i > Len(a) /\ \E j \in 1..Len(b) : i = Len(a) + j /\ ab[i] = b[j]
    <3>1. a \in Seq(T) /\ b \in Seq(T)
      BY ONLY <1>2, <2>6, <2>10
    <3>2. QED
      BY ONLY <2>11, <3>1, TwoParts
  <2>14. /\ codes \in Seq(T) /\ Len(codes) = Len(ab) + Len(d)
         /\ \A i \in 1..Len(codes) :
              \/ i <= Len(ab) /\ i \in 1..Len(ab) /\ codes[i] = ab[i]
              \/ i > Len(ab) /\ \E j \in 1..Len(d) : i = Len(ab) + j /\ codes[i] = d[j]
    <3>1. d \in Seq(T) /\ ab \in Seq(T)
      BY ONLY <1>2, <2>8, <2>13
    <3>2. QED
      BY ONLY <2>12, <3>1, TwoParts
  <2>15. PICK n : n = 1 + Len(b) + r
    OBVIOUS
  <2>16. n \in Nat /\ Len(codes) = n /\ Len(ab) = 1 + Len(b)
    BY ONLY <2>4, <2>8, <2>10, <2>13, <2>14, <2>15
  <2>17. codes \in [1..n -> Seq(S)]
    <3>1. codes \in Seq(T)
      BY ONLY <2>14
    <3>2. codes \in [1..n -> T]
      BY ONLY <2>16, <3>1
    <3>3. QED
      BY ONLY <1>2, <3>2
  <2>18. ASSUME NEW i \in 1..n
         PROVE  Len(codes[i]) <= 2 /\ (i <= 1 \/ i > 1 + Len(b) => Len(codes[i]) <= 1)
    <3>1. CASE i <= Len(ab) /\ i \in 1..Len(ab) /\ codes[i] = ab[i]
      <4>1. CASE i <= Len(a) /\ i \in 1..Len(a) /\ ab[i] = a[i]
        <5>1. i = 1 /\ codes[i] = <<size>>
          BY ONLY <2>10, <3>1, <4>1
        <5>2. QED
          BY ONLY <1>1, <5>1
      <4>2. CASE i > Len(a) /\ \E j \in 1..Len(b) : i = Len(a) + j /\ ab[i] = b[j]
        <5>1. PICK j \in 1..Len(b) : i = 1 + j /\ codes[i] = b[j]
          BY ONLY <2>10, <3>1, <4>2
        <5>2. Len(b[j]) <= 2
          BY ONLY <2>6
        <5>3. ~(i <= 1) /\ ~(i > 1 + Len(b))
          BY ONLY <2>13, <5>1
        <5>4. QED
          BY ONLY <5>1, <5>2, <5>3
      <4>3. QED
        BY ONLY <2>13, <3>1, <4>1, <4>2
    <3>2. CASE i > Len(ab) /\ \E j \in 1..Len(d) : i = Len(ab) + j /\ codes[i] = d[j]
      <4>1. codes[i] = <<size>>
        BY ONLY <2>8, <3>2
      <4>2. QED
        BY ONLY <1>1, <4>1
    <3>3. QED
      BY ONLY <2>14, <2>16, <3>1, <3>2
  <2>19. Len(FlattenSeq(codes)) \in Nat /\ Len(FlattenSeq(codes)) <= n + Len(b)
    <3>1. 1 \in 0..1
      OBVIOUS
    <3>2. QED
      BY ONLY <2>13, <2>16, <2>17, <2>18, <3>1, FlattenShort
  <2>20. n + Len(b) <= count
    BY ONLY <2>2, <2>4, <2>6, <2>13, <2>15
  <2>21. IsFiniteSet(DOMAIN codes)
    BY ONLY <1>3, <2>16, <2>17
  <2>22. QED
    BY ONLY <2>13, <2>16, <2>19, <2>20, <2>21, count \in Nat
<1>5. CASE size = 0
  <2>1. PICK zeros : zeros = count % 138
    OBVIOUS
  <2>2. zeros \in Nat
    BY ONLY <2>1, count \in Nat
  <2>3. PICK b : b = repeats(count, 11, 138, 18)
    OBVIOUS
  <2>4. /\ b \in Seq(Seq(S)) /\ \A i \in 1..Len(b) : Len(b[i]) <= 2
        /\ 2 * Len(b) + (IF zeros < 11 THEN zeros ELSE 0) <= count
    <3>0. PICK l, m, c : l = 11 /\ m = 138 /\ c = 18
      OBVIOUS
    <3>1. /\ l \in Nat /\ m \in Nat /\ c \in Nat /\ Limits(l, m) /\ Leaves(count, m, zeros)
          /\ b = repeats(count, l, m, c)
      BY ONLY <2>1, <2>3, <3>0 DEF Limits, Leaves
    <3>2. /\ b \in Seq(Seq(S)) /\ \A i \in 1..Len(b) : Len(b[i]) <= 2
          /\ 2 * Len(b) + (IF zeros < l THEN zeros ELSE 0) <= count
      BY ONLY <1>1, <3>1, count \in Nat, RepeatsAre, Zenon
    <3>3. QED
      BY ONLY <3>0, <3>2
  <2>5. PICK d : d = IF zeros \in 3..10 THEN <<<<17, zeros - 3>>>>
                     ELSE IF zeros < 3 THEN times(zeros, <<0>>) ELSE << >>
    OBVIOUS
  <2>6. PICK p : p = Len(b) + (IF zeros \in 3..10 THEN 1 ELSE 0)
    OBVIOUS
  <2>7. codes = b \o d
    BY ONLY <1>5, <2>1, <2>3, <2>5, codes = runCodes(size, count) DEF runCodes
  <2>8. /\ d \in Seq(Seq(S)) /\ Len(d) \in Nat /\ \A i \in 1..Len(d) : Len(d[i]) <= 2
        /\ Len(d) = IF zeros \in 3..10 THEN 1 ELSE IF zeros < 3 THEN zeros ELSE 0
        /\ zeros \notin 3..10 => \A i \in 1..Len(d) : Len(d[i]) <= 1
    <3>1. CASE zeros \in 3..10
      <4>1. PICK x : x = <<17, zeros - 3>>
        OBVIOUS
      <4>2. x \in Seq(S) /\ Len(x) = 2
        BY ONLY <1>1, <2>2, <4>1
      <4>3. d = <<x>>
        BY ONLY <2>5, <3>1, <4>1
      <4>4. d \in Seq(Seq(S)) /\ Len(d) = 1 /\ d[1] = x
        BY ONLY <4>2, <4>3
      <4>5. \A i \in 1..Len(d) : Len(d[i]) <= 2
        <5> SUFFICES ASSUME NEW i \in 1..Len(d) PROVE Len(d[i]) <= 2
          OBVIOUS
        <5>1. i = 1
          BY ONLY <4>4, i \in 1..Len(d)
        <5>2. Len(d[i]) = 2
          BY ONLY <4>2, <4>4, <5>1
        <5>3. QED
          BY ONLY <5>2
      <4>6. QED
        BY ONLY <3>1, <4>4, <4>5
    <3>2. CASE zeros \notin 3..10 /\ zeros < 3
      <4>1. d = times(zeros, <<0>>)
        BY ONLY <2>5, <3>2
      <4>2. d \in Seq(Seq(S)) /\ Len(d) = zeros /\ \A i \in 1..zeros : d[i] = <<0>>
        BY ONLY <1>1, <2>2, <4>1, TimesAre, ZenonT(60)
      <4>3. \A i \in 1..Len(d) : Len(d[i]) <= 1
        <5> SUFFICES ASSUME NEW i \in 1..Len(d) PROVE Len(d[i]) <= 1
          OBVIOUS
        <5>1. Len(d[i]) = 1
          BY ONLY <1>1, <4>2, i \in 1..Len(d)
        <5>2. QED
          BY ONLY <5>1
      <4>4. \A i \in 1..Len(d) : Len(d[i]) <= 2
        <5> SUFFICES ASSUME NEW i \in 1..Len(d) PROVE Len(d[i]) <= 2
          OBVIOUS
        <5>1. Len(d[i]) = 1
          BY ONLY <1>1, <4>2, i \in 1..Len(d)
        <5>2. QED
          BY ONLY <5>1
      <4>5. QED
        BY ONLY <2>2, <3>2, <4>2, <4>3, <4>4
    <3>3. CASE zeros \notin 3..10 /\ ~(zeros < 3)
      <4>1. d = << >>
        BY ONLY <2>5, <3>3
      <4>2. d \in Seq(Seq(S)) /\ Len(d) = 0
        BY ONLY <4>1
      <4>3. QED
        BY ONLY <3>3, <4>2
    <3>4. QED
      BY ONLY <3>1, <3>2, <3>3
  <2>9. /\ codes \in Seq(T) /\ Len(codes) = Len(b) + Len(d) /\ Len(b) \in Nat
        /\ \A i \in 1..Len(codes) :
             \/ i <= Len(b) /\ i \in 1..Len(b) /\ codes[i] = b[i]
             \/ i > Len(b) /\ \E j \in 1..Len(d) : i = Len(b) + j /\ codes[i] = d[j]
    <3>1. b \in Seq(T) /\ d \in Seq(T)
      BY ONLY <1>2, <2>4, <2>8
    <3>2. QED
      BY ONLY <2>7, <3>1, TwoParts, SMTT(30)
  <2>10. PICK n : n = Len(b) + Len(d)
    OBVIOUS
  <2>11. n \in Nat /\ Len(codes) = n /\ p \in Nat
    BY ONLY <2>6, <2>8, <2>9, <2>10
  <2>12. codes \in [1..n -> Seq(S)]
    <3>1. codes \in Seq(T)
      BY ONLY <2>9
    <3>2. codes \in [1..n -> T]
      BY ONLY <2>11, <3>1
    <3>3. QED
      BY ONLY <1>2, <3>2
  <2>13. ASSUME NEW i \in 1..n
         PROVE  Len(codes[i]) <= 2 /\ (i <= 0 \/ i > 0 + p => Len(codes[i]) <= 1)
    <3>1. CASE i <= Len(b) /\ i \in 1..Len(b) /\ codes[i] = b[i]
      <4>1. Len(codes[i]) <= 2
        BY ONLY <2>4, <3>1
      <4>2. ~(i <= 0) /\ ~(i > 0 + p)
        BY ONLY <2>6, <2>9, <3>1
      <4>3. QED
        BY ONLY <4>1, <4>2
    <3>2. CASE i > Len(b) /\ \E j \in 1..Len(d) : i = Len(b) + j /\ codes[i] = d[j]
      <4>1. PICK j \in 1..Len(d) : i = Len(b) + j /\ codes[i] = d[j]
        BY ONLY <3>2
      <4>2. Len(codes[i]) <= 2
        BY ONLY <2>8, <4>1
      <4>3. CASE zeros \in 3..10
        <5>1. ~(i <= 0) /\ ~(i > 0 + p)
          BY ONLY <2>6, <2>8, <2>9, <4>1, <4>3
        <5>2. QED
          BY ONLY <4>2, <5>1
      <4>4. CASE zeros \notin 3..10
        <5>1. Len(d[j]) <= 1
          BY ONLY <2>8, <4>4
        <5>2. QED
          BY ONLY <4>1, <4>2, <5>1
      <4>5. QED
        BY ONLY <4>3, <4>4
    <3>3. QED
      BY ONLY <2>9, <2>11, <3>1, <3>2
  <2>14. Len(FlattenSeq(codes)) \in Nat /\ Len(FlattenSeq(codes)) <= n + p
    <3>1. 0 \in 0..1
      OBVIOUS
    <3>2. QED
      BY ONLY <2>11, <2>12, <2>13, <3>1, FlattenShort
  <2>15. n + p <= count
    BY ONLY <2>2, <2>4, <2>6, <2>8, <2>9, <2>10, count \in Nat
  <2>16. IsFiniteSet(DOMAIN codes)
    BY ONLY <1>3, <2>11, <2>12
  <2>17. QED
    BY ONLY <2>11, <2>14, <2>15, <2>16, count \in Nat
<1>6. QED
  BY ONLY <1>4, <1>5

-----------------------------------------------------------------------------
(* The module's invariants.                                                *)

\* Where generateCodegen is, between two runs of n lengths: what was written is no more
\* than what was read, and the marker is still to come.
Behind(g, n) ==
  /\ DOMAIN g.codegen = 0..n /\ g.codegen[n] = badCode
  /\ g.inIndex \in 1..(n + 1) /\ g.outIndex \in 0..(g.inIndex - 1)
  /\ g.size = badCode \/ g.inIndex <= n
  /\ g.freq \in [0..18 -> Nat]

\* It starts there.
LEMMA StartsBehind ==
  ASSUME NEW n \in Nat, n > 0, NEW lens, Len(lens) = n
  PROVE  Behind(codegenStart(lens), n)
BY DEF Behind, codegenStart

\* It stays there, run by run.
LEMMA RunStaysBehind ==
  ASSUME NEW n \in Nat, NEW g, Behind(g, n), g.size # badCode
  PROVE  Behind(codegenRun(g), n)
<1> DEFINE later == {i \in DOMAIN g.codegen : i >= g.inIndex /\ g.codegen[i] # g.size}
<1>0. PICK ii, oo : ii = g.inIndex /\ oo = g.outIndex
  OBVIOUS
<1>1. /\ DOMAIN g.codegen = 0..n /\ g.codegen[n] = badCode
      /\ ii \in 1..n /\ oo \in 0..(ii - 1) /\ g.freq \in [0..18 -> Nat]
  <2>1. /\ DOMAIN g.codegen = 0..n /\ g.codegen[n] = badCode /\ g.freq \in [0..18 -> Nat]
        /\ ii \in 1..(n + 1) /\ oo \in 0..(ii - 1) /\ ii <= n
    BY ONLY <1>0, Behind(g, n), g.size # badCode DEF Behind
  <2>2. ii \in 1..n
    BY ONLY <2>1, n \in Nat
  <2>3. QED
    BY ONLY <2>1, <2>2
<1>2. PICK next : next = Min(later)
  OBVIOUS
<1>3. next \in ii..n
  <2>1. later \in SUBSET Nat /\ later \in SUBSET (ii..n)
    <3> SUFFICES ASSUME NEW i \in later PROVE i \in Nat /\ i \in ii..n
      OBVIOUS
    <3>1. i \in 0..n /\ i >= ii
      BY ONLY <1>0, <1>1, i \in later
    <3>2. QED
      BY ONLY <1>1, <3>1, n \in Nat
  <2>2. n \in later
    <3>1. n \in 0..n /\ n >= ii
      BY ONLY <1>1, n \in Nat
    <3>2. QED
      BY ONLY <1>0, <1>1, <3>1, g.size # badCode
  <2> HIDE DEF later
  <2>3. \E x \in later : \A y \in later : x <= y
    BY ONLY <2>1, <2>2, LeastNat
  <2>4. Min(later) \in later
    BY ONLY <2>3 DEF Min
  <2>5. QED
    BY ONLY <1>2, <2>1, <2>4
<1>4. PICK count : count = 1 + next - ii
  OBVIOUS
<1>5. count \in Nat /\ count > 0 /\ count = next + 1 - ii
  BY ONLY <1>1, <1>3, <1>4
<1>6. PICK codes : codes = runCodes(g.size, count)
  OBVIOUS
<1>7. /\ IsFiniteSet(DOMAIN codes)
      /\ Len(FlattenSeq(codes)) \in Nat /\ Len(FlattenSeq(codes)) <= count
  BY ONLY <1>5, <1>6, RunShort
<1>8. PICK out : out = FlattenSeq(codes)
  OBVIOUS
<1>9. PICK end : end = oo + Len(out)
  OBVIOUS
<1>10. end \in Nat /\ end <= next
  <2>1. PICK l : l = Len(out)
    OBVIOUS
  <2>2. l \in Nat /\ l <= count
    BY ONLY <1>7, <1>8, <2>1
  <2>3. end = oo + l
    BY ONLY <1>9, <2>1
  <2>4. QED
    BY ONLY <1>1, <1>3, <1>5, <2>2, <2>3
<1>11. codegenRun(g) =
         [codegen |-> [i \in DOMAIN g.codegen |->
                         IF i \in oo..(end - 1) THEN out[i - oo + 1]
                         ELSE g.codegen[i]],
          freq |-> [c \in 0..18 |-> g.freq[c] + Cardinality({k \in DOMAIN codes : codes[k][1] = c})],
          size |-> g.codegen[next], inIndex |-> next + 1, outIndex |-> end]
  BY ONLY <1>0, <1>2, <1>4, <1>6, <1>8, <1>9 DEF codegenRun
<1>12. PICK h : h = codegenRun(g)
  OBVIOUS
<1>13. DOMAIN h.codegen = 0..n /\ h.codegen[n] = badCode
  <2>1. n \in DOMAIN g.codegen /\ n \notin oo..(end - 1)
    BY ONLY <1>1, <1>3, <1>10, n \in Nat
  <2>2. QED
    BY ONLY <1>1, <1>11, <1>12, <2>1
<1>14. h.inIndex = next + 1 /\ h.outIndex = end /\ h.size = g.codegen[next]
  BY ONLY <1>11, <1>12
<1>15. h.inIndex \in 1..(n + 1) /\ h.outIndex \in 0..(h.inIndex - 1)
  BY ONLY <1>1, <1>3, <1>10, <1>14, n \in Nat
<1>16. h.size = badCode \/ h.inIndex <= n
  <2>1. CASE next = n
    BY ONLY <1>1, <1>14, <2>1
  <2>2. CASE next # n
    BY ONLY <1>1, <1>3, <1>14, <2>2, n \in Nat
  <2>3. QED
    BY ONLY <2>1, <2>2
<1>17. h.freq \in [0..18 -> Nat]
  <2>1. ASSUME NEW c \in 0..18
        PROVE  g.freq[c] + Cardinality({k \in DOMAIN codes : codes[k][1] = c}) \in Nat
    <3>1. PICK K : K = {k \in DOMAIN codes : codes[k][1] = c}
      OBVIOUS
    <3>2. IsFiniteSet(K)
      BY ONLY <1>7, <3>1, FS_Subset
    <3>3. Cardinality(K) \in Nat
      BY ONLY <3>2, FS_CardinalityType
    <3>4. g.freq[c] \in Nat
      BY ONLY <1>1, c \in 0..18
    <3>5. QED
      BY ONLY <3>1, <3>3, <3>4
  <2>2. h.freq = [c \in 0..18 |-> g.freq[c] + Cardinality({k \in DOMAIN codes : codes[k][1] = c})]
    BY ONLY <1>11, <1>12
  <2>3. QED
    BY ONLY <2>1, <2>2
<1>18. Behind(h, n)
  BY ONLY <1>13, <1>15, <1>16, <1>17 DEF Behind
<1>19. QED
  BY ONLY <1>12, <1>18

\* The codes of the code lengths that occur: there are at most 19.
LEMMA CodegenCodeGood ==
  ASSUME NEW freq \in [0..18 -> Nat]
  PROVE  goodCode(used(freq), generate(used(freq), 19, 7), 7)
<1>1. PICK u : u = used(freq)
  OBVIOUS
<1>2. DOMAIN u \in SUBSET (0..18) /\ u \in [DOMAIN u -> Nat \ {0}]
  BY ONLY <1>1, freq \in [0..18 -> Nat] DEF used
<1>3. u \in Freqs(19)
  <2>1. DOMAIN u \in SUBSET (0..(19 - 1))
    BY ONLY <1>2
  <2>2. QED
    BY ONLY <1>2, <2>1 DEF Freqs
<1>4. Cardinality(DOMAIN u) <= pow2[7]
  <2>1. IsFiniteSet(0..18) /\ Cardinality(0..18) = 19
    <3>1. 0 \in Int /\ 18 \in Int
      OBVIOUS
    <3>2. IsFiniteSet(0..18) /\ Cardinality(0..18) = IF 0 > 18 THEN 0 ELSE 18 - 0 + 1
      BY ONLY <3>1, FS_Interval
    <3>3. QED
      BY ONLY <3>2
  <2>2. Cardinality(DOMAIN u) <= 19 /\ Cardinality(DOMAIN u) \in Nat
    <3>1. IsFiniteSet(DOMAIN u) /\ Cardinality(DOMAIN u) <= Cardinality(0..18)
      BY ONLY <1>2, <2>1, FS_Subset
    <3>2. Cardinality(DOMAIN u) \in Nat
      BY ONLY <3>1, FS_CardinalityType
    <3>3. QED
      BY ONLY <2>1, <3>1, <3>2
  <2>3. pow2[5] = 2 * pow2[4] /\ pow2[6] = 2 * pow2[5] /\ pow2[7] = 2 * pow2[6]
    BY Pow2Is
  <2>4. pow2[4] >= 5 /\ pow2[4] \in Nat
    <3>1. 5 \in 2..16 /\ 5 - 1 = 4
      OBVIOUS
    <3>2. 5 <= pow2[5 - 1]
      BY ONLY <3>1, Enough
    <3>3. pow2[4] \in Nat
      BY Pow2Is
    <3>4. QED
      BY ONLY <3>1, <3>2, <3>3
  <2>5. QED
    BY ONLY <2>2, <2>3, <2>4
<1>5. goodCode(u, generate(u, 19, 7), 7)
  <2>1. 19 \in Nat /\ 7 \in 1..15
    OBVIOUS
  <2>2. QED
    BY ONLY <1>3, <1>4, <2>1, GenerateGood
<1>6. QED
  BY ONLY <1>1, <1>5

\* The inductive invariant.
TablesInv ==
  /\ blk \in Blocks
  /\ stage # "generate" =>
       /\ w.numLiterals \in Nat /\ w.numOffsets \in Nat
       /\ Behind(cg, w.numLiterals + w.numOffsets)
  /\ CompleteCodes

\* A block with an end of block code: frequencies that generate can take.
LEMMA LiteralFrequencies ==
  ASSUME NEW b \in Blocks, NEW lit, lit = [s \in DOMAIN b.lit \cup {endBlockMarker} |->
                          IF s = endBlockMarker THEN 1 ELSE b.lit[s]]
  PROVE  /\ lit \in Freqs(literalCount) /\ Cardinality(DOMAIN lit) <= pow2[b.maxBits]
         /\ Max(DOMAIN lit) \in Nat
<1> DEFINE D == DOMAIN b.lit
<1>1. /\ D \subseteq (0..285) \ {256} /\ b.lit \in [D -> Nat \ {0}]
      /\ Cardinality(D) + 1 <= pow2[b.maxBits]
  BY CodeTablesAssumption DEF literalCount, endBlockMarker
<1>2. lit = [x \in D \cup {256} |-> IF x = 256 THEN 1 ELSE b.lit[x]]
  BY DEF endBlockMarker
<1> HIDE DEF D
<1>3. DOMAIN lit = D \cup {256} /\ lit \in [D \cup {256} -> Nat \ {0}]
  BY ONLY <1>1, <1>2
<1>4. D \cup {256} \in SUBSET (0..285)
  BY ONLY <1>1
<1>5. lit \in Freqs(literalCount)
  <2>1. literalCount - 1 = 285
    BY DEF literalCount
  <2>2. QED
    BY ONLY <1>3, <1>4, <2>1, SMTT(30) DEF Freqs
<1>6. Cardinality(DOMAIN lit) <= pow2[b.maxBits]
  <2>1. PICK from, to, eob : from = 0 /\ to = 285 /\ eob = 256
    OBVIOUS
  <2>2. from \in Int /\ to \in Int
    BY ONLY <2>1
  <2>3. IsFiniteSet(from..to)
    BY ONLY <2>2, FS_Interval
  <2>4. D \in SUBSET (from..to) /\ eob \notin D
    BY ONLY <1>1, <2>1
  <2>5. IsFiniteSet(D)
    BY ONLY <2>3, <2>4, FS_Subset
  <2>6. Cardinality(D \cup {eob}) = Cardinality(D) + 1
    BY ONLY <2>4, <2>5, FS_AddElement
  <2>7. QED
    BY ONLY <1>1, <1>3, <2>1, <2>6
<1>7. Max(DOMAIN lit) \in Nat
  <2>1. PICK to, S : to = 285 /\ S = D \cup {256}
    OBVIOUS
  <2>2. to \in Nat
    BY ONLY <2>1
  <2>3. S \in SUBSET (0..to)
    BY ONLY <1>4, <2>1
  <2>4. S # {}
    BY ONLY <2>1
  <2>5. Max(S) \in S
    BY ONLY <2>2, <2>3, <2>4, MaxUpTo, ZenonT(60)
  <2>6. DOMAIN lit = S
    BY ONLY <1>3, <2>1
  <2>7. Max(S) \in 0..to
    BY ONLY <2>3, <2>5
  <2>8. \A x \in 0..to : x \in Nat
    BY ONLY <2>2
  <2>9. QED
    BY ONLY <2>6, <2>7, <2>8
<1>8. QED
  BY ONLY <1>5, <1>6, <1>7

\* An offset code there is always.
LEMMA OffsetFrequencies ==
  ASSUME NEW b \in Blocks, NEW off, off = IF b.off = << >> THEN [o \in {0} |-> 1] ELSE b.off
  PROVE  /\ off \in Freqs(offsetCodeCount) /\ Cardinality(DOMAIN off) <= pow2[b.maxBits]
         /\ Max(DOMAIN off) \in Nat
<1> DEFINE D == DOMAIN off
<1>1. /\ DOMAIN b.off \subseteq 0..29 /\ b.off \in [DOMAIN b.off -> Nat \ {0}]
      /\ Cardinality(DOMAIN b.off) <= pow2[b.maxBits] /\ b.maxBits \in 1..15
  BY CodeTablesAssumption DEF offsetCodeCount
<1>2. /\ D \subseteq 0..29 /\ off \in [D -> Nat \ {0}] /\ Cardinality(D) <= pow2[b.maxBits]
      /\ D # {}
  <2>1. CASE b.off = << >>
    <3>1. off = [x \in {0} |-> 1]
      BY ONLY <2>1, off = IF b.off = << >> THEN [o \in {0} |-> 1] ELSE b.off
    <3>2. D = {0} /\ off \in [D -> Nat \ {0}]
      BY ONLY <3>1
    <3>3. Cardinality({0}) = 1
      BY FS_Singleton
    <3>4. 1 <= pow2[b.maxBits]
      <4>1. PICK k : k = b.maxBits
        OBVIOUS
      <4>2. k \in 1..15 /\ k - 1 \in 0..31 /\ k \in 1..31
        BY ONLY <1>1, <4>1
      <4>3. CASE k = 1
        <5>1. pow2[1] = 2 * pow2[1 - 1] /\ pow2[0] = 1 /\ 1 - 1 = 0
          BY Pow2Is
        <5>2. QED
          BY ONLY <4>1, <4>3, <5>1
      <4>4. CASE k # 1
        <5>1. PICK e : e = k + 1
          OBVIOUS
        <5>2. e \in 2..16 /\ e - 1 = k
          BY ONLY <4>2, <5>1
        <5>3. e <= pow2[e - 1]
          BY ONLY <5>2, Enough
        <5>4. pow2[k] \in Nat
          BY ONLY <4>2, Pow2Is
        <5>5. QED
          BY ONLY <4>1, <5>2, <5>3, <5>4
      <4>5. QED
        BY ONLY <4>3, <4>4
    <3>5. QED
      BY ONLY <3>2, <3>3, <3>4
  <2>2. CASE b.off # << >>
    <3>1. off = b.off
      BY ONLY <2>2, off = IF b.off = << >> THEN [o \in {0} |-> 1] ELSE b.off
    <3>2. DOMAIN b.off # {}
      <4>1. ASSUME DOMAIN b.off = {} PROVE FALSE
        <5>1. b.off \in [1..0 -> {}]
          BY ONLY <1>1, <4>1
        <5>2. b.off = << >>
          BY ONLY <5>1
        <5>3. QED
          BY ONLY <2>2, <5>2
      <4>2. QED
        BY ONLY <4>1
    <3>3. QED
      BY ONLY <1>1, <3>1, <3>2
  <2>3. QED
    BY ONLY <2>1, <2>2
<1> HIDE DEF D
<1>3. off \in Freqs(offsetCodeCount)
  <2>1. offsetCodeCount - 1 = 29
    BY DEF offsetCodeCount
  <2>2. QED
    BY ONLY <1>2, <2>1 DEF Freqs
<1>4. Max(DOMAIN off) \in Nat
  <2>1. 29 \in Nat /\ D \in SUBSET (0..29)
    BY ONLY <1>2
  <2>2. Max(D) \in D
    BY ONLY <1>2, <2>1, MaxUpTo
  <2>3. QED
    BY ONLY <2>1, <2>2 DEF D
<1>5. QED
  BY ONLY <1>2, <1>3, <1>4 DEF D

\* The lengths of two codes, one after the other.
LEMMA LengthsOfBoth ==
  ASSUME NEW a, NEW m \in Nat, NEW b, NEW n \in Nat
  PROVE  Len(lensOf(a, m) \o lensOf(b, n)) = m + n
<1> DEFINE x == lensOf(a, m)
           y == lensOf(b, n)
           T == {x[i] : i \in 1..m} \cup {y[i] : i \in 1..n}
<1>1. x \in [1..m -> T] /\ y \in [1..n -> T]
  BY DEF lensOf
<1> HIDE DEF x, y, T
<1>2. x \in Seq(T) /\ y \in Seq(T) /\ Len(x) = m /\ Len(y) = n
  BY ONLY <1>1, m \in Nat, n \in Nat
<1>3. Len(x \o y) = m + n
  BY ONLY <1>2
<1>4. QED
  BY <1>3 DEF x, y

\* What Generate leaves.
LEMMA GenerateKeeps ==
  ASSUME TablesInv, Generate
  PROVE  TablesInv'
<1> DEFINE lit == [s \in DOMAIN blk.lit \cup {endBlockMarker} |->
                     IF s = endBlockMarker THEN 1 ELSE blk.lit[s]]
           off == IF blk.off = << >> THEN [o \in {0} |-> 1] ELSE blk.off
           litCodes == generate(lit, literalCount, blk.maxBits)
           offCodes == generate(off, offsetCodeCount, blk.maxBits)
           numLiterals == Max(DOMAIN lit) + 1
           numOffsets == Max(DOMAIN off) + 1
<1>1. blk \in Blocks /\ blk.maxBits \in 1..15 /\ literalCount \in Nat /\ offsetCodeCount \in Nat
  BY CodeTablesAssumption DEF TablesInv, literalCount, offsetCodeCount
<1>2. /\ w' = [litFreq |-> lit, offFreq |-> off, lit |-> litCodes, off |-> offCodes,
               numLiterals |-> numLiterals, numOffsets |-> numOffsets]
      /\ cg' = codegenStart(lensOf(litCodes, numLiterals) \o lensOf(offCodes, numOffsets))
      /\ stage' = "codegen" /\ blk' = blk /\ cgCodes' = cgCodes
  BY DEF Generate
<1>3. /\ lit \in Freqs(literalCount) /\ Cardinality(DOMAIN lit) <= pow2[blk.maxBits]
      /\ Max(DOMAIN lit) \in Nat
  BY ONLY <1>1, LiteralFrequencies
<1>4. /\ off \in Freqs(offsetCodeCount) /\ Cardinality(DOMAIN off) <= pow2[blk.maxBits]
      /\ Max(DOMAIN off) \in Nat
  BY ONLY <1>1, OffsetFrequencies
<1> HIDE DEF lit, off
<1>5. goodCode(lit, litCodes, blk.maxBits) /\ goodCode(off, offCodes, blk.maxBits)
  BY ONLY <1>1, <1>3, <1>4, GenerateGood
<1>6. numLiterals \in Nat /\ numOffsets \in Nat /\ numLiterals + numOffsets \in Nat
      /\ numLiterals + numOffsets > 0
  BY ONLY <1>3, <1>4
<1> HIDE DEF litCodes, offCodes, numLiterals, numOffsets
<1>7. Behind(cg', numLiterals + numOffsets)
  <2>1. PICK lens : lens = lensOf(litCodes, numLiterals) \o lensOf(offCodes, numOffsets)
    OBVIOUS
  <2>2. PICK n : n = numLiterals + numOffsets
    OBVIOUS
  <2>3. n \in Nat /\ n > 0 /\ Len(lens) = n
    BY ONLY <1>6, <2>1, <2>2, LengthsOfBoth
  <2>4. Behind(codegenStart(lens), n)
    BY ONLY <2>3, StartsBehind
  <2>5. QED
    BY ONLY <1>2, <2>1, <2>2, <2>4
<1>8. /\ w'.litFreq = lit /\ w'.offFreq = off /\ w'.lit = litCodes /\ w'.off = offCodes
      /\ w'.numLiterals = numLiterals /\ w'.numOffsets = numOffsets
  BY ONLY <1>2
<1>9. CompleteCodes'
  BY ONLY <1>2, <1>5, <1>8 DEF CompleteCodes
<1>10. QED
  BY ONLY <1>1, <1>2, <1>6, <1>7, <1>8, <1>9 DEF TablesInv

\* Every step keeps the invariant.
LEMMA TablesStep ==
  ASSUME TablesInv, [NextOfBlock]_tableVars
  PROVE  TablesInv'
<1>1. CASE Generate
  BY ONLY <1>1, TablesInv, GenerateKeeps
<1>2. CASE Codegen
  <2>1. /\ cg' = codegenRun(cg) /\ cg.size # badCode /\ stage = "codegen"
        /\ stage' = stage /\ blk' = blk /\ w' = w /\ cgCodes' = cgCodes
    BY <1>2 DEF Codegen
  <2>2. PICK n : n = w.numLiterals + w.numOffsets
    OBVIOUS
  <2>3. n \in Nat /\ Behind(cg, n) /\ w.numLiterals \in Nat /\ w.numOffsets \in Nat
    BY <2>1, <2>2 DEF TablesInv
  <2>4. Behind(cg', n)
    BY ONLY <2>1, <2>3, RunStaysBehind
  <2>5. CompleteCodes'
    BY <2>1 DEF TablesInv, CompleteCodes
  <2>6. QED
    BY <2>1, <2>2, <2>3, <2>4, <2>5 DEF TablesInv
<1>3. CASE GenerateCodegenCode
  <2>1. /\ cgCodes' = generate(used(cg.freq), 19, 7) /\ stage = "codegen" /\ stage' = "write"
        /\ blk' = blk /\ w' = w /\ cg' = cg
    BY <1>3 DEF GenerateCodegenCode
  <2>2. cg.freq \in [0..18 -> Nat]
    BY <2>1 DEF TablesInv, Behind
  <2>3. goodCode(used(cg.freq), cgCodes', 7)
    BY ONLY <2>1, <2>2, CodegenCodeGood
  <2>4. CompleteCodes'
    BY <2>1, <2>3 DEF TablesInv, CompleteCodes
  <2>5. QED
    BY <2>1, <2>4 DEF TablesInv
<1>4. CASE Write \/ ReadHeader \/ ReadLength \/ InitTables \/ Decode \/ BlockDone \/ UNCHANGED tableVars
  <2>1. /\ blk' = blk /\ w' = w /\ cg' = cg /\ cgCodes' = cgCodes
        /\ stage' = stage \/ stage \notin {"generate", "codegen"}
    BY <1>4 DEF Write, ReadHeader, ReadLength, InitTables, Decode, BlockDone, tableVars
  <2>2. stage' # "generate" => stage # "generate"
    BY ONLY <2>1
  <2>3. stage' \notin {"generate", "codegen"} => stage \notin {"generate", "codegen"}
    BY ONLY <2>1
  <2>4. QED
    BY ONLY <2>1, <2>2, <2>3, TablesInv, SMTT(30) DEF TablesInv, CompleteCodes
<1>5. QED
  BY <1>1, <1>2, <1>3, <1>4 DEF NextOfBlock

\* The inductive invariant holds.
THEOREM TablesInvariance == SpecTables => []TablesInv
<1>1. InitBlock => TablesInv
  BY DEF InitBlock, TablesInv, CompleteCodes
<1>2. TablesInv /\ [NextOfBlock]_tableVars => TablesInv'
  BY TablesStep
<1>3. QED
  BY <1>1, <1>2, PTL DEF SpecTables

\* Every code the writer makes is a complete prefix code within its limit, with no shorter
\* codeword for a rarer symbol (CompleteCodes; huffmanEncoder.generate, for any frequencies).
THEOREM CodesComplete == SpecTables => []CompleteCodes
<1>1. TablesInv => CompleteCodes
  BY DEF TablesInv
<1>2. QED
  BY <1>1, TablesInvariance, PTL

\* generateCodegen overwrites nothing it has not read (OutputBehind; "the output is always
\* shorter than the input used so far", huffman_bit_writer.go:284).
THEOREM CodegenBehind == SpecTables => []OutputBehind
<1>1. TablesInv => OutputBehind
  <2> SUFFICES ASSUME TablesInv, stage = "codegen"
               PROVE  cg.outIndex < cg.inIndex /\ cg.codegen[w.numLiterals + w.numOffsets] = badCode
    BY DEF OutputBehind
  <2>1. PICK n, i, o : n = w.numLiterals + w.numOffsets /\ i = cg.inIndex /\ o = cg.outIndex
    OBVIOUS
  <2>2. n \in Nat /\ i \in 1..(n + 1) /\ o \in 0..(i - 1) /\ cg.codegen[n] = badCode
    <3>1. w.numLiterals \in Nat /\ w.numOffsets \in Nat /\ Behind(cg, n)
      BY <2>1 DEF TablesInv
    <3>2. n \in Nat
      BY ONLY <2>1, <3>1
    <3>3. QED
      BY ONLY <2>1, <3>1, <3>2 DEF Behind
  <2>3. o < i
    BY ONLY <2>2
  <2>4. QED
    BY ONLY <2>1, <2>2, <2>3
<1>2. QED
  BY <1>1, TablesInvariance, PTL
=============================================================================
