-------------------------- MODULE DeflateLazyProofs --------------------------
(***************************************************************************)
(* The compressor of levels 7 to 9 for every window, alphabet and hash,    *)
(* every setting of chain, nice and lazy, any writes, flushes, blocks that *)
(* fail and dictionaries.                                                  *)
(*                                                                         *)
(* Three things hold between two iterations of deflateLazy (Coherent): the *)
(* tokens reach up to index, or to the byte held back before it; the match *)
(* that is held back repeats the bytes before it (Right); and the block    *)
(* begins where writeBlock thinks it does, or its bytes are out of reach   *)
(* (Tiled, where the limit on a block's tokens keeps MaxInt32 far enough   *)
(* away).  Entries of the hash tables may be stale, so nothing is said of  *)
(* them but that they lie before index (Heads, Prevs, Chain): findMatch    *)
(* compares the bytes.                                                     *)
(*                                                                         *)
(* The recursive functions of the code (enterAll, findMatch, skipLiterals, *)
(* fillWindow) are shown to exist, and to stay in the set of states they   *)
(* may reach, by Recursion and UpTo, induction for a set instead of an     *)
(* operator.  Then every part of an iteration is taken in turn, the        *)
(* window's moves, and the steps.                                          *)
(***************************************************************************)
EXTENDS DeflateLazy, SequenceTheorems, WellFoundedInduction, TLAPS

\* The types of the compressor's fields.
Compressors ==
  [window : Seq(Byte), index : Nat, blockStart : Int, hashOffset : 1..maxHashOffset,
   hashHead : [Hashes -> Nat], hashPrev : [0..(windowSize - 1) -> Nat], chainHead : Int,
   length : (minMatchLength - 1)..maxMatchLength, offset : Int, ii : Nat,
   maxInsertIndex : Int, byteAvailable : BOOLEAN, tokens : 0..maxFlateBlockTokens,
   err : BOOLEAN, tpos : Int, bpos : Int, dict : 0..windowSize, gone : Seq(Byte),
   bad : SUBSET {"dict"}]

\* index stays in the window, and the window in its array.
InWindow(x) == x.index <= windowEnd(x) /\ windowEnd(x) <= 2 * windowSize

\* The heads of the chains, the entries of the chains and the chain last entered
\* are of indices before the limits.
Heads(x, lim) == \A h \in Hashes : x.hashHead[h] < x.hashOffset + lim
Prevs(x, lim) == \A i \in 0..(windowSize - 1) : x.hashPrev[i] < x.hashOffset + lim
Chain(x, lim) == x.chainHead < x.hashOffset + lim

\* A match that a decoder gets right.
Right(x, i, len, off) ==
  /\ len \in minMatchLength..maxMatchLength
  /\ off \in 1..windowSize
  /\ i - off >= -Len(x.gone) /\ i + len <= windowEnd(x)
  /\ \A k \in 0..(len - 1) : at(x, i + k) = written(x, i - off + k)

\* Where the block begins for writeBlock, and for its tokens: at the same place, or
\* with the dictionary between, or out of reach because its bytes have left the window.
Tiled(x) ==
  /\ \/ x.blockStart = x.bpos
     \/ x.blockStart = 0 /\ x.bpos = x.dict
     \/ x.blockStart >= MaxInt32 + x.bpos
  /\ x.tpos - x.bpos <= x.tokens * maxMatchLength

\* Only the hash tables differ.
SameButTables(x, y) ==
  /\ y.window = x.window /\ y.index = x.index /\ y.blockStart = x.blockStart
  /\ y.hashOffset = x.hashOffset /\ y.length = x.length /\ y.offset = x.offset
  /\ y.ii = x.ii /\ y.maxInsertIndex = x.maxInsertIndex
  /\ y.byteAvailable = x.byteAvailable /\ y.tokens = x.tokens /\ y.err = x.err
  /\ y.tpos = x.tpos /\ y.bpos = x.bpos /\ y.dict = x.dict /\ y.gone = x.gone
  /\ y.bad = x.bad

-----------------------------------------------------------------------------
(* Numbers.                                                                *)

\* What the assumptions say of the constants, as the steps below use it.
LEMMA Sizes ==
  /\ minMatchLength \in Nat /\ minMatchLength > 1
  /\ maxMatchLength \in Nat /\ maxMatchLength > minMatchLength
  /\ windowSize \in Nat /\ windowSize > minMatchLength + maxMatchLength
  /\ maxFlateBlockTokens \in Nat /\ maxFlateBlockTokens > 0
  /\ maxHashOffset \in Nat /\ maxHashOffset > 0
  /\ chain \in Nat /\ chain > 0
BY DeflateLazyAssumption

\* The order on the natural numbers.
Smaller == OpToRel(<, Nat)

\* Every set of natural numbers that is not empty has a least one.
LEMMA LeastNat ==
  ASSUME NEW T \in SUBSET Nat, T # {}
  PROVE  \E x \in T : \A y \in T : x <= y
<1>1. IsWellFoundedOn(Smaller, Nat)
  BY NatLessThanWellFounded DEF Smaller
<1>2. Smaller = {ss \in Nat \X Nat : ss[1] < ss[2]}
  BY DEF Smaller, OpToRel
<1>3. PICK x \in T : \A y \in T : ~(<<y, x>> \in Smaller)
  BY <1>1, WFMin
<1>4. ASSUME NEW y \in T PROVE x <= y
  <2>1. x \in Nat /\ y \in Nat
    OBVIOUS
  <2>2. ~(<<y, x>> \in {ss \in Nat \X Nat : ss[1] < ss[2]})
    BY <1>2, <1>3
  <2>3. QED
    BY <2>1, <2>2
<1>5. QED
  BY <1>4

\* Induction up to n, for a set.
LEMMA UpTo ==
  ASSUME NEW n \in Nat, NEW P, 0 \in P, \A k \in 1..n : k - 1 \in P => k \in P
  PROVE  \A k \in 0..n : k \in P
<1> DEFINE T == {k \in 0..n : k \notin P}
<1>1. SUFFICES ASSUME T # {} PROVE FALSE
  OBVIOUS
<1>2. T \in SUBSET Nat
  OBVIOUS
<1>3. PICK x \in T : \A y \in T : x <= y
  BY <1>1, <1>2, LeastNat
<1>4. x \in 1..n /\ x \notin P
  BY <1>3
<1>5. x - 1 \in 0..n /\ x - 1 < x
  BY <1>4
<1>6. x - 1 \notin T
  <2>1. x - 1 \in T => x <= x - 1
    BY <1>3
  <2>2. QED
    BY <2>1, <1>5, <1>4
<1>7. x - 1 \in P
  BY <1>5, <1>6
<1>8. QED
  BY <1>4, <1>7

\* The lesser of two integers.
LEMMA MinOfTwo ==
  ASSUME NEW a \in Int, NEW c \in Int
  PROVE  Min({a, c}) = IF a <= c THEN a ELSE c
<1>1. \E x \in {a, c} : \A y \in {a, c} : x <= y
  OBVIOUS
<1>2. /\ Min({a, c}) \in {a, c}
      /\ \A y \in {a, c} : Min({a, c}) <= y
  BY <1>1 DEF Min
<1>3. Min({a, c}) <= a /\ Min({a, c}) <= c
  BY <1>2
<1>4. QED
  BY <1>2, <1>3

\* The same for the greater.
LEMMA MaxOfTwo ==
  ASSUME NEW a \in Int, NEW c \in Int
  PROVE  Max({a, c}) = IF a <= c THEN c ELSE a
<1>1. \E x \in {a, c} : \A y \in {a, c} : x >= y
  OBVIOUS
<1>2. /\ Max({a, c}) \in {a, c}
      /\ \A y \in {a, c} : Max({a, c}) >= y
  BY <1>1 DEF Max
<1>3. Max({a, c}) >= a /\ Max({a, c}) >= c
  BY <1>2
<1>4. QED
  BY <1>2, <1>3

\* The greatest of a set of numbers up to m is one of them.
LEMMA MaxUpTo ==
  ASSUME NEW m \in Nat, NEW P \in SUBSET (0..m), P # {}
  PROVE  Max(P) \in P
<1>1. {m - p : p \in P} \in SUBSET Nat /\ {m - p : p \in P} # {}
  <2>1. \A p \in P : m - p \in Nat
    <3> SUFFICES ASSUME NEW p \in P PROVE m - p \in Nat
      OBVIOUS
    <3>1. p \in 0..m
      OBVIOUS
    <3>2. QED
      BY <3>1
  <2>2. QED
    BY <2>1
<1>2. PICK dd \in {m - p : p \in P} : \A e \in {m - p : p \in P} : dd <= e
  BY <1>1, LeastNat
<1>3. PICK p \in P : dd = m - p
  BY <1>2
<1>4. \A q \in P : p >= q
  <2> SUFFICES ASSUME NEW q \in P PROVE p >= q
    OBVIOUS
  <2>1. p \in 0..m /\ q \in 0..m /\ m - p <= m - q
    BY <1>2, <1>3
  <2>2. QED
    BY <2>1
<1>5. QED
  BY <1>4 DEF Max

\* The furthest index a match of index i may begin at.
LEMMA MinIndex ==
  ASSUME NEW i \in Int
  PROVE  /\ minIndexAt(i) \in Nat /\ minIndexAt(i) >= i - windowSize
         /\ i >= 0 => minIndexAt(i) <= i
<1>1. i - windowSize \in Int
  BY Sizes
<1>2. minIndexAt(i) = IF i - windowSize <= 0 THEN 0 ELSE i - windowSize
  BY <1>1, MaxOfTwo DEF minIndexAt
<1>3. QED
  BY <1>1, <1>2, Sizes

-----------------------------------------------------------------------------
(* Bytes and hashes.                                                       *)

\* The length matchLen finds is one up to which the bytes are the same.
LEMMA MatchLenRight ==
  ASSUME NEW x, NEW p, NEW q, NEW limit \in Nat
  PROVE  LET n == matchLen(x, p, q, limit)
         IN n \in 0..limit /\ \A j \in 0..(n - 1) : at(x, p + j) = at(x, q + j)
<1> DEFINE P == {k \in 0..limit : \A j \in 0..(k - 1) : at(x, p + j) = at(x, q + j)}
<1>1. 0 \in P
  OBVIOUS
<1>2. Max(P) \in P
  BY <1>1, MaxUpTo
<1>3. matchLen(x, p, q, limit) = Max(P)
  BY DEF matchLen
<1>4. QED
  BY <1>2, <1>3

\* Four bytes of the window have a hash.
LEMMA HashInWindow ==
  ASSUME NEW x, x.window \in Seq(Byte), NEW i \in Nat, i + minMatchLength <= windowEnd(x)
  PROVE  hash4(x, i) \in Hashes
<1>1. \A k \in 1..minMatchLength : at(x, i + k - 1) \in Byte
  <2> SUFFICES ASSUME NEW k \in 1..minMatchLength PROVE at(x, i + k - 1) \in Byte
    OBVIOUS
  <2>1. Len(x.window) \in Nat /\ (i + k - 1) + 1 \in 1..Len(x.window)
    BY Sizes DEF windowEnd
  <2>2. QED
    BY <2>1, ElementOfSeq DEF at
<1>2. [k \in 1..minMatchLength |-> at(x, i + k - 1)] \in [1..minMatchLength -> Byte]
  BY <1>1
<1>3. HashOf \in [[1..minMatchLength -> Byte] -> Hashes]
  BY DeflateLazyAssumption
<1>4. QED
  BY <1>2, <1>3 DEF hash4

\* An index is entered: only the tables change, and nothing in them is beyond it.
LEMMA EnterKeeps ==
  ASSUME NEW x \in Compressors, NEW i \in Nat, i + minMatchLength <= windowEnd(x),
         NEW lim \in Int, NEW bound \in Int, Heads(x, lim), Prevs(x, bound), lim <= bound
  PROVE  LET y == enter(x, i)
         IN /\ y \in Compressors /\ SameButTables(x, y) /\ y.chainHead = x.chainHead
            /\ Prevs(y, bound)
            /\ \A c \in Int : lim <= c /\ i < c => Heads(y, c)
<1> DEFINE h == hash4(x, i)
           s == i % windowSize
           y == enter(x, i)
<1>1. h \in Hashes
  BY HashInWindow DEF Compressors
<1>2. s \in 0..(windowSize - 1)
  BY Sizes
<1>3. y = [x EXCEPT !.hashPrev = [@ EXCEPT ![s] = x.hashHead[h]],
                    !.hashHead = [@ EXCEPT ![h] = i + x.hashOffset]]
  BY DEF enter
<1> HIDE DEF h, s, y
<1>4. x.hashOffset \in Nat /\ x.hashHead \in [Hashes -> Nat] /\ x.hashPrev \in [0..(windowSize - 1) -> Nat]
  <2>1. x.hashOffset \in 1..maxHashOffset
    BY DEF Compressors
  <2>2. x.hashHead \in [Hashes -> Nat] /\ x.hashPrev \in [0..(windowSize - 1) -> Nat]
    BY DEF Compressors
  <2>3. QED
    BY SMTT(30), <2>1, <2>2, Sizes
<1>5. /\ y.hashPrev = [x.hashPrev EXCEPT ![s] = x.hashHead[h]]
      /\ y.hashHead = [x.hashHead EXCEPT ![h] = i + x.hashOffset]
      /\ SameButTables(x, y) /\ y.chainHead = x.chainHead
  BY <1>3 DEF Compressors, SameButTables
<1>6. /\ [x.hashPrev EXCEPT ![s] = x.hashHead[h]] \in [0..(windowSize - 1) -> Nat]
      /\ [x.hashHead EXCEPT ![h] = i + x.hashOffset] \in [Hashes -> Nat]
  BY <1>1, <1>2, <1>4
<1>7. y \in Compressors
  BY <1>3, <1>6 DEF Compressors
<1>8. Prevs(y, bound)
  BY <1>1, <1>2, <1>4, <1>5 DEF Prevs, Heads, SameButTables
<1>9. ASSUME NEW c \in Int, lim <= c, i < c
      PROVE  Heads(y, c)
  BY <1>1, <1>4, <1>5, <1>9 DEF Heads, SameButTables
<1>10. QED
  BY <1>5, <1>7, <1>8, <1>9 DEF y

\* Steps on a set, the values a recursion takes in it, and what makes it one.
StepsOn(n, S) == [1..n -> [S -> S]]
ValuesIn(n, S) == [0..n -> S]
Solves(g, n, x, F) == \A k \in 0..n : g[k] = IF k = 0 THEN x ELSE F[k][g[k - 1]]

\* A recursion over the numbers up to n, whose values stay in a set, has a solution.
LEMMA Recursion ==
  ASSUME NEW n \in Nat, NEW S, NEW x \in S, NEW F \in StepsOn(n, S)
  PROVE  \E g \in ValuesIn(n, S) : Solves(g, n, x, F)
<1> USE DEF StepsOn, ValuesIn, Solves
<1> DEFINE Sol(g, m) == \A k \in 0..m : g[k] = IF k = 0 THEN x ELSE F[k][g[k - 1]]
           P == {m \in 0..n : \E g \in [0..m -> S] : Sol(g, m)}
<1>1. 0 \in P
  <2>1. [k \in 0..0 |-> x] \in [0..0 -> S] /\ Sol([k \in 0..0 |-> x], 0)
    OBVIOUS
  <2> HIDE DEF Sol
  <2>2. QED
    BY <2>1
<1>2. ASSUME NEW m \in 1..n, m - 1 \in P PROVE m \in P
  <2>1. PICK g \in [0..(m - 1) -> S] : Sol(g, m - 1)
    BY <1>2
  <2>2. g[m - 1] \in S /\ F[m] \in [S -> S]
    OBVIOUS
  <2> DEFINE h == [k \in 0..m |-> IF k = m THEN F[m][g[m - 1]] ELSE g[k]]
  <2>3. h \in [0..m -> S]
    <3> SUFFICES ASSUME NEW k \in 0..m PROVE h[k] \in S
      OBVIOUS
    <3>1. CASE k = m
      BY <2>2, <3>1
    <3>2. CASE k # m
      BY <3>2
    <3>3. QED
      BY <3>1, <3>2
  <2>4. Sol(h, m)
    <3> SUFFICES ASSUME NEW k \in 0..m PROVE h[k] = IF k = 0 THEN x ELSE F[k][h[k - 1]]
      OBVIOUS
    <3>1. CASE k = m
      <4>1. h[m - 1] = g[m - 1] /\ m # 0
        OBVIOUS
      <4>2. QED
        BY <3>1, <4>1
    <3>2. CASE k # m
      <4>1. k \in 0..(m - 1) /\ h[k] = g[k] /\ (k # 0 => k - 1 \in 0..m /\ k - 1 # m)
        BY <3>2
      <4>2. k # 0 => h[k - 1] = g[k - 1]
        BY <4>1
      <4>3. QED
        BY <2>1, <4>1, <4>2
    <3>3. QED
      BY <3>1, <3>2
  <2> HIDE DEF Sol, h
  <2>5. QED
    BY <2>3, <2>4
<1>3. n \in P
  <2> HIDE DEF P
  <2>1. \A k \in 1..n : k - 1 \in P => k \in P
    BY <1>2
  <2>2. \A k \in 0..n : k \in P
    BY ONLY n \in Nat, <1>1, <2>1, UpTo
  <2>3. QED
    BY <2>2
<1>4. QED
  BY <1>3

\* An index is entered if it has enough bytes, and its chain is remembered.
LEMMA InsertKeeps ==
  ASSUME NEW x \in Compressors, NEW i \in Nat,
         x.maxInsertIndex = windowEnd(x) - (minMatchLength - 1),
         Heads(x, i), Prevs(x, i), Chain(x, i)
  PROVE  LET y == insert(x, i)
         IN /\ y \in Compressors /\ SameButTables(x, y)
            /\ Heads(y, i + 1) /\ Prevs(y, i) /\ Chain(y, i)
<1> DEFINE y == insert(x, i)
<1>1. x.hashOffset \in Nat /\ x.hashHead \in [Hashes -> Nat] /\ windowEnd(x) \in Nat
  <2>1. x.hashOffset \in 1..maxHashOffset /\ x.hashHead \in [Hashes -> Nat] /\ x.window \in Seq(Byte)
    BY DEF Compressors
  <2>2. QED
    BY <2>1, Sizes DEF windowEnd
<1>2. CASE i < x.maxInsertIndex
  <2>1. i + minMatchLength <= windowEnd(x)
    BY <1>1, <1>2, Sizes
  <2> DEFINE e == enter(x, i)
             h == x.hashHead[hash4(x, i)]
  <2>2. y = [e EXCEPT !.chainHead = h]
    BY <1>2 DEF insert
  <2>3. /\ e \in Compressors /\ SameButTables(x, e) /\ e.chainHead = x.chainHead
        /\ Prevs(e, i) /\ Heads(e, i + 1)
    BY <2>1, EnterKeeps
  <2>4. h \in Nat /\ h < x.hashOffset + i
    BY <1>1, <2>1, HashInWindow DEF Heads, Compressors
  <2> HIDE DEF y, e, h
  <2>5. y \in Compressors
    <3>1. h \in Int
      BY <2>4
    <3>2. QED
      BY ONLY <2>2, <2>3, <3>1 DEF Compressors
  <2>6. /\ SameButTables(x, y) /\ y.chainHead = h /\ y.hashHead = e.hashHead
        /\ y.hashPrev = e.hashPrev /\ y.hashOffset = e.hashOffset /\ y.hashOffset = x.hashOffset
    BY <2>2, <2>3 DEF Compressors, SameButTables
  <2>7. QED
    BY <2>3, <2>4, <2>5, <2>6 DEF y, Heads, Prevs, Chain
<1>3. CASE ~(i < x.maxInsertIndex)
  <2>1. y = x
    BY <1>3 DEF insert
  <2>2. Heads(x, i + 1)
    BY <1>1 DEF Heads
  <2>3. QED
    BY <2>1, <2>2 DEF SameButTables
<1>4. QED
  BY <1>2, <1>3

\* All indices from i to j - 1 are entered.
LEMMA EnterAllKeeps ==
  ASSUME NEW x \in Compressors, NEW i \in Int, NEW j \in Int, NEW lim \in Int,
         Heads(x, lim), Prevs(x, lim),
         i < j => i >= 0 /\ j + minMatchLength - 1 <= windowEnd(x) /\ j <= lim
  PROVE  LET y == enterAll(x, i, j)
         IN /\ y \in Compressors /\ SameButTables(x, y) /\ y.chainHead = x.chainHead
            /\ Heads(y, lim) /\ Prevs(y, lim)
<1> DEFINE n == Max({0, j - i})
           S == {y \in Compressors : /\ SameButTables(x, y) /\ y.chainHead = x.chainHead
                                     /\ Heads(y, lim) /\ Prevs(y, lim)}
           F == [k \in 1..n |-> [y \in S |-> enter(y, i + k - 1)]]
           Eq(f) == f = [k \in 0..n |-> IF k = 0 THEN x ELSE enter(f[k - 1], i + k - 1)]
           f == CHOOSE g : Eq(g)
<1>1. n \in Nat /\ (n > 0 => i < j /\ n = j - i)
  BY MaxOfTwo
<1>2. enterAll(x, i, j) = f[n]
  BY DEF enterAll
<1> HIDE DEF n
<1>3. x \in S
  BY DEF SameButTables
<1>4. ASSUME NEW k \in 1..n, NEW y \in S PROVE enter(y, i + k - 1) \in S
  <2>1. i + k - 1 \in Nat /\ i + k - 1 + minMatchLength <= windowEnd(x) /\ i + k - 1 < lim
    <3>1. windowEnd(x) \in Nat
      BY DEF Compressors, windowEnd
    <3>2. QED
      BY <1>1, <3>1, Sizes
  <2>2. y \in Compressors /\ SameButTables(x, y) /\ windowEnd(y) = windowEnd(x)
    BY DEF SameButTables, windowEnd
  <2> DEFINE z == enter(y, i + k - 1)
  <2>3. /\ z \in Compressors /\ SameButTables(y, z) /\ z.chainHead = y.chainHead
        /\ Heads(z, lim) /\ Prevs(z, lim)
    BY <2>1, <2>2, EnterKeeps
  <2> HIDE DEF z
  <2>4. SameButTables(x, z)
    BY <2>2, <2>3 DEF SameButTables
  <2>5. QED
    BY <2>3, <2>4 DEF z
<1>5. F \in StepsOn(n, S)
  BY <1>4 DEF StepsOn
<1>6. PICK g \in ValuesIn(n, S) : Solves(g, n, x, F)
  <2> HIDE DEF F, S
  <2>1. n \in Nat
    BY <1>1
  <2>2. QED
    BY ONLY <2>1, <1>3, <1>5, Recursion
<1>7. Eq(g)
  <2>1. ASSUME NEW k \in 0..n
        PROVE  g[k] = IF k = 0 THEN x ELSE enter(g[k - 1], i + k - 1)
    <3>1. k # 0 => k \in 1..n /\ g[k - 1] \in S
      BY <1>1 DEF ValuesIn
    <3>2. k # 0 => F[k][g[k - 1]] = enter(g[k - 1], i + k - 1)
      BY <3>1
    <3>3. QED
      BY <1>6, <3>2 DEF Solves
  <2>2. QED
    BY <2>1 DEF ValuesIn
<1> HIDE DEF F
<1>8. Eq(f)
  BY <1>7
<1> HIDE DEF f
<1>9. f[0] = x /\ \A k \in 1..n : f[k] = enter(f[k - 1], i + k - 1)
  BY <1>1, <1>8
<1> DEFINE P == {k \in 0..n : f[k] \in S}
<1>10. 0 \in P
  BY <1>1, <1>3, <1>9
<1>11. \A k \in 1..n : k - 1 \in P => k \in P
  <2> SUFFICES ASSUME NEW k \in 1..n, k - 1 \in P PROVE k \in P
    OBVIOUS
  <2>1. f[k - 1] \in S
    OBVIOUS
  <2> HIDE DEF S
  <2>2. f[k] \in S
    BY <2>1, <1>4, <1>9
  <2>3. QED
    BY <2>2, <1>1
<1>12. n \in P
  <2> HIDE DEF P
  <2>1. n \in Nat
    BY <1>1
  <2>2. \A k \in 0..n : k \in P
    BY ONLY <2>1, <1>10, <1>11, UpTo
  <2>3. QED
    BY <2>1, <2>2
<1>13. QED
  BY <1>2, <1>12

-----------------------------------------------------------------------------
(* findMatch.                                                              *)

\* Bytes of the window that are the same further on are a match.
LEMMA SameBytesRight ==
  ASSUME NEW x \in Compressors, NEW i \in Nat, NEW p \in Nat, NEW n \in Nat,
         p < i, i - p <= windowSize, n \in minMatchLength..maxMatchLength, i + n <= windowEnd(x),
         \A k \in 0..(n - 1) : at(x, i + k) = at(x, p + k)
  PROVE  Right(x, i, n, i - p)
<1>1. Len(x.gone) \in Nat
  BY DEF Compressors
<1>2. i - p \in 1..windowSize /\ i - (i - p) = p
  BY Sizes
<1>3. ASSUME NEW k \in 0..(n - 1) PROVE at(x, i + k) = written(x, p + k)
  BY DEF written
<1>4. QED
  BY <1>1, <1>2, <1>3 DEF Right

\* What findMatch knows after some members of the chain: a member to look at next
\* lies in reach and before pos, a match it has is right.
Walks(x, pos) ==
  {m \in [i : Int, length : (minMatchLength - 1)..maxMatchLength, offset : Int, go : BOOLEAN] :
     /\ m.go => minIndexAt(pos) <= m.i /\ m.i < pos
     /\ m.length >= minMatchLength => Right(x, pos, m.length, m.offset)}

\* A member of the chain.
walkStep(x, pos, look, refused, m, t) ==
  LET niceLen == Min({nice, look})
      n == matchLen(x, m.i, pos, look)
      better == n > m.length /\ t \notin refused
      prev == x.hashPrev[m.i % windowSize] - x.hashOffset
  IN IF ~m.go THEN m
     ELSE [i |-> prev,
           length |-> IF better THEN n ELSE m.length,
           offset |-> IF better THEN pos - m.i ELSE m.offset,
           go |-> /\ ~(better /\ n >= niceLen)
                  /\ m.i > minIndexAt(pos)
                  /\ prev >= minIndexAt(pos)]

\* Looking at a member keeps what is known, whatever hashPrev holds behind it.
LEMMA WalkStepKeeps ==
  ASSUME NEW x \in Compressors, NEW pos \in Nat, Prevs(x, pos),
         NEW look \in Nat, look <= maxMatchLength, pos + look <= windowEnd(x),
         NEW refused, NEW t, NEW m \in Walks(x, pos)
  PROVE  walkStep(x, pos, look, refused, m, t) \in Walks(x, pos)
<1> DEFINE n == matchLen(x, m.i, pos, look)
           better == n > m.length /\ t \notin refused
           prev == x.hashPrev[m.i % windowSize] - x.hashOffset
           going == /\ ~(better /\ n >= Min({nice, look}))
                    /\ m.i > minIndexAt(pos)
                    /\ prev >= minIndexAt(pos)
           z == walkStep(x, pos, look, refused, m, t)
<1>1. CASE ~m.go
  BY <1>1 DEF walkStep
<1>2. CASE m.go
  <2>1. z = [i |-> prev, length |-> IF better THEN n ELSE m.length,
             offset |-> IF better THEN pos - m.i ELSE m.offset, go |-> going]
    BY <1>2 DEF walkStep
  <2>2. /\ m.i \in Int /\ m.offset \in Int /\ m.length \in (minMatchLength - 1)..maxMatchLength
        /\ minIndexAt(pos) <= m.i /\ m.i < pos
        /\ m.length >= minMatchLength => Right(x, pos, m.length, m.offset)
    BY <1>2 DEF Walks
  <2>3. minIndexAt(pos) \in Nat /\ minIndexAt(pos) >= pos - windowSize
    BY MinIndex
  <2>4. n \in 0..look /\ \A j \in 0..(n - 1) : at(x, m.i + j) = at(x, pos + j)
    BY MatchLenRight
  <2>5. prev \in Int /\ prev < pos
    <3>1. m.i % windowSize \in 0..(windowSize - 1)
      BY <2>2, <2>3, Sizes
    <3>2. x.hashPrev[m.i % windowSize] \in Nat /\ x.hashOffset \in 1..maxHashOffset
      BY <3>1 DEF Compressors
    <3>3. x.hashPrev[m.i % windowSize] < x.hashOffset + pos
      BY <3>1 DEF Prevs
    <3>4. QED
      BY <3>2, <3>3, Sizes
  <2> HIDE DEF n, prev, z
  <2>6. CASE better
    <3>1. n >= minMatchLength /\ n <= maxMatchLength /\ n \in Nat
      BY <2>2, <2>4, <2>6, Sizes
    <3>2. Right(x, pos, n, pos - m.i)
      <4>1. m.i \in Nat /\ pos - m.i <= windowSize /\ pos + n <= windowEnd(x)
        <5>1. windowEnd(x) \in Nat
          BY DEF Compressors, windowEnd
        <5>2. QED
          BY <5>1, <2>2, <2>3, <2>4, Sizes
      <4>2. n \in minMatchLength..maxMatchLength
        BY <3>1, Sizes
      <4>3. \A k \in 0..(n - 1) : at(x, pos + k) = at(x, m.i + k)
        BY <2>4
      <4>4. QED
        BY <4>1, <4>2, <4>3, <3>1, <2>2, SameBytesRight
    <3>3. pos - m.i \in Int /\ n \in (minMatchLength - 1)..maxMatchLength
      BY <3>1, <2>2, Sizes
    <3> HIDE DEF better
    <3>4. z.i = prev /\ z.length = n /\ z.offset = pos - m.i /\ z.go = going
      BY <2>1, <2>6
    <3>5. z \in [i : Int, length : (minMatchLength - 1)..maxMatchLength, offset : Int, go : BOOLEAN]
      BY <2>1, <2>5, <2>6, <3>3
    <3>6. z.go => minIndexAt(pos) <= z.i /\ z.i < pos
      BY <2>5, <3>4
    <3>7. QED
      BY <3>2, <3>4, <3>5, <3>6 DEF Walks, z
  <2>7. CASE ~better
    <3> HIDE DEF better
    <3>1. z.i = prev /\ z.length = m.length /\ z.offset = m.offset /\ z.go = going
      BY <2>1, <2>7
    <3>2. z \in [i : Int, length : (minMatchLength - 1)..maxMatchLength, offset : Int, go : BOOLEAN]
      BY <2>1, <2>2, <2>5, <2>7
    <3>3. z.go => minIndexAt(pos) <= z.i /\ z.i < pos
      BY <2>5, <3>1
    <3>4. QED
      BY <2>2, <3>1, <3>2, <3>3 DEF Walks, z
  <2>8. QED
    BY <2>6, <2>7
<1>3. QED
  BY <1>1, <1>2 DEF Walks

\* Whatever the chain holds, the match findMatch finds is one.
LEMMA FindMatchRight ==
  ASSUME NEW x \in Compressors, NEW pos \in Nat, pos < windowEnd(x), Prevs(x, pos),
         NEW prevHead \in Int, minIndexAt(pos) <= prevHead, prevHead < pos, NEW refused
  PROVE  LET m == findMatch(x, pos, prevHead, windowEnd(x) - pos, refused)
         IN /\ m.length \in (minMatchLength - 1)..maxMatchLength /\ m.offset \in Int
            /\ m.length >= minMatchLength => Right(x, pos, m.length, m.offset)
<1> DEFINE look == Min({windowEnd(x) - pos, maxMatchLength})
           start == [i |-> prevHead, length |-> minMatchLength - 1, offset |-> 0, go |-> TRUE]
           S == Walks(x, pos)
           F == [k \in 1..chain |-> [m \in S |-> walkStep(x, pos, look, refused, m, k)]]
           Eq(f) == f = [t \in 0..chain |->
                           IF t = 0 THEN start
                           ELSE walkStep(x, pos, look, refused, f[t - 1], t)]
           f == CHOOSE g : Eq(g)
<1>1. look \in Nat /\ look <= maxMatchLength /\ pos + look <= windowEnd(x)
  <2>1. windowEnd(x) \in Nat
    BY DEF Compressors, windowEnd
  <2>2. QED
    BY <2>1, Sizes, MinOfTwo
<1>2. findMatch(x, pos, prevHead, windowEnd(x) - pos, refused) = f[chain]
  BY DEF findMatch, walkStep
<1>3. start \in S
  BY Sizes DEF Walks
<1> HIDE DEF look, start
<1>4. ASSUME NEW m \in S, NEW k PROVE walkStep(x, pos, look, refused, m, k) \in S
  BY <1>1, WalkStepKeeps
<1> HIDE DEF S
<1>5. F \in StepsOn(chain, S)
  BY <1>4 DEF StepsOn
<1>6. PICK g \in ValuesIn(chain, S) : Solves(g, chain, start, F)
  <2> HIDE DEF F
  <2>1. chain \in Nat
    BY Sizes
  <2>2. QED
    BY ONLY <2>1, <1>3, <1>5, Recursion
<1>7. Eq(g)
  <2>1. ASSUME NEW k \in 0..chain
        PROVE  g[k] = IF k = 0 THEN start ELSE walkStep(x, pos, look, refused, g[k - 1], k)
    <3>1. k # 0 => k \in 1..chain /\ g[k - 1] \in S
      BY Sizes DEF ValuesIn
    <3>2. k # 0 => F[k][g[k - 1]] = walkStep(x, pos, look, refused, g[k - 1], k)
      BY <3>1
    <3>3. QED
      BY <1>6, <3>2 DEF Solves
  <2>2. QED
    BY <2>1 DEF ValuesIn
<1> HIDE DEF F
<1>8. Eq(f)
  BY <1>7
<1> HIDE DEF f
<1>9. f[0] = start /\ \A k \in 1..chain : f[k] = walkStep(x, pos, look, refused, f[k - 1], k)
  BY Sizes, <1>8
<1> DEFINE P == {k \in 0..chain : f[k] \in S}
<1>10. 0 \in P
  BY <1>3, <1>9, Sizes
<1>11. \A k \in 1..chain : k - 1 \in P => k \in P
  <2> SUFFICES ASSUME NEW k \in 1..chain, k - 1 \in P PROVE k \in P
    OBVIOUS
  <2>1. f[k - 1] \in S
    OBVIOUS
  <2>2. f[k] \in S
    BY <2>1, <1>4, <1>9
  <2>3. QED
    BY <2>2, Sizes
<1>12. chain \in P
  <2> HIDE DEF P
  <2>1. chain \in Nat
    BY Sizes
  <2>2. \A k \in 0..chain : k \in P
    BY ONLY <2>1, <1>10, <1>11, UpTo
  <2>3. QED
    BY <2>1, <2>2
<1>13. f[chain] \in S
  BY <1>12
<1>14. QED
  BY <1>2, <1>13 DEF S, Walks

-----------------------------------------------------------------------------
(* The inductive invariant.                                                *)

\* The match that is held back starts at the byte held back and is right.
Held(x) ==
  x.length >= minMatchLength =>
    x.byteAvailable /\ Right(x, x.index - 1, x.length, x.offset)

\* Between two iterations: the tokens reach up to index, or to the byte held back
\* before it, a token still fits, and no entry of the tables lies before us.
Coherent(x) ==
  /\ InWindow(x) /\ Tiled(x)
  /\ x.tokens < maxFlateBlockTokens
  /\ x.index = 0 => x.tokens = 0
  /\ Heads(x, x.index) /\ Prevs(x, x.index) /\ Chain(x, x.index)
  /\ x.byteAvailable => x.index >= 1
  /\ x.tpos = IF x.byteAvailable THEN x.index - 1 ELSE x.index
  /\ Held(x)

\* Nothing waits.
Taken(x) ==
  /\ x.tpos = windowEnd(x) /\ x.index = windowEnd(x)
  /\ x.tokens = 0
  /\ ~x.byteAvailable /\ x.length < minMatchLength

Sane(x) == x \in Compressors /\ InWindow(x) /\ (~x.err => Coherent(x))

\* Where a call is, and what that says of the compressor.
Calls ==
  /\ pc \in {"idle", "write", "fill", "lazy", "stepped"}
  /\ call.kind \in {"Write", "Flush", "Close", "Reset"}
  /\ call.ret \in {"running", "nil", "err"}
  /\ call \in [kind : {"Write", "Flush", "Close", "Reset"}, left : Seq(Byte),
               ret : {"running", "nil", "err"}]
  /\ sync \in BOOLEAN

Places ==
  /\ pc = "idle" => call.ret # "running"
  /\ pc = "write" => call.kind = "Write" /\ ~d.err
  /\ pc = "fill" => /\ call.kind = "Write"
                    /\ d.err \/ windowEnd(d) - d.index < minMatchLength + maxMatchLength
  /\ pc = "lazy" => /\ ~d.err
                    /\ d.maxInsertIndex = windowEnd(d) - (minMatchLength - 1)
                    /\ call.kind \in {"Write", "Flush", "Close"}
                    /\ call.kind = "Write" \/ sync
  /\ pc = "stepped" => call.kind \in {"Flush", "Close"} /\ (d.err \/ Taken(d))

IInv == Sane(d) /\ Calls /\ Places /\ FlushTakesAll

-----------------------------------------------------------------------------
(* Tokens and blocks.                                                      *)

\* Only what concerns the tokens differs.
SameButTokens(x, y) ==
  /\ y.window = x.window /\ y.index = x.index /\ y.hashOffset = x.hashOffset
  /\ y.hashHead = x.hashHead /\ y.hashPrev = x.hashPrev /\ y.chainHead = x.chainHead
  /\ y.length = x.length /\ y.offset = x.offset /\ y.ii = x.ii
  /\ y.maxInsertIndex = x.maxInsertIndex /\ y.byteAvailable = x.byteAvailable
  /\ y.dict = x.dict /\ y.gone = x.gone

\* The tokens of a block reach less far than 2^31 bytes.
LEMMA TokensReach ==
  ASSUME NEW t \in 0..maxFlateBlockTokens
  PROVE  t * maxMatchLength \in Nat /\ t * maxMatchLength < MaxInt32
<1>1. maxFlateBlockTokens * maxMatchLength < MaxInt32
  BY DeflateLazyAssumption
<1>2. t \in Nat /\ maxFlateBlockTokens \in Nat /\ t <= maxFlateBlockTokens /\ maxMatchLength \in Nat
  BY Sizes
<1>3. ASSUME NEW a \in Nat, NEW e \in Nat, NEW m \in Nat, a <= e
      PROVE  a * m \in Nat /\ a * m <= e * m
  BY <1>3
<1>4. t * maxMatchLength \in Nat /\ t * maxMatchLength <= maxFlateBlockTokens * maxMatchLength
  BY <1>2, <1>3
<1>5. maxFlateBlockTokens * maxMatchLength \in Nat /\ MaxInt32 \in Nat
  BY <1>2, <1>3 DEF MaxInt32
<1> HIDE DEF MaxInt32
<1>6. QED
  BY <1>1, <1>4, <1>5

\* The bytes writeBlock hands over are those of the tokens, but for a dictionary.
LEMMA WriteBlockKeeps ==
  ASSUME NEW x \in Compressors, Tiled(x), NEW index \in Nat, index > 0, x.tpos = index,
         NEW c \in Outcomes
  PROVE  LET z == writeBlock(x, index, c)
         IN /\ z \in Compressors /\ SameButTokens(x, z) /\ z.tpos = index
            /\ z.tokens = x.tokens /\ z.blockStart = index /\ z.bpos = index
<1> DEFINE fault == IF c.stored /\ x.blockStart <= index
                    THEN x.bad \cup storedFault(x, index) ELSE x.bad
           z == writeBlock(x, index, c)
<1>1. z = [x EXCEPT !.blockStart = index, !.bpos = x.tpos, !.err = ~c.ok, !.bad = fault]
  BY DEF writeBlock
<1>2. fault \in SUBSET {"dict"}
  <2>1. x.bad \in SUBSET {"dict"}
    BY DEF Compressors
  <2>2. x.blockStart <= index => storedFault(x, index) \in SUBSET {"dict"}
    <3>1. CASE x.blockStart >= MaxInt32 + x.bpos
      <4>1. x.blockStart \in Int /\ x.bpos \in Int /\ x.tokens \in 0..maxFlateBlockTokens
        BY DEF Compressors
      <4>2. x.tokens * maxMatchLength \in Nat /\ x.tokens * maxMatchLength < MaxInt32
        BY <4>1, TokensReach
      <4>3. index - x.bpos <= x.tokens * maxMatchLength
        BY DEF Tiled
      <4> DEFINE t == x.tokens * maxMatchLength
      <4> HIDE DEF t
      <4>4. t \in Nat /\ t < MaxInt32 /\ index - x.bpos <= t
        BY <4>2, <4>3 DEF t
      <4>5. x.blockStart > index
        BY <3>1, <4>1, <4>4 DEF MaxInt32
      <4>6. QED
        BY <4>1, <4>5
    <3>2. CASE x.blockStart = x.bpos \/ (x.blockStart = 0 /\ x.bpos = x.dict)
      BY <3>2 DEF storedFault
    <3>3. QED
      BY <3>1, <3>2 DEF Tiled
  <2>3. QED
    BY <2>1, <2>2
<1> HIDE DEF fault, z
<1>3. (~c.ok) \in BOOLEAN /\ index \in Int /\ x.tpos \in Int
  <2>1. (~c.ok) \in BOOLEAN
    BY Zenon DEF Outcomes
  <2>2. QED
    BY <2>1 DEF Compressors
<1>4. z \in Compressors
  BY ONLY <1>1, <1>2, <1>3, x \in Compressors DEF Compressors
<1>5. SameButTokens(x, z) /\ z.tpos = x.tpos /\ z.tokens = x.tokens
  BY <1>1 DEF Compressors, SameButTokens
<1>6. z.blockStart = index /\ z.bpos = x.tpos
  BY <1>1 DEF Compressors
<1>7. QED
  BY <1>4, <1>5, <1>6 DEF z

\* After a block the next one begins where its tokens begin.
LEMMA BlockDoneKeeps ==
  ASSUME NEW x \in Compressors, Tiled(x), NEW index \in Nat, index > 0, x.tpos = index,
         NEW c \in Outcomes
  PROVE  LET z == blockDone(x, index, c)
         IN /\ z \in Compressors /\ SameButTokens(x, z) /\ z.tpos = index
            /\ ~z.err => Tiled(z) /\ z.tokens = 0
<1> DEFINE y == writeBlock(x, index, c)
           z == blockDone(x, index, c)
<1>1. /\ y \in Compressors /\ SameButTokens(x, y) /\ y.tpos = index
      /\ y.blockStart = index /\ y.bpos = index
  BY WriteBlockKeeps
<1>2. z = IF y.err THEN y ELSE [y EXCEPT !.tokens = 0]
  BY DEF blockDone
<1> HIDE DEF y, z
<1>3. CASE y.err
  BY <1>1, <1>2, <1>3 DEF z
<1>4. CASE ~y.err
  <2>1. z = [y EXCEPT !.tokens = 0] /\ 0 \in 0..maxFlateBlockTokens
    BY <1>2, <1>4, Sizes
  <2>2. z \in Compressors
    BY ONLY <2>1, <1>1 DEF Compressors
  <2>3. /\ SameButTokens(x, z) /\ z.tpos = index /\ z.tokens = 0
        /\ z.blockStart = index /\ z.bpos = index
    BY <1>1, <2>1 DEF Compressors, SameButTokens
  <2>4. 0 <= 0 * maxMatchLength /\ index - index = 0
    BY Sizes
  <2>5. Tiled(z)
    BY <2>3, <2>4 DEF Tiled
  <2>6. QED
    BY <2>2, <2>3, <2>5 DEF z
<1>5. QED
  BY <1>3, <1>4

\* After blockIfFull another token fits.
LEMMA BlockIfFullKeeps ==
  ASSUME NEW x \in Compressors, Tiled(x), NEW index \in Nat, index > 0, x.tpos = index,
         NEW c \in Outcomes
  PROVE  LET z == blockIfFull(x, index, c)
         IN /\ z \in Compressors /\ SameButTokens(x, z) /\ z.tpos = index
            /\ ~z.err => Tiled(z) /\ z.tokens < maxFlateBlockTokens
<1>1. CASE x.tokens = maxFlateBlockTokens
  <2>1. blockIfFull(x, index, c) = blockDone(x, index, c)
    BY <1>1 DEF blockIfFull
  <2>2. QED
    BY <2>1, BlockDoneKeeps, Sizes
<1>2. CASE x.tokens # maxFlateBlockTokens
  <2>1. blockIfFull(x, index, c) = x
    BY <1>2 DEF blockIfFull
  <2>2. x.tokens \in 0..maxFlateBlockTokens
    BY DEF Compressors
  <2>3. x.tokens < maxFlateBlockTokens
    BY <2>2, <1>2, Sizes
  <2>4. QED
    BY <2>1, <2>3 DEF SameButTokens
<1>3. QED
  BY <1>1, <1>2

\* A token that continues where the one before ended, and is right.
LEMMA AddedKeeps ==
  ASSUME NEW x \in Compressors, Tiled(x), x.tokens < maxFlateBlockTokens,
         NEW i \in Int, x.tpos = i, NEW n \in 1..maxMatchLength
  PROVE  LET z == added(x, i, n, TRUE)
         IN /\ z \in Compressors /\ SameButTokens(x, z) /\ z.tpos = i + n
            /\ z.err = x.err /\ Tiled(z)
<1> DEFINE z == added(x, i, n, TRUE)
<1>1. z = [x EXCEPT !.tokens = x.tokens + 1, !.tpos = x.tpos + n, !.bad = x.bad]
  BY DEF added
<1>2. x.tokens \in Nat /\ x.tokens + 1 \in 0..maxFlateBlockTokens
  <2>1. x.tokens \in 0..maxFlateBlockTokens
    BY DEF Compressors
  <2>2. QED
    BY <2>1, Sizes
<1>3. n \in Int /\ n <= maxMatchLength
  BY Sizes
<1>4. x.tpos + n \in Int /\ x.bad \in SUBSET {"dict"}
  BY <1>3 DEF Compressors
<1> HIDE DEF z
<1>5. z \in Compressors
  BY ONLY <1>1, <1>2, <1>4, x \in Compressors DEF Compressors
<1>6. /\ SameButTokens(x, z) /\ z.tpos = i + n /\ z.err = x.err /\ z.tokens = x.tokens + 1
      /\ z.bpos = x.bpos /\ z.blockStart = x.blockStart /\ z.dict = x.dict
  BY <1>1 DEF Compressors, SameButTokens
<1>7. z.tpos - z.bpos <= z.tokens * maxMatchLength
  <2>1. x.tpos - x.bpos <= x.tokens * maxMatchLength
    BY DEF Tiled
  <2>2. (x.tokens + 1) * maxMatchLength = x.tokens * maxMatchLength + maxMatchLength
    BY <1>2, Sizes
  <2> DEFINE t == x.tokens * maxMatchLength
  <2>3. t \in Int
    BY <1>2, Sizes
  <2> HIDE DEF t
  <2>4. x.bpos \in Int
    BY DEF Compressors
  <2>5. i - x.bpos <= t /\ z.tpos = i + n /\ z.bpos = x.bpos /\ z.tokens * maxMatchLength = t + maxMatchLength
    BY <1>6, <2>1, <2>2 DEF t
  <2>6. QED
    BY <1>3, <2>3, <2>4, <2>5, Sizes
<1>8. Tiled(z)
  BY <1>6, <1>7 DEF Tiled
<1>9. QED
  BY <1>5, <1>6, <1>8 DEF z

\* A literal, and the block if it is full.
LEMMA LiteralKeeps ==
  ASSUME NEW x \in Compressors, Tiled(x), x.tokens < maxFlateBlockTokens,
         NEW i \in Nat, x.tpos = i, NEW index, index = i + 1, NEW c \in Outcomes
  PROVE  LET z == blockIfFull(AddLiteral(x, i), index, c)
         IN /\ z \in Compressors /\ SameButTokens(x, z) /\ z.tpos = index
            /\ ~z.err => Tiled(z) /\ z.tokens < maxFlateBlockTokens
<1> DEFINE y == AddLiteral(x, i)
           z == blockIfFull(y, index, c)
<1>1. y = added(x, i, 1, TRUE) /\ 1 \in 1..maxMatchLength
  BY Sizes DEF AddLiteral
<1>2. i \in Int
  OBVIOUS
<1> HIDE DEF y
<1>3. y \in Compressors /\ SameButTokens(x, y) /\ y.tpos = index /\ Tiled(y)
  BY ONLY <1>1, <1>2, x \in Compressors, Tiled(x), x.tokens < maxFlateBlockTokens,
          x.tpos = i, index = i + 1, AddedKeeps
<1>4. index \in Nat /\ index > 0
  OBVIOUS
<1>5. /\ z \in Compressors /\ SameButTokens(y, z) /\ z.tpos = index
      /\ ~z.err => Tiled(z) /\ z.tokens < maxFlateBlockTokens
  BY <1>3, <1>4, BlockIfFullKeeps
<1> HIDE DEF z
<1>6. SameButTokens(x, z)
  BY <1>3, <1>5 DEF SameButTokens
<1>7. QED
  BY <1>5, <1>6 DEF y, z

\* A match that is right is as good.
LEMMA MatchKeeps ==
  ASSUME NEW x \in Compressors, Tiled(x), x.tokens < maxFlateBlockTokens,
         NEW i \in Int, x.tpos = i, NEW len, NEW off, Right(x, i, len, off)
  PROVE  LET z == AddMatch(x, i, len, off)
         IN /\ z \in Compressors /\ SameButTokens(x, z) /\ z.tpos = i + len
            /\ z.err = x.err /\ Tiled(z)
<1> DEFINE z == added(x, i, len, TRUE)
<1>1. AddMatch(x, i, len, off) = z
  BY DEF AddMatch, Right, added
<1>2. len \in 1..maxMatchLength
  BY Sizes DEF Right
<1>3. z \in Compressors /\ SameButTokens(x, z) /\ z.tpos = i + len /\ z.err = x.err /\ Tiled(z)
  BY <1>2, AddedKeeps
<1> HIDE DEF z
<1>4. QED
  BY <1>1, <1>3

-----------------------------------------------------------------------------
(* One iteration of deflateLazy.                                           *)

\* The entries stay before a limit that grows, and in a compressor with the same tables.
LEMMA TablesGrow ==
  ASSUME NEW x \in Compressors, NEW a \in Int, NEW e \in Int, a <= e
  PROVE  /\ Heads(x, a) => Heads(x, e)
         /\ Prevs(x, a) => Prevs(x, e)
         /\ Chain(x, a) => Chain(x, e)
<1>1. x.hashOffset \in Int
  <2>1. x.hashOffset \in 1..maxHashOffset
    BY DEF Compressors
  <2>2. QED
    BY <2>1, Sizes
<1>2. \A h \in Hashes : x.hashHead[h] \in Int
  BY DEF Compressors
<1>3. \A i \in 0..(windowSize - 1) : x.hashPrev[i] \in Int
  <2> SUFFICES ASSUME NEW i \in 0..(windowSize - 1) PROVE x.hashPrev[i] \in Int
    OBVIOUS
  <2>1. x.hashPrev \in [0..(windowSize - 1) -> Nat]
    BY DEF Compressors
  <2>2. x.hashPrev[i] \in Nat
    BY <2>1
  <2>3. QED
    BY <2>2
<1>4. x.chainHead \in Int
  BY DEF Compressors
<1>5. ASSUME NEW v \in Int, v < x.hashOffset + a PROVE v < x.hashOffset + e
  BY <1>1, <1>5
<1>6. QED
  BY <1>2, <1>3, <1>4, <1>5 DEF Heads, Prevs, Chain

\* Tokens do not concern the tables.
LEMMA TablesSame ==
  ASSUME NEW x, NEW y, NEW lim, SameButTokens(x, y)
  PROVE  /\ Heads(x, lim) => Heads(y, lim)
         /\ Prevs(x, lim) => Prevs(y, lim)
         /\ Chain(x, lim) => Chain(y, lim)
BY DEF SameButTokens, Heads, Prevs, Chain

\* Whether a match is right depends on the bytes only.
LEMMA RightSame ==
  ASSUME NEW x, NEW y, y.window = x.window, y.gone = x.gone, NEW i, NEW len, NEW off,
         Right(x, i, len, off)
  PROVE  Right(y, i, len, off)
BY DEF Right, windowEnd, at, written

\* The match held back is emitted.
LEMMA EmitHeldKeeps ==
  ASSUME NEW x \in Compressors, InWindow(x), Tiled(x), x.tokens < maxFlateBlockTokens,
         x.maxInsertIndex = windowEnd(x) - (minMatchLength - 1),
         Heads(x, x.index + 1), Prevs(x, x.index + 1), Chain(x, x.index + 1),
         x.index >= 1, x.tpos = x.index - 1,
         NEW len, NEW off, Right(x, x.index - 1, len, off), NEW c \in Outcomes
  PROVE  LET z == emitHeld(x, len, off, c)
         IN /\ z \in Compressors /\ InWindow(z) /\ z.index > x.index
            /\ z.window = x.window /\ z.maxInsertIndex = x.maxInsertIndex
            /\ ~z.err => Coherent(z)
<1> DEFINE newIndex == x.index + len - 1
           y == AddMatch(x, x.index - 1, len, off)
           a == Min({x.index + 1, x.maxInsertIndex})
           e == Min({newIndex, x.maxInsertIndex})
           u == enterAll(y, a, e)
           w == [u EXCEPT !.index = newIndex, !.byteAvailable = FALSE,
                          !.length = minMatchLength - 1, !.ii = 0]
           v == blockIfFull(w, newIndex, c)
<1>1. /\ x.index \in Nat /\ windowEnd(x) \in Nat /\ x.maxInsertIndex \in Int
      /\ x.index <= windowEnd(x) /\ windowEnd(x) <= 2 * windowSize
  BY DEF Compressors, windowEnd, InWindow
<1>2. len \in Nat /\ len >= minMatchLength /\ len <= maxMatchLength /\ x.index - 1 + len <= windowEnd(x)
  <2>1. len \in minMatchLength..maxMatchLength /\ x.index - 1 + len <= windowEnd(x)
    BY DEF Right
  <2>2. QED
    BY <2>1, Sizes
<1>3. /\ newIndex \in Nat /\ newIndex > x.index /\ newIndex <= windowEnd(x)
      /\ x.index - 1 + len = newIndex /\ x.index + 1 <= newIndex
  BY <1>1, <1>2, Sizes
<1>4. x.index - 1 \in Int
  BY <1>1
<1>5. y \in Compressors /\ SameButTokens(x, y) /\ y.tpos = newIndex /\ Tiled(y)
  <2> HIDE DEF newIndex, y
  <2>1. /\ AddMatch(x, x.index - 1, len, off) \in Compressors
        /\ SameButTokens(x, AddMatch(x, x.index - 1, len, off))
        /\ AddMatch(x, x.index - 1, len, off).tpos = x.index - 1 + len
        /\ Tiled(AddMatch(x, x.index - 1, len, off))
    BY <1>4, MatchKeeps
  <2>2. QED
    BY <2>1, <1>3 DEF y
<1>6. Heads(y, newIndex) /\ Prevs(y, newIndex) /\ Chain(y, newIndex)
  <2>1. x.index + 1 \in Int /\ newIndex \in Int
    BY <1>1, <1>3
  <2> HIDE DEF newIndex, y
  <2>2. Heads(x, newIndex) /\ Prevs(x, newIndex) /\ Chain(x, newIndex)
    BY <2>1, <1>3, TablesGrow
  <2>3. QED
    BY <2>2, <1>5, TablesSame
<1>7. a \in Int /\ e \in Int
  BY <1>1, <1>3, MinOfTwo
<1>8. a < e => a >= 0 /\ e + minMatchLength - 1 <= windowEnd(y) /\ e <= newIndex
  <2>1. /\ a = IF x.index + 1 <= x.maxInsertIndex THEN x.index + 1 ELSE x.maxInsertIndex
        /\ e = IF newIndex <= x.maxInsertIndex THEN newIndex ELSE x.maxInsertIndex
    BY <1>1, <1>3, MinOfTwo
  <2>2. windowEnd(y) = windowEnd(x)
    BY <1>5 DEF SameButTokens, windowEnd
  <2> HIDE DEF a, e, y, newIndex
  <2>3. QED
    BY <2>1, <2>2, <1>1, <1>3, Sizes
<1> HIDE DEF newIndex, a, e, y
<1>9. /\ u \in Compressors /\ SameButTables(y, u) /\ u.chainHead = y.chainHead
      /\ Heads(u, newIndex) /\ Prevs(u, newIndex)
  <2>1. newIndex \in Int
    BY <1>3
  <2>2. QED
    BY ONLY <2>1, <1>5, <1>6, <1>7, <1>8, EnterAllKeeps
<1> HIDE DEF u, w
<1>10. w \in Compressors
  <2>1. FALSE \in BOOLEAN /\ minMatchLength - 1 \in (minMatchLength - 1)..maxMatchLength /\ 0 \in Nat
    BY Sizes
  <2>2. w = [u EXCEPT !.index = newIndex, !.byteAvailable = FALSE,
                      !.length = minMatchLength - 1, !.ii = 0]
    BY DEF w
  <2>3. QED
    BY ONLY <2>1, <2>2, <1>3, <1>9 DEF Compressors
<1>11. /\ w.index = newIndex /\ w.byteAvailable = FALSE /\ w.length = minMatchLength - 1
       /\ w.tpos = u.tpos /\ w.bpos = u.bpos /\ w.tokens = u.tokens /\ w.blockStart = u.blockStart
       /\ w.dict = u.dict /\ w.window = u.window /\ w.hashHead = u.hashHead
       /\ w.hashPrev = u.hashPrev /\ w.chainHead = u.chainHead /\ w.hashOffset = u.hashOffset
       /\ w.maxInsertIndex = u.maxInsertIndex
  BY <1>9 DEF w, Compressors
<1>12. Tiled(w) /\ w.tpos = newIndex
  BY <1>5, <1>9, <1>11 DEF Tiled, SameButTables
<1>13. Heads(w, newIndex) /\ Prevs(w, newIndex) /\ Chain(w, newIndex)
  BY <1>6, <1>9, <1>11 DEF Heads, Prevs, Chain, SameButTables
<1>14. newIndex > 0 /\ newIndex \in Nat
  BY <1>1, <1>3
<1>15. /\ v \in Compressors /\ SameButTokens(w, v) /\ v.tpos = newIndex
       /\ ~v.err => Tiled(v) /\ v.tokens < maxFlateBlockTokens
  BY <1>10, <1>12, <1>14, BlockIfFullKeeps
<1>16. emitHeld(x, len, off, c) = v
  BY DEF emitHeld, v, w, u, y, a, e, newIndex
<1> HIDE DEF v
<1>17. v.window = x.window /\ v.maxInsertIndex = x.maxInsertIndex /\ v.index = newIndex
  BY <1>5, <1>9, <1>11, <1>15 DEF SameButTokens, SameButTables
<1>18. InWindow(v)
  BY <1>1, <1>3, <1>17 DEF InWindow, windowEnd
<1>19. ~v.err => Coherent(v)
  <2>1. Heads(v, newIndex) /\ Prevs(v, newIndex) /\ Chain(v, newIndex)
    BY <1>13, <1>15, TablesSame
  <2>2. v.byteAvailable = FALSE /\ v.length = minMatchLength - 1
    BY <1>11, <1>15 DEF SameButTokens
  <2>3. Held(v)
    BY <2>2, Sizes DEF Held
  <2>4. v.index # 0
    BY <1>14, <1>17
  <2>5. QED
    BY <2>1, <2>2, <2>3, <2>4, <1>15, <1>17, <1>18 DEF Coherent
<1>20. QED
  BY <1>3, <1>15, <1>16, <1>17, <1>18, <1>19

\* The byte before index is no match's: a literal, and index moves on over an index
\* that is entered.
Passes(x, z) ==
  /\ z \in Compressors /\ InWindow(z)
  /\ z.window = x.window /\ z.gone = x.gone /\ z.maxInsertIndex = x.maxInsertIndex
  /\ z.byteAvailable = x.byteAvailable /\ z.length = x.length /\ z.offset = x.offset
  /\ z.index >= x.index
  /\ ~z.err => /\ Tiled(z) /\ z.tokens < maxFlateBlockTokens
               /\ Heads(z, z.index) /\ Prevs(z, z.index) /\ Chain(z, z.index)
               /\ z.tpos = z.index - 1

\* One of skipLiterals.
skipOne(y, c) ==
  LET z == blockIfFull(AddLiteral(y, y.index - 1), y.index, c)
  IN IF z.err THEN z ELSE [insert(z, z.index) EXCEPT !.index = @ + 1]

\* Going on from an index, with the index entered before or after the step.
LEMMA NextIndex ==
  ASSUME NEW z \in Compressors, z.maxInsertIndex = windowEnd(z) - (minMatchLength - 1),
         Heads(z, z.index), Prevs(z, z.index), Chain(z, z.index)
  PROVE  LET w == [insert(z, z.index) EXCEPT !.index = @ + 1]
         IN /\ w \in Compressors /\ w.index = z.index + 1
            /\ w.window = z.window /\ w.gone = z.gone /\ w.maxInsertIndex = z.maxInsertIndex
            /\ w.byteAvailable = z.byteAvailable /\ w.length = z.length /\ w.offset = z.offset
            /\ w.err = z.err /\ w.tokens = z.tokens /\ w.tpos = z.tpos /\ w.bpos = z.bpos
            /\ w.blockStart = z.blockStart /\ w.dict = z.dict
            /\ Heads(w, w.index) /\ Prevs(w, w.index) /\ Chain(w, w.index)
<1> DEFINE u == insert(z, z.index)
           w == [u EXCEPT !.index = @ + 1]
<1>1. z.index \in Nat /\ z.index + 1 \in Int /\ z.index \in Int
  BY DEF Compressors
<1>2. /\ u \in Compressors /\ SameButTables(z, u)
      /\ Heads(u, z.index + 1) /\ Prevs(u, z.index) /\ Chain(u, z.index)
  BY <1>1, InsertKeeps
<1> HIDE DEF u
<1>3. Prevs(u, z.index + 1) /\ Chain(u, z.index + 1)
  BY <1>1, <1>2, TablesGrow
<1>4. u.index = z.index /\ u.index + 1 \in Nat
  BY <1>1, <1>2 DEF SameButTables
<1> HIDE DEF w
<1>5. w = [u EXCEPT !.index = u.index + 1]
  BY DEF w
<1>6. w \in Compressors
  BY ONLY <1>2, <1>4, <1>5 DEF Compressors
<1>7. /\ w.index = u.index + 1
      /\ w.window = u.window /\ w.gone = u.gone /\ w.maxInsertIndex = u.maxInsertIndex
      /\ w.byteAvailable = u.byteAvailable /\ w.length = u.length /\ w.offset = u.offset
      /\ w.err = u.err /\ w.tokens = u.tokens /\ w.tpos = u.tpos /\ w.bpos = u.bpos
      /\ w.blockStart = u.blockStart /\ w.dict = u.dict /\ w.hashHead = u.hashHead
      /\ w.hashPrev = u.hashPrev /\ w.chainHead = u.chainHead /\ w.hashOffset = u.hashOffset
  BY <1>2, <1>5 DEF Compressors
<1>8. Heads(w, z.index + 1) /\ Prevs(w, z.index + 1) /\ Chain(w, z.index + 1)
  BY <1>2, <1>3, <1>7 DEF Heads, Prevs, Chain
<1>9. QED
  BY <1>2, <1>4, <1>6, <1>7, <1>8 DEF w, u, SameButTables

\* One byte more is passed over.
LEMMA SkipOneKeeps ==
  ASSUME NEW x, NEW y, Passes(x, y), ~y.err, x.index \in Nat, x.index >= 1,
         x.maxInsertIndex = windowEnd(x) - (minMatchLength - 1),
         y.index < windowEnd(y) - 1, NEW c \in Outcomes
  PROVE  Passes(x, skipOne(y, c))
<1> DEFINE i == y.index - 1
           z == blockIfFull(AddLiteral(y, i), y.index, c)
           w == [insert(z, z.index) EXCEPT !.index = @ + 1]
<1>1. /\ y \in Compressors /\ y.index \in Nat /\ windowEnd(y) \in Nat
      /\ y.index >= x.index /\ windowEnd(y) <= 2 * windowSize
  <2>1. y \in Compressors /\ y.index >= x.index /\ windowEnd(y) <= 2 * windowSize
    BY DEF Passes, InWindow
  <2>2. y.index \in Nat /\ windowEnd(y) \in Nat
    BY <2>1 DEF Compressors, windowEnd
  <2>3. QED
    BY <2>1, <2>2
<1>2. i \in Nat /\ y.index = i + 1 /\ y.tpos = i
  BY <1>1 DEF Passes
<1> HIDE DEF i, z
<1>3. /\ z \in Compressors /\ SameButTokens(y, z) /\ z.tpos = y.index
      /\ ~z.err => Tiled(z) /\ z.tokens < maxFlateBlockTokens
  <2>1. Tiled(y) /\ y.tokens < maxFlateBlockTokens
    BY DEF Passes
  <2>2. QED
    BY <1>1, <1>2, <2>1, LiteralKeeps DEF z
<1>4. /\ z.index = y.index /\ z.window = y.window /\ z.gone = y.gone
      /\ z.maxInsertIndex = y.maxInsertIndex /\ z.byteAvailable = y.byteAvailable
      /\ z.length = y.length /\ z.offset = y.offset
  BY <1>3 DEF SameButTokens
<1>5. Heads(z, z.index) /\ Prevs(z, z.index) /\ Chain(z, z.index)
  <2>1. Heads(y, y.index) /\ Prevs(y, y.index) /\ Chain(y, y.index)
    BY DEF Passes
  <2>2. QED
    BY <2>1, <1>3, <1>4, TablesSame
<1>6. skipOne(y, c) = IF z.err THEN z ELSE w
  BY DEF skipOne, z, i
<1>7. /\ y.window = x.window /\ y.gone = x.gone /\ y.maxInsertIndex = x.maxInsertIndex
      /\ y.byteAvailable = x.byteAvailable /\ y.length = x.length /\ y.offset = x.offset
  BY DEF Passes
<1>8. CASE z.err
  <2>1. InWindow(z)
    BY <1>1, <1>4 DEF InWindow, windowEnd, Passes
  <2>2. QED
    BY <1>1, <1>3, <1>4, <1>6, <1>7, <1>8, <2>1 DEF Passes
<1>9. CASE ~z.err
  <2>1. z.maxInsertIndex = windowEnd(z) - (minMatchLength - 1)
    BY <1>4, <1>7 DEF windowEnd
  <2>2. /\ w \in Compressors /\ w.index = z.index + 1
        /\ w.window = z.window /\ w.gone = z.gone /\ w.maxInsertIndex = z.maxInsertIndex
        /\ w.byteAvailable = z.byteAvailable /\ w.length = z.length /\ w.offset = z.offset
        /\ w.err = z.err /\ w.tokens = z.tokens /\ w.tpos = z.tpos /\ w.bpos = z.bpos
        /\ w.blockStart = z.blockStart /\ w.dict = z.dict
        /\ Heads(w, w.index) /\ Prevs(w, w.index) /\ Chain(w, w.index)
    BY <1>3, <1>5, <2>1, NextIndex
  <2> HIDE DEF w
  <2>3. InWindow(w)
    BY <1>1, <1>4, <2>2 DEF InWindow, windowEnd
  <2>4. Tiled(w) /\ w.tokens < maxFlateBlockTokens
    BY <1>3, <1>9, <2>2 DEF Tiled
  <2>5. w.tpos = w.index - 1 /\ w.index >= x.index
    BY <1>1, <1>3, <1>4, <2>2
  <2>6. Passes(x, w)
    BY <1>4, <1>7, <2>2, <2>3, <2>4, <2>5 DEF Passes
  <2>7. QED
    BY <1>6, <1>9, <2>6
<1>10. QED
  BY <1>8, <1>9

\* The bytes passed over are literals, the last of them the one held back.
LEMMA SkipLiteralsKeeps ==
  ASSUME NEW x \in Compressors, Passes(x, x), ~x.err, x.index >= 1,
         x.maxInsertIndex = windowEnd(x) - (minMatchLength - 1),
         x.length < minMatchLength, x.ii > chain, NEW c \in Outcomes
  PROVE  LET z == skipLiterals(x, c)
         IN /\ z \in Compressors /\ InWindow(z) /\ z.index >= x.index
            /\ z.window = x.window /\ z.maxInsertIndex = x.maxInsertIndex
            /\ ~z.err => Coherent(z)
<1> DEFINE n == 1 + (x.ii - chain) \div SkipStep
           step(y) == IF y.err \/ y.index >= windowEnd(y) - 1 THEN y ELSE skipOne(y, c)
           S == {y \in Compressors : Passes(x, y)}
           F == [k \in 1..n |-> [y \in S |-> step(y)]]
           Eq(f) == f = [k \in 0..n |-> IF k = 0 THEN x ELSE step(f[k - 1])]
           f == CHOOSE g : Eq(g)
           last == AddLiteral(f[n], f[n].index - 1)
           z == IF f[n].err THEN f[n]
                ELSE blockIfFull([last EXCEPT !.byteAvailable = FALSE], last.index, c)
<1>1. n \in Nat
  <2>1. x.ii \in Nat /\ chain \in Nat /\ SkipStep \in Nat /\ SkipStep > 0
    BY DeflateLazyAssumption DEF Compressors
  <2>2. x.ii - chain \in Nat
    BY <2>1
  <2>3. (x.ii - chain) \div SkipStep \in Nat
    BY <2>1, <2>2
  <2>4. QED
    BY <2>3
<1>2. skipLiterals(x, c) = z
  BY DEF skipLiterals, skipOne
<1>3. x.index \in Nat
  BY DEF Compressors
<1>4. x \in S
  OBVIOUS
<1> HIDE DEF n
<1>5. ASSUME NEW y \in S PROVE step(y) \in S
  <2>1. CASE y.err \/ y.index >= windowEnd(y) - 1
    BY <2>1
  <2>2. CASE ~(y.err \/ y.index >= windowEnd(y) - 1)
    <3>1. y.index \in Nat /\ windowEnd(y) \in Nat /\ Passes(x, y) /\ ~y.err
      BY <2>2 DEF Compressors, windowEnd
    <3>2. y.index < windowEnd(y) - 1
      BY <2>2, <3>1
    <3>3. Passes(x, skipOne(y, c))
      BY <1>3, <3>1, <3>2, SkipOneKeeps
    <3>4. QED
      BY <2>2, <3>3 DEF Passes
  <2>3. QED
    BY <2>1, <2>2
<1> HIDE DEF step, S
<1>6. F \in StepsOn(n, S)
  BY <1>5 DEF StepsOn
<1>7. PICK g \in ValuesIn(n, S) : Solves(g, n, x, F)
  <2> HIDE DEF F
  <2>1. QED
    BY ONLY <1>1, <1>4, <1>6, Recursion
<1>8. Eq(g)
  <2>1. ASSUME NEW k \in 0..n
        PROVE  g[k] = IF k = 0 THEN x ELSE step(g[k - 1])
    <3>1. k # 0 => k \in 1..n /\ g[k - 1] \in S
      BY <1>1 DEF ValuesIn
    <3>2. k # 0 => F[k][g[k - 1]] = step(g[k - 1])
      BY <3>1
    <3>3. QED
      BY <1>7, <3>2 DEF Solves
  <2>2. QED
    BY <2>1 DEF ValuesIn
<1> HIDE DEF F
<1>9. Eq(f)
  BY <1>8
<1> HIDE DEF f
<1>10. f[0] = x /\ \A k \in 1..n : f[k] = step(f[k - 1])
  BY <1>1, <1>9
<1> DEFINE P == {k \in 0..n : f[k] \in S}
<1>11. 0 \in P
  BY <1>1, <1>4, <1>10
<1>12. \A k \in 1..n : k - 1 \in P => k \in P
  <2> SUFFICES ASSUME NEW k \in 1..n, k - 1 \in P PROVE k \in P
    OBVIOUS
  <2>1. f[k - 1] \in S
    OBVIOUS
  <2>2. f[k] \in S
    BY <2>1, <1>5, <1>10
  <2>3. QED
    BY <2>2, <1>1
<1>13. n \in P
  <2> HIDE DEF P
  <2>1. \A k \in 0..n : k \in P
    BY ONLY <1>1, <1>11, <1>12, UpTo
  <2>2. QED
    BY <2>1, <1>1
<1> DEFINE y == f[n]
<1>14. Passes(x, y)
  BY <1>13 DEF S
<1> HIDE DEF y
<1>15. /\ y \in Compressors /\ InWindow(y) /\ y.index >= x.index /\ y.index \in Nat
       /\ y.window = x.window /\ y.maxInsertIndex = x.maxInsertIndex /\ y.length = x.length
  BY <1>14 DEF Passes, Compressors
<1>16. CASE y.err
  <2>1. skipLiterals(x, c) = y
    BY <1>2, <1>16 DEF y
  <2>2. QED
    BY <2>1, <1>15, <1>16
<1>17. CASE ~y.err
  <2> DEFINE i == y.index - 1
             l == AddLiteral(y, i)
             u == [l EXCEPT !.byteAvailable = FALSE]
             v == blockIfFull(u, l.index, c)
  <2>1. i \in Int /\ y.tpos = i /\ Tiled(y) /\ y.tokens < maxFlateBlockTokens /\ 1 \in 1..maxMatchLength
    BY <1>14, <1>15, <1>17, Sizes DEF Passes
  <2>2. skipLiterals(x, c) = v
    BY <1>2, <1>17 DEF y
  <2> HIDE DEF i
  <2>3. /\ l \in Compressors /\ SameButTokens(y, l) /\ l.tpos = i + 1 /\ Tiled(l) /\ l.err = y.err
    <3>1. l = added(y, i, 1, TRUE)
      BY DEF AddLiteral
    <3> HIDE DEF l
    <3>2. QED
      BY <1>15, <2>1, <3>1, AddedKeeps
  <2> HIDE DEF l
  <2>4. l.tpos = l.index /\ l.index = y.index /\ l.index \in Nat /\ l.index > 0
    BY <1>3, <1>15, <2>3 DEF SameButTokens, i
  <2>5. u = [l EXCEPT !.byteAvailable = FALSE] /\ FALSE \in BOOLEAN
    OBVIOUS
  <2> HIDE DEF u
  <2>6. u \in Compressors
    BY ONLY <2>3, <2>5 DEF Compressors
  <2>7. /\ u.window = l.window /\ u.index = l.index /\ u.hashOffset = l.hashOffset
        /\ u.hashHead = l.hashHead /\ u.hashPrev = l.hashPrev /\ u.chainHead = l.chainHead
        /\ u.length = l.length /\ u.maxInsertIndex = l.maxInsertIndex /\ u.byteAvailable = FALSE
        /\ u.tpos = l.tpos /\ u.bpos = l.bpos /\ u.blockStart = l.blockStart /\ u.dict = l.dict
        /\ u.tokens = l.tokens
    BY <2>3, <2>5 DEF Compressors
  <2>8. Tiled(u) /\ u.tpos = l.index
    BY <2>3, <2>4, <2>7 DEF Tiled
  <2>9. /\ v \in Compressors /\ SameButTokens(u, v) /\ v.tpos = l.index
        /\ ~v.err => Tiled(v) /\ v.tokens < maxFlateBlockTokens
    BY <2>4, <2>6, <2>8, BlockIfFullKeeps
  <2> HIDE DEF v
  <2>10. /\ v.window = y.window /\ v.index = y.index /\ v.maxInsertIndex = y.maxInsertIndex
         /\ v.length = y.length /\ v.byteAvailable = FALSE
    BY <2>3, <2>7, <2>9 DEF SameButTokens
  <2>11. Heads(v, v.index) /\ Prevs(v, v.index) /\ Chain(v, v.index)
    <3>1. /\ v.hashHead = y.hashHead /\ v.hashPrev = y.hashPrev /\ v.chainHead = y.chainHead
          /\ v.hashOffset = y.hashOffset
      BY <2>3, <2>7, <2>9 DEF SameButTokens
    <3>2. Heads(y, y.index) /\ Prevs(y, y.index) /\ Chain(y, y.index)
      BY <1>14, <1>17 DEF Passes
    <3>3. QED
      BY <2>10, <3>1, <3>2 DEF Heads, Prevs, Chain
  <2>12. InWindow(v)
    BY <1>15, <2>10 DEF InWindow, windowEnd
  <2>13. Held(v)
    <3>1. v.length \in (minMatchLength - 1)..maxMatchLength /\ v.length < minMatchLength
      BY <1>15, <2>9, <2>10 DEF Compressors
    <3>2. QED
      BY <3>1, Sizes DEF Held
  <2>14. ~v.err => Coherent(v)
    BY <2>4, <2>9, <2>10, <2>11, <2>12, <2>13 DEF Coherent
  <2>15. QED
    BY <1>15, <2>2, <2>9, <2>10, <2>12, <2>14
<1>18. QED
  BY <1>16, <1>17

\* No match is emitted: the byte before index, if it was held back, is a literal.
LEMMA LiteralStepKeeps ==
  ASSUME NEW x \in Compressors, InWindow(x), ~x.err, Tiled(x), x.tokens < maxFlateBlockTokens,
         x.maxInsertIndex = windowEnd(x) - (minMatchLength - 1), x.index < windowEnd(x),
         Heads(x, x.index + 1), Prevs(x, x.index + 1), Chain(x, x.index + 1),
         x.byteAvailable => x.index >= 1,
         x.tpos = IF x.byteAvailable THEN x.index - 1 ELSE x.index,
         x.length >= minMatchLength => Right(x, x.index, x.length, x.offset),
         NEW c \in Outcomes
  PROVE  LET z == literal(x, c)
         IN /\ z \in Compressors /\ InWindow(z) /\ (~z.err => z.index > x.index)
            /\ z.window = x.window /\ z.maxInsertIndex = x.maxInsertIndex
            /\ ~z.err => Coherent(z)
<1> DEFINE ii == IF x.length >= minMatchLength THEN 0 ELSE x.ii
           i == x.index - 1
           q == [x EXCEPT !.ii = ii, !.index = @ + 1, !.byteAvailable = TRUE]
           y == [x EXCEPT !.ii = (ii + 1) % (MaxII + 1)]
           z == blockIfFull(AddLiteral(y, i), y.index, c)
           w == [z EXCEPT !.index = @ + 1]
<1>1. /\ x.index \in Nat /\ x.index + 1 \in Nat /\ x.ii \in Nat /\ windowEnd(x) \in Nat
      /\ x.byteAvailable \in BOOLEAN /\ windowEnd(x) <= 2 * windowSize
      /\ x.length \in (minMatchLength - 1)..maxMatchLength
  BY SMTT(30) DEF Compressors, windowEnd, InWindow
<1>2. ii \in Nat
  BY <1>1
<1>3. literal(x, c) = IF ~x.byteAvailable THEN q
                      ELSE IF z.err THEN z
                      ELSE IF w.ii > chain THEN skipLiterals(w, c) ELSE w
  BY DEF literal, y, i
<1>4. CASE ~x.byteAvailable
  <2>0. TRUE \in BOOLEAN
    OBVIOUS
  <2>1. q = [x EXCEPT !.ii = ii, !.index = x.index + 1, !.byteAvailable = TRUE]
    OBVIOUS
  <2> HIDE DEF q, ii
  <2>2. q \in Compressors
    BY ONLY <1>1, <1>2, <2>0, <2>1, x \in Compressors DEF Compressors
  <2>3. /\ q.index = x.index + 1 /\ q.byteAvailable = TRUE /\ q.window = x.window
        /\ q.maxInsertIndex = x.maxInsertIndex /\ q.length = x.length /\ q.offset = x.offset
        /\ q.tpos = x.tpos /\ q.bpos = x.bpos /\ q.tokens = x.tokens /\ q.blockStart = x.blockStart
        /\ q.dict = x.dict /\ q.gone = x.gone /\ q.hashHead = x.hashHead /\ q.hashPrev = x.hashPrev
        /\ q.chainHead = x.chainHead /\ q.hashOffset = x.hashOffset
    BY <2>1 DEF Compressors
  <2>4. InWindow(q) /\ Tiled(q) /\ q.tokens < maxFlateBlockTokens
    BY <1>1, <2>3 DEF InWindow, windowEnd, Tiled
  <2>5. Heads(q, q.index) /\ Prevs(q, q.index) /\ Chain(q, q.index)
    BY <2>3 DEF Heads, Prevs, Chain
  <2>6. q.tpos = q.index - 1 /\ q.index >= 1 /\ q.index # 0 /\ q.index - 1 = x.index
    BY <1>1, <1>4, <2>3
  <2>7. Held(q)
    BY <2>3, <2>6, RightSame DEF Held
  <2>8. Coherent(q)
    BY <2>3, <2>4, <2>5, <2>6, <2>7 DEF Coherent
  <2>9. q.index > x.index
    BY <1>1, <2>3
  <2>10. QED
    BY <1>3, <1>4, <2>2, <2>3, <2>4, <2>8, <2>9
<1>5. CASE x.byteAvailable
  <2>1. (ii + 1) % (MaxII + 1) \in Nat /\ (ii = 0 => (ii + 1) % (MaxII + 1) <= 1)
    <3>1. MaxII \in Nat
      BY DeflateLazyAssumption
    <3> HIDE DEF ii
    <3>2. QED
      BY <1>2, <3>1
  <2> DEFINE r == (ii + 1) % (MaxII + 1)
  <2>2. y = [x EXCEPT !.ii = r]
    OBVIOUS
  <2> HIDE DEF y, r
  <2>3. y \in Compressors
    <3>1. r \in Nat
      BY <2>1 DEF r
    <3>2. QED
      BY ONLY <2>2, <3>1, x \in Compressors DEF Compressors
  <2>4. /\ y.ii = r /\ y.hashHead = x.hashHead /\ y.hashPrev = x.hashPrev /\ y.chainHead = x.chainHead
    BY <2>2 DEF Compressors
  <2>5. /\ y.index = x.index /\ y.byteAvailable = x.byteAvailable /\ y.window = x.window
        /\ y.maxInsertIndex = x.maxInsertIndex /\ y.length = x.length /\ y.offset = x.offset
        /\ y.tpos = x.tpos /\ y.bpos = x.bpos /\ y.tokens = x.tokens /\ y.blockStart = x.blockStart
        /\ y.dict = x.dict /\ y.gone = x.gone /\ y.hashOffset = x.hashOffset
    BY <2>2 DEF Compressors
  <2>6. i \in Nat /\ y.index = i + 1 /\ y.tpos = i /\ Tiled(y) /\ y.tokens < maxFlateBlockTokens
    BY <1>1, <1>5, <2>5 DEF Tiled
  <2> HIDE DEF i, z
  <2>7. /\ z \in Compressors /\ SameButTokens(y, z) /\ z.tpos = y.index
        /\ ~z.err => Tiled(z) /\ z.tokens < maxFlateBlockTokens
    BY <2>3, <2>6, LiteralKeeps DEF z
  <2>8. /\ z.index = x.index /\ z.byteAvailable = x.byteAvailable /\ z.window = x.window
        /\ z.maxInsertIndex = x.maxInsertIndex /\ z.length = x.length /\ z.offset = x.offset
        /\ z.gone = x.gone /\ z.hashOffset = x.hashOffset /\ z.hashHead = x.hashHead
        /\ z.hashPrev = x.hashPrev /\ z.chainHead = x.chainHead /\ z.ii = r /\ z.tpos = x.index
    BY <2>4, <2>5, <2>7 DEF SameButTokens
  <2>9. CASE z.err
    <3>1. InWindow(z)
      BY <2>8 DEF InWindow, windowEnd
    <3>2. literal(x, c) = z
      BY <1>3, <1>5, <2>9
    <3>3. QED
      BY <2>7, <2>8, <2>9, <3>1, <3>2
  <2>10. CASE ~z.err
    <3>1. w = [z EXCEPT !.index = x.index + 1]
      BY <2>8
    <3> HIDE DEF w
    <3>2. w \in Compressors
      BY ONLY <1>1, <2>7, <3>1 DEF Compressors
    <3>3. /\ w.index = x.index + 1 /\ w.byteAvailable = x.byteAvailable /\ w.window = x.window
          /\ w.maxInsertIndex = x.maxInsertIndex /\ w.length = x.length /\ w.offset = x.offset
          /\ w.gone = x.gone /\ w.hashOffset = x.hashOffset /\ w.hashHead = x.hashHead
          /\ w.hashPrev = x.hashPrev /\ w.chainHead = x.chainHead /\ w.ii = r /\ w.tpos = x.index
      BY <2>8, <2>7, <3>1 DEF Compressors
    <3>4. /\ w.bpos = z.bpos /\ w.tokens = z.tokens /\ w.blockStart = z.blockStart
          /\ w.dict = z.dict /\ w.err = z.err /\ w.tpos = z.tpos
      BY <2>7, <3>1 DEF Compressors
    <3>5. InWindow(w) /\ Tiled(w) /\ w.tokens < maxFlateBlockTokens
      BY <1>1, <2>7, <2>10, <3>3, <3>4 DEF InWindow, windowEnd, Tiled
    <3>6. Heads(w, w.index) /\ Prevs(w, w.index) /\ Chain(w, w.index)
      BY <3>3 DEF Heads, Prevs, Chain
    <3>7. /\ w.tpos = w.index - 1 /\ w.index >= 1 /\ w.index # 0 /\ w.index - 1 = x.index
          /\ w.index > x.index /\ w.index \in Nat
      BY <1>1, <3>3
    <3>8. CASE ~(w.ii > chain)
      <4>1. Held(w)
        BY <1>5, <3>3, <3>7, RightSame DEF Held
      <4>2. Coherent(w)
        BY <1>5, <3>3, <3>5, <3>6, <3>7, <4>1 DEF Coherent
      <4>3. literal(x, c) = w
        BY <1>3, <1>5, <2>10, <3>8
      <4>4. QED
        BY <3>2, <3>3, <3>5, <3>7, <4>2, <4>3
    <3>9. CASE w.ii > chain
      <4>1. literal(x, c) = skipLiterals(w, c)
        BY <1>3, <1>5, <2>10, <3>9
      <4>2. x.length < minMatchLength
        <5>1. SUFFICES ASSUME ~(x.length < minMatchLength) PROVE FALSE
          OBVIOUS
        <5>2. x.length >= minMatchLength
          BY <1>1, <5>1, Sizes
        <5>3. ii = 0
          BY <5>2
        <5>4. w.ii <= 1 /\ w.ii \in Nat
          BY <2>1, <3>3, <5>3 DEF r
        <5>5. QED
          BY <3>9, <5>4, Sizes
      <4>3. Passes(w, w) /\ ~w.err
        BY <2>10, <3>2, <3>4, <3>5, <3>6, <3>7 DEF Passes
      <4>4. w.maxInsertIndex = windowEnd(w) - (minMatchLength - 1)
        BY <3>3 DEF windowEnd
      <4>5. w.length < minMatchLength
        BY <3>3, <4>2
      <4> DEFINE v == skipLiterals(w, c)
      <4>6. /\ v \in Compressors /\ InWindow(v) /\ v.index >= w.index
            /\ v.window = w.window /\ v.maxInsertIndex = w.maxInsertIndex
            /\ ~v.err => Coherent(v)
        BY <3>2, <3>7, <3>9, <4>3, <4>4, <4>5, SkipLiteralsKeeps
      <4> HIDE DEF v
      <4>7. v.index \in Nat
        BY <4>6 DEF Compressors
      <4>8. v.index > x.index
        BY <1>1, <3>7, <4>6, <4>7
      <4>9. QED
        BY <3>3, <4>1, <4>6, <4>8 DEF v
    <3>10. QED
      BY <3>8, <3>9
  <2>11. QED
    BY <2>9, <2>10
<1>6. QED
  BY <1>1, <1>4, <1>5

\* The longer match found by the hash at the end of the held one is right, from the
\* byte on that follows the owed literals.
LEMMA BetterRight ==
  ASSUME NEW x \in Compressors, InWindow(x), x.index >= 1, x.index < windowEnd(x),
         x.maxInsertIndex = windowEnd(x) - (minMatchLength - 1), Heads(x, x.index + 1),
         NEW prev, prev.length \in minMatchLength..maxMatchLength,
         NEW best, best = betterAtEnd(x, windowEnd(x) - x.index, prev), best.found
  PROVE  best.owed \in 0..2 /\ Right(x, x.index - 1 + best.owed, best.length, best.offset)
<1> DEFINE len == prev.length
           i == x.index - 1
           lookahead == windowEnd(x) - x.index
           end == i + Min({lookahead, maxMatchLength + checkOff})
           ch2 == x.hashHead[hash4(x, i + len)] - x.hashOffset - len
           limit == end - (i + checkOff)
           n == matchLen(x, i + checkOff, ch2 + checkOff, limit)
           back1 == n < maxMatchLength /\ at(x, i + 1) = at(x, ch2 + 1)
           back0 == back1 /\ n + 1 < maxMatchLength /\ at(x, i) = at(x, ch2)
           far == len >= maxMatchLength - checkOff \/ i + len >= x.maxInsertIndex
           none == i - ch2 = prev.offset \/ ch2 <= minIndexAt(x.index) + checkOff
           yes == [found |-> n > len,
                   length |-> n + (IF back0 THEN 2 ELSE IF back1 THEN 1 ELSE 0),
                   offset |-> i - ch2,
                   owed |-> IF back0 THEN 0 ELSE IF back1 THEN 1 ELSE 2]
<1>1. best = IF far THEN [found |-> FALSE] ELSE IF none THEN [found |-> FALSE] ELSE yes
  BY DEF betterAtEnd
<1> HIDE DEF far, none, yes
<1>2. ~far /\ ~none /\ best = yes
  BY <1>1
<1> USE DEF far, none, yes
<1>3. /\ x.index \in Nat /\ windowEnd(x) \in Nat /\ i \in Nat /\ len \in Nat
      /\ len >= minMatchLength /\ len < maxMatchLength - 2
      /\ i + len + minMatchLength <= windowEnd(x)
  <2>1. x.index \in Nat /\ windowEnd(x) \in Nat
    BY DEF Compressors, windowEnd
  <2>2. len \in Nat /\ len >= minMatchLength
    BY Sizes
  <2> HIDE DEF len
  <2>3. len < maxMatchLength - 2 /\ i + len < x.maxInsertIndex
    BY <1>2, <2>1, <2>2, Sizes DEF checkOff
  <2>4. QED
    BY <2>1, <2>2, <2>3, Sizes
<1>4. /\ ch2 \in Nat /\ ch2 < i /\ i - ch2 <= windowSize /\ ch2 > 2
  <2>1. i + len \in Nat
    BY <1>3
  <2>2. hash4(x, i + len) \in Hashes
    BY <1>3, <2>1, HashInWindow DEF Compressors
  <2> DEFINE h == x.hashHead[hash4(x, i + len)]
  <2>3. h < x.hashOffset + (x.index + 1)
    BY <2>2 DEF Heads
  <2>4. h \in Nat
    BY <2>2 DEF Compressors
  <2>5. x.hashOffset \in Nat
    <3>1. x.hashOffset \in 1..maxHashOffset
      BY DEF Compressors
    <3>2. QED
      BY <3>1, Sizes
  <2> HIDE DEF h
  <2>6. ch2 = h - x.hashOffset - len
    BY DEF h
  <2>7. ch2 > minIndexAt(x.index) + 2
    <3>1. minIndexAt(x.index) \in Nat
      BY <1>3, MinIndex
    <3> HIDE DEF ch2
    <3>2. ch2 \in Int /\ ~(ch2 <= minIndexAt(x.index) + checkOff)
      BY <1>2, <1>3, <2>4, <2>5, <2>6
    <3>3. QED
      BY <3>1, <3>2 DEF checkOff
  <2>8. minIndexAt(x.index) \in Nat /\ minIndexAt(x.index) >= x.index - windowSize
    BY <1>3, MinIndex
  <2> HIDE DEF ch2, len
  <2>9. ch2 \in Int /\ ch2 <= x.index - len
    BY <1>3, <2>3, <2>4, <2>5, <2>6
  <2>10. QED
    BY <1>3, <2>7, <2>8, <2>9, Sizes
<1>5. limit \in Nat /\ limit <= maxMatchLength /\ i + 2 + limit <= windowEnd(x)
  <2>1. lookahead \in Int /\ maxMatchLength + checkOff \in Int
    BY <1>3, Sizes DEF checkOff
  <2>2. Min({lookahead, maxMatchLength + checkOff})
          = IF lookahead <= maxMatchLength + checkOff THEN lookahead ELSE maxMatchLength + checkOff
    BY <2>1, MinOfTwo
  <2>3. lookahead >= 2
    BY <1>3, Sizes
  <2> DEFINE m == Min({lookahead, maxMatchLength + checkOff})
  <2> HIDE DEF m
  <2>4. m = IF lookahead <= maxMatchLength + checkOff THEN lookahead ELSE maxMatchLength + checkOff
    BY <2>2 DEF m
  <2>5. limit = m - 2
    <3>1. limit = (i + m) - (i + 2)
      BY DEF m, checkOff
    <3>2. m \in Int
      BY <2>1, <2>4
    <3> HIDE DEF limit
    <3>3. QED
      BY <1>3, <3>1, <3>2
  <2>6. QED
    BY <1>3, <2>3, <2>4, <2>5, Sizes DEF checkOff
<1> HIDE DEF limit
<1>6. n \in 0..limit /\ \A j \in 0..(n - 1) : at(x, i + 2 + j) = at(x, ch2 + 2 + j)
  <2>1. /\ n \in 0..limit
        /\ \A j \in 0..(n - 1) : at(x, i + checkOff + j) = at(x, ch2 + checkOff + j)
    BY <1>5, MatchLenRight
  <2> HIDE DEF n, i, ch2
  <2>2. QED
    BY ONLY <2>1 DEF checkOff
<1>7. n > len /\ n \in Nat
  <2>1. n > len
    <3> HIDE DEF n, len
    <3>1. best.found = (n > len)
      BY <1>2
    <3>2. QED
      BY <3>1
  <2>2. n \in Nat
    BY <1>5, <1>6
  <2>3. QED
    BY <2>1, <2>2
<1> DEFINE o == IF back0 THEN 0 ELSE IF back1 THEN 1 ELSE 2
<1> HIDE DEF ch2, n, len, lookahead
<1>8. best.owed = o /\ best.offset = i - ch2 /\ o \in 0..2
  BY <1>2
<1>9. best.length = n + 2 - o
  <2>1. best.length = n + (IF back0 THEN 2 ELSE IF back1 THEN 1 ELSE 0)
    BY <1>2
  <2> HIDE DEF back0, back1
  <2>2. QED
    BY <1>7, <2>1
<1>10. n + 2 - o \in minMatchLength..maxMatchLength
  <2>1. /\ n <= maxMatchLength
        /\ back1 => n + 1 <= maxMatchLength
        /\ back0 => n + 2 <= maxMatchLength /\ back1
    BY <1>5, <1>6, Sizes
  <2> HIDE DEF back0, back1
  <2>2. QED
    BY <1>3, <1>7, <2>1, Sizes
<1>11. \A k \in 0..((n + 2 - o) - 1) : at(x, i + o + k) = at(x, ch2 + o + k)
  <2> SUFFICES ASSUME NEW k \in 0..((n + 2 - o) - 1) PROVE at(x, i + o + k) = at(x, ch2 + o + k)
    OBVIOUS
  <2>1. k \in Nat /\ o + k \in 0..(n + 1) /\ o + k >= o
    BY <1>7, <1>8
  <2>2. CASE o + k >= 2
    <3>1. o + k - 2 \in 0..(n - 1)
      BY <1>7, <1>8, <2>1, <2>2
    <3>2. at(x, i + 2 + (o + k - 2)) = at(x, ch2 + 2 + (o + k - 2))
      BY <1>6, <3>1
    <3>3. i + 2 + (o + k - 2) = i + o + k /\ ch2 + 2 + (o + k - 2) = ch2 + o + k
      BY <1>3, <1>4, <1>8, <2>1
    <3>4. QED
      BY <3>2, <3>3
  <2>3. CASE o + k = 1
    <3>1. back1 /\ i + o + k = i + 1 /\ ch2 + o + k = ch2 + 1
      BY <1>3, <1>4, <1>8, <2>1, <2>3
    <3>2. QED
      BY <3>1
  <2>4. CASE o + k = 0
    <3>1. back0 /\ i + o + k = i /\ ch2 + o + k = ch2
      BY <1>3, <1>4, <1>8, <2>1, <2>4
    <3>2. QED
      BY <3>1
  <2>5. QED
    BY <1>8, <2>1, <2>2, <2>3, <2>4
<1> HIDE DEF o
<1> DEFINE p == ch2 + o
           q == i + o
           L == n + 2 - o
<1>12. /\ p \in Nat /\ q \in Nat /\ p < q /\ q - p <= windowSize /\ q + L <= windowEnd(x)
       /\ q - p = i - ch2 /\ L \in minMatchLength..maxMatchLength /\ L \in Nat
  <2>1. n <= limit /\ o \in 0..2
    BY <1>5, <1>6, <1>8
  <2>2. p \in Nat /\ q \in Nat /\ p < q /\ q - p = i - ch2
    BY <1>3, <1>4, <2>1
  <2>3. q + L = i + 2 + n /\ L \in Nat
    BY <1>3, <1>7, <2>1
  <2>4. q + L <= windowEnd(x)
    BY <1>3, <1>5, <1>7, <2>1, <2>3
  <2>5. L \in minMatchLength..maxMatchLength
    BY <1>10
  <2> HIDE DEF p, q, L
  <2>6. QED
    BY <1>4, <2>2, <2>3, <2>4, <2>5
<1>13. \A k \in 0..(L - 1) : at(x, q + k) = at(x, p + k)
  BY <1>11
<1> HIDE DEF p, q, L
<1>14. Right(x, q, L, q - p)
  BY ONLY x \in Compressors, <1>12, <1>13, SameBytesRight
<1>15. QED
  BY <1>8, <1>9, <1>12, <1>14 DEF q, L

\* One owed literal, unless a block failed, and the index after it.
owed(y, i, j, c) ==
  LET z == blockIfFull(AddLiteral(y, i + j), y.index, c)
  IN IF y.err THEN y
     ELSE IF z.err THEN z ELSE insert([z EXCEPT !.index = @ + 1], z.index + 1)

\* There are at most two of them.
LEMMA OweUnrolled ==
  ASSUME NEW x, NEW i, NEW c, NEW n \in 0..2
  PROVE  oweLiterals(x, i, n, c) = IF n = 0 THEN x
                                   ELSE IF n = 1 THEN owed(x, i, 0, c)
                                   ELSE owed(owed(x, i, 0, c), i, 1, c)
<1> DEFINE step(y, j) == owed(y, i, j, c)
           Eq(f) == f = [k \in 0..n |-> IF k = 0 THEN x ELSE step(f[k - 1], k - 1)]
           f == CHOOSE g : Eq(g)
           g == [k \in 0..n |-> IF k = 0 THEN x ELSE IF k = 1 THEN step(x, 0)
                                ELSE step(step(x, 0), 1)]
<1>1. oweLiterals(x, i, n, c) = f[n]
  BY DEF oweLiterals, owed
<1> HIDE DEF step
<1>2. Eq(g)
  <2>1. ASSUME NEW k \in 0..n PROVE g[k] = IF k = 0 THEN x ELSE step(g[k - 1], k - 1)
    <3>1. CASE k = 0
      BY <3>1
    <3>2. CASE k = 1
      <4>1. g[0] = x /\ g[1] = step(x, 0)
        BY <3>2
      <4>2. QED
        BY <3>2, <4>1
    <3>3. CASE k = 2
      <4>1. g[1] = step(x, 0) /\ g[2] = step(step(x, 0), 1)
        BY <3>3
      <4>2. QED
        BY <3>3, <4>1
    <3>4. k = 0 \/ k = 1 \/ k = 2
      OBVIOUS
    <3>5. QED
      BY <3>1, <3>2, <3>3, <3>4
  <2>2. QED
    BY <2>1
<1> HIDE DEF g
<1>3. Eq(f)
  BY <1>2
<1> HIDE DEF f
<1>4. f[0] = x /\ (n >= 1 => f[1] = step(x, 0)) /\ (n = 2 => f[2] = step(step(x, 0), 1))
  <2>1. f[0] = x
    BY <1>3
  <2>2. n >= 1 => f[1] = step(f[0], 0)
    BY <1>3
  <2>3. n = 2 => f[2] = step(f[1], 1)
    BY <1>3
  <2>4. QED
    BY <2>1, <2>2, <2>3
<1>5. n = 0 \/ n = 1 \/ n = 2
  OBVIOUS
<1>6. QED
  BY <1>1, <1>4, <1>5 DEF step

\* After k owed literals.
Owes(x, y, k) ==
  /\ y \in Compressors
  /\ y.window = x.window /\ y.gone = x.gone /\ y.maxInsertIndex = x.maxInsertIndex
  /\ y.index >= x.index /\ y.index <= x.index + k
  /\ ~y.err => /\ Tiled(y) /\ y.tokens < maxFlateBlockTokens
               /\ Heads(y, y.index + 1) /\ Prevs(y, y.index + 1) /\ Chain(y, y.index + 1)
               /\ y.index = x.index + k /\ y.tpos = y.index - 1

\* One literal more is paid.
LEMMA OweKeeps ==
  ASSUME NEW x, NEW y, NEW k \in Nat, Owes(x, y, k), x.index \in Nat, x.index >= 1,
         x.maxInsertIndex = windowEnd(x) - (minMatchLength - 1), NEW c \in Outcomes
  PROVE  Owes(x, owed(y, x.index - 1, k, c), k + 1)
<1> DEFINE i == x.index - 1 + k
           z == blockIfFull(AddLiteral(y, i), y.index, c)
           u == [z EXCEPT !.index = @ + 1]
           w == insert(u, z.index + 1)
<1>1. /\ y \in Compressors /\ y.index >= x.index /\ y.index <= x.index + k
      /\ y.window = x.window /\ y.gone = x.gone /\ y.maxInsertIndex = x.maxInsertIndex
  BY DEF Owes
<1>2. y.index \in Nat
  BY <1>1 DEF Compressors
<1>3. owed(y, x.index - 1, k, c) = IF y.err THEN y ELSE IF z.err THEN z ELSE w
  BY DEF owed
<1>4. CASE y.err
  <2>1. y.index <= x.index + (k + 1)
    BY <1>1, <1>2
  <2>2. QED
    BY <1>1, <1>3, <1>4, <2>1 DEF Owes
<1>5. CASE ~y.err
  <2>1. /\ Tiled(y) /\ y.tokens < maxFlateBlockTokens
        /\ Heads(y, y.index + 1) /\ Prevs(y, y.index + 1) /\ Chain(y, y.index + 1)
        /\ y.index = x.index + k /\ y.tpos = y.index - 1
    BY <1>5 DEF Owes
  <2>2. i \in Nat /\ y.tpos = i /\ y.index = i + 1
    BY <1>2, <2>1
  <2> HIDE DEF i, z
  <2>3. /\ z \in Compressors /\ SameButTokens(y, z) /\ z.tpos = y.index
        /\ ~z.err => Tiled(z) /\ z.tokens < maxFlateBlockTokens
    BY <1>1, <2>1, <2>2, LiteralKeeps DEF z
  <2>4. z.index = y.index /\ z.window = y.window /\ z.gone = y.gone /\ z.maxInsertIndex = y.maxInsertIndex
    BY <2>3 DEF SameButTokens
  <2>5. CASE z.err
    <3>1. z.index >= x.index /\ z.index <= x.index + (k + 1)
      BY <1>1, <1>2, <2>4
    <3>2. Owes(x, z, k + 1)
      BY <1>1, <2>3, <2>4, <2>5, <3>1 DEF Owes
    <3>3. QED
      BY <1>3, <1>5, <2>5, <3>2
  <2>6. CASE ~z.err
    <3> DEFINE e == y.index + 1
    <3>1. u = [z EXCEPT !.index = e] /\ e \in Nat /\ w = insert(u, e)
      BY <1>2, <2>4
    <3> HIDE DEF u, w
    <3>2. u \in Compressors
      BY ONLY <2>3, <3>1 DEF Compressors
    <3>3. /\ u.index = e /\ u.window = z.window /\ u.gone = z.gone
          /\ u.maxInsertIndex = z.maxInsertIndex /\ u.tpos = z.tpos /\ u.bpos = z.bpos
          /\ u.tokens = z.tokens /\ u.blockStart = z.blockStart /\ u.dict = z.dict
          /\ u.hashHead = z.hashHead /\ u.hashPrev = z.hashPrev /\ u.chainHead = z.chainHead
          /\ u.hashOffset = z.hashOffset /\ u.err = z.err
      BY <2>3, <3>1 DEF Compressors
    <3>4. Heads(u, e) /\ Prevs(u, e) /\ Chain(u, e)
      <4>1. Heads(z, e) /\ Prevs(z, e) /\ Chain(z, e)
        BY <2>1, <2>3, TablesSame
      <4>2. QED
        BY <3>3, <4>1 DEF Heads, Prevs, Chain
    <3>5. u.maxInsertIndex = windowEnd(u) - (minMatchLength - 1)
      BY <1>1, <2>4, <3>3 DEF windowEnd
    <3>6. /\ w \in Compressors /\ SameButTables(u, w)
          /\ Heads(w, e + 1) /\ Prevs(w, e) /\ Chain(w, e)
      BY <3>1, <3>2, <3>4, <3>5, InsertKeeps
    <3>7. Prevs(w, e + 1) /\ Chain(w, e + 1)
      <4>1. e \in Int /\ e + 1 \in Int /\ e <= e + 1
        BY <3>1
      <4> HIDE DEF e
      <4>2. QED
        BY <3>6, <4>1, TablesGrow
    <3>8. /\ w.index = e /\ w.window = u.window /\ w.gone = u.gone
          /\ w.maxInsertIndex = u.maxInsertIndex /\ w.tpos = u.tpos /\ w.bpos = u.bpos
          /\ w.tokens = u.tokens /\ w.blockStart = u.blockStart /\ w.dict = u.dict /\ w.err = u.err
      BY <3>3, <3>6 DEF SameButTables
    <3>9. Tiled(w) /\ w.tokens < maxFlateBlockTokens
      BY <2>3, <2>6, <3>3, <3>8 DEF Tiled
    <3>10. /\ w.index >= x.index /\ w.index <= x.index + (k + 1) /\ w.index = x.index + (k + 1)
           /\ w.tpos = w.index - 1
      BY <1>2, <2>1, <2>3, <3>3, <3>8
    <3>11. Owes(x, w, k + 1)
      BY <1>1, <2>4, <3>3, <3>6, <3>7, <3>8, <3>9, <3>10 DEF Owes
    <3>12. QED
      BY <1>3, <1>5, <2>6, <3>11
  <2>7. QED
    BY <2>5, <2>6
<1>6. QED
  BY <1>4, <1>5

\* The match held back, or a longer one that begins up to two bytes later.
LEMMA HeldMatchKeeps ==
  ASSUME NEW x \in Compressors, InWindow(x), ~x.err, Tiled(x), x.tokens < maxFlateBlockTokens,
         x.maxInsertIndex = windowEnd(x) - (minMatchLength - 1), x.index < windowEnd(x),
         Heads(x, x.index + 1), Prevs(x, x.index + 1), Chain(x, x.index + 1),
         x.index >= 1, x.tpos = x.index - 1,
         NEW prev, Right(x, x.index - 1, prev.length, prev.offset), NEW c \in Outcomes
  PROVE  LET z == heldMatch(x, windowEnd(x) - x.index, prev, c)
         IN /\ z \in Compressors /\ InWindow(z) /\ (~z.err => z.index > x.index)
            /\ z.window = x.window /\ z.maxInsertIndex = x.maxInsertIndex
            /\ ~z.err => Coherent(z)
<1> DEFINE best == betterAtEnd(x, windowEnd(x) - x.index, prev)
           y == oweLiterals(x, x.index - 1, best.owed, c)
           z == heldMatch(x, windowEnd(x) - x.index, prev, c)
<1>1. z = IF ~best.found THEN emitHeld(x, prev.length, prev.offset, c)
          ELSE IF y.err THEN y
          ELSE emitHeld(y, best.length, best.offset, c)
  BY DEF heldMatch
<1>2. x.index \in Nat /\ windowEnd(x) \in Nat
  BY DEF Compressors, windowEnd
<1>3. CASE ~best.found
  <2>1. z = emitHeld(x, prev.length, prev.offset, c)
    BY <1>1, <1>3
  <2> HIDE DEF z
  <2>2. QED
    BY <2>1, EmitHeldKeeps DEF z
<1>4. CASE best.found
  <2>1. prev.length \in minMatchLength..maxMatchLength
    BY DEF Right
  <2>2. best.owed \in 0..2 /\ Right(x, x.index - 1 + best.owed, best.length, best.offset)
    <3> DEFINE bb == betterAtEnd(x, windowEnd(x) - x.index, prev)
    <3>1. bb = betterAtEnd(x, windowEnd(x) - x.index, prev) /\ bb.found
      BY <1>4
    <3> HIDE DEF bb
    <3>2. bb.owed \in 0..2 /\ Right(x, x.index - 1 + bb.owed, bb.length, bb.offset)
      BY <2>1, <3>1, BetterRight
    <3>3. QED
      BY <3>2 DEF bb
  <2> HIDE DEF best
  <2>3. Owes(x, x, 0)
    BY <1>2 DEF Owes
  <2>4. Owes(x, y, best.owed)
    <3> DEFINE y1 == owed(x, x.index - 1, 0, c)
               y2 == owed(y1, x.index - 1, 1, c)
    <3>1. Owes(x, y1, 1)
      <4>1. 0 \in Nat /\ 0 + 1 = 1
        OBVIOUS
      <4>2. Owes(x, y1, 0 + 1)
        BY <1>2, <2>3, <4>1, OweKeeps
      <4>3. QED
        BY <4>1, <4>2
    <3> HIDE DEF y1
    <3>2. Owes(x, y2, 2)
      <4>1. 1 \in Nat /\ 1 + 1 = 2
        OBVIOUS
      <4>2. Owes(x, y2, 1 + 1)
        BY <1>2, <3>1, <4>1, OweKeeps
      <4>3. QED
        BY <4>1, <4>2
    <3>3. y = IF best.owed = 0 THEN x ELSE IF best.owed = 1 THEN y1 ELSE y2
      BY <2>2, OweUnrolled DEF y1
    <3> HIDE DEF y, y2
    <3>4. best.owed = 0 \/ best.owed = 1 \/ best.owed = 2
      BY <2>2
    <3>5. QED
      BY <2>3, <3>1, <3>2, <3>3, <3>4
  <2> HIDE DEF y
  <2>5. /\ y \in Compressors /\ y.window = x.window /\ y.gone = x.gone
        /\ y.maxInsertIndex = x.maxInsertIndex
        /\ y.index >= x.index /\ y.index <= x.index + best.owed
    BY <2>4 DEF Owes
  <2>6. y.index \in Nat
    BY <2>5 DEF Compressors
  <2>7. x.index + best.owed <= windowEnd(x)
    <3>1. /\ best.length \in minMatchLength..maxMatchLength
          /\ x.index - 1 + best.owed + best.length <= windowEnd(x)
      BY <2>2 DEF Right
    <3>2. QED
      BY <1>2, <2>2, <3>1, Sizes
  <2>8. InWindow(y)
    <3>1. windowEnd(y) = windowEnd(x) /\ windowEnd(x) <= 2 * windowSize
      BY <2>5 DEF windowEnd, InWindow
    <3>2. y.index <= windowEnd(x)
      BY <1>2, <2>2, <2>5, <2>6, <2>7
    <3>3. QED
      BY <3>1, <3>2 DEF InWindow
  <2>9. CASE y.err
    <3>1. z = y
      BY <1>1, <1>4, <2>9
    <3>2. QED
      BY <2>5, <2>8, <2>9, <3>1
  <2>10. CASE ~y.err
    <3>1. z = emitHeld(y, best.length, best.offset, c)
      BY <1>1, <1>4, <2>10
    <3>2. /\ Tiled(y) /\ y.tokens < maxFlateBlockTokens
          /\ Heads(y, y.index + 1) /\ Prevs(y, y.index + 1) /\ Chain(y, y.index + 1)
          /\ y.index = x.index + best.owed /\ y.tpos = y.index - 1
      BY <2>4, <2>10 DEF Owes
    <3>3. Right(y, y.index - 1, best.length, best.offset)
      <4>1. y.index - 1 = x.index - 1 + best.owed
        BY <1>2, <2>2, <3>2
      <4>2. QED
        BY <2>2, <2>5, <4>1, RightSame
    <3>4. y.maxInsertIndex = windowEnd(y) - (minMatchLength - 1) /\ y.index >= 1
      <4>1. y.maxInsertIndex = windowEnd(y) - (minMatchLength - 1)
        BY <2>5 DEF windowEnd
      <4>2. QED
        BY <1>2, <2>5, <2>6, <4>1
    <3> HIDE DEF z
    <3>5. /\ z \in Compressors /\ InWindow(z) /\ z.index > y.index
          /\ z.window = y.window /\ z.maxInsertIndex = y.maxInsertIndex
          /\ ~z.err => Coherent(z)
      BY <2>5, <2>8, <3>1, <3>2, <3>3, <3>4, EmitHeldKeeps
    <3>6. z.index > x.index
      <4>1. z.index \in Nat
        BY <3>5 DEF Compressors
      <4>2. QED
        BY <1>2, <2>5, <2>6, <3>5, <4>1
    <3>7. QED
      BY <2>5, <3>5, <3>6 DEF z
  <2>11. QED
    BY <2>9, <2>10
<1>5. QED
  BY <1>3, <1>4

\* An iteration that looks for a match.
LEMMA SearchKeeps ==
  ASSUME NEW x0 \in Compressors, ~x0.err, Coherent(x0), x0.index < windowEnd(x0),
         x0.maxInsertIndex = windowEnd(x0) - (minMatchLength - 1),
         NEW c \in Outcomes, NEW refused
  PROVE  LET z == search(x0, c, refused)
         IN /\ z \in Compressors /\ InWindow(z) /\ (~z.err => z.index > x0.index)
            /\ z.window = x0.window /\ z.maxInsertIndex = x0.maxInsertIndex
            /\ ~z.err => Coherent(z)
<1> DEFINE x == insert(x0, x0.index)
           lookahead == windowEnd(x) - x.index
           prev == [length |-> x.length, offset |-> x.offset]
           head == x.chainHead - x.hashOffset
           looks == /\ head >= minIndexAt(x.index)
                    /\ lookahead > prev.length /\ prev.length < lazy
           m == IF looks THEN findMatch(x, x.index, head, lookahead, refused)
                ELSE [length |-> minMatchLength - 1, offset |-> 0]
           y == [x EXCEPT !.length = m.length, !.offset = m.offset]
           z == search(x0, c, refused)
           holds == prev.length >= minMatchLength /\ m.length <= prev.length
<1>1. z = IF holds THEN heldMatch(y, lookahead, prev, c) ELSE literal(y, c)
  BY DEF search
<1>2. /\ x0.index \in Nat /\ windowEnd(x0) \in Nat /\ InWindow(x0) /\ Tiled(x0)
      /\ x0.tokens < maxFlateBlockTokens
      /\ Heads(x0, x0.index) /\ Prevs(x0, x0.index) /\ Chain(x0, x0.index)
      /\ x0.byteAvailable => x0.index >= 1
      /\ x0.tpos = IF x0.byteAvailable THEN x0.index - 1 ELSE x0.index
  <2>1. x0.index \in Nat /\ windowEnd(x0) \in Nat
    BY DEF Compressors, windowEnd
  <2>2. QED
    BY <2>1 DEF Coherent
<1>3. /\ x \in Compressors /\ SameButTables(x0, x)
      /\ Heads(x, x0.index + 1) /\ Prevs(x, x0.index) /\ Chain(x, x0.index)
  BY <1>2, InsertKeeps
<1> HIDE DEF x, z
<1>4. /\ x.index = x0.index /\ x.window = x0.window /\ windowEnd(x) = windowEnd(x0)
      /\ x.maxInsertIndex = x0.maxInsertIndex /\ x.gone = x0.gone
      /\ x.length = x0.length /\ x.offset = x0.offset /\ x.err = x0.err
      /\ x.tokens = x0.tokens /\ x.tpos = x0.tpos /\ x.bpos = x0.bpos
      /\ x.blockStart = x0.blockStart /\ x.dict = x0.dict /\ x.byteAvailable = x0.byteAvailable
  BY <1>3 DEF SameButTables, windowEnd
<1>5. /\ m.length \in (minMatchLength - 1)..maxMatchLength /\ m.offset \in Int
      /\ m.length >= minMatchLength => Right(x, x.index, m.length, m.offset)
  <2>1. CASE looks
    <3>1. head \in Int /\ minIndexAt(x.index) <= head /\ head < x.index
      <4>1. x.chainHead \in Int
        BY <1>3 DEF Compressors
      <4>2. x.hashOffset \in Int
        <5>1. x.hashOffset \in 1..maxHashOffset
          BY <1>3 DEF Compressors
        <5>2. QED
          BY <5>1, Sizes
      <4>3. x.chainHead < x.hashOffset + x.index
        BY <1>3, <1>4 DEF Chain
      <4>4. minIndexAt(x.index) \in Nat
        BY <1>2, <1>4, MinIndex
      <4>5. head \in Int
        BY <4>1, <4>2
      <4>6. head < x.index
        BY <1>2, <1>4, <4>1, <4>2, <4>3
      <4>7. minIndexAt(x.index) <= head
        BY <2>1, <4>4, <4>5
      <4>8. QED
        BY <4>5, <4>6, <4>7
    <3>2. x.index \in Nat /\ x.index < windowEnd(x) /\ Prevs(x, x.index)
      BY <1>2, <1>3, <1>4
    <3> DEFINE fm == findMatch(x, x.index, head, windowEnd(x) - x.index, refused)
    <3>3. m = fm
      BY <2>1
    <3> HIDE DEF head, m
    <3>4. /\ fm.length \in (minMatchLength - 1)..maxMatchLength /\ fm.offset \in Int
          /\ fm.length >= minMatchLength => Right(x, x.index, fm.length, fm.offset)
      BY <1>3, <3>1, <3>2, FindMatchRight
    <3>5. QED
      BY <3>3, <3>4
  <2>2. CASE ~looks
    <3>1. m.length = minMatchLength - 1 /\ m.offset = 0
      BY <2>2
    <3>2. QED
      BY <3>1, Sizes
  <2>3. QED
    BY <2>1, <2>2
<1> HIDE DEF m
<1>6. y = [x EXCEPT !.length = m.length, !.offset = m.offset]
  OBVIOUS
<1> HIDE DEF y
<1>7. y \in Compressors
  BY ONLY <1>3, <1>5, <1>6 DEF Compressors
<1>8. /\ y.index = x.index /\ y.window = x.window /\ y.maxInsertIndex = x.maxInsertIndex
      /\ y.gone = x.gone /\ y.length = m.length /\ y.offset = m.offset /\ y.err = x.err
      /\ y.tokens = x.tokens /\ y.tpos = x.tpos /\ y.bpos = x.bpos
      /\ y.blockStart = x.blockStart /\ y.dict = x.dict /\ y.byteAvailable = x.byteAvailable
      /\ y.hashHead = x.hashHead /\ y.hashPrev = x.hashPrev /\ y.chainHead = x.chainHead
      /\ y.hashOffset = x.hashOffset
  BY <1>3, <1>6 DEF Compressors
<1>9. /\ windowEnd(y) = windowEnd(x0) /\ y.index = x0.index /\ InWindow(y) /\ Tiled(y)
      /\ y.tokens < maxFlateBlockTokens /\ y.index < windowEnd(y)
      /\ y.maxInsertIndex = windowEnd(y) - (minMatchLength - 1)
      /\ lookahead = windowEnd(y) - y.index
  BY <1>2, <1>4, <1>8 DEF windowEnd, InWindow, Tiled
<1>10. Heads(y, y.index + 1) /\ Prevs(y, y.index + 1) /\ Chain(y, y.index + 1)
  <2>1. Prevs(x, x0.index + 1) /\ Chain(x, x0.index + 1)
    <3>1. x0.index \in Int /\ x0.index + 1 \in Int /\ x0.index <= x0.index + 1
      BY <1>2
    <3>2. QED
      BY <1>3, <3>1, TablesGrow
  <2>2. QED
    BY <1>3, <1>8, <1>9, <2>1 DEF Heads, Prevs, Chain
<1>11. /\ y.byteAvailable => y.index >= 1
       /\ y.tpos = IF y.byteAvailable THEN y.index - 1 ELSE y.index
  BY <1>2, <1>4, <1>8, <1>9
<1>12. CASE holds
  <2>1. prev.length = x0.length /\ prev.offset = x0.offset /\ prev.length >= minMatchLength
    BY <1>4, <1>12
  <2>2. x0.byteAvailable /\ Right(x0, x0.index - 1, prev.length, prev.offset)
    BY <2>1 DEF Coherent, Held
  <2>3. Right(y, y.index - 1, prev.length, prev.offset)
    BY <1>4, <1>8, <1>9, <2>2, RightSame
  <2>4. y.index >= 1 /\ y.tpos = y.index - 1 /\ ~y.err
    BY <1>4, <1>8, <1>11, <2>2
  <2>5. z = heldMatch(y, windowEnd(y) - y.index, prev, c)
    BY <1>1, <1>9, <1>12
  <2> HIDE DEF prev, lookahead
  <2>6. /\ z \in Compressors /\ InWindow(z) /\ (~z.err => z.index > y.index)
        /\ z.window = y.window /\ z.maxInsertIndex = y.maxInsertIndex
        /\ ~z.err => Coherent(z)
    BY <1>7, <1>9, <1>10, <2>3, <2>4, <2>5, HeldMatchKeeps
  <2>7. QED
    BY <1>4, <1>8, <1>9, <2>6 DEF z
<1>13. CASE ~holds
  <2>1. z = literal(y, c) /\ ~y.err
    BY <1>1, <1>4, <1>8, <1>13
  <2>2. y.length >= minMatchLength => Right(y, y.index, y.length, y.offset)
    BY <1>5, <1>8, RightSame
  <2>3. /\ z \in Compressors /\ InWindow(z) /\ (~z.err => z.index > y.index)
        /\ z.window = y.window /\ z.maxInsertIndex = y.maxInsertIndex
        /\ ~z.err => Coherent(z)
    BY <1>7, <1>9, <1>10, <1>11, <2>1, <2>2, LiteralStepKeeps
  <2>4. QED
    BY <1>4, <1>8, <1>9, <2>3 DEF z
<1>14. QED
  BY <1>12, <1>13

\* The end of the input: nothing is held back any more, and no token waits.
LEMMA FlushTokensKeeps ==
  ASSUME NEW x \in Compressors, ~x.err, Coherent(x), x.index = windowEnd(x), NEW c \in Outcomes
  PROVE  LET z == flushTokens(x, c)
         IN /\ z \in Compressors /\ InWindow(z) /\ z.window = x.window /\ z.index = x.index
            /\ ~z.err => Coherent(z) /\ Taken(z)
<1> DEFINE l == AddLiteral(x, x.index - 1)
           y == IF x.byteAvailable THEN [l EXCEPT !.byteAvailable = FALSE] ELSE x
           z == flushTokens(x, c)
<1>1. z = IF y.tokens > 0 THEN blockDone(y, y.index, c) ELSE y
  BY DEF flushTokens
<1>2. /\ x.index \in Nat /\ windowEnd(x) \in Nat /\ x.byteAvailable \in BOOLEAN
      /\ x.tokens \in 0..maxFlateBlockTokens /\ x.tokens \in Nat
      /\ x.length \in (minMatchLength - 1)..maxMatchLength
  <2>1. x.tokens \in 0..maxFlateBlockTokens
    BY DEF Compressors
  <2>2. QED
    BY <2>1, Sizes DEF Compressors, windowEnd
<1>3. x.length < minMatchLength
  <2>1. SUFFICES ASSUME ~(x.length < minMatchLength) PROVE FALSE
    OBVIOUS
  <2>2. x.length >= minMatchLength /\ x.length \in Int
    BY <1>2, <2>1, Sizes
  <2>3. x.index - 1 + x.length <= windowEnd(x)
    BY <2>2 DEF Coherent, Held, Right
  <2>4. QED
    BY <1>2, <2>2, <2>3, Sizes
<1>4. /\ y \in Compressors /\ y.window = x.window /\ y.index = x.index /\ y.length = x.length
      /\ y.tpos = x.index /\ Tiled(y) /\ y.byteAvailable = FALSE /\ y.err = x.err
      /\ y.hashHead = x.hashHead /\ y.hashPrev = x.hashPrev /\ y.chainHead = x.chainHead
      /\ y.hashOffset = x.hashOffset
      /\ y.tokens > 0 => x.index > 0
  <2>1. CASE ~x.byteAvailable
    <3>1. y = x
      BY <2>1
    <3>2. x.byteAvailable = FALSE
      BY <1>2, <2>1
    <3>3. x.index = 0 => x.tokens = 0
      BY DEF Coherent
    <3>4. x.tokens > 0 => x.index > 0
      BY <1>2, <3>3
    <3> HIDE DEF y
    <3>5. QED
      BY <2>1, <3>1, <3>2, <3>4 DEF Coherent
  <2>2. CASE x.byteAvailable
    <3> DEFINE i == x.index - 1
    <3>1. i \in Int /\ x.tpos = i /\ Tiled(x) /\ x.tokens < maxFlateBlockTokens /\ x.index >= 1
      BY <1>2, <2>2 DEF Coherent
    <3>2. l = added(x, i, 1, TRUE) /\ 1 \in 1..maxMatchLength
      BY Sizes DEF AddLiteral
    <3> HIDE DEF i, l
    <3>3. l \in Compressors /\ SameButTokens(x, l) /\ l.tpos = i + 1 /\ l.err = x.err /\ Tiled(l)
      BY <3>1, <3>2, AddedKeeps
    <3>4. y = [l EXCEPT !.byteAvailable = FALSE] /\ FALSE \in BOOLEAN
      BY <2>2
    <3> HIDE DEF y
    <3>5. y \in Compressors
      BY ONLY <3>3, <3>4 DEF Compressors
    <3>6. /\ y.window = l.window /\ y.index = l.index /\ y.length = l.length
          /\ y.tpos = l.tpos /\ y.bpos = l.bpos /\ y.blockStart = l.blockStart /\ y.dict = l.dict
          /\ y.tokens = l.tokens /\ y.byteAvailable = FALSE /\ y.err = l.err
          /\ y.hashHead = l.hashHead /\ y.hashPrev = l.hashPrev /\ y.chainHead = l.chainHead
          /\ y.hashOffset = l.hashOffset
      BY <3>3, <3>4 DEF Compressors
    <3>7. i + 1 = x.index /\ x.index > 0
      BY <1>2, <3>1 DEF i
    <3>8. QED
      BY <3>3, <3>5, <3>6, <3>7 DEF SameButTokens, Tiled
  <2>3. QED
    BY <1>2, <2>1, <2>2
<1> HIDE DEF y
<1>5. /\ z \in Compressors /\ z.window = y.window /\ z.index = y.index /\ z.length = y.length
      /\ z.byteAvailable = y.byteAvailable /\ z.tpos = x.index
      /\ z.hashHead = y.hashHead /\ z.hashPrev = y.hashPrev /\ z.chainHead = y.chainHead
      /\ z.hashOffset = y.hashOffset
      /\ ~z.err => Tiled(z) /\ z.tokens = 0
  <2>1. CASE y.tokens > 0
    <3>1. y.index \in Nat /\ y.index > 0 /\ y.tpos = y.index
      BY <1>2, <1>4, <2>1
    <3>2. z = blockDone(y, y.index, c)
      BY <1>1, <2>1
    <3> HIDE DEF z
    <3>3. /\ z \in Compressors /\ SameButTokens(y, z) /\ z.tpos = y.index
          /\ ~z.err => Tiled(z) /\ z.tokens = 0
      BY <1>4, <3>1, <3>2, BlockDoneKeeps
    <3>4. QED
      BY <1>4, <3>3 DEF SameButTokens
  <2>2. CASE ~(y.tokens > 0)
    <3>1. z = y
      BY <1>1, <2>2
    <3>2. y.tokens \in 0..maxFlateBlockTokens
      BY <1>4 DEF Compressors
    <3>3. y.tokens = 0
      BY <2>2, <3>2, Sizes
    <3> HIDE DEF z
    <3>4. QED
      BY <1>4, <3>1, <3>3
  <2>3. QED
    BY <2>1, <2>2
<1> HIDE DEF z
<1>6. InWindow(z)
  BY <1>4, <1>5 DEF Coherent, InWindow, windowEnd
<1>7. ASSUME ~z.err PROVE Coherent(z) /\ Taken(z)
  <2>1. Heads(z, z.index) /\ Prevs(z, z.index) /\ Chain(z, z.index)
    BY <1>4, <1>5 DEF Coherent, Heads, Prevs, Chain
  <2>2. Held(z)
    BY <1>2, <1>3, <1>4, <1>5, Sizes DEF Held
  <2>3. Coherent(z)
    BY <1>4, <1>5, <1>6, <1>7, <2>1, <2>2, Sizes DEF Coherent
  <2>4. Taken(z)
    BY <1>3, <1>4, <1>5, <1>7 DEF Taken, windowEnd
  <2>5. QED
    BY <2>3, <2>4
<1>8. QED
  BY <1>4, <1>5, <1>6, <1>7 DEF z

-----------------------------------------------------------------------------
(* The window.                                                             *)

\* More bytes behind the window change nothing before them.
LEMMA AppendKeeps ==
  ASSUME NEW x \in Compressors, InWindow(x), NEW s \in Seq(Byte),
         windowEnd(x) + Len(s) <= 2 * windowSize
  PROVE  LET z == [x EXCEPT !.window = @ \o s]
         IN /\ z \in Compressors /\ InWindow(z) /\ z.index = x.index /\ z.err = x.err
            /\ windowEnd(z) = windowEnd(x) + Len(s)
            /\ Coherent(x) => Coherent(z)
<1> DEFINE t == x.window \o s
           z == [x EXCEPT !.window = t]
<1>1. x.window \in Seq(Byte) /\ x.index \in Nat /\ Len(x.window) \in Nat /\ Len(s) \in Nat
  BY SMTT(30) DEF Compressors
<1>2. /\ t \in Seq(Byte) /\ Len(t) = Len(x.window) + Len(s)
      /\ \A j \in 1..Len(x.window) : t[j] = x.window[j]
  BY <1>1
<1> HIDE DEF t
<1>3. z = [x EXCEPT !.window = t]
  OBVIOUS
<1> HIDE DEF z
<1>4. z \in Compressors
  BY ONLY <1>2, <1>3, x \in Compressors DEF Compressors
<1>5. /\ z.window = t /\ z.index = x.index /\ z.blockStart = x.blockStart
      /\ z.hashOffset = x.hashOffset /\ z.hashHead = x.hashHead /\ z.hashPrev = x.hashPrev
      /\ z.chainHead = x.chainHead /\ z.length = x.length /\ z.offset = x.offset
      /\ z.byteAvailable = x.byteAvailable /\ z.tokens = x.tokens /\ z.err = x.err
      /\ z.tpos = x.tpos /\ z.bpos = x.bpos /\ z.dict = x.dict /\ z.gone = x.gone
  BY <1>3 DEF Compressors
<1>6. windowEnd(z) = windowEnd(x) + Len(s) /\ windowEnd(x) = Len(x.window)
  BY <1>2, <1>5 DEF windowEnd
<1>7. InWindow(z)
  BY <1>1, <1>5, <1>6 DEF InWindow
<1>8. ASSUME Coherent(x) PROVE Coherent(z)
  <2>1. Tiled(z) /\ Heads(z, z.index) /\ Prevs(z, z.index) /\ Chain(z, z.index)
    BY <1>5, <1>8 DEF Coherent, Tiled, Heads, Prevs, Chain
  <2>2. Held(z)
    <3> SUFFICES ASSUME z.length >= minMatchLength
                 PROVE  z.byteAvailable /\ Right(z, z.index - 1, z.length, z.offset)
      BY DEF Held
    <3> DEFINE i == x.index - 1
               len == x.length
               off == x.offset
    <3>1. x.byteAvailable /\ Right(x, i, len, off) /\ i \in Nat
      BY <1>1, <1>5, <1>8 DEF Coherent, Held
    <3> HIDE DEF i, len, off
    <3>2. /\ len \in minMatchLength..maxMatchLength /\ off \in 1..windowSize
          /\ i - off >= -Len(x.gone) /\ i + len <= Len(x.window)
          /\ \A k \in 0..(len - 1) : at(x, i + k) = written(x, i - off + k)
      BY <1>6, <3>1 DEF Right
    <3>3. ASSUME NEW k \in 0..(len - 1) PROVE at(z, i + k) = written(z, i - off + k)
      <4>1. at(x, i + k) = written(x, i - off + k)
        BY <3>2
      <4>2. len \in Nat /\ off \in Nat /\ off >= 1 /\ k \in Nat
        BY <3>2, Sizes
      <4>3. i + k + 1 \in 1..Len(x.window)
        BY <1>1, <3>1, <3>2, <4>2
      <4>4. at(z, i + k) = at(x, i + k)
        BY <1>2, <1>5, <4>3 DEF at
      <4> DEFINE p == i - off + k
      <4>5. p \in Int /\ p < i + k
        BY <3>1, <4>2
      <4> HIDE DEF p
      <4>6. written(z, p) = written(x, p)
        <5>1. CASE p >= 0
          <6>1. p + 1 \in 1..Len(x.window)
            BY <1>1, <3>1, <4>2, <4>3, <4>5, <5>1
          <6>2. QED
            BY <1>2, <1>5, <5>1, <6>1 DEF written, at
        <5>2. CASE ~(p >= 0)
          BY <1>5, <5>2 DEF written
        <5>3. QED
          BY <5>1, <5>2
      <4>7. QED
        BY <4>1, <4>4, <4>6 DEF p
    <3>4. i + len <= windowEnd(z)
      <4>1. len \in Nat
        BY <3>2, Sizes
      <4>2. QED
        BY <1>1, <1>6, <3>1, <3>2, <4>1
    <3>5. Right(z, i, len, off)
      BY <1>5, <3>2, <3>3, <3>4 DEF Right
    <3>6. QED
      BY <1>5, <3>1, <3>5 DEF i, len, off
  <2>3. QED
    BY <1>5, <1>7, <1>8, <2>1, <2>2 DEF Coherent
<1>9. QED
  BY <1>4, <1>5, <1>6, <1>7, <1>8 DEF z, t

\* The window moves on by windowSize: every place moves with it, a match that is held
\* back still finds its bytes, and a block whose bytes are gone is marked as such.
LEMMA SlideKeeps ==
  ASSUME NEW x \in Compressors, InWindow(x), slides(x)
  PROVE  LET z == slide(x)
         IN /\ z \in Compressors /\ InWindow(z) /\ z.index = x.index - windowSize
            /\ z.err = x.err /\ windowEnd(z) = windowEnd(x) - windowSize
            /\ Coherent(x) => Coherent(z)
<1> DEFINE hashOffset == x.hashOffset + windowSize
           delta == IF hashOffset > maxHashOffset THEN hashOffset - 1 ELSE 0
           window == SubSeq(x.window, windowSize + 1, Len(x.window))
           gone == SubSeq(x.window, 1, windowSize)
           blockStart == IF x.blockStart >= windowSize THEN x.blockStart - windowSize ELSE MaxInt32
           prevs == IF delta = 0 THEN x.hashPrev
                    ELSE [i \in DOMAIN x.hashPrev |-> rebased(x.hashPrev[i], delta)]
           heads == IF delta = 0 THEN x.hashHead
                    ELSE [h \in Hashes |-> rebased(x.hashHead[h], delta)]
           z == slide(x)
<1>1. z = [x EXCEPT !.window = window, !.index = x.index - windowSize,
                    !.blockStart = blockStart, !.hashOffset = hashOffset - delta,
                    !.chainHead = x.chainHead - delta, !.hashPrev = prevs,
                    !.hashHead = heads, !.tpos = x.tpos - windowSize,
                    !.bpos = x.bpos - windowSize, !.gone = gone]
  BY DEF slide
<1>2. /\ x.index \in Nat /\ x.window \in Seq(Byte) /\ windowEnd(x) = Len(x.window)
      /\ Len(x.window) \in Nat /\ x.tpos \in Int /\ x.bpos \in Int /\ x.blockStart \in Int
      /\ x.chainHead \in Int /\ x.index <= Len(x.window) /\ Len(x.window) <= 2 * windowSize
      /\ x.hashPrev \in [0..(windowSize - 1) -> Nat] /\ x.hashHead \in [Hashes -> Nat]
      /\ x.dict \in 0..windowSize
  BY SMTT(30) DEF Compressors, windowEnd, InWindow
<1>3. /\ x.index >= windowSize + 1 /\ Len(x.window) >= windowSize
      /\ x.index - windowSize \in Nat /\ x.index - windowSize > 0
  <2>1. x.index >= 2 * windowSize - (minMatchLength + maxMatchLength)
    BY DEF slides
  <2>2. QED
    BY SMTT(30), <1>2, <2>1, Sizes
<1>4. x.hashOffset \in Nat /\ x.hashOffset >= 1 /\ x.hashOffset <= maxHashOffset
  <2>1. x.hashOffset \in 1..maxHashOffset
    BY DEF Compressors
  <2>2. QED
    BY <2>1, Sizes
<1>5. delta \in Nat /\ hashOffset - delta \in 1..maxHashOffset
  BY <1>4, Sizes
<1>6. /\ window \in Seq(Byte) /\ Len(window) = Len(x.window) - windowSize
      /\ \A j \in 1..(Len(x.window) - windowSize) : window[j] = x.window[windowSize + j]
  <2>1. windowSize + 1 \in 1..(Len(x.window) + 1) /\ Len(x.window) \in (windowSize + 1 - 1)..Len(x.window)
    BY <1>2, <1>3, Sizes
  <2>2. /\ window \in Seq(Byte) /\ Len(window) = Len(x.window) - (windowSize + 1) + 1
        /\ \A j \in 1..(Len(x.window) - (windowSize + 1) + 1) :
             window[j] = x.window[(windowSize + 1) + j - 1]
    <3> HIDE DEF window
    <3>1. Len(x.window) - windowSize \in Nat
      BY <1>2, <1>3, Sizes
    <3>2. SubSeq(x.window, windowSize + 1, Len(x.window)) \in Seq(Byte)
      BY SMTT(30), <1>2, <1>3, Sizes
    <3>3. Len(SubSeq(x.window, windowSize + 1, Len(x.window))) = Len(x.window) - (windowSize + 1) + 1
      BY <1>2, <1>3, Sizes
    <3>4. ASSUME NEW j \in 1..(Len(x.window) - (windowSize + 1) + 1)
          PROVE  SubSeq(x.window, windowSize + 1, Len(x.window))[j] = x.window[(windowSize + 1) + j - 1]
      BY <1>2, <1>3, Sizes
    <3>5. QED
      BY <3>2, <3>3, <3>4 DEF window
  <2> HIDE DEF window
  <2>3. Len(x.window) - (windowSize + 1) + 1 = Len(x.window) - windowSize
    BY <1>2, Sizes
  <2>4. ASSUME NEW j \in 1..(Len(x.window) - windowSize) PROVE window[j] = x.window[windowSize + j]
    <3>1. window[j] = x.window[(windowSize + 1) + j - 1]
      BY <2>2, <2>3
    <3>2. (windowSize + 1) + j - 1 = windowSize + j
      BY Sizes
    <3>3. QED
      BY <3>1, <3>2
  <2>5. QED
    BY <2>2, <2>3, <2>4
<1>7. /\ gone \in Seq(Byte) /\ Len(gone) = windowSize
      /\ \A j \in 1..windowSize : gone[j] = x.window[j]
  <2>1. SubSeq(x.window, 1, windowSize) \in Seq(Byte) /\ Len(SubSeq(x.window, 1, windowSize)) = windowSize
    BY SMTT(30), <1>2, <1>3, Sizes
  <2>2. ASSUME NEW j \in 1..windowSize PROVE SubSeq(x.window, 1, windowSize)[j] = x.window[j]
    BY <1>2, <1>3, Sizes
  <2>3. QED
    BY <2>1, <2>2
<1>8. /\ prevs \in [0..(windowSize - 1) -> Nat] /\ heads \in [Hashes -> Nat]
      /\ \A i \in 0..(windowSize - 1) :
           prevs[i] = 0 \/ prevs[i] = x.hashPrev[i] - delta
      /\ \A h \in Hashes : heads[h] = 0 \/ heads[h] = x.hashHead[h] - delta
  <2>1. ASSUME NEW v \in Nat
        PROVE  rebased(v, delta) \in Nat /\ (rebased(v, delta) = 0 \/ rebased(v, delta) = v - delta)
    <3> HIDE DEF delta
    <3>1. QED
      BY <1>5 DEF rebased
  <2>2. DOMAIN x.hashPrev = 0..(windowSize - 1)
    BY <1>2
  <2> HIDE DEF delta
  <2>3. CASE delta = 0
    <3>1. prevs = x.hashPrev /\ heads = x.hashHead
      BY <2>3
    <3> HIDE DEF prevs, heads
    <3>2. \A v \in Nat : v = v - delta
      BY <2>3
    <3>3. QED
      BY <1>2, <3>1, <3>2
  <2>4. CASE delta # 0
    <3>1. /\ prevs = [i \in 0..(windowSize - 1) |-> rebased(x.hashPrev[i], delta)]
          /\ heads = [h \in Hashes |-> rebased(x.hashHead[h], delta)]
      BY <2>2, <2>4
    <3> HIDE DEF prevs, heads
    <3>2. \A i \in 0..(windowSize - 1) : x.hashPrev[i] \in Nat
      BY <1>2
    <3>3. \A h \in Hashes : x.hashHead[h] \in Nat
      BY <1>2
    <3>4. QED
      BY <2>1, <3>1, <3>2, <3>3
  <2>5. QED
    BY <2>3, <2>4
<1> HIDE DEF hashOffset, delta, window, gone, prevs, heads, blockStart, z
<1>9. blockStart \in Int /\ x.chainHead - delta \in Int /\ x.tpos - windowSize \in Int /\ x.bpos - windowSize \in Int
  <2>1. x.blockStart - windowSize \in Int /\ MaxInt32 \in Int
    BY <1>2, Sizes DEF MaxInt32
  <2>2. blockStart \in Int
    BY <2>1 DEF blockStart
  <2>3. x.chainHead \in Int /\ x.tpos \in Int /\ x.bpos \in Int
    BY <1>2
  <2>4. delta \in Int /\ windowSize \in Int
    BY <1>5, Sizes
  <2>5. QED
    BY ONLY <2>2, <2>3, <2>4
<1>10. z \in Compressors
  BY ONLY ZenonT(40), x \in Compressors, <1>1, <1>3, <1>5, <1>6, <1>7, <1>8, <1>9 DEF Compressors
<1>11. /\ z.window = window /\ z.index = x.index - windowSize /\ z.blockStart = blockStart
       /\ z.hashOffset = hashOffset - delta /\ z.chainHead = x.chainHead - delta
       /\ z.hashPrev = prevs /\ z.hashHead = heads /\ z.tpos = x.tpos - windowSize
       /\ z.bpos = x.bpos - windowSize /\ z.gone = gone
       /\ z.length = x.length /\ z.offset = x.offset /\ z.byteAvailable = x.byteAvailable
       /\ z.tokens = x.tokens /\ z.err = x.err /\ z.dict = x.dict
  BY <1>1 DEF Compressors
<1>12. windowEnd(z) = windowEnd(x) - windowSize
  BY <1>2, <1>6, <1>11 DEF windowEnd
<1>13. InWindow(z)
  <2>1. /\ z.index = x.index - windowSize /\ windowEnd(z) = windowEnd(x) - windowSize
        /\ x.index \in Nat /\ windowEnd(x) \in Nat /\ x.index <= windowEnd(x)
        /\ windowEnd(x) <= 2 * windowSize /\ windowSize \in Nat
    BY <1>2, <1>11, <1>12, Sizes
  <2>2. z.index <= windowEnd(z) /\ windowEnd(z) <= 2 * windowSize
    BY ONLY <2>1
  <2>3. QED
    BY <2>2 DEF InWindow
<1>14. ASSUME Coherent(x) PROVE Coherent(z)
  <2>1. Tiled(z)
    <3>1. z.tpos - z.bpos = x.tpos - x.bpos
      BY <1>2, <1>11, Sizes
    <3>2. x.tpos - x.bpos <= x.tokens * maxMatchLength
      BY <1>14 DEF Coherent, Tiled
    <3>3. z.tpos - z.bpos <= z.tokens * maxMatchLength
      BY <1>11, <3>1, <3>2
    <3>4. \/ x.blockStart = x.bpos
          \/ x.blockStart = 0 /\ x.bpos = x.dict
          \/ x.blockStart >= MaxInt32 + x.bpos
      BY <1>14 DEF Coherent, Tiled
    <3>5. z.blockStart = z.bpos \/ z.blockStart >= MaxInt32 + z.bpos
      <4> DEFINE bs == x.blockStart
                 bp == x.bpos
                 dl == x.dict
      <4>1. /\ bs \in Int /\ bp \in Int /\ dl \in Nat /\ dl <= windowSize
            /\ windowSize \in Nat /\ windowSize > 0
        BY SMTT(30), <1>2, Sizes
      <4>2. bs = bp \/ (bs = 0 /\ bp = dl) \/ bs >= MaxInt32 + bp
        BY <3>4
      <4>3. z.blockStart = IF bs >= windowSize THEN bs - windowSize ELSE MaxInt32
        BY <1>11 DEF blockStart
      <4>4. z.bpos = bp - windowSize
        BY <1>11
      <4> HIDE DEF bs, bp, dl
      <4>5. QED
        BY ONLY <4>1, <4>2, <4>3, <4>4 DEF MaxInt32
    <3>6. QED
      BY <3>3, <3>5 DEF Tiled
  <2> DEFINE lim == x.index - windowSize
  <2>2. hashOffset - delta + lim = x.hashOffset + x.index - delta /\ hashOffset - delta + lim > 0
    <3> DEFINE o == x.hashOffset
               i == x.index
    <3>1. o \in Nat /\ i \in Nat /\ delta \in Nat /\ windowSize \in Nat
      BY <1>2, <1>4, <1>5, Sizes
    <3>2. i - windowSize > 0 /\ hashOffset = o + windowSize /\ lim = i - windowSize
      BY <1>3 DEF hashOffset
    <3>3. hashOffset - delta >= 1
      <4>1. hashOffset - delta \in 1..maxHashOffset
        BY <1>5
      <4>2. QED
        BY <4>1, Sizes
    <3> HIDE DEF o, i, lim
    <3>4. hashOffset - delta + lim = o + i - delta /\ hashOffset - delta + lim > 0
      BY ONLY <3>1, <3>2, <3>3
    <3>5. QED
      BY <3>4 DEF o, i
  <2>3. \A v \in Int : v < x.hashOffset + x.index => v - delta < hashOffset - delta + lim
    BY <1>2, <1>4, <1>5, <2>2
  <2> HIDE DEF lim
  <2>4. Heads(z, lim)
    <3> SUFFICES ASSUME NEW h \in Hashes PROVE heads[h] < hashOffset - delta + lim
      BY <1>11 DEF Heads
    <3>1. x.hashHead[h] \in Int /\ x.hashHead[h] < x.hashOffset + x.index
      BY <1>2, <1>14 DEF Coherent, Heads
    <3>2. x.hashHead[h] - delta < hashOffset - delta + lim
      BY <2>3, <3>1
    <3>3. QED
      BY <1>8, <2>2, <3>2
  <2>5. Prevs(z, lim)
    <3> SUFFICES ASSUME NEW i \in 0..(windowSize - 1) PROVE prevs[i] < hashOffset - delta + lim
      BY <1>11 DEF Prevs
    <3>1. x.hashPrev[i] \in Nat
      BY <1>2
    <3>2. x.hashPrev[i] < x.hashOffset + x.index
      BY <1>14 DEF Coherent, Prevs
    <3>3. x.hashPrev[i] - delta < hashOffset - delta + lim
      BY <2>3, <3>1, <3>2
    <3>4. QED
      BY <1>8, <2>2, <3>3
  <2>6. Chain(z, lim)
    <3>1. x.chainHead < x.hashOffset + x.index
      BY <1>14 DEF Coherent, Chain
    <3>2. x.chainHead - delta < hashOffset - delta + lim
      BY <1>2, <2>3, <3>1
    <3>3. QED
      BY <1>11, <3>2 DEF Chain
  <2>7. Held(z)
    <3> SUFFICES ASSUME z.length >= minMatchLength
                 PROVE  z.byteAvailable /\ Right(z, z.index - 1, z.length, z.offset)
      BY DEF Held
    <3> DEFINE i == x.index - 1
               len == x.length
               off == x.offset
    <3>1. x.byteAvailable /\ Right(x, i, len, off) /\ i \in Nat /\ i >= windowSize
      <4>1. x.length >= minMatchLength
        BY <1>11
      <4>2. x.byteAvailable /\ Right(x, i, len, off)
        BY <1>14, <4>1 DEF Coherent, Held
      <4>3. i \in Nat /\ i >= windowSize
        <5>1. x.index \in Nat /\ x.index >= windowSize + 1 /\ windowSize \in Nat
          BY <1>2, <1>3, Sizes
        <5>2. QED
          BY ONLY <5>1
      <4>4. QED
        BY <4>2, <4>3
    <3> HIDE DEF i, len, off
    <3>2. /\ len \in minMatchLength..maxMatchLength /\ off \in 1..windowSize
          /\ i - off >= -Len(x.gone) /\ i + len <= Len(x.window)
          /\ \A k \in 0..(len - 1) : at(x, i + k) = written(x, i - off + k)
      BY <1>2, <3>1 DEF Right
    <3>3. len \in Nat /\ off \in Nat /\ off >= 1 /\ off <= windowSize
      BY <3>2, Sizes
    <3> DEFINE e == i - windowSize
    <3>4. e \in Nat
      BY <3>1, Sizes
    <3>5. ASSUME NEW k \in 0..(len - 1) PROVE at(z, e + k) = written(z, e - off + k)
      <4>1. at(x, i + k) = written(x, i - off + k) /\ k \in Nat
        BY <3>2, <3>3
      <4> DEFINE p == i - off + k
                 q == e - off + k
      <4>2. p \in Nat /\ q \in Int /\ q = p - windowSize /\ p < i + k
        BY <3>1, <3>3, <4>1, Sizes
      <4>3. i + k < Len(x.window) /\ e + k + 1 \in 1..(Len(x.window) - windowSize)
            /\ windowSize + (e + k + 1) = i + k + 1
        <5>1. /\ Len(x.window) \in Nat /\ i \in Nat /\ len \in Nat /\ k \in 0..(len - 1)
              /\ windowSize \in Nat /\ e \in Nat /\ e = i - windowSize /\ i + len <= Len(x.window)
          BY <1>2, <3>1, <3>2, <3>3, <3>4, Sizes
        <5> HIDE DEF e
        <5>2. QED
          BY ONLY <5>1
      <4>4. at(z, e + k) = at(x, i + k)
        <5>1. window[e + k + 1] = x.window[windowSize + (e + k + 1)]
          BY <1>6, <4>3
        <5>2. QED
          BY <1>11, <4>3, <5>1 DEF at
      <4> HIDE DEF p, q, e
      <4>5. written(x, p) = at(x, p)
        BY <4>2 DEF written
      <4>6. written(z, q) = at(x, p)
        <5>1. CASE q >= 0
          <6>1. q + 1 \in 1..(Len(x.window) - windowSize) /\ windowSize + (q + 1) = p + 1
            <7>1. /\ i + k < Len(x.window) /\ Len(x.window) \in Nat /\ i \in Nat /\ k \in Nat
                  /\ windowSize \in Nat
              BY <1>2, <3>1, <4>1, <4>3, Sizes
            <7>2. QED
              BY ONLY <4>2, <5>1, <7>1
          <6>2. window[q + 1] = x.window[windowSize + (q + 1)]
            BY <1>6, <6>1
          <6>3. QED
            BY <1>11, <5>1, <6>1, <6>2 DEF written, at
        <5>2. CASE ~(q >= 0)
          <6>1. windowSize + q + 1 = p + 1 /\ p + 1 \in 1..windowSize
            BY <4>2, <5>2, Sizes
          <6>2. written(z, q) = gone[Len(gone) + q + 1]
            BY <1>11, <5>2 DEF written
          <6>3. gone[p + 1] = x.window[p + 1]
            BY <1>7, <6>1
          <6>4. QED
            BY <1>7, <6>1, <6>2, <6>3 DEF at
        <5>3. QED
          BY <5>1, <5>2
      <4>7. QED
        BY <4>1, <4>4, <4>5, <4>6 DEF p, q
    <3>6. e - off >= -Len(z.gone) /\ e + len <= windowEnd(z)
      <4>1. Len(z.gone) = windowSize
        BY <1>7, <1>11
      <4>2. windowEnd(z) = Len(x.window) - windowSize
        BY <1>2, <1>12
      <4>3. i + len <= Len(x.window) /\ Len(x.window) \in Nat /\ i \in Nat
        BY <1>2, <3>1, <3>2
      <4>4. e - off >= -windowSize
        BY <3>3, <3>4, Sizes
      <4>5. e + len <= Len(x.window) - windowSize
        BY <3>3, <4>3, Sizes
      <4>6. QED
        BY <4>1, <4>2, <4>4, <4>5
    <3> HIDE DEF e
    <3>7. Right(z, e, len, off)
      BY <3>2, <3>5, <3>6 DEF Right
    <3>8. z.index - 1 = e
      BY <1>2, <1>11, Sizes DEF e, i
    <3>9. QED
      BY <1>11, <3>1, <3>7, <3>8 DEF len, off
  <2>8. /\ z.tokens < maxFlateBlockTokens /\ z.index # 0
        /\ z.byteAvailable => z.index >= 1
        /\ z.tpos = IF z.byteAvailable THEN z.index - 1 ELSE z.index
    <3>1. x.tpos = IF x.byteAvailable THEN x.index - 1 ELSE x.index
      BY <1>14 DEF Coherent
    <3>2. z.tokens < maxFlateBlockTokens
      BY <1>11, <1>14 DEF Coherent
    <3>3. z.index > 0 /\ z.index \in Nat
      BY <1>3, <1>11
    <3>4. /\ x.byteAvailable => z.tpos = z.index - 1
          /\ ~x.byteAvailable => z.tpos = z.index
      BY <1>2, <1>11, <3>1, Sizes
    <3>5. z.byteAvailable = x.byteAvailable
      BY <1>11
    <3>6. z.tpos = IF z.byteAvailable THEN z.index - 1 ELSE z.index
      BY <3>4, <3>5
    <3>7. z.index >= 1 /\ z.index # 0
      BY <3>3
    <3>8. QED
      BY <3>2, <3>6, <3>7
  <2>9. QED
    BY <1>11, <1>13, <2>1, <2>4, <2>5, <2>6, <2>7, <2>8 DEF Coherent, lim
<1>15. QED
  BY <1>10, <1>11, <1>12, <1>13, <1>14 DEF z

\* A window with n bytes, all before index, and empty tables.
LEMMA FreshWindow ==
  ASSUME NEW w \in Seq(Byte), Len(w) <= windowSize
  PROVE  LET n == Len(w)
             x == [Fresh EXCEPT !.window = w, !.index = n, !.tpos = n, !.bpos = n, !.dict = n]
         IN /\ x \in Compressors /\ ~x.err /\ Coherent(x) /\ windowEnd(x) = n /\ x.index = n
<1> DEFINE n == Len(w)
           x == [Fresh EXCEPT !.window = w, !.index = n, !.tpos = n, !.bpos = n, !.dict = n]
<1>1. n \in Nat /\ n \in 0..windowSize /\ n \in Int
  BY Sizes
<1> HIDE DEF n
<1>2. x = [Fresh EXCEPT !.window = w, !.index = n, !.tpos = n, !.bpos = n, !.dict = n]
  OBVIOUS
<1>3. /\ 1 \in 1..maxHashOffset /\ 0 \in 0..maxFlateBlockTokens
      /\ minMatchLength - 1 \in (minMatchLength - 1)..maxMatchLength
      /\ [h \in Hashes |-> 0] \in [Hashes -> Nat]
      /\ [i \in 0..(windowSize - 1) |-> 0] \in [0..(windowSize - 1) -> Nat]
      /\ << >> \in Seq(Byte) /\ {} \in SUBSET {"dict"} /\ FALSE \in BOOLEAN
      /\ 0 \in Int /\ -1 \in Int /\ 0 \in Nat
  BY Sizes
<1> HIDE DEF x
<1>4. x \in Compressors
  <2>1. 0 \in 0..windowSize
    BY Sizes
  <2>2. Fresh \in Compressors
    BY ONLY <1>3, <2>1 DEF Compressors, Fresh
  <2>3. QED
    BY ONLY <1>1, <1>2, <2>2, w \in Seq(Byte) DEF Compressors
<1>5. /\ x.window = w /\ x.index = n /\ x.blockStart = 0 /\ x.hashOffset = 1
      /\ x.chainHead = -1 /\ x.length = minMatchLength - 1 /\ x.byteAvailable = FALSE
      /\ x.tokens = 0 /\ x.err = FALSE /\ x.tpos = n /\ x.bpos = n /\ x.dict = n
      /\ x.hashHead = [h \in Hashes |-> 0] /\ x.hashPrev = [i \in 0..(windowSize - 1) |-> 0]
  BY <1>2 DEF Fresh
<1>6. InWindow(x)
  BY <1>1, <1>5, Sizes DEF InWindow, windowEnd, n
<1>7. Tiled(x)
  <2>1. n - n = 0 /\ 0 <= 0 * maxMatchLength
    BY <1>1, Sizes
  <2>2. QED
    BY <1>5, <2>1 DEF Tiled
<1>8. Heads(x, n) /\ Prevs(x, n) /\ Chain(x, n)
  <2>1. 0 < 1 + n /\ -1 < 1 + n
    BY <1>1
  <2>2. QED
    BY <1>5, <2>1 DEF Heads, Prevs, Chain
<1>9. Held(x)
  BY <1>5, Sizes DEF Held
<1>10. Coherent(x)
  BY <1>5, <1>6, <1>7, <1>8, <1>9, Sizes DEF Coherent
<1>11. windowEnd(x) = n
  BY <1>5 DEF windowEnd, n
<1>12. QED
  BY <1>4, <1>5, <1>10, <1>11 DEF x, n

\* A compressor whose tables alone differ is as coherent.
LEMMA TablesOnly ==
  ASSUME NEW x, NEW y, Coherent(x), SameButTables(x, y), y.chainHead = x.chainHead,
         Heads(y, y.index), Prevs(y, y.index)
  PROVE  Coherent(y)
<1>1. /\ y.window = x.window /\ y.index = x.index /\ y.gone = x.gone /\ y.length = x.length
      /\ y.offset = x.offset /\ y.byteAvailable = x.byteAvailable /\ y.tokens = x.tokens
      /\ y.tpos = x.tpos /\ y.bpos = x.bpos /\ y.blockStart = x.blockStart /\ y.dict = x.dict
      /\ y.hashOffset = x.hashOffset
  BY DEF SameButTables
<1>2. Tiled(y) /\ InWindow(y) /\ Chain(y, y.index)
  BY <1>1 DEF Coherent, Tiled, InWindow, windowEnd, Chain
<1>3. Held(y)
  BY <1>1, RightSame DEF Coherent, Held
<1>4. QED
  BY <1>1, <1>2, <1>3 DEF Coherent

\* A dictionary fills the window and the tables, and has no token.
LEMMA FillWindowKeeps ==
  ASSUME NEW dict \in Seq(Byte)
  PROVE  LET z == fillWindow(dict)
         IN z \in Compressors /\ ~z.err /\ InWindow(z) /\ Coherent(z)
<1> DEFINE n == Min({Len(dict), windowSize})
           w == SubSeq(dict, Len(dict) - n + 1, Len(dict))
           x == [Fresh EXCEPT !.window = w, !.index = n, !.tpos = n, !.bpos = n, !.dict = n]
           loops == (n + BulkSize - minMatchLength) \div BulkSize
           bulkEnd(j) == Min({j * BulkSize + BulkSize + minMatchLength - 1, n})
           step(y, j) == enterAll(y, (j - 1) * BulkSize, bulkEnd(j - 1) - minMatchLength + 1)
           S == {y \in Compressors : /\ SameButTables(x, y) /\ y.chainHead = x.chainHead
                                     /\ Heads(y, n) /\ Prevs(y, n)}
           F == [k \in 1..loops |-> [y \in S |-> step(y, k)]]
           Eq(f) == f = [k \in 0..loops |-> IF k = 0 THEN x ELSE step(f[k - 1], k)]
           f == CHOOSE g : Eq(g)
<1>1. fillWindow(dict) = f[loops]
  BY DEF fillWindow
<1>2. BulkSize \in Nat /\ BulkSize >= minMatchLength /\ BulkSize > 0
  BY DeflateLazyAssumption, Sizes
<1>3. n \in Nat /\ n <= windowSize /\ n <= Len(dict) /\ Len(dict) \in Nat
  BY Sizes, MinOfTwo
<1> HIDE DEF n
<1>4. w \in Seq(Byte) /\ Len(w) = n
  <2>1. Len(dict) - n + 1 \in 1..(Len(dict) + 1)
    BY <1>3
  <2>2. w \in Seq(Byte)
    BY <1>3, <2>1
  <2>3. Len(w) = n
    BY <1>3, <2>1
  <2>4. QED
    BY <2>2, <2>3
<1> HIDE DEF w
<1>5. x \in Compressors /\ ~x.err /\ Coherent(x) /\ windowEnd(x) = n /\ x.index = n
  <2>1. Len(w) <= windowSize
    BY <1>3, <1>4
  <2> DEFINE m == Len(w)
             x1 == [Fresh EXCEPT !.window = w, !.index = m, !.tpos = m, !.bpos = m, !.dict = m]
  <2>2. x1 \in Compressors /\ ~x1.err /\ Coherent(x1) /\ windowEnd(x1) = m /\ x1.index = m
    BY <1>4, <2>1, FreshWindow
  <2>3. x1 = x /\ m = n
    BY <1>4
  <2> HIDE DEF x1, m, x
  <2>4. QED
    BY <2>2, <2>3
<1> HIDE DEF x
<1>6. loops \in Nat
  <2>1. n + BulkSize - minMatchLength \in Nat
    BY <1>2, <1>3, Sizes
  <2>2. QED
    BY <1>2, <2>1
<1> HIDE DEF loops
<1>7. x \in S
  <2>1. Heads(x, n) /\ Prevs(x, n)
    BY <1>5 DEF Coherent
  <2>2. QED
    BY <1>5, <2>1 DEF SameButTables
<1>8. ASSUME NEW k \in 1..loops, NEW y \in S PROVE step(y, k) \in S
  <2> DEFINE a == (k - 1) * BulkSize
             m == bulkEnd(k - 1)
             e == m - minMatchLength + 1
             u == enterAll(y, a, e)
  <2>1. a \in Nat
    <3>1. k - 1 \in Nat
      BY <1>6
    <3>2. QED
      BY <1>2, <3>1
  <2> HIDE DEF a
  <2>2. m \in Int /\ m <= n
    <3>1. m = Min({a + BulkSize + minMatchLength - 1, n})
      BY DEF a
    <3>2. a + BulkSize + minMatchLength - 1 \in Int /\ n \in Int
      BY <1>2, <1>3, <2>1, Sizes
    <3> DEFINE q == a + BulkSize + minMatchLength - 1
    <3> HIDE DEF q, m
    <3>3. m = Min({q, n}) /\ q \in Int
      BY <3>1, <3>2 DEF q
    <3>4. m = IF q <= n THEN q ELSE n
      BY <3>2, <3>3, MinOfTwo
    <3>5. QED
      BY <1>3, <3>3, <3>4
  <2>3. /\ y \in Compressors /\ SameButTables(x, y) /\ y.chainHead = x.chainHead
        /\ Heads(y, n) /\ Prevs(y, n)
    OBVIOUS
  <2> HIDE DEF m
  <2>4. windowEnd(y) = n
    BY <1>5, <2>3 DEF SameButTables, windowEnd
  <2>5. e \in Int /\ n \in Int /\ a \in Int
    BY <1>3, <2>1, <2>2, Sizes
  <2>6. a < e => a >= 0 /\ e + minMatchLength - 1 <= windowEnd(y) /\ e <= n
    BY SMTT(30), <1>3, <2>1, <2>2, <2>4, Sizes
  <2> HIDE DEF e, S
  <2>7. /\ u \in Compressors /\ SameButTables(y, u) /\ u.chainHead = y.chainHead
        /\ Heads(u, n) /\ Prevs(u, n)
    BY ONLY <2>3, <2>5, <2>6, EnterAllKeeps
  <2>8. step(y, k) = u
    BY DEF a, e, m
  <2> HIDE DEF u, step
  <2>9. SameButTables(x, u) /\ u.chainHead = x.chainHead
    BY <2>3, <2>7 DEF SameButTables
  <2>10. u \in S
    BY <2>7, <2>9 DEF S
  <2>11. QED
    BY <2>8, <2>10
<1> HIDE DEF step, S
<1>9. F \in StepsOn(loops, S)
  BY <1>8 DEF StepsOn
<1>10. PICK g \in ValuesIn(loops, S) : Solves(g, loops, x, F)
  <2> HIDE DEF F
  <2>1. QED
    BY ONLY <1>6, <1>7, <1>9, Recursion
<1>11. Eq(g)
  <2>1. ASSUME NEW k \in 0..loops
        PROVE  g[k] = IF k = 0 THEN x ELSE step(g[k - 1], k)
    <3>1. k # 0 => k \in 1..loops /\ g[k - 1] \in S
      BY <1>6 DEF ValuesIn
    <3>2. k # 0 => F[k][g[k - 1]] = step(g[k - 1], k)
      BY <3>1
    <3>3. QED
      BY <1>10, <3>2 DEF Solves
  <2>2. QED
    BY <2>1 DEF ValuesIn
<1> HIDE DEF F
<1>12. Eq(f)
  BY <1>11
<1> HIDE DEF f
<1>13. f[0] = x /\ \A k \in 1..loops : f[k] = step(f[k - 1], k)
  BY <1>6, <1>12
<1> DEFINE P == {k \in 0..loops : f[k] \in S}
<1>14. 0 \in P
  BY <1>6, <1>7, <1>13
<1>15. \A k \in 1..loops : k - 1 \in P => k \in P
  <2> SUFFICES ASSUME NEW k \in 1..loops, k - 1 \in P PROVE k \in P
    OBVIOUS
  <2>1. f[k - 1] \in S
    OBVIOUS
  <2>2. f[k] \in S
    BY <2>1, <1>8, <1>13
  <2>3. QED
    BY <2>2, <1>6
<1>16. loops \in P
  <2> HIDE DEF P
  <2>1. \A k \in 0..loops : k \in P
    BY ONLY <1>6, <1>14, <1>15, UpTo
  <2>2. QED
    BY <2>1, <1>6
<1> DEFINE z == f[loops]
<1>17. /\ z \in Compressors /\ SameButTables(x, z) /\ z.chainHead = x.chainHead
       /\ Heads(z, n) /\ Prevs(z, n)
  BY <1>16 DEF S
<1> HIDE DEF z
<1>18. z.index = n /\ z.err = x.err
  BY <1>5, <1>17 DEF SameButTables
<1>19. Coherent(z)
  BY <1>5, <1>17, <1>18, TablesOnly
<1>20. QED
  BY <1>1, <1>5, <1>17, <1>18, <1>19 DEF z, Coherent

-----------------------------------------------------------------------------
(* The steps.                                                              *)

\* What is left of the compressor without maxInsertIndex and err.
SameRest(x, u) ==
  /\ u.window = x.window /\ u.index = x.index /\ u.blockStart = x.blockStart
  /\ u.hashOffset = x.hashOffset /\ u.hashHead = x.hashHead /\ u.hashPrev = x.hashPrev
  /\ u.chainHead = x.chainHead /\ u.length = x.length /\ u.offset = x.offset
  /\ u.byteAvailable = x.byteAvailable /\ u.tokens = x.tokens
  /\ u.tpos = x.tpos /\ u.bpos = x.bpos /\ u.dict = x.dict /\ u.gone = x.gone

\* maxInsertIndex and err do not matter to it.
LEMMA RestKeeps ==
  ASSUME NEW x, NEW u, SameRest(x, u)
  PROVE  /\ windowEnd(u) = windowEnd(x) /\ u.index = x.index
         /\ InWindow(x) => InWindow(u)
         /\ Coherent(x) => Coherent(u)
         /\ Taken(x) => Taken(u)
<1>1. windowEnd(u) = windowEnd(x) /\ u.index = x.index
  BY DEF SameRest, windowEnd
<1>2. InWindow(x) => InWindow(u)
  BY <1>1 DEF InWindow
<1>3. Coherent(x) => Coherent(u)
  <2> SUFFICES ASSUME Coherent(x) PROVE Coherent(u)
    OBVIOUS
  <2>1. Held(u)
    BY RightSame DEF Coherent, Held, SameRest
  <2>2. Tiled(u) /\ Heads(u, u.index) /\ Prevs(u, u.index) /\ Chain(u, u.index) /\ InWindow(u)
    BY <1>2 DEF Coherent, Tiled, Heads, Prevs, Chain, SameRest
  <2>3. QED
    BY <2>1, <2>2 DEF Coherent, SameRest
<1>4. Taken(x) => Taken(u)
  BY <1>1 DEF Taken, SameRest
<1>5. QED
  BY <1>1, <1>2, <1>3, <1>4

\* deflateLazy is entered: maxInsertIndex is set.
LEMMA InsertIndexSame ==
  ASSUME NEW x \in Compressors, NEW m \in Int
  PROVE  LET y == [x EXCEPT !.maxInsertIndex = m]
         IN y \in Compressors /\ y.err = x.err /\ y.maxInsertIndex = m /\ SameRest(x, y)
BY DEF Compressors, SameRest

\* The marker of a flush has failed.
LEMMA ErrSame ==
  ASSUME NEW x \in Compressors, NEW e \in BOOLEAN
  PROVE  LET z == [x EXCEPT !.err = e]
         IN z \in Compressors /\ z.err = e /\ SameRest(x, z)
BY DEF Compressors, SameRest

\* At first nothing is in the window.
LEMMA InitIInv == Init => IInv
<1> SUFFICES ASSUME Init PROVE IInv
  OBVIOUS
<1>1. d = Fresh /\ sync = FALSE /\ pc = "idle" /\ call = [kind |-> "Reset", left |-> << >>, ret |-> "nil"]
  BY DEF Init
<1>2. Fresh \in Compressors /\ Coherent(Fresh)
  <2> DEFINE w == << >>
             n == Len(w)
             x == [Fresh EXCEPT !.window = w, !.index = n, !.tpos = n, !.bpos = n, !.dict = n]
  <2>1. w \in Seq(Byte) /\ Len(w) = 0 /\ 0 <= windowSize
    BY Sizes
  <2> HIDE DEF w
  <2>2. x \in Compressors /\ Coherent(x)
    BY <2>1, FreshWindow
  <2>3. x = Fresh
    <3>1. ASSUME NEW f \in Compressors, f.window = w, f.index = n, f.tpos = n, f.bpos = n, f.dict = n
          PROVE  [f EXCEPT !.window = w, !.index = n, !.tpos = n, !.bpos = n, !.dict = n] = f
      <4> HIDE DEF n
      <4>1. QED
        BY <3>1 DEF Compressors
    <3>2. n = 0
      BY <2>1
    <3>3. /\ Fresh.window = w /\ Fresh.index = 0 /\ Fresh.tpos = 0 /\ Fresh.bpos = 0
          /\ Fresh.dict = 0
      BY DEF Fresh, w
    <3>4. Fresh \in Compressors
      <4>1. /\ 1 \in 1..maxHashOffset /\ 0 \in 0..maxFlateBlockTokens /\ 0 \in 0..windowSize
            /\ minMatchLength - 1 \in (minMatchLength - 1)..maxMatchLength
            /\ [h \in Hashes |-> 0] \in [Hashes -> Nat]
            /\ [i \in 0..(windowSize - 1) |-> 0] \in [0..(windowSize - 1) -> Nat]
            /\ << >> \in Seq(Byte) /\ {} \in SUBSET {"dict"} /\ FALSE \in BOOLEAN
            /\ 0 \in Int /\ -1 \in Int /\ 0 \in Nat
        BY Sizes
      <4>2. QED
        BY ONLY <4>1 DEF Compressors, Fresh
    <3> HIDE DEF n
    <3>5. QED
      BY <3>1, <3>2, <3>3, <3>4
  <2> HIDE DEF x
  <2>4. QED
    BY <2>2, <2>3
<1>3. Sane(d)
  BY <1>1, <1>2 DEF Sane, Coherent
<1>4. Calls
  <2>1. << >> \in Seq(Byte)
    OBVIOUS
  <2>2. QED
    BY <1>1, <2>1 DEF Calls
<1>5. Places /\ FlushTakesAll
  BY <1>1 DEF Places, FlushTakesAll
<1>6. QED
  BY <1>3, <1>4, <1>5 DEF IInv

\* What the invariant says, with the names of the steps below.
LEMMA Known ==
  ASSUME IInv
  PROVE  /\ d \in Compressors /\ InWindow(d) /\ (~d.err => Coherent(d))
         /\ d.index \in Nat /\ windowEnd(d) \in Nat /\ d.index <= windowEnd(d)
         /\ windowEnd(d) <= 2 * windowSize /\ d.err \in BOOLEAN
         /\ windowEnd(d) - (minMatchLength - 1) \in Int
         /\ sync \in BOOLEAN
         /\ call \in [kind : {"Write", "Flush", "Close", "Reset"}, left : Seq(Byte),
                      ret : {"running", "nil", "err"}]
<1>1. d \in Compressors /\ InWindow(d) /\ (~d.err => Coherent(d))
  BY DEF IInv, Sane
<1>2. d.index \in Nat /\ windowEnd(d) \in Nat /\ d.err \in BOOLEAN
  BY <1>1 DEF Compressors, windowEnd
<1>3. d.index <= windowEnd(d) /\ windowEnd(d) <= 2 * windowSize
  BY <1>1 DEF InWindow
<1>4. windowEnd(d) - (minMatchLength - 1) \in Int
  BY <1>2, Sizes
<1>5. /\ sync \in BOOLEAN
      /\ call \in [kind : {"Write", "Flush", "Close", "Reset"}, left : Seq(Byte),
                   ret : {"running", "nil", "err"}]
  BY DEF IInv, Calls
<1>6. QED
  BY <1>1, <1>2, <1>3, <1>4, <1>5

\* Write is called.
LEMMA WriteStep ==
  ASSUME IInv, NEW seg \in Segments, Write(seg)
  PROVE  IInv'
<1>1. d' = d /\ sync' = sync
  BY DEF Write
<1>2. /\ call' = [kind |-> "Write", left |-> seg,
                  ret |-> IF d.err THEN "err" ELSE IF seg = << >> THEN "nil" ELSE "running"]
      /\ pc' = IF call'.ret = "running" THEN "write" ELSE "idle"
  BY DEF Write
<1>3. seg \in Seq(Byte)
  BY DeflateLazyAssumption
<1>4. /\ call'.kind = "Write" /\ call'.left = seg /\ call'.ret \in {"running", "nil", "err"}
      /\ call'.ret = "running" => ~d.err
  BY <1>2
<1>5. Sane(d')
  BY <1>1 DEF IInv
<1>6. Calls'
  <2>1. call' \in [kind : {"Write", "Flush", "Close", "Reset"}, left : Seq(Byte),
                   ret : {"running", "nil", "err"}]
    BY <1>2, <1>3
  <2>2. QED
    BY <1>1, <1>2, <1>4, <2>1, Known DEF Calls
<1>7. Places'
  BY <1>1, <1>2, <1>4 DEF Places
<1>8. FlushTakesAll'
  BY <1>4 DEF FlushTakesAll
<1>9. QED
  BY <1>5, <1>6, <1>7, <1>8 DEF IInv

\* write enters deflateLazy, or not, for too little input.
LEMMA EnterStep ==
  ASSUME IInv, writeStep
  PROVE  IInv'
<1>1. /\ pc = "write" /\ sync' = sync /\ call' = call /\ ~d.err /\ call.kind = "Write"
  BY DEF writeStep, IInv, Places
<1>2. FlushTakesAll'
  BY <1>1 DEF FlushTakesAll
<1>3. CASE windowEnd(d) - d.index < minMatchLength + maxMatchLength /\ ~sync
  <2>1. pc' = "fill" /\ d' = d
    BY <1>3 DEF writeStep, enterStep
  <2>2. Sane(d')
    BY <2>1 DEF IInv
  <2>3. Calls'
    BY <1>1, <2>1 DEF IInv, Calls
  <2>4. windowEnd(d') - d'.index < minMatchLength + maxMatchLength
    BY <1>3, <2>1
  <2>5. Places'
    BY <1>1, <2>1, <2>4 DEF Places
  <2>6. QED
    BY <1>2, <2>2, <2>3, <2>5 DEF IInv
<1>4. CASE ~(windowEnd(d) - d.index < minMatchLength + maxMatchLength /\ ~sync)
  <2> DEFINE m == windowEnd(d) - (minMatchLength - 1)
             y == [d EXCEPT !.maxInsertIndex = m]
  <2>1. pc' = "lazy" /\ d' = y
    BY <1>4 DEF writeStep, enterStep
  <2>2. m \in Int /\ d \in Compressors /\ d.err \in BOOLEAN /\ InWindow(d) /\ Coherent(d)
    BY <1>1, Known
  <2> HIDE DEF m
  <2>3. /\ y \in Compressors /\ windowEnd(y) = windowEnd(d) /\ y.err = d.err
        /\ y.maxInsertIndex = m /\ InWindow(y) /\ Coherent(y)
    <3>1. y \in Compressors /\ y.err = d.err /\ y.maxInsertIndex = m /\ SameRest(d, y)
      BY <2>2, InsertIndexSame
    <3> HIDE DEF y
    <3>2. QED
      BY <2>2, <3>1, RestKeeps
  <2> HIDE DEF y
  <2>4. Sane(d')
    BY <2>1, <2>3 DEF Sane
  <2>5. Calls'
    BY <1>1, <2>1 DEF IInv, Calls
  <2>6. ~d'.err /\ d'.maxInsertIndex = windowEnd(d') - (minMatchLength - 1)
    BY <1>1, <2>1, <2>3 DEF m
  <2>7. Places'
    BY <1>1, <2>1, <2>6 DEF Places
  <2>8. QED
    BY <1>2, <2>4, <2>5, <2>7 DEF IInv
<1>5. QED
  BY <1>3, <1>4

\* What fillDeflate does, for this step and for what write gains by it.
LEMMA Filling ==
  ASSUME IInv, fill
  PROVE  /\ Sane(d') /\ d'.err = d.err /\ sync' = sync
         /\ call' \in [kind : {"Write", "Flush", "Close", "Reset"}, left : Seq(Byte),
                       ret : {"running", "nil", "err"}]
         /\ call'.kind = "Write"
         /\ call'.ret = "running" => ~d.err /\ Len(call'.left) < Len(call.left)
         /\ pc' = IF call'.ret = "running" THEN "write" ELSE "idle"
<1> DEFINE x == IF slides(d) THEN slide(d) ELSE d
           left == call.left
           n == Min({Len(left), 2 * windowSize - windowEnd(x)})
           s == SubSeq(left, 1, n)
           rest == SubSeq(left, n + 1, Len(left))
           ret == IF d.err THEN "err" ELSE IF n = Len(left) THEN "nil" ELSE "running"
           z == [x EXCEPT !.window = @ \o s]
<1>1. /\ d' = z
      /\ call' = [call EXCEPT !.left = rest, !.ret = ret]
      /\ pc' = IF call'.ret = "running" THEN "write" ELSE "idle"
      /\ sync' = sync
  BY DEF fill
<1>2. /\ d \in Compressors /\ InWindow(d) /\ (~d.err => Coherent(d)) /\ d.err \in BOOLEAN
      /\ d.index \in Nat /\ windowEnd(d) \in Nat /\ d.index <= windowEnd(d)
      /\ windowEnd(d) <= 2 * windowSize
      /\ call \in [kind : {"Write", "Flush", "Close", "Reset"}, left : Seq(Byte),
                   ret : {"running", "nil", "err"}]
  BY Known
<1>3. call.kind = "Write"
  BY DEF fill, IInv, Places
<1>4. /\ x \in Compressors /\ InWindow(x) /\ x.err = d.err /\ (~d.err => Coherent(x))
      /\ windowEnd(x) = IF slides(d) THEN windowEnd(d) - windowSize ELSE windowEnd(d)
  <2>1. CASE slides(d)
    <3> DEFINE u == slide(d)
    <3>1. x = u
      BY <2>1
    <3>2. /\ u \in Compressors /\ InWindow(u) /\ u.err = d.err
          /\ windowEnd(u) = windowEnd(d) - windowSize /\ (Coherent(d) => Coherent(u))
      BY <1>2, <2>1, SlideKeeps
    <3> HIDE DEF u, x
    <3>3. QED
      BY <1>2, <2>1, <3>1, <3>2
  <2>2. CASE ~slides(d)
    BY <1>2, <2>2
  <2>3. QED
    BY <2>1, <2>2
<1> HIDE DEF x
<1>5. windowEnd(x) \in Nat /\ windowEnd(x) <= 2 * windowSize
  BY SMTT(30), <1>4 DEF Compressors, windowEnd, InWindow
<1>6. left \in Seq(Byte) /\ Len(left) \in Nat
  BY <1>2
<1> HIDE DEF left
<1>7. /\ n \in Nat /\ n <= Len(left) /\ windowEnd(x) + n <= 2 * windowSize
      /\ n = Len(left) \/ n = 2 * windowSize - windowEnd(x)
  BY <1>5, <1>6, Sizes, MinOfTwo
<1> HIDE DEF n
<1>8. s \in Seq(Byte) /\ Len(s) = n
  BY <1>6, <1>7
<1>9. rest \in Seq(Byte) /\ Len(rest) = Len(left) - n
  BY <1>6, <1>7
<1> HIDE DEF s, rest
<1>10. z \in Compressors /\ InWindow(z) /\ z.err = d.err /\ (~d.err => Coherent(z))
  <2>1. windowEnd(x) + Len(s) <= 2 * windowSize
    BY <1>7, <1>8
  <2>2. /\ z \in Compressors /\ InWindow(z) /\ z.err = x.err /\ (Coherent(x) => Coherent(z))
    BY <1>4, <1>8, <2>1, AppendKeeps
  <2> HIDE DEF z
  <2>3. QED
    BY <1>4, <2>2
<1> HIDE DEF z
<1>11. Sane(d') /\ d'.err = d.err
  BY <1>1, <1>10 DEF Sane
<1>12. ret \in {"running", "nil", "err"} /\ (ret = "running" => ~d.err /\ n # Len(left))
  OBVIOUS
<1> HIDE DEF ret
<1>13. /\ call'.kind = "Write" /\ call'.left = rest /\ call'.ret = ret
       /\ call' \in [kind : {"Write", "Flush", "Close", "Reset"}, left : Seq(Byte),
                     ret : {"running", "nil", "err"}]
  BY <1>1, <1>2, <1>3, <1>9, <1>12
<1>14. ret = "running" => n > 0
  <2> SUFFICES ASSUME ret = "running" PROVE n > 0
    OBVIOUS
  <2>1. ~d.err /\ n = 2 * windowSize - windowEnd(x)
    BY <1>7, <1>12
  <2>2. windowEnd(x) < 2 * windowSize
    <3>1. CASE slides(d)
      BY <1>2, <1>4, <3>1, Sizes
    <3>2. CASE ~slides(d)
      <4>1. windowEnd(x) = windowEnd(d)
        BY <1>4, <3>2
      <4>2. CASE pc = "fill"
        <5>1. windowEnd(d) - d.index < minMatchLength + maxMatchLength
          BY <2>1, <4>2 DEF IInv, Places
        <5>2. d.index < 2 * windowSize - (minMatchLength + maxMatchLength)
          BY <1>2, <3>2, Sizes DEF slides
        <5>3. QED
          BY <1>2, <4>1, <5>1, <5>2, Sizes
      <4>3. CASE pc # "fill"
        <5>1. ~(windowEnd(d) = 2 * windowSize \/ sync)
          BY <4>3 DEF fill
        <5>2. QED
          BY <1>2, <4>1, <5>1, Sizes
      <4>4. QED
        BY <4>2, <4>3
    <3>3. QED
      BY <3>1, <3>2
  <2>3. QED
    BY <1>5, <2>1, <2>2, Sizes
<1>15. ret = "running" => Len(call'.left) < Len(left)
  BY <1>6, <1>7, <1>9, <1>13, <1>14
<1>16. QED
  BY <1>1, <1>11, <1>12, <1>13, <1>15 DEF left

\* write fills the window.
LEMMA FillStep ==
  ASSUME IInv, fill
  PROVE  IInv'
<1>1. /\ Sane(d') /\ d'.err = d.err /\ sync' = sync
      /\ call' \in [kind : {"Write", "Flush", "Close", "Reset"}, left : Seq(Byte),
                    ret : {"running", "nil", "err"}]
      /\ call'.kind = "Write" /\ (call'.ret = "running" => ~d.err)
      /\ pc' = IF call'.ret = "running" THEN "write" ELSE "idle"
  BY Filling
<1>2. Calls'
  BY <1>1, Known DEF Calls
<1>3. Places'
  BY <1>1 DEF Places
<1>4. FlushTakesAll'
  BY <1>1 DEF FlushTakesAll
<1>5. QED
  BY <1>1, <1>2, <1>3, <1>4 DEF IInv

\* What an iteration does, for this step and for where it gets.
LEMMA Iterating ==
  ASSUME IInv, NEW c \in Outcomes, NEW refused \in Refusals, lazyLoop(c, refused)
  PROVE  /\ Sane(d') /\ sync' = sync /\ call' = call
         /\ pc' \in {"lazy", "fill", "stepped"}
         /\ pc' = "lazy" => /\ ~d'.err /\ d'.index > d.index
                            /\ d'.maxInsertIndex = windowEnd(d') - (minMatchLength - 1)
                            /\ call.kind = "Write" \/ sync
         /\ pc' = "fill" => /\ call.kind = "Write"
                            /\ d'.err \/ windowEnd(d') - d'.index < minMatchLength + maxMatchLength
         /\ pc' = "stepped" => call.kind \in {"Flush", "Close"} /\ (d'.err \/ Taken(d'))
<1> DEFINE lookahead == windowEnd(d) - d.index
           short == lookahead < minMatchLength + maxMatchLength
           f == flushTokens(d, c)
           z == search(d, c, refused)
<1>1. /\ d \in Compressors /\ InWindow(d) /\ d.index \in Nat /\ windowEnd(d) \in Nat
      /\ d.index <= windowEnd(d) /\ sync \in BOOLEAN
  BY Known
<1>2. pc = "lazy" /\ sync' = sync /\ call' = call
  BY DEF lazyLoop
<1>3. /\ ~d.err /\ Coherent(d) /\ d.maxInsertIndex = windowEnd(d) - (minMatchLength - 1)
      /\ call.kind \in {"Write", "Flush", "Close"} /\ (call.kind = "Write" \/ sync)
  <2>1. /\ ~d.err /\ d.maxInsertIndex = windowEnd(d) - (minMatchLength - 1)
        /\ call.kind \in {"Write", "Flush", "Close"} /\ (call.kind = "Write" \/ sync)
    BY <1>2 DEF IInv, Places
  <2>2. QED
    BY <2>1, Known
<1>4. CASE short /\ (~sync \/ lookahead = 0)
  <2>1. /\ d' = IF sync THEN f ELSE d
        /\ pc' = IF call.kind = "Write" THEN "fill" ELSE "stepped"
    BY <1>4 DEF lazyLoop
  <2>2. CASE sync
    <3>1. d.index = windowEnd(d)
      BY <1>1, <1>4, <2>2
    <3>2. /\ f \in Compressors /\ InWindow(f) /\ f.window = d.window /\ f.index = d.index
          /\ ~f.err => Coherent(f) /\ Taken(f)
      BY <1>1, <1>3, <3>1, FlushTokensKeeps
    <3> HIDE DEF f
    <3>3. d' = f
      BY <2>1, <2>2
    <3>4. windowEnd(f) - f.index < minMatchLength + maxMatchLength
      BY <1>4, <3>2 DEF windowEnd
    <3>5. Sane(f)
      BY <3>2 DEF Sane
    <3>6. QED
      BY <1>2, <1>3, <2>1, <3>2, <3>3, <3>4, <3>5
  <2>3. CASE ~sync
    <3>1. d' = d /\ pc' = "fill" /\ call.kind = "Write"
      BY <1>3, <2>1, <2>3
    <3>2. Sane(d)
      BY DEF IInv
    <3>3. QED
      BY <1>2, <1>4, <3>1, <3>2
  <2>4. QED
    BY <2>2, <2>3
<1>5. CASE ~(short /\ (~sync \/ lookahead = 0))
  <2>1. /\ d' = z
        /\ pc' = IF ~d'.err THEN "lazy" ELSE IF call.kind = "Write" THEN "fill" ELSE "stepped"
    BY <1>5 DEF lazyLoop
  <2>2. d.index < windowEnd(d)
    BY <1>1, <1>5, Sizes
  <2>3. /\ z \in Compressors /\ InWindow(z) /\ (~z.err => z.index > d.index)
        /\ z.window = d.window /\ z.maxInsertIndex = d.maxInsertIndex
        /\ ~z.err => Coherent(z)
    BY <1>1, <1>3, <2>2, SearchKeeps
  <2> HIDE DEF z
  <2>4. Sane(z) /\ z.maxInsertIndex = windowEnd(z) - (minMatchLength - 1)
    BY <1>3, <2>3 DEF Sane, windowEnd
  <2>5. CASE ~z.err
    BY <1>2, <1>3, <2>1, <2>3, <2>4, <2>5
  <2>6. CASE z.err
    BY <1>2, <1>3, <2>1, <2>4, <2>6
  <2>7. QED
    BY <2>5, <2>6
<1>6. QED
  BY <1>4, <1>5

\* An iteration of deflateLazy.
LEMMA LazyStep ==
  ASSUME IInv, NEW c \in Outcomes, NEW refused \in Refusals, lazyLoop(c, refused)
  PROVE  IInv'
<1>1. pc = "lazy" /\ call.kind \in {"Write", "Flush", "Close"}
  BY DEF lazyLoop, IInv, Places
<1>2. /\ Sane(d') /\ sync' = sync /\ call' = call
      /\ pc' \in {"lazy", "fill", "stepped"}
      /\ pc' = "lazy" => /\ ~d'.err
                         /\ d'.maxInsertIndex = windowEnd(d') - (minMatchLength - 1)
                         /\ call.kind = "Write" \/ sync
      /\ pc' = "fill" => /\ call.kind = "Write"
                         /\ d'.err \/ windowEnd(d') - d'.index < minMatchLength + maxMatchLength
      /\ pc' = "stepped" => call.kind \in {"Flush", "Close"} /\ (d'.err \/ Taken(d'))
  BY Iterating
<1>3. Calls'
  BY <1>2 DEF IInv, Calls
<1>4. Places'
  BY <1>1, <1>2 DEF Places
<1>5. FlushTakesAll'
  BY <1>2 DEF FlushTakesAll
<1>6. QED
  BY <1>2, <1>3, <1>4, <1>5 DEF IInv

\* Flush or Close is called.
LEMMA FlushStep ==
  ASSUME IInv, NEW kind \in {"Flush", "Close"}, Flush(kind)
  PROVE  IInv'
<1>1. /\ sync' = (sync \/ kind = "Flush" \/ ~d.err)
      /\ call' = [kind |-> kind, left |-> << >>, ret |-> IF d.err THEN "err" ELSE "running"]
      /\ pc = "idle"
  BY DEF Flush
<1>2. sync' \in BOOLEAN
  BY <1>1
<1>3. call' \in [kind : {"Write", "Flush", "Close", "Reset"}, left : Seq(Byte),
                 ret : {"running", "nil", "err"}]
  <2>1. << >> \in Seq(Byte)
    OBVIOUS
  <2>2. QED
    BY <1>1, <2>1
<1>4. call'.kind = kind /\ call'.ret = IF d.err THEN "err" ELSE "running"
  BY <1>1
<1>5. FlushTakesAll'
  BY <1>4 DEF FlushTakesAll
<1>6. CASE d.err
  <2>1. d' = d /\ pc' = pc
    BY <1>6 DEF Flush
  <2>2. Sane(d')
    BY <2>1 DEF IInv
  <2>3. Calls'
    BY <1>1, <1>2, <1>3, <1>4, <2>1 DEF Calls
  <2>4. Places'
    BY <1>1, <1>4, <1>6, <2>1 DEF Places
  <2>5. QED
    BY <1>5, <2>2, <2>3, <2>4 DEF IInv
<1>7. CASE ~d.err
  <2> DEFINE m == windowEnd(d) - (minMatchLength - 1)
             y == [d EXCEPT !.maxInsertIndex = m]
  <2>1. pc' = "lazy" /\ d' = y
    BY <1>7 DEF Flush
  <2>2. m \in Int /\ d \in Compressors /\ InWindow(d) /\ Coherent(d)
    BY <1>7, Known
  <2> HIDE DEF m
  <2>3. y \in Compressors /\ y.err = d.err /\ y.maxInsertIndex = m /\ SameRest(d, y)
    BY <2>2, InsertIndexSame
  <2> HIDE DEF y
  <2>4. windowEnd(y) = windowEnd(d) /\ InWindow(y) /\ Coherent(y)
    BY <2>2, <2>3, RestKeeps
  <2>5. Sane(d')
    BY <2>1, <2>3, <2>4 DEF Sane
  <2>6. Calls'
    BY <1>2, <1>3, <1>4, <2>1 DEF Calls
  <2>7. ~d'.err /\ d'.maxInsertIndex = windowEnd(d') - (minMatchLength - 1) /\ sync'
    BY <1>1, <1>7, <2>1, <2>3, <2>4 DEF m
  <2>8. Places'
    BY <1>4, <2>1, <2>7 DEF Places
  <2>9. QED
    BY <1>5, <2>5, <2>6, <2>8 DEF IInv
<1>8. QED
  BY <1>6, <1>7

\* Flush or Close has written its marker or its last block.
LEMMA FlushedStep ==
  ASSUME IInv, NEW ok \in BOOLEAN, flushed(ok)
  PROVE  IInv'
<1> DEFINE e == IF call.kind = "Flush" THEN d.err \/ ~ok ELSE d.err
           z == [d EXCEPT !.err = e]
           ret == IF d.err \/ ~ok THEN "err" ELSE "nil"
<1>1. /\ pc = "stepped" /\ d' = z /\ sync' = (call.kind = "Close")
      /\ call' = [call EXCEPT !.ret = ret] /\ pc' = "idle"
  BY DEF flushed, return
<1>2. d \in Compressors /\ InWindow(d) /\ (~d.err => Coherent(d)) /\ d.err \in BOOLEAN
  BY Known
<1>3. call.kind \in {"Flush", "Close"} /\ (d.err \/ Taken(d))
  BY <1>1 DEF IInv, Places
<1>4. e \in BOOLEAN /\ (~e => ~d.err)
  <2>1. (d.err \/ ~ok) \in BOOLEAN
    BY Zenon
  <2>2. QED
    BY <1>2, <2>1
<1>5. ret \in {"err", "nil"} /\ (ret = "nil" => ~d.err)
  OBVIOUS
<1> HIDE DEF e, ret
<1>6. z \in Compressors /\ z.err = e /\ SameRest(d, z)
  BY <1>2, <1>4, ErrSame
<1> HIDE DEF z
<1>7. InWindow(z) /\ (Coherent(d) => Coherent(z)) /\ (Taken(d) => Taken(z))
  BY <1>2, <1>6, RestKeeps
<1>8. Sane(d')
  BY <1>1, <1>2, <1>4, <1>6, <1>7 DEF Sane
<1>9. /\ call' \in [kind : {"Write", "Flush", "Close", "Reset"}, left : Seq(Byte),
                    ret : {"running", "nil", "err"}]
      /\ call'.kind = call.kind /\ call'.ret = ret
  BY <1>1, <1>5, Known
<1>10. Calls'
  BY <1>1, <1>9, Known DEF Calls
<1>11. Places'
  BY <1>1, <1>5, <1>9 DEF Places
<1>12. FlushTakesAll'
  <2>1. call'.ret = "nil" => Taken(d')
    BY <1>1, <1>3, <1>5, <1>7, <1>9
  <2>2. QED
    BY <2>1 DEF FlushTakesAll, Taken
<1>13. QED
  BY <1>8, <1>10, <1>11, <1>12 DEF IInv

\* The Writer is reset, to a dictionary or to none.
LEMMA ResetStep ==
  ASSUME IInv, NEW dict \in Dicts, Reset(dict)
  PROVE  IInv'
<1> DEFINE z == fillWindow(dict)
<1>1. /\ d' = z /\ sync' = FALSE /\ pc = "idle" /\ pc' = pc
      /\ call' = [kind |-> "Reset", left |-> dict, ret |-> "nil"]
  BY DEF Reset
<1>2. dict \in Seq(Byte)
  BY DeflateLazyAssumption
<1>3. z \in Compressors /\ ~z.err /\ InWindow(z) /\ Coherent(z)
  BY <1>2, FillWindowKeeps
<1> HIDE DEF z
<1>4. Sane(d')
  BY <1>1, <1>3 DEF Sane
<1>5. Calls'
  BY <1>1, <1>2 DEF Calls
<1>6. Places'
  BY <1>1 DEF Places
<1>7. FlushTakesAll'
  BY <1>1 DEF FlushTakesAll
<1>8. QED
  BY <1>4, <1>5, <1>6, <1>7 DEF IInv

\* Every step keeps the invariant.
LEMMA NextIInv == IInv /\ [Next]_vars => IInv'
<1> SUFFICES ASSUME IInv, [Next]_vars PROVE IInv'
  OBVIOUS
<1>1. CASE writeStep
  BY <1>1, EnterStep
<1>2. CASE fill
  BY <1>2, FillStep
<1>3. ASSUME NEW c \in Outcomes, NEW refused \in Refusals, lazyLoop(c, refused) PROVE IInv'
  BY <1>3, LazyStep
<1>4. ASSUME NEW ok \in BOOLEAN, flushed(ok) PROVE IInv'
  BY <1>4, FlushedStep
<1>5. ASSUME NEW seg \in Segments, Write(seg) PROVE IInv'
  BY <1>5, WriteStep
<1>6. ASSUME NEW kind \in {"Flush", "Close"}, Flush(kind) PROVE IInv'
  BY <1>6, FlushStep
<1>7. ASSUME NEW dict \in Dicts, Reset(dict) PROVE IInv'
  BY <1>7, ResetStep
<1>8. CASE Done \/ UNCHANGED vars
  <2>1. UNCHANGED vars
    BY <1>8 DEF Done
  <2>2. d' = d /\ sync' = sync /\ call' = call /\ pc' = pc
    BY <2>1 DEF vars
  <2>3. Sane(d')
    BY <2>2 DEF IInv
  <2>4. Calls' /\ Places'
    BY <2>2 DEF IInv, Calls, Places
  <2>5. FlushTakesAll'
    BY <2>2 DEF IInv, FlushTakesAll
  <2>6. QED
    BY <2>3, <2>4, <2>5 DEF IInv
<1>9. QED
  BY <1>1, <1>2, <1>3, <1>4, <1>5, <1>6, <1>7, <1>8 DEF Next, Step

\* The invariant holds of every state.
LEMMA Invariance == Spec => []IInv
<1>1. QED
  BY InitIInv, NextIInv, PTL DEF Spec

-----------------------------------------------------------------------------
(* What holds of every behaviour, for every window, alphabet, hash and level. *)

\* The limits of the state: index stays in the window ("index > windowEnd" in
\* deflateLazy is unreachable), a block never has more tokens than were allocated,
\* and a held match is one a token can express.
THEOREM TypesHold == Spec => []TypeOK
<1>1. ASSUME IInv PROVE TypeOK
  <2>1. d \in Compressors /\ InWindow(d) /\ Calls
    BY <1>1 DEF IInv, Sane
  <2>2. d.index \in Nat /\ windowEnd(d) \in Nat /\ d.index <= windowEnd(d) /\ windowEnd(d) <= 2 * windowSize
    BY <1>1, Known
  <2>3. /\ d.tokens \in 0..maxFlateBlockTokens /\ d.length \in (minMatchLength - 1)..maxMatchLength
        /\ d.hashOffset \in 1..maxHashOffset
    BY <2>1 DEF Compressors
  <2>4. windowEnd(d) \in 0..(2 * windowSize) /\ d.index \in 0..windowEnd(d)
    BY <2>2, Sizes
  <2>5. QED
    BY <2>1, <2>3, <2>4 DEF TypeOK, Calls
<1>2. QED
  BY <1>1, Invariance, PTL

\* Every token deflateLazy adds continues where the one before ended and is decoded to
\* the bytes it was made of: findMatch, the search at the end of a held match, the
\* bytes passed over and the sliding of the window notwithstanding.
THEOREM TokensRight == Spec => []TokensDecode
<1>1. ASSUME IInv PROVE TokensDecode
  <2>1. d.bad \in SUBSET {"dict"}
    BY <1>1 DEF IInv, Sane, Compressors
  <2>2. QED
    BY <2>1 DEF TokensDecode
<1>2. QED
  BY <1>1, Invariance, PTL

\* The bytes writeBlock hands over are those of the block's tokens, unless the
\* dictionary is in front of them.
THEOREM StoredRight == Spec => []StoredIsBlock
<1>1. ASSUME IInv PROVE StoredIsBlock
  <2>1. d.bad \in SUBSET {"dict"}
    BY <1>1 DEF IInv, Sane, Compressors
  <2>2. QED
    BY <2>1 DEF StoredIsBlock
<1>2. QED
  BY <1>1, Invariance, PTL

\* Flush and Close return without an error only when nothing of the input waits in the
\* window and no byte, match or token is held back.
THEOREM FlushComplete == Spec => []FlushTakesAll
<1>1. IInv => FlushTakesAll
  BY DEF IInv
<1>2. QED
  BY <1>1, Invariance, PTL

\* Every iteration of deflateLazy moves index on, and every iteration of write takes
\* input: neither loop can run for ever.
THEOREM LoopsEnd == Spec => LoopsAdvance
<1> DEFINE A == /\ pc = "lazy" /\ pc' = "lazy" => d'.index > d.index
                /\ pc \in {"write", "fill"} /\ pc' = "write" => Len(call'.left) < Len(call.left)
<1>1. ASSUME IInv, [Next]_vars PROVE [A]_vars
  <2>1. CASE writeStep
    <3>1. pc = "write" /\ pc' \in {"fill", "lazy"}
      BY <2>1 DEF writeStep, enterStep
    <3>2. QED
      BY <3>1
  <2>2. CASE fill
    <3>1. /\ call'.ret = "running" => Len(call'.left) < Len(call.left)
          /\ pc' = IF call'.ret = "running" THEN "write" ELSE "idle"
      BY <1>1, <2>2, Filling
    <3>2. QED
      BY <3>1
  <2>3. ASSUME NEW c \in Outcomes, NEW refused \in Refusals, lazyLoop(c, refused) PROVE A
    <3>1. pc = "lazy"
      BY <2>3 DEF lazyLoop
    <3>2. pc' = "lazy" => d'.index > d.index
      BY <1>1, <2>3, Iterating
    <3>3. QED
      BY <3>1, <3>2
  <2>4. ASSUME NEW ok \in BOOLEAN, flushed(ok) PROVE A
    BY <2>4 DEF flushed
  <2>5. ASSUME NEW seg \in Segments, Write(seg) PROVE A
    BY <2>5 DEF Write
  <2>6. ASSUME NEW kind \in {"Flush", "Close"}, Flush(kind) PROVE A
    BY <2>6 DEF Flush
  <2>7. ASSUME NEW dict \in Dicts, Reset(dict) PROVE A
    BY <2>7 DEF Reset
  <2>8. CASE Done \/ UNCHANGED vars
    <3>1. UNCHANGED vars
      BY <2>8 DEF Done
    <3>2. QED
      BY <3>1
  <2> HIDE DEF A
  <2>9. QED
    BY <1>1, <2>1, <2>2, <2>3, <2>4, <2>5, <2>6, <2>7, <2>8 DEF Next, Step
<1>2. IInv /\ [Next]_vars => [A]_vars
  BY <1>1
<1>3. QED
  BY <1>2, Invariance, PTL DEF Spec, LoopsAdvance
=============================================================================
