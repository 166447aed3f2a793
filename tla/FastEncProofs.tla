---------------------------- MODULE FastEncProofs ----------------------------
(***************************************************************************)
(* Proofs about FastEnc and FastLevels, for every table, window, buffer    *)
(* and integer size that their assumptions admit: first level 1 (Spec),    *)
(* then levels 1 to 6 (SpecLevels).                                        *)
(*                                                                         *)
(* The invariant says of every entry of the table that it is live (it is   *)
(* cur plus the position in the history it was made for) or stale (it is   *)
(* at least MaxOff behind every position a match is still looked for at).  *)
(* Reset makes all entries stale, moving the history down makes those      *)
(* stale whose bytes are dropped, and taking cur down keeps live entries   *)
(* live and sets the others to 0, which is stale.  Only a Reset with cur   *)
(* past bufferReset leaves the table to the next Encode to be cleared.     *)
(*                                                                         *)
(* At the other levels the same holds of each entry of both tables.  What  *)
(* they add to it: between two steps of the search all entries are of      *)
(* positions before s (Good with limit s - 1), a match that was found      *)
(* may have let in the position after it (limit nextS), and everything     *)
(* that is indexed behind a match lies before the place where the search   *)
(* goes on.                                                                *)
(***************************************************************************)
EXTENDS FastLevels, WellFoundedInduction, TLAPS

\* Encode has found a match, perhaps not the best one yet.
AtMatch == pc \in {"match", "best"}

\* The types, at all levels.
Types ==
  /\ cur \in Int
  /\ n \in Nat /\ n <= HistSize
  /\ table \in [Hash -> Int]
  /\ truth \in [Hash -> Int]
  /\ pc \in {"idle", "search", "second", "best", "match"}
  /\ blk \in Nat /\ s \in Nat /\ nextS \in Nat /\ nextEmit \in Nat
  /\ t \in Int /\ claim \in Int /\ emitted \in Nat

\* What MatchInHistory says of a match, also while a better one is sought.
Found ==
  AtMatch =>
    /\ t >= 0 /\ t < s /\ s - t <= MaxOff
    /\ t = claim
    /\ s + MinMatch <= n

\* The first position a match is still looked for at.
Lo == IF pc = "idle" THEN n ELSE blk

\* The entry of h is a position of the history, before s or being skipped.
Live(h) ==
  /\ truth[h] >= 0 /\ truth[h] < n
  /\ table[h] = cur + truth[h]
  /\ pc # "idle" => truth[h] < s \/ (AtMatch /\ (truth[h] <= s \/ truth[h] <= nextS))

\* The entry of h is out of reach.
Stale(h) ==
  /\ table[h] >= 0 /\ table[h] < cur
  /\ table[h] + MaxOff <= cur + Lo

\* Encode is going to clear the table.
Cleared == pc = "idle" /\ n = 0 /\ cur >= bufferReset

Entries == Cleared \/ \A h \in Hash : Live(h) \/ Stale(h)

\* How the variables of Encode lie to each other.
Order ==
  /\ pc # "idle" => blk <= n /\ blk <= nextEmit /\ nextEmit <= s
  /\ pc = "second" => nextS = s /\ s <= sLimit
  /\ AtMatch => nextS < n

IndInv == Types /\ NoOverflow /\ Entries /\ Order /\ Found /\ BlockTiled

-----------------------------------------------------------------------------
\* A sum that fits an int32 is what int32 leaves alone.
LEMMA Int32Fits == \A x \in Int : x <= MaxInt32 => int32(x) = x
BY FastEncAssumption DEF int32

\* What the assumptions say of the constants, as the steps below use it.
LEMMA Sizes ==
  /\ MaxOff \in Nat /\ MaxOff > 0 /\ MaxStore \in Nat /\ MaxStore >= MaxOff
  /\ HistSize \in Nat /\ HistSize >= 2 * MaxOff
  /\ InputMargin \in Nat /\ InputMargin >= 2
  /\ MinMatch \in Nat /\ MinMatch > 1 /\ MinMatch <= InputMargin
  /\ MaxInt32 \in Nat /\ bufferReset \in Int
  /\ bufferReset + HistSize + MaxStore <= MaxInt32
  /\ bufferReset > MaxStore
BY FastEncAssumption DEF bufferReset

\* Initially every entry is 0 and cur is at least MaxOff: all are stale.
LEMMA InitHolds == Init => IndInv
<1> SUFFICES ASSUME Init PROVE IndInv
  OBVIOUS
<1>1. Types
  BY Sizes DEF Init, Types, Gone
<1>2. NoOverflow
  BY Sizes DEF Init, NoOverflow
<1>3. Entries
  <2> SUFFICES ASSUME NEW h \in Hash PROVE Stale(h)
    BY DEF Entries
  <2> QED
    BY Sizes DEF Init, Stale, Lo
<1>4. Order /\ Found /\ BlockTiled
  BY Sizes DEF Init, Order, Found, BlockTiled, sLimit, AtMatch
<1> QED
  BY <1>1, <1>2, <1>3, <1>4 DEF IndInv

\* Reset: cur moves MaxOff past everything that is live.
LEMMA ResetHolds == IndInv /\ Reset => IndInv'
<1> SUFFICES ASSUME IndInv, Reset PROVE IndInv'
  OBVIOUS
<1> USE Sizes
<1>1. cur <= bufferReset => int32(cur + (MaxOff + n)) = cur + MaxOff + n
  BY Int32Fits DEF IndInv, Types
<1>2. Types'
  BY <1>1 DEF IndInv, Reset, Types, Gone
<1>3. NoOverflow'
  BY <1>1 DEF IndInv, Reset, Types, NoOverflow
<1>4. Entries'
  <2>1. CASE cur > bufferReset
    BY <2>1 DEF IndInv, Reset, Types, Entries, Cleared
  <2>2. CASE cur <= bufferReset
    <3>1. cur' = cur + MaxOff + n
      BY <1>1, <2>2 DEF Reset
    <3>2. CASE Cleared
      BY <3>1, <3>2, <2>2 DEF IndInv, Reset, Types, Entries, Cleared
    <3>3. CASE ~Cleared
      <4> SUFFICES ASSUME NEW h \in Hash PROVE Stale(h)'
        BY DEF Entries
      <4>1. Live(h) \/ Stale(h)
        BY <3>3 DEF IndInv, Entries
      <4>2. table[h] \in Int /\ truth[h] \in Int
        BY DEF IndInv, Types
      <4> QED
        BY <3>1, <4>1, <4>2 DEF IndInv, Reset, Types, NoOverflow, Live, Stale, Lo, AtMatch
    <3> QED
      BY <3>2, <3>3
  <2> QED
    BY <2>1, <2>2 DEF IndInv, Types
<1>5. Order' /\ Found' /\ BlockTiled'
  BY DEF IndInv, Reset, Types, Order, Found, BlockTiled, sLimit, AtMatch
<1> QED
  BY <1>2, <1>3, <1>4, <1>5 DEF IndInv

\* What wraparound leaves of the table, and of an entry that is given up with
\* the newer one of its hash.
LEMMA ShiftedTable ==
  ASSUME IndInv
  PROVE  /\ shiftedTable \in [Hash -> Int]
         /\ \A h \in Hash : shiftedTable[h] = shifted(table[h])
<1>1. ASSUME NEW h \in Hash PROVE shifted(table[h]) \in Int
  <2>1. table[h] \in Int /\ cur \in Int /\ n \in Nat
    BY DEF IndInv, Types
  <2>2. QED
    BY <2>1, Sizes DEF shifted, int32
<1>2. QED
  BY <1>1 DEF shiftedTable

\* Encode: a block is added, with cur taken down before and the history moved
\* down where needed.
LEMMA EncodeHolds ==
  ASSUME NEW size \in Blocks, NEW kept \in [Hash -> Int], IndInv,
         \A h \in Hash : kept[h] = 0 \/ kept[h] = shifted(table[h]),
         encode(size, kept)
  PROVE  IndInv'
<1> DEFINE c == IF cur >= bufferReset THEN MaxOff ELSE cur
           down == movedDown(size)
<1> USE Sizes
<1>1. size \in Nat /\ size > 0 /\ size <= MaxStore /\ size <= HistSize - MaxOff
  BY FastEncAssumption
<1>2. cur \in Nat /\ n \in Nat /\ n <= HistSize /\ cur >= MaxOff /\ cur + n <= MaxInt32
  BY DEF IndInv, Types, NoOverflow
<1>3. /\ down \in Nat /\ down <= n
      /\ down = 0 \/ down = n - MaxOff
      /\ n - down + size <= HistSize
  BY <1>1, <1>2 DEF movedDown
<1>4. c \in Nat /\ c >= MaxOff /\ c < bufferReset
  BY <1>2
<1>5. c + down <= MaxInt32
  BY <1>1, <1>2, <1>3, <1>4
<1>6. addedBlock(c, size).cur = c + down /\ addedBlock(c, size).s = n - down
  BY <1>3, <1>4, <1>5, Int32Fits DEF addedBlock
<1>7. /\ table' = [h \in Hash |-> IF cur >= bufferReset THEN kept[h] ELSE table[h]]
      /\ truth' = [h \in Hash |-> IF truth[h] < down THEN Gone ELSE truth[h] - down]
      /\ cur' = c + down
      /\ n' = n - down + size
      /\ blk' = n - down /\ s' = n - down /\ nextS' = n - down /\ nextEmit' = n - down
      /\ pc = "idle" /\ pc' \in {"idle", "search"}
      /\ t' = 0 /\ claim' = Gone /\ emitted' = 0
  BY <1>6 DEF encode, IndInv, Types
<1> HIDE DEF c, down
<1>8. ASSUME NEW h \in Hash
      PROVE  /\ table'[h] \in Int
             /\ truth'[h] \in Int
             /\ table'[h] >= 0 /\ table'[h] <= MaxInt32
             /\ (Live(h) \/ Stale(h))'
  <2>1. table[h] \in Int /\ truth[h] \in Int /\ table[h] >= 0 /\ table[h] <= MaxInt32
    BY DEF IndInv, Types, NoOverflow
  <2>2. truth'[h] = IF truth[h] < down THEN Gone ELSE truth[h] - down
    BY <1>7
  <2>3. CASE cur < bufferReset
    <3>1. table'[h] = table[h] /\ c = cur
      BY <1>2, <1>7, <2>3 DEF c
    <3>2. Live(h) \/ Stale(h)
      BY <1>2, <2>3 DEF IndInv, Entries, Cleared
    <3>3. CASE Live(h)
      <4>1. truth[h] >= 0 /\ truth[h] < n /\ table[h] = cur + truth[h]
        BY <3>3 DEF Live, AtMatch
      <4>2. CASE truth[h] < down
        <5>1. table'[h] < cur' /\ table'[h] + MaxOff <= cur' + (n - down)
          BY <1>1, <1>2, <1>3, <1>7, <2>1, <3>1, <4>1, <4>2
        <5> QED
          BY <1>1, <1>2, <1>3, <1>7, <2>1, <2>2, <3>1, <4>2, <5>1 DEF Stale, Lo, Gone
      <4>3. CASE truth[h] >= down
        BY <1>1, <1>2, <1>3, <1>7, <2>1, <2>2, <3>1, <4>1, <4>3 DEF Live, AtMatch
      <4> QED
        BY <1>3, <2>1, <4>2, <4>3
    <3>4. CASE Stale(h)
      <4>1. table[h] < cur /\ table[h] + MaxOff <= cur + n
        BY <1>7, <3>4 DEF Stale, Lo
      <4>2. Stale(h)'
        BY <1>1, <1>2, <1>3, <1>7, <2>1, <3>1, <4>1 DEF Stale, Lo
      <4>3. truth'[h] \in Int
        BY <1>3, <2>1, <2>2 DEF Gone
      <4> QED
        BY <2>1, <3>1, <4>2, <4>3
    <3> QED
      BY <3>2, <3>3, <3>4
  <2>4. CASE cur >= bufferReset
    <3>1. c = MaxOff /\ (table'[h] = 0 \/ table'[h] = shifted(table[h]))
      BY <1>7, <2>4 DEF c
    <3>2. int32(cur + n) = cur + n
      BY <1>2, Int32Fits
    <3>3. CASE table'[h] = 0 \/ n = 0 \/ table[h] <= cur + n - MaxOff
      <4>1. table'[h] = 0
        BY <1>2, <2>1, <3>1, <3>2, <3>3 DEF shifted
      <4>2. Stale(h)'
        BY <1>1, <1>2, <1>3, <1>7, <3>1, <4>1 DEF Stale, Lo
      <4>3. truth'[h] \in Int
        BY <1>3, <2>1, <2>2 DEF Gone
      <4> QED
        BY <4>1, <4>2, <4>3
    <3>4. CASE ~(table'[h] = 0 \/ n = 0 \/ table[h] <= cur + n - MaxOff)
      <4>1. table'[h] = table[h] - cur + MaxOff
        BY <1>2, <2>1, <3>1, <3>2, <3>4 DEF shifted
      <4>2. Live(h) \/ Stale(h)
        BY <3>4 DEF IndInv, Entries, Cleared
      <4>3. ~Stale(h)
        BY <1>2, <1>7, <2>1, <3>4 DEF Stale, Lo
      <4>4. truth[h] >= 0 /\ truth[h] < n /\ table[h] = cur + truth[h]
        BY <4>2, <4>3 DEF Live, AtMatch
      <4>5. truth[h] >= down /\ truth'[h] = truth[h] - down
        BY <1>2, <1>3, <2>1, <2>2, <3>4, <4>4
      <4>6. Live(h)'
        <5>1. truth'[h] >= 0 /\ truth'[h] < n' /\ truth'[h] < s'
          BY <1>1, <1>2, <1>3, <1>7, <2>1, <4>4, <4>5
        <5>2. table'[h] = cur' + truth'[h]
          BY <1>2, <1>3, <1>7, <2>1, <3>1, <4>1, <4>4, <4>5
        <5> QED
          BY <5>1, <5>2 DEF Live, AtMatch
      <4> QED
        BY <1>1, <1>2, <1>3, <2>1, <4>1, <4>4, <4>5, <4>6
    <3> QED
      BY <3>3, <3>4
  <2> QED
    BY <1>2, <2>3, <2>4
<1>9. table' \in [Hash -> Int] /\ truth' \in [Hash -> Int]
  BY <1>7, <1>8
<1>10. Types'
  BY <1>1, <1>2, <1>3, <1>4, <1>7, <1>9 DEF Types, Gone
<1>11. NoOverflow'
  BY <1>1, <1>2, <1>3, <1>4, <1>7, <1>8 DEF NoOverflow
<1>12. Entries'
  BY <1>8 DEF Entries
<1>13. Order' /\ Found' /\ BlockTiled'
  BY <1>1, <1>2, <1>3, <1>7 DEF Order, Found, BlockTiled, AtMatch
<1> QED
  BY <1>10, <1>11, <1>12, <1>13 DEF IndInv

\* In table tab, with history tru, the entry of h is a position up to limit,
\* or is out of reach, while a block is encoded.
Known(tab, tru, h, limit) ==
  /\ tru[h] >= 0 /\ tru[h] < n
  /\ tab[h] = cur + tru[h]
  /\ tru[h] <= limit

OutOfReach(tab, h) ==
  /\ tab[h] >= 0 /\ tab[h] < cur
  /\ tab[h] + MaxOff <= cur + blk

\* A candidate that is in reach from s is live, since s is not before the
\* block; looking at it makes entries for s and next and for nothing else.
LEMMA CandidateHolds ==
  ASSUME IndInv, pc \in {"search", "second"},
         NEW h \in Hash, NEW h2 \in Hash, NEW same \in BOOLEAN,
         NEW next \in Nat, next > s, next < n,
         candidate(h, s, next, h2, same), UNCHANGED <<cur, n, blk>>
  PROVE  /\ table' \in [Hash -> Int] /\ truth' \in [Hash -> Int]
         /\ t' \in Int /\ claim' \in Int
         /\ \A g \in Hash : table'[g] >= 0 /\ table'[g] <= MaxInt32
         /\ \A g \in Hash : Known(table', truth', g, next) \/ OutOfReach(table', g)
         /\ ~(inReach(s, t') /\ same) => \A g \in Hash : Known(table', truth', g, s) \/ OutOfReach(table', g)
         /\ inReach(s, t') /\ same =>
              t' >= 0 /\ t' < s /\ s - t' <= MaxOff /\ t' = claim'
<1> USE Sizes
<1>1. /\ cur \in Nat /\ n \in Nat /\ blk \in Nat /\ s \in Nat
      /\ cur >= MaxOff /\ cur + n <= MaxInt32 /\ blk <= s
      /\ table \in [Hash -> Int] /\ truth \in [Hash -> Int]
      /\ cur' = cur /\ n' = n /\ blk' = blk
  BY DEF IndInv, Types, NoOverflow, Order, AtMatch
<1>2. int32(s + cur) = s + cur /\ int32(next + cur) = next + cur
  BY <1>1, Int32Fits
<1>3. ASSUME NEW g \in Hash
      PROVE  /\ table[g] \in Int /\ truth[g] \in Int
             /\ Live(g) \/ Stale(g)
             /\ Live(g) => truth[g] >= 0 /\ truth[g] < n /\ truth[g] < s
                           /\ table[g] = cur + truth[g]
             /\ Stale(g) => table[g] >= 0 /\ table[g] < cur
                            /\ table[g] + MaxOff <= cur + blk
  <2>1. table[g] \in Int /\ truth[g] \in Int
    BY <1>1
  <2>2. Live(g) \/ Stale(g)
    BY DEF IndInv, Entries, Cleared
  <2> QED
    BY <2>1, <2>2 DEF Live, Stale, Lo, AtMatch
<1>4. t' = table[h] - cur /\ claim' = truth[h]
  BY DEF candidate
<1>5. inReach(s, t') => t' >= 0 /\ t' < s /\ s - t' <= MaxOff /\ t' = claim'
  BY <1>1, <1>3, <1>4 DEF inReach
<1>6. CASE inReach(s, t') /\ same
  <2>1. /\ table' = [[table EXCEPT ![h] = s + cur] EXCEPT ![h2] = next + cur]
        /\ truth' = [[truth EXCEPT ![h] = s] EXCEPT ![h2] = next]
    BY <1>2, <1>6 DEF candidate
  <2>2. ASSUME NEW g \in Hash
        PROVE  /\ table'[g] = IF g = h2 THEN next + cur ELSE IF g = h THEN s + cur ELSE table[g]
               /\ truth'[g] = IF g = h2 THEN next ELSE IF g = h THEN s ELSE truth[g]
    BY <1>1, <2>1
  <2>3. ASSUME NEW g \in Hash
        PROVE  /\ table'[g] >= 0 /\ table'[g] <= MaxInt32
               /\ Known(table', truth', g, next) \/ OutOfReach(table', g)
    BY <1>1, <1>3, <2>2 DEF Known, OutOfReach
  <2>4. table' \in [Hash -> Int] /\ truth' \in [Hash -> Int]
    BY <1>1, <2>1
  <2> QED
    BY <1>1, <1>3, <1>4, <1>5, <1>6, <2>3, <2>4
<1>7. CASE ~(inReach(s, t') /\ same)
  <2>1. /\ table' = [table EXCEPT ![h] = s + cur]
        /\ truth' = [truth EXCEPT ![h] = s]
    BY <1>2, <1>7 DEF candidate
  <2>2. ASSUME NEW g \in Hash
        PROVE  /\ table'[g] = IF g = h THEN s + cur ELSE table[g]
               /\ truth'[g] = IF g = h THEN s ELSE truth[g]
    BY <1>1, <2>1
  <2>3. ASSUME NEW g \in Hash
        PROVE  /\ table'[g] >= 0 /\ table'[g] <= MaxInt32
               /\ Known(table', truth', g, s) \/ OutOfReach(table', g)
               /\ Known(table', truth', g, next) \/ OutOfReach(table', g)
    BY <1>1, <1>3, <2>2 DEF Known, OutOfReach
  <2>4. table' \in [Hash -> Int] /\ truth' \in [Hash -> Int]
    BY <1>1, <2>1
  <2> QED
    BY <1>1, <1>3, <1>4, <1>7, <2>3, <2>4
<1> QED
  BY <1>6, <1>7

\* The skipping of the search moves forward.
LEMMA SkipForward == \A k \in Nat : k \div Skip \in Nat
BY FastEncAssumption, SMT

\* search: the first half of the inner loop.
LEMMA SearchHolds ==
  ASSUME NEW h \in Hash, NEW h2 \in Hash, NEW same \in BOOLEAN,
         IndInv, search(h, h2, same)
  PROVE  IndInv'
<1> USE Sizes
<1>1. /\ cur \in Int /\ n \in Nat /\ n <= HistSize /\ blk \in Nat /\ s \in Nat
      /\ nextEmit \in Nat /\ emitted \in Nat /\ t \in Int /\ claim \in Int
      /\ cur >= MaxOff /\ cur + n <= MaxInt32
      /\ blk <= n /\ blk <= nextEmit /\ nextEmit <= s
      /\ emitted = nextEmit - blk
      /\ pc = "search"
  BY DEF IndInv, Types, NoOverflow, Order, BlockTiled, search, AtMatch
<1>2. cur' = cur /\ n' = n /\ blk' = blk /\ nextEmit' = nextEmit /\ sLimit' = sLimit
  BY DEF search, sLimit
<1>3. nextS' \in Nat /\ nextS' >= s + 2
  <2>1. s - nextEmit \in Nat
    BY <1>1
  <2>2. (s - nextEmit) \div Skip \in Nat
    BY <2>1, SkipForward
  <2> QED
    BY <1>1, <2>2 DEF search
<1>4. sLimit = n - InputMargin
  BY DEF sLimit
<1>5. CASE nextS' > sLimit
  <2>1. /\ pc' = "idle" /\ emitted' = IF emitted = 0 THEN 0 ELSE emitted + (n - nextEmit)
        /\ table' = table /\ truth' = truth /\ s' = s /\ t' = t /\ claim' = claim
    BY <1>2, <1>5 DEF search, emitRemainder
  <2>2. emitted' \in {0, n - blk} /\ emitted' \in Nat
    BY <1>1, <2>1
  <2>3. Types'
    BY <1>1, <1>2, <1>3, <2>1, <2>2 DEF IndInv, Types
  <2>4. NoOverflow'
    BY <1>1, <1>2, <2>1 DEF IndInv, NoOverflow
  <2>5. ASSUME NEW g \in Hash PROVE (Live(g) \/ Stale(g))'
    <3>1. Live(g) \/ Stale(g)
      BY <1>1 DEF IndInv, Entries, Cleared
    <3>2. table[g] \in Int
      BY DEF IndInv, Types
    <3>3. CASE Live(g)
      BY <1>2, <2>1, <3>3 DEF Live, AtMatch
    <3>4. CASE Stale(g)
      BY <1>1, <1>2, <2>1, <3>2, <3>4 DEF Stale, Lo
    <3> QED
      BY <3>1, <3>3, <3>4
  <2>6. Entries' /\ Order' /\ Found' /\ BlockTiled'
    BY <1>2, <2>1, <2>2, <2>5 DEF Entries, Order, Found, BlockTiled, AtMatch
  <2> QED
    BY <2>3, <2>4, <2>6 DEF IndInv
<1>6. CASE ~(nextS' > sLimit)
  <2>1. PICK next \in Nat : next = nextS'
    BY <1>3
  <2>2. next > s /\ next < n /\ s + MinMatch <= n /\ next <= sLimit
    BY <1>1, <1>3, <1>4, <1>6, <2>1
  <2>3. candidate(h, s, next, h2, same) /\ emitted' = emitted
    BY <1>6, <2>1 DEF search
  <2>4. UNCHANGED <<cur, n, blk>>
    BY <1>2
  <2>5. /\ table' \in [Hash -> Int] /\ truth' \in [Hash -> Int]
        /\ t' \in Int /\ claim' \in Int
        /\ \A g \in Hash : table'[g] >= 0 /\ table'[g] <= MaxInt32
        /\ \A g \in Hash : Known(table', truth', g, next) \/ OutOfReach(table', g)
        /\ ~(inReach(s, t') /\ same) =>
             \A g \in Hash : Known(table', truth', g, s) \/ OutOfReach(table', g)
        /\ inReach(s, t') /\ same =>
             t' >= 0 /\ t' < s /\ s - t' <= MaxOff /\ t' = claim'
    BY <1>1, <2>2, <2>3, <2>4, CandidateHolds
  <2>6. NoOverflow'
    BY <1>1, <1>2, <2>5 DEF NoOverflow
  <2>7. CASE inReach(s, t') /\ same
    <3>1. pc' = "match" /\ s' = s
      BY <1>6, <2>7 DEF search
    <3>2. Types'
      BY <1>1, <1>2, <1>3, <2>3, <2>5, <3>1 DEF Types
    <3>3. ASSUME NEW g \in Hash PROVE (Live(g) \/ Stale(g))'
      <4>1. Known(table', truth', g, next) \/ OutOfReach(table', g)
        BY <2>5
      <4> QED
        BY <1>1, <1>2, <2>1, <3>1, <4>1 DEF Live, Stale, Lo, Known, OutOfReach, AtMatch
    <3>4. Order' /\ BlockTiled'
      BY <1>1, <1>2, <2>1, <2>2, <2>3, <3>1 DEF Order, BlockTiled, AtMatch
    <3>5. Found'
      BY <1>2, <2>2, <2>5, <2>7, <3>1 DEF Found, AtMatch
    <3> QED
      BY <2>6, <3>2, <3>3, <3>4, <3>5 DEF IndInv, Entries
  <2>8. CASE ~(inReach(s, t') /\ same)
    <3>1. pc' = "second" /\ s' = nextS'
      BY <1>6, <2>8 DEF search
    <3>2. Types'
      BY <1>1, <1>2, <1>3, <2>3, <2>5, <3>1 DEF Types
    <3>3. ASSUME NEW g \in Hash PROVE (Live(g) \/ Stale(g))'
      <4>1. Known(table', truth', g, s) \/ OutOfReach(table', g)
        BY <2>5, <2>8
      <4>2. truth'[g] \in Int
        BY <2>5
      <4> QED
        BY <1>1, <1>2, <1>3, <3>1, <4>1, <4>2 DEF Live, Stale, Lo, Known, OutOfReach, AtMatch
    <3>4. Order' /\ BlockTiled' /\ Found'
      BY <1>1, <1>2, <1>3, <2>1, <2>2, <2>3, <3>1 DEF Order, BlockTiled, Found, AtMatch
    <3> QED
      BY <2>6, <3>2, <3>3, <3>4 DEF IndInv, Entries
  <2> QED
    BY <2>7, <2>8
<1> QED
  BY <1>5, <1>6

\* second: the second half of the inner loop.
LEMMA SecondHolds ==
  ASSUME NEW h \in Hash, NEW same \in BOOLEAN, IndInv, second(h, same)
  PROVE  IndInv'
<1> USE Sizes
<1>1. /\ cur \in Int /\ n \in Nat /\ n <= HistSize /\ blk \in Nat /\ s \in Nat
      /\ nextS = s /\ s <= n - InputMargin
      /\ nextEmit \in Nat /\ emitted \in Nat
      /\ cur >= MaxOff /\ cur + n <= MaxInt32
      /\ blk <= n /\ blk <= nextEmit /\ nextEmit <= s
      /\ emitted = nextEmit - blk
      /\ pc = "second"
  BY DEF IndInv, Types, NoOverflow, Order, BlockTiled, second, sLimit, AtMatch
<1>2. /\ cur' = cur /\ n' = n /\ blk' = blk /\ nextEmit' = nextEmit
      /\ emitted' = emitted /\ nextS' = s + 1
  BY <1>1 DEF second
<1>3. PICK next \in Nat : next = nextS'
  BY <1>1, <1>2
<1>4. next = s + 1 /\ next < n /\ s + MinMatch <= n
  BY <1>1, <1>2, <1>3
<1>5. /\ table' \in [Hash -> Int] /\ truth' \in [Hash -> Int]
      /\ t' \in Int /\ claim' \in Int
      /\ \A g \in Hash : table'[g] >= 0 /\ table'[g] <= MaxInt32
      /\ \A g \in Hash : Known(table', truth', g, next) \/ OutOfReach(table', g)
      /\ ~(inReach(s, t') /\ same) =>
           \A g \in Hash : Known(table', truth', g, s) \/ OutOfReach(table', g)
      /\ inReach(s, t') /\ same =>
           t' >= 0 /\ t' < s /\ s - t' <= MaxOff /\ t' = claim'
  <2>1. candidate(h, s, next, h, same) /\ UNCHANGED <<cur, n, blk>>
    BY <1>3 DEF second
  <2>2. next > s
    BY <1>1, <1>4
  <2> QED
    BY <1>1, <1>4, <2>1, <2>2, CandidateHolds
<1>6. NoOverflow'
  BY <1>1, <1>2, <1>5 DEF NoOverflow
<1>7. CASE inReach(s, t') /\ same
  <2>1. pc' = "match" /\ s' = s
    BY <1>7 DEF second
  <2>2. Types'
    BY <1>1, <1>2, <1>5, <2>1 DEF Types
  <2>3. ASSUME NEW g \in Hash PROVE (Live(g) \/ Stale(g))'
    <3>1. Known(table', truth', g, next) \/ OutOfReach(table', g)
      BY <1>5
    <3> QED
      BY <1>1, <1>2, <1>3, <2>1, <3>1 DEF Live, Stale, Lo, Known, OutOfReach, AtMatch
  <2>4. Order' /\ BlockTiled'
    BY <1>1, <1>2, <1>3, <1>4, <2>1 DEF Order, BlockTiled, AtMatch
  <2>5. Found'
    BY <1>2, <1>4, <1>5, <1>7, <2>1 DEF Found, AtMatch
  <2> QED
    BY <1>6, <2>2, <2>3, <2>4, <2>5 DEF IndInv, Entries
<1>8. CASE ~(inReach(s, t') /\ same)
  <2>1. pc' = "search" /\ s' = nextS'
    BY <1>8 DEF second
  <2>2. Types'
    BY <1>1, <1>2, <1>5, <2>1 DEF Types
  <2>3. ASSUME NEW g \in Hash PROVE (Live(g) \/ Stale(g))'
    <3>1. Known(table', truth', g, s) \/ OutOfReach(table', g)
      BY <1>5, <1>8
    <3>2. truth'[g] \in Int
      BY <1>5
    <3> QED
      BY <1>1, <1>2, <2>1, <3>1, <3>2 DEF Live, Stale, Lo, Known, OutOfReach, AtMatch
  <2>4. Order' /\ BlockTiled' /\ Found'
    BY <1>1, <1>2, <2>1 DEF Order, BlockTiled, Found, AtMatch
  <2> QED
    BY <1>6, <2>2, <2>3, <2>4 DEF IndInv, Entries
<1> QED
  BY <1>7, <1>8

\* match: a match is emitted, and perhaps followed by another at once.
LEMMA MatchHolds ==
  ASSUME NEW back \in 0..HistSize, NEW l \in MinMatch..HistSize,
         NEW h \in Hash, NEW h2 \in Hash, NEW same \in BOOLEAN,
         IndInv, match(back, l, h, h2, same)
  PROVE  IndInv'
<1> DEFINE end == s + l
           at == resumeAt(end)
           lits == IF nextEmit < s - back THEN s - back - nextEmit ELSE 0
           done == emitted + lits + (back + l)
           table1 == [table EXCEPT ![h] = int32(cur + (at - 2))]
           truth1 == [truth EXCEPT ![h] = at - 2]
           tt == table1[h2] - cur
           more == ~(at - tt > MaxOff) /\ same
<1> USE Sizes
<1>1. /\ cur \in Int /\ n \in Nat /\ n <= HistSize /\ blk \in Nat /\ s \in Nat
      /\ nextS \in Nat /\ nextS < n /\ t \in Int /\ claim \in Int
      /\ nextEmit \in Nat /\ emitted \in Nat
      /\ cur >= MaxOff /\ cur + n <= MaxInt32
      /\ blk <= n /\ blk <= nextEmit /\ nextEmit <= s
      /\ emitted = nextEmit - blk
      /\ pc = "match"
      /\ table \in [Hash -> Int] /\ truth \in [Hash -> Int]
  BY DEF IndInv, Types, NoOverflow, Order, BlockTiled, match, AtMatch
<1>2. /\ back \in Nat /\ back <= s - nextEmit /\ l \in Nat /\ l >= MinMatch /\ s + l <= n
      /\ cur' = cur /\ n' = n /\ blk' = blk /\ nextS' = nextS
  BY <1>1 DEF match, backwards
<1>3. /\ end \in Nat /\ end <= n /\ end >= s + 2
      /\ at \in Nat /\ at <= n /\ at >= end /\ at > nextS
  BY <1>1, <1>2 DEF resumeAt
<1>4. done = end - blk /\ done \in Nat /\ done > 0
  BY <1>1, <1>2
<1>5. /\ nextEmit' = end
      /\ at >= sLimit =>
           /\ IF at + (back + l) + 8 < n THEN index(h, at) ELSE UNCHANGED <<table, truth>>
           /\ s' = at /\ emitRemainder(done) /\ t' = t /\ claim' = claim
      /\ ~(at >= sLimit) =>
           /\ table' = [table1 EXCEPT ![h2] = int32(cur + at)]
           /\ truth' = [truth1 EXCEPT ![h2] = at]
           /\ t' = tt /\ claim' = truth1[h2]
           /\ s' = (IF more THEN at ELSE at + 1)
           /\ pc' = (IF more THEN "match" ELSE "search")
           /\ emitted' = done
  BY DEF match
<1>6. ASSUME NEW g \in Hash
      PROVE  /\ table[g] \in Int /\ truth[g] \in Int
             /\ Live(g) \/ Stale(g)
             /\ Live(g) => truth[g] >= 0 /\ truth[g] < n /\ truth[g] < at
                           /\ table[g] = cur + truth[g]
             /\ Stale(g) => table[g] >= 0 /\ table[g] < cur
                            /\ table[g] + MaxOff <= cur + blk
  <2>1. table[g] \in Int /\ truth[g] \in Int
    BY <1>1
  <2>2. Live(g) \/ Stale(g)
    BY <1>1 DEF IndInv, Entries, Cleared
  <2>3. Live(g) => truth[g] >= 0 /\ truth[g] < n /\ truth[g] < at /\ table[g] = cur + truth[g]
    BY <1>1, <1>3, <2>1 DEF Live, AtMatch
  <2> QED
    BY <1>1, <2>1, <2>2, <2>3 DEF Stale, Lo
<1>7. /\ int32(cur + (at - 2)) = cur + (at - 2)
      /\ int32(cur + at) = cur + at /\ int32(at + cur) = cur + at
  BY <1>1, <1>3, Int32Fits
<1>8. sLimit = n - InputMargin /\ sLimit' = sLimit
  BY <1>2 DEF sLimit
<1> HIDE DEF end, at, lits, done
<1>9. CASE at >= sLimit
  <2>1. pc' = "idle" /\ emitted' = done + (n - end) /\ s' = at /\ t' = t /\ claim' = claim
    BY <1>4, <1>5, <1>9 DEF emitRemainder
  <2>2. emitted' = n - blk /\ emitted' \in Nat
    BY <1>1, <1>3, <1>4, <2>1
  <2>3. /\ table' \in [Hash -> Int] /\ truth' \in [Hash -> Int]
        /\ \A g \in Hash : \/ table'[g] = table[g] /\ truth'[g] = truth[g]
                           \/ at < n /\ table'[g] = cur + at /\ truth'[g] = at
    <3>1. CASE at + (back + l) + 8 < n
      <4>1. table' = [table EXCEPT ![h] = cur + at] /\ truth' = [truth EXCEPT ![h] = at]
        BY <1>5, <1>7, <1>9, <3>1 DEF index
      <4>2. at < n
        BY <1>1, <1>2, <1>3, <3>1
      <4> QED
        BY <1>1, <1>3, <4>1, <4>2
    <3>2. CASE ~(at + (back + l) + 8 < n)
      BY <1>1, <1>5, <1>9, <3>2
    <3> QED
      BY <3>1, <3>2
  <2>4. ASSUME NEW g \in Hash
        PROVE  (Live(g) \/ Stale(g))' /\ table'[g] >= 0 /\ table'[g] <= MaxInt32
    <3>1. CASE table'[g] = table[g] /\ truth'[g] = truth[g]
      <4>1. CASE Live(g)
        BY <1>1, <1>2, <1>6, <2>1, <3>1, <4>1 DEF Live, AtMatch
      <4>2. CASE Stale(g)
        BY <1>1, <1>2, <1>6, <2>1, <3>1, <4>2 DEF Stale, Lo
      <4> QED
        BY <1>6, <4>1, <4>2
    <3>2. CASE at < n /\ table'[g] = cur + at /\ truth'[g] = at
      BY <1>1, <1>2, <1>3, <2>1, <3>2 DEF Live, AtMatch
    <3> QED
      BY <2>3, <3>1, <3>2
  <2>5. Types'
    BY <1>1, <1>2, <1>3, <1>5, <2>1, <2>2, <2>3 DEF Types
  <2>6. NoOverflow' /\ Entries'
    BY <1>1, <1>2, <2>4 DEF NoOverflow, Entries
  <2>7. Order' /\ Found' /\ BlockTiled'
    BY <1>2, <2>1, <2>2 DEF Order, Found, BlockTiled, AtMatch
  <2> QED
    BY <2>5, <2>6, <2>7 DEF IndInv
<1>10. CASE ~(at >= sLimit)
  <2>1. at < n /\ at + MinMatch <= n /\ at + 1 <= n
    BY <1>1, <1>3, <1>8, <1>10
  <2>2. /\ table1 = [table EXCEPT ![h] = cur + (at - 2)]
        /\ table' = [table1 EXCEPT ![h2] = cur + at]
        /\ truth' = [truth1 EXCEPT ![h2] = at]
    BY <1>5, <1>7, <1>10
  <2>3. ASSUME NEW g \in Hash
        PROVE  /\ table1[g] = IF g = h THEN cur + (at - 2) ELSE table[g]
               /\ truth1[g] = IF g = h THEN at - 2 ELSE truth[g]
               /\ table'[g] = IF g = h2 THEN cur + at ELSE table1[g]
               /\ truth'[g] = IF g = h2 THEN at ELSE truth1[g]
    BY <1>1, <2>2
  <2>4. table' \in [Hash -> Int] /\ truth' \in [Hash -> Int]
    BY <1>1, <1>3, <2>2
  <2>5. tt \in Int /\ truth1[h2] \in Int
    BY <1>1, <1>3, <1>6, <2>3
  <2>6. more => tt >= 0 /\ tt < at /\ at - tt <= MaxOff /\ tt = truth1[h2]
    <3>1. CASE h2 = h
      BY <1>1, <1>3, <2>3, <3>1
    <3>2. CASE h2 # h
      <4>1. tt = table[h2] - cur /\ truth1[h2] = truth[h2]
        BY <2>3, <3>2
      <4>2. more => ~Stale(h2)
        BY <1>1, <1>3, <1>6, <4>1
      <4> QED
        BY <1>1, <1>3, <1>6, <4>1, <4>2
    <3> QED
      BY <3>1, <3>2
  <2>7. /\ t' = tt /\ claim' = truth1[h2] /\ emitted' = done
        /\ s' = (IF more THEN at ELSE at + 1)
        /\ pc' = (IF more THEN "match" ELSE "search")
    BY <1>5, <1>10
  <2> HIDE DEF table1, truth1, tt, more
  <2>8. ASSUME NEW g \in Hash
        PROVE  /\ table'[g] >= 0 /\ table'[g] <= MaxInt32
               /\ Known(table', truth', g, at) \/ OutOfReach(table', g)
    BY <1>1, <1>2, <1>3, <1>6, <2>1, <2>3 DEF Known, OutOfReach
  <2>9. Types'
    BY <1>1, <1>2, <1>3, <1>4, <1>5, <2>4, <2>5, <2>7 DEF Types
  <2>10. NoOverflow'
    BY <1>1, <1>2, <2>8 DEF NoOverflow
  <2>11. Entries'
    <3> SUFFICES ASSUME NEW g \in Hash PROVE (Live(g) \/ Stale(g))'
      BY DEF Entries
    <3>1. Known(table', truth', g, at) \/ OutOfReach(table', g)
      BY <2>8
    <3>2. truth'[g] \in Int
      BY <2>4
    <3> QED
      BY <1>1, <1>2, <1>3, <2>7, <3>1, <3>2 DEF Live, Stale, Lo, Known, OutOfReach, AtMatch
  <2>12. Order' /\ BlockTiled'
    BY <1>1, <1>2, <1>3, <1>4, <1>5, <2>7 DEF Order, BlockTiled, AtMatch
  <2>13. Found'
    BY <1>2, <2>1, <2>6, <2>7 DEF Found, AtMatch
  <2> QED
    BY <2>9, <2>10, <2>11, <2>12, <2>13 DEF IndInv
<1> QED
  BY <1>9, <1>10

\* Every step keeps the invariant.
LEMMA StepHolds == IndInv /\ [Next]_vars => IndInv'
<1> SUFFICES ASSUME IndInv, [Next]_vars PROVE IndInv'
  OBVIOUS
<1>1. CASE UNCHANGED vars
  BY <1>1 DEF vars, enc, IndInv, Types, NoOverflow, Entries, Cleared, Live, Stale, Lo, AtMatch,
              Order, Found, BlockTiled, sLimit
<1>2. CASE Next
  <2>1. ASSUME NEW size \in Blocks, Encode(size) PROVE IndInv'
    BY <1>2, <2>1, ShiftedTable, EncodeHolds DEF Encode
  <2>2. QED
    BY <1>2, <2>1, ResetHolds, SearchHolds, SecondHolds, MatchHolds DEF Next
<1> QED
  BY <1>1, <1>2

\* Every reachable state of the match finder satisfies the invariant.
THEOREM Invariance == Spec => []IndInv
BY InitHolds, StepHolds, PTL DEF Spec

\* A match that Encode uses lies in the history of this stream, before the
\* bytes it is for, within maxMatchOffset, and is what its entry was made for:
\* for every table, window and buffer size, and any number of wraparounds.
THEOREM MatchesInHistory == Spec => []MatchInHistory
<1>1. IndInv => MatchInHistory
  BY DEF IndInv, Found, AtMatch, MatchInHistory
<1> QED
  BY <1>1, Invariance, PTL

\* No position or entry overflows an int32, however long the encoder is used.
THEOREM PositionsFit == Spec => []NoOverflow
<1>1. IndInv => NoOverflow
  BY DEF IndInv
<1> QED
  BY <1>1, Invariance, PTL

\* Encode's tokens stand for the whole block, each byte once, or there is none.
THEOREM BlocksTiled == Spec => []BlockTiled
<1>1. IndInv => BlockTiled
  BY DEF IndInv
<1> QED
  BY <1>1, Invariance, PTL

-----------------------------------------------------------------------------
(* Levels 2 to 6.                                                          *)

\* What is particular to the levels.  The offset level 6 repeats reaches no
\* further back than the window and the history.
Own ==
  /\ level \in 1..6
  /\ pc = "second" => level < 3
  /\ pc = "best" => level > 4
  /\ repeat \in Nat \ {0}
  /\ level = 6 /\ pc # "idle" => repeat <= MaxOff /\ repeat <= s + 1

IndInvLevels == IndInv /\ Own

\* The order on the natural numbers.
Smaller == OpToRel(<, Nat)

\* Every set of natural numbers that is not empty has a least one.
LEMMA LeastNat ==
  ASSUME NEW T \in SUBSET Nat, T # {}
  PROVE  \E x \in T : \A y \in T : x <= y
<1>1. IsWellFoundedOn(Smaller, Nat)
  BY NatLessThanWellFounded DEF Smaller
<1>2. Smaller = {ss \in Nat \X Nat : ss[1] < ss[2]}
  BY DEF Smaller, OpToRel
<1>3. PICK x \in T : \A y \in T : ~(<<y, x>> \in Smaller)
  BY <1>1, WFMin
<1>4. ASSUME NEW y \in T PROVE x <= y
  <2>1. x \in Nat /\ y \in Nat
    OBVIOUS
  <2>2. ~(<<y, x>> \in {ss \in Nat \X Nat : ss[1] < ss[2]})
    BY <1>2, <1>3
  <2>3. QED
    BY <2>1, <2>2
<1>5. QED
  BY <1>4

\* A set of positions in the history has a last one.
LEMMA LatestOf ==
  ASSUME NEW m \in Nat, NEW P \in SUBSET (0..m), P # {}
  PROVE  Latest(P) \in P
<1>1. {m - p : p \in P} \in SUBSET Nat /\ {m - p : p \in P} # {}
  <2>1. \A p \in P : m - p \in Nat
    <3> SUFFICES ASSUME NEW p \in P PROVE m - p \in Nat
      OBVIOUS
    <3>1. p \in 0..m
      OBVIOUS
    <3>2. QED
      BY <3>1
  <2>2. QED
    BY <2>1
<1>2. PICK d \in {m - p : p \in P} : \A e \in {m - p : p \in P} : d <= e
  BY <1>1, LeastNat
<1>3. PICK p \in P : d = m - p
  BY <1>2
<1>4. \A q \in P : q <= p
  <2> SUFFICES ASSUME NEW q \in P PROVE q <= p
    OBVIOUS
  <2>1. p \in 0..m /\ q \in 0..m /\ m - p <= m - q
    BY <1>2, <1>3
  <2>2. QED
    BY <2>1
<1>5. QED
  BY <1>4 DEF Latest

\* Indices of the tables.
LEMMA Slots ==
  /\ \A h \in Short \cup Long : Cur(h) \in Hash
  /\ \A h \in Long : Prev(h) \in Hash
  /\ \A h, k \in Short \cup Long : Cur(h) # Prev(k)
  /\ \A h \in Hash : /\ h[1] \in Short \cup Long
                     /\ h = Cur(h[1]) \/ (h[1] \in Long /\ h = Prev(h[1]))
                     /\ h[2] \in {"cur", "prev"}
                     /\ h[2] = "prev" => h = Prev(h[1]) /\ h[1] \in Long
                     /\ h[2] = "cur" => h = Cur(h[1])
BY LevelsAssumption DEF Cur, Prev

-----------------------------------------------------------------------------
\* AddMatchLong: no piece leaves a rest of one or two bytes, which a token
\* could not say.
LEMMA Pieces ==
  ASSUME NEW xl \in Nat, xl >= 3
  PROVE  /\ piece(xl) \in Nat /\ piece(xl) >= 3 /\ piece(xl) <= maxMatchLength
         /\ piece(xl) <= xl /\ (xl - piece(xl) = 0 \/ xl - piece(xl) >= 3)
BY LevelsAssumption DEF piece, baseMatchLength

\* What a token says of a piece.
SaidOf(p) ==
  ((p - baseMatchLength) % (maxMatchLength - baseMatchLength + 1)) + baseMatchLength

SaidBy(f) ==
  f = [xl \in Nat |-> IF xl = 0 THEN 0 ELSE SaidOf(piece(xl)) + f[xl - piece(xl)]]

LEMMA SaidOfPiece ==
  ASSUME NEW p \in Nat, p >= 3, p <= maxMatchLength
  PROVE  SaidOf(p) = p
<1>1. maxMatchLength \in Nat /\ maxMatchLength >= 6
  BY LevelsAssumption
<1> DEFINE a == p - 3
           b == maxMatchLength - 3 + 1
<1>2. a \in 0..(b - 1) /\ b \in Nat /\ b > 0
  BY <1>1
<1>3. a % b = a
  BY <1>2
<1>4. QED
  BY <1>3 DEF SaidOf, baseMatchLength

\* The recursion has a solution: piece is at most what is left.
LEMMA SaidExists == SaidBy(said)
<1> DEFINE w == [xl \in Nat |-> IF xl = 0 THEN 0 ELSE IF xl < 3 THEN SaidOf(xl) ELSE xl]
<1>1. ASSUME NEW xl \in Nat
      PROVE  w[xl] = IF xl = 0 THEN 0 ELSE SaidOf(piece(xl)) + w[xl - piece(xl)]
  <2>1. CASE xl = 0
    BY <2>1
  <2>2. CASE xl # 0 /\ xl < 3
    <3>1. piece(xl) = xl
      BY <2>2, LevelsAssumption DEF piece
    <3>2. SaidOf(xl) \in Int
      BY LevelsAssumption DEF SaidOf, baseMatchLength
    <3>3. xl - xl = 0 /\ w[0] = 0 /\ w[xl] = SaidOf(xl)
      BY <2>2
    <3>4. QED
      BY <2>2, <3>1, <3>2, <3>3
  <2>3. CASE xl >= 3
    <3>1. /\ piece(xl) \in Nat /\ piece(xl) >= 3 /\ piece(xl) <= maxMatchLength
          /\ piece(xl) <= xl /\ (xl - piece(xl) = 0 \/ xl - piece(xl) >= 3)
      BY <2>3, Pieces
    <3>2. SaidOf(piece(xl)) = piece(xl)
      BY <3>1, SaidOfPiece
    <3>3. xl - piece(xl) \in Nat
      BY <3>1
    <3>4. w[xl - piece(xl)] = xl - piece(xl)
      BY <3>1, <3>3
    <3>5. w[xl] = xl
      BY <2>3
    <3>6. QED
      BY <2>3, <3>1, <3>2, <3>4, <3>5
  <2>4. QED
    BY <2>1, <2>2, <2>3
<1>2. w = [xl \in Nat |-> w[xl]]
  OBVIOUS
<1> HIDE DEF w
<1>3. SaidBy(w)
  BY <1>1, <1>2 DEF SaidBy
<1>4. said = CHOOSE f : SaidBy(f)
  BY DEF said, SaidBy, SaidOf
<1>5. QED
  BY <1>3, <1>4

\* The tokens of AddMatchLong say all the bytes of the match.
LEMMA AllSaid == \A L \in Nat : L >= 3 => AddMatchLong(L) = L
<1> DEFINE T == {xl \in Nat : xl >= 3 /\ said[xl] # xl}
<1>1. SUFFICES ASSUME T # {} PROVE FALSE
  BY DEF AddMatchLong
<1>2. PICK x \in T : \A y \in T : x <= y
  BY <1>1, LeastNat
<1>3. x \in Nat /\ x >= 3 /\ said[x] # x
  BY <1>2
<1>4. /\ piece(x) \in Nat /\ piece(x) >= 3 /\ piece(x) <= maxMatchLength
      /\ piece(x) <= x /\ (x - piece(x) = 0 \/ x - piece(x) >= 3)
  BY <1>3, Pieces
<1>5. said[x] = SaidOf(piece(x)) + said[x - piece(x)]
  BY <1>3, SaidExists DEF SaidBy
<1>6. SaidOf(piece(x)) = piece(x)
  BY <1>4, SaidOfPiece
<1>7. said[0] = 0
  BY SaidExists DEF SaidBy
<1>8. said[x - piece(x)] = x - piece(x)
  <2>1. CASE x - piece(x) = 0
    BY <2>1, <1>7
  <2>2. CASE x - piece(x) >= 3
    <3>1. x - piece(x) \in Nat /\ x - piece(x) < x
      BY <1>3, <1>4
    <3>2. ~(x - piece(x) \in T)
      <4>1. x - piece(x) \in T => x <= x - piece(x)
        BY <1>2
      <4>2. QED
        BY <4>1, <3>1, <1>3
    <3>3. QED
      BY <2>2, <3>1, <3>2
  <2>3. QED
    BY <1>4, <2>1, <2>2
<1>9. QED
  BY <1>3, <1>4, <1>5, <1>6, <1>8

-----------------------------------------------------------------------------
(* The tables while a block is encoded.                                    *)

\* Every entry is a position up to limit, or out of reach.
Good(x, limit) ==
  /\ x.table \in [Hash -> Int] /\ x.truth \in [Hash -> Int]
  /\ \A h \in Hash : /\ x.table[h] >= 0 /\ x.table[h] <= MaxInt32
                     /\ Known(x.table, x.truth, h, limit) \/ OutOfReach(x.table, h)

\* How the variables lie to each other while a block is encoded.
Running ==
  /\ cur \in Nat /\ n \in Nat /\ n <= HistSize /\ blk \in Nat /\ s \in Nat
  /\ nextS \in Nat /\ nextEmit \in Nat /\ emitted \in Nat /\ t \in Int /\ claim \in Int
  /\ cur >= MaxOff /\ cur + n <= MaxInt32
  /\ blk <= n /\ blk <= nextEmit /\ nextEmit <= s
  /\ emitted = nextEmit - blk

LEMMA IsRunning == IndInv /\ pc # "idle" => Running
BY Sizes DEF IndInv, Types, NoOverflow, Order, BlockTiled, Running

\* Between two positions of the search every entry is of an earlier one.
LEMMA GoodInSearch ==
  ASSUME IndInv, pc = "search"
  PROVE  Good(now, s - 1)
<1>1. Running
  BY IsRunning
<1>2. ASSUME NEW h \in Hash
      PROVE  /\ table[h] >= 0 /\ table[h] <= MaxInt32
             /\ Known(table, truth, h, s - 1) \/ OutOfReach(table, h)
  <2>1. table[h] \in Int /\ truth[h] \in Int /\ table[h] >= 0 /\ table[h] <= MaxInt32
    BY DEF IndInv, Types, NoOverflow
  <2>2. CASE Live(h)
    BY <1>1, <2>1, <2>2 DEF Running, Live, AtMatch, Known
  <2>3. CASE Stale(h)
    BY <1>1, <2>1, <2>3 DEF Running, Stale, Lo, OutOfReach
  <2>4. QED
    BY <2>1, <2>2, <2>3 DEF IndInv, Entries, Cleared
<1>3. table \in [Hash -> Int] /\ truth \in [Hash -> Int]
  BY DEF IndInv, Types
<1>4. now.table = table /\ now.truth = truth
  BY DEF now
<1>5. QED
  BY <1>2, <1>3, <1>4 DEF Good

\* With a match found, entries may have been made for positions up to nextS.
LEMMA GoodAtMatch ==
  ASSUME IndInv, AtMatch, NEW limit \in Int, s <= limit, nextS <= limit
  PROVE  Good(now, limit)
<1>1. Running /\ pc # "idle"
  BY IsRunning DEF AtMatch
<1>2. ASSUME NEW h \in Hash
      PROVE  /\ table[h] >= 0 /\ table[h] <= MaxInt32
             /\ Known(table, truth, h, limit) \/ OutOfReach(table, h)
  <2>1. table[h] \in Int /\ truth[h] \in Int /\ table[h] >= 0 /\ table[h] <= MaxInt32
    BY DEF IndInv, Types, NoOverflow
  <2>2. CASE Live(h)
    BY <1>1, <2>1, <2>2 DEF Running, Live, AtMatch, Known
  <2>3. CASE Stale(h)
    BY <1>1, <2>1, <2>3 DEF Running, Stale, Lo, OutOfReach
  <2>4. QED
    BY <1>1, <2>1, <2>2, <2>3 DEF IndInv, Entries, Cleared
<1>3. table \in [Hash -> Int] /\ truth \in [Hash -> Int]
  BY DEF IndInv, Types
<1>4. now.table = table /\ now.truth = truth
  BY DEF now
<1>5. QED
  BY <1>2, <1>3, <1>4 DEF Good

\* A position is entered; with prev, the entry that makes way is kept.
LEMMA GoodEntered ==
  ASSUME Running, NEW x, NEW below \in Int, Good(x, below),
         NEW p \in Nat, p < n, NEW limit \in Int, p <= limit, below <= limit,
         NEW h \in Short \cup Long, NEW prev \in BOOLEAN, prev => h \in Long
  PROVE  Good(entered(x, h, p, prev), limit)
<1> DEFINE y == entered(x, h, p, prev)
<1>1. int32(p + cur) = cur + p
  <2>1. cur \in Nat /\ n \in Nat /\ cur + n <= MaxInt32
    BY DEF Running
  <2>2. p + cur \in Int /\ p + cur <= MaxInt32 /\ p + cur = cur + p
    BY <2>1, Sizes
  <2>3. QED
    BY <2>2, Int32Fits
<1>2. Cur(h) \in Hash /\ (prev => Prev(h) \in Hash) /\ Cur(h) # Prev(h)
  BY Slots
<1>3. ASSUME NEW g \in Hash
      PROVE  /\ x.table[g] \in Int /\ x.truth[g] \in Int
             /\ x.table[g] >= 0 /\ x.table[g] <= MaxInt32
             /\ Known(x.table, x.truth, g, limit) \/ OutOfReach(x.table, g)
  <2>1. x.table[g] \in Int /\ x.truth[g] \in Int
    BY DEF Good
  <2>2. QED
    BY <2>1 DEF Good, Known
<1>4. CASE ~prev
  <2>1. /\ y.table = [x.table EXCEPT ![Cur(h)] = cur + p]
        /\ y.truth = [x.truth EXCEPT ![Cur(h)] = p]
    BY <1>1, <1>4 DEF entered
  <2>2. y.table \in [Hash -> Int] /\ y.truth \in [Hash -> Int]
    <3>1. cur + p \in Int /\ p \in Int
      BY DEF Running
    <3>2. x.table \in [Hash -> Int] /\ x.truth \in [Hash -> Int]
      BY DEF Good
    <3> HIDE DEF y
    <3>3. QED
      BY <2>1, <3>1, <3>2
  <2>3. ASSUME NEW g \in Hash
        PROVE  /\ y.table[g] = IF g = Cur(h) THEN cur + p ELSE x.table[g]
               /\ y.truth[g] = IF g = Cur(h) THEN p ELSE x.truth[g]
    BY <2>1 DEF Good
  <2> HIDE DEF y
  <2>4. ASSUME NEW g \in Hash
        PROVE  /\ y.table[g] >= 0 /\ y.table[g] <= MaxInt32
               /\ Known(y.table, y.truth, g, limit) \/ OutOfReach(y.table, g)
    <3>1. CASE g = Cur(h)
      <4>1. y.table[g] = cur + p /\ y.truth[g] = p
        BY <2>3, <3>1
      <4>2. QED
        BY <4>1, Sizes DEF Running, Known
    <3>2. CASE g # Cur(h)
      <4>1. y.table[g] = x.table[g] /\ y.truth[g] = x.truth[g]
        BY <2>3, <3>2
      <4>2. QED
        BY <4>1, <1>3 DEF Known, OutOfReach
    <3>3. QED
      BY <3>1, <3>2
  <2>5. QED
    BY <2>2, <2>4 DEF Good, y
<1>5. CASE prev
  <2>1. /\ y.table = [[x.table EXCEPT ![Prev(h)] = x.table[Cur(h)]] EXCEPT ![Cur(h)] = cur + p]
        /\ y.truth = [[x.truth EXCEPT ![Prev(h)] = x.truth[Cur(h)]] EXCEPT ![Cur(h)] = p]
    BY <1>1, <1>5 DEF entered
  <2>2. y.table \in [Hash -> Int] /\ y.truth \in [Hash -> Int]
    BY <1>2, <1>3, <2>1 DEF Good, Running
  <2>3. ASSUME NEW g \in Hash
        PROVE  /\ y.table[g] = IF g = Cur(h) THEN cur + p
                               ELSE IF g = Prev(h) THEN x.table[Cur(h)] ELSE x.table[g]
               /\ y.truth[g] = IF g = Cur(h) THEN p
                               ELSE IF g = Prev(h) THEN x.truth[Cur(h)] ELSE x.truth[g]
    BY <1>2, <1>5, <2>1 DEF Good
  <2> HIDE DEF y
  <2>4. ASSUME NEW g \in Hash
        PROVE  /\ y.table[g] >= 0 /\ y.table[g] <= MaxInt32
               /\ Known(y.table, y.truth, g, limit) \/ OutOfReach(y.table, g)
    <3>1. CASE g = Cur(h)
      <4>1. y.table[g] = cur + p /\ y.truth[g] = p
        BY <2>3, <3>1
      <4>2. QED
        BY <4>1, Sizes DEF Running, Known
    <3>2. CASE g # Cur(h) /\ g = Prev(h)
      <4>1. y.table[g] = x.table[Cur(h)] /\ y.truth[g] = x.truth[Cur(h)]
        BY <2>3, <3>2
      <4>2. /\ x.table[Cur(h)] >= 0 /\ x.table[Cur(h)] <= MaxInt32
            /\ Known(x.table, x.truth, Cur(h), limit) \/ OutOfReach(x.table, Cur(h))
        BY <1>2, <1>3
      <4>3. QED
        BY <4>1, <4>2 DEF Known, OutOfReach
    <3>3. CASE g # Cur(h) /\ g # Prev(h)
      <4>1. y.table[g] = x.table[g] /\ y.truth[g] = x.truth[g]
        BY <2>3, <3>3
      <4>2. QED
        BY <4>1, <1>3 DEF Known, OutOfReach
    <3>4. QED
      BY <3>1, <3>2, <3>3
  <2>5. QED
    BY <2>2, <2>4 DEF Good, y
<1>6. QED
  BY <1>4, <1>5

\* Positions are entered in rising order.
LEMMA GoodIndexed ==
  ASSUME Running, NEW x, NEW limit \in Nat, limit < n, Good(x, limit),
         NEW P \in SUBSET (0..limit), NEW S \in {Short, Long}, NEW f \in [P -> S],
         NEW prev \in BOOLEAN, prev => S = Long
  PROVE  Good(indexed(x, P, f, prev), limit)
<1> DEFINE of(h) == {p \in P : f[p] = h}
           older(h) == of(h) \ {Latest(of(h))}
           set(v, entry(_)) ==
             [k \in Hash |->
                IF of(k[1]) = {} \/ (k[2] = "prev" /\ ~prev) THEN v[k]
                ELSE IF k[2] = "cur" THEN entry(Latest(of(k[1])))
                ELSE IF older(k[1]) = {} THEN v[Cur(k[1])]
                ELSE entry(Latest(older(k[1])))]
           y == indexed(x, P, f, prev)
<1>1. CASE P = {}
  BY <1>1 DEF indexed
<1>2. CASE P # {}
  <2>1. y = [table |-> set(x.table, LAMBDA p : int32(p + cur)),
             truth |-> set(x.truth, LAMBDA p : p)]
    BY <1>2 DEF indexed
  <2>2. ASSUME NEW k \in Hash
        PROVE  \/ /\ y.table[k] = x.table[k] /\ y.truth[k] = x.truth[k]
               \/ /\ Cur(k[1]) \in Hash
                  /\ y.table[k] = x.table[Cur(k[1])] /\ y.truth[k] = x.truth[Cur(k[1])]
               \/ \E p \in P : y.table[k] = int32(p + cur) /\ y.truth[k] = p
    <3>1. /\ y.table[k] = (IF of(k[1]) = {} \/ (k[2] = "prev" /\ ~prev) THEN x.table[k]
                           ELSE IF k[2] = "cur" THEN int32(Latest(of(k[1])) + cur)
                           ELSE IF older(k[1]) = {} THEN x.table[Cur(k[1])]
                           ELSE int32(Latest(older(k[1])) + cur))
          /\ y.truth[k] = (IF of(k[1]) = {} \/ (k[2] = "prev" /\ ~prev) THEN x.truth[k]
                           ELSE IF k[2] = "cur" THEN Latest(of(k[1]))
                           ELSE IF older(k[1]) = {} THEN x.truth[Cur(k[1])]
                           ELSE Latest(older(k[1])))
      BY <2>1
    <3>2. Cur(k[1]) \in Hash
      BY Slots
    <3>3. of(k[1]) # {} => Latest(of(k[1])) \in P
      <4>1. of(k[1]) \in SUBSET (0..limit)
        OBVIOUS
      <4>2. QED
        BY <4>1, LatestOf
    <3>4. older(k[1]) # {} => Latest(older(k[1])) \in P
      <4>1. older(k[1]) \in SUBSET (0..limit)
        OBVIOUS
      <4>2. older(k[1]) # {} => Latest(older(k[1])) \in older(k[1])
        BY <4>1, LatestOf
      <4>3. QED
        BY <4>2
    <3> HIDE DEF y, of, older
    <3>5. QED
      BY <3>1, <3>2, <3>3, <3>4
  <2>3. DOMAIN y.table = Hash /\ DOMAIN y.truth = Hash
    BY <2>1
  <2>4. y.table = [k \in Hash |-> y.table[k]] /\ y.truth = [k \in Hash |-> y.truth[k]]
    BY <2>1
  <2> HIDE DEF y, set, of, older
  <2>5. ASSUME NEW k \in Hash
        PROVE  /\ y.table[k] \in Int /\ y.truth[k] \in Int
               /\ y.table[k] >= 0 /\ y.table[k] <= MaxInt32
               /\ Known(y.table, y.truth, k, limit) \/ OutOfReach(y.table, k)
    <3>1. CASE y.table[k] = x.table[k] /\ y.truth[k] = x.truth[k]
      <4>1. /\ x.table[k] \in Int /\ x.truth[k] \in Int
            /\ x.table[k] >= 0 /\ x.table[k] <= MaxInt32
            /\ Known(x.table, x.truth, k, limit) \/ OutOfReach(x.table, k)
        BY DEF Good
      <4>2. QED
        BY <3>1, <4>1 DEF Known, OutOfReach
    <3>2. CASE /\ Cur(k[1]) \in Hash
               /\ y.table[k] = x.table[Cur(k[1])] /\ y.truth[k] = x.truth[Cur(k[1])]
      <4>1. PICK j \in Hash : y.table[k] = x.table[j] /\ y.truth[k] = x.truth[j]
        BY <3>2
      <4>2. /\ x.table[j] \in Int /\ x.truth[j] \in Int
            /\ x.table[j] >= 0 /\ x.table[j] <= MaxInt32
            /\ Known(x.table, x.truth, j, limit) \/ OutOfReach(x.table, j)
        BY DEF Good
      <4>3. QED
        BY <4>1, <4>2 DEF Known, OutOfReach
    <3>3. CASE \E p \in P : y.table[k] = int32(p + cur) /\ y.truth[k] = p
      <4>1. PICK p \in P : y.table[k] = int32(p + cur) /\ y.truth[k] = p
        BY <3>3
      <4>2. p \in 0..limit
        OBVIOUS
      <4>3. int32(p + cur) = p + cur
        <5>1. cur \in Nat /\ n \in Nat /\ cur + n <= MaxInt32 /\ p \in Nat /\ p < n
          BY <4>2 DEF Running
        <5>2. p + cur \in Int /\ p + cur <= MaxInt32
          BY <5>1, Sizes
        <5>3. QED
          BY <5>2, Int32Fits
      <4>4. y.table[k] = p + cur /\ y.truth[k] = p
        BY <4>1, <4>3
      <4>5. QED
        BY <4>2, <4>4, Sizes DEF Running, Known
    <3>4. QED
      BY <2>2, <3>1, <3>2, <3>3
  <2>6. y.table \in [Hash -> Int] /\ y.truth \in [Hash -> Int]
    BY <2>4, <2>5
  <2>7. QED
    BY <2>5, <2>6 DEF Good, y
<1>3. QED
  BY <1>1, <1>2

\* A match may be emitted for what candidate c says.
Proper(c) ==
  /\ c.at \in Nat /\ c.t \in Int /\ c.claim \in Int
  /\ c.t >= 0 /\ c.t < c.at /\ c.at - c.t <= MaxOff /\ c.t = c.claim

\* A candidate near enough is a position of the history.
LEMMA GoodCandidate ==
  ASSUME Running, NEW x, NEW limit \in Int, Good(x, limit),
         NEW h \in Hash, NEW at \in Nat, at > limit, at >= blk
  PROVE  /\ cand(x, h, at).at = at /\ cand(x, h, at).t \in Int
         /\ \/ cand(x, h, at).at - cand(x, h, at).t < MaxOff
            \/ /\ cand(x, h, at).at - cand(x, h, at).t <= MaxOff
               /\ at > blk
            => Proper(cand(x, h, at))
<1> DEFINE c == cand(x, h, at)
<1>1. c.at = at /\ c.t = x.table[h] - cur /\ c.claim = x.truth[h]
  BY DEF cand
<1>2. x.table[h] \in Int /\ x.truth[h] \in Int /\ cur \in Nat
  BY DEF Good, Running
<1>3. Known(x.table, x.truth, h, limit) \/ OutOfReach(x.table, h)
  BY DEF Good
<1> HIDE DEF c
<1>4. ASSUME c.at - c.t < MaxOff \/ (c.at - c.t <= MaxOff /\ at > blk)
      PROVE  Proper(c)
  <2>1. ~OutOfReach(x.table, h)
    BY <1>1, <1>2, <1>4, Sizes DEF OutOfReach, Running
  <2>2. x.truth[h] >= 0 /\ x.truth[h] <= limit /\ x.table[h] = cur + x.truth[h]
    BY <1>3, <2>1 DEF Known
  <2>3. QED
    BY <1>1, <1>2, <1>4, <2>2, Sizes DEF Proper
<1>5. QED
  BY <1>1, <1>2, <1>4 DEF c

\* What a step leaves of the tables.
LEMMA GoodAfter ==
  ASSUME IndInv, pc # "idle", NEW x, NEW limit \in Int, Good(x, limit), become(x),
         UNCHANGED <<cur, n, blk>>, s' \in Nat, nextS' \in Nat,
         \/ pc' = "idle" \/ limit < s'
         \/ AtMatch' /\ (limit <= s' \/ limit <= nextS')
  PROVE  table' \in [Hash -> Int] /\ truth' \in [Hash -> Int] /\ NoOverflow' /\ Entries'
<1>1. Running
  BY IsRunning
<1>2. table' = x.table /\ truth' = x.truth /\ cur' = cur /\ n' = n /\ blk' = blk
  BY DEF become
<1>3. table' \in [Hash -> Int] /\ truth' \in [Hash -> Int]
  BY <1>2 DEF Good
<1>4. ASSUME NEW h \in Hash
      PROVE  /\ table'[h] >= 0 /\ table'[h] <= MaxInt32
             /\ (Live(h) \/ Stale(h))'
  <2>1. /\ table'[h] \in Int /\ truth'[h] \in Int
        /\ table'[h] >= 0 /\ table'[h] <= MaxInt32
        /\ Known(x.table, x.truth, h, limit) \/ OutOfReach(x.table, h)
    BY <1>2, <1>3 DEF Good
  <2>2. CASE Known(x.table, x.truth, h, limit)
    <3>1. /\ truth'[h] >= 0 /\ truth'[h] < n' /\ table'[h] = cur' + truth'[h]
          /\ truth'[h] <= limit
      BY <1>2, <2>2 DEF Known
    <3>2. \/ pc' = "idle" \/ truth'[h] < s'
          \/ AtMatch' /\ (truth'[h] <= s' \/ truth'[h] <= nextS')
      BY <2>1, <3>1
    <3>3. Live(h)'
      BY <3>1, <3>2 DEF Live
    <3>4. QED
      BY <2>1, <3>3
  <2>3. CASE OutOfReach(x.table, h)
    <3>1. table'[h] < cur' /\ table'[h] + MaxOff <= cur' + blk'
      BY <1>2, <2>3 DEF OutOfReach
    <3>2. table'[h] + MaxOff <= cur' + Lo'
      BY <1>1, <1>2, <2>1, <3>1, Sizes DEF Lo, Running
    <3>3. Stale(h)'
      BY <2>1, <3>1, <3>2 DEF Stale
    <3>4. QED
      BY <2>1, <3>3
  <2>4. QED
    BY <2>1, <2>2, <2>3
<1>5. NoOverflow'
  BY <1>1, <1>2, <1>4 DEF NoOverflow, Running
<1>6. QED
  BY <1>3, <1>4, <1>5 DEF Entries

-----------------------------------------------------------------------------
(* The inner loop of levels 3 to 6.                                        *)

\* What the inner loop makes of position s is in order.
Looks(found) ==
  /\ Good(found.on, s) /\ Good(found.stop, following)
  /\ \A c \in found.cands : Proper(c) /\ c.at >= s /\ c.at <= following

\* The next position is in the block, with room for a match.
Onward ==
  /\ following \in Nat /\ following > s /\ following < n
  /\ following + MinMatch <= n

LEMMA FollowingIsLater ==
  ASSUME Running
  PROVE  following \in Nat /\ following > s
<1>1. s \in Nat /\ nextEmit \in Nat /\ nextEmit <= s
  BY DEF Running
<1>2. s - nextEmit \in Nat
  BY <1>1
<1>3. (s - nextEmit) \div Skip \in Nat
  BY <1>2, SkipForward
<1>4. following = s + 1 + (s - nextEmit) \div Skip
  BY DEF following
<1> HIDE DEF following
<1>5. QED
  BY <1>1, <1>3, <1>4

\* Where the tables are searched at s and at the next position.
LEMMA Near ==
  ASSUME Running, NEW x, NEW limit \in Int, Good(x, limit), NEW h \in Hash,
         NEW at \in Nat, at > limit, at >= s, near(cand(x, h, at))
  PROVE  Proper(cand(x, h, at)) /\ cand(x, h, at).at = at
<1>1. at >= blk /\ s >= blk
  BY DEF Running
<1>2. cand(x, h, at).at = at
  BY DEF cand
<1>3. cand(x, h, at).at - cand(x, h, at).t < MaxOff
  BY DEF near, inReach
<1>4. QED
  BY <1>1, <1>2, <1>3, GoodCandidate

LEMMA GoodShort ==
  ASSUME Running, NEW x, NEW below \in Int, Good(x, below), NEW a \in Short,
         NEW p \in Nat, p < n, below <= p
  PROVE  Good(short(x, a, p), p)
<1>1. a \in Short \cup Long /\ p \in Int /\ p <= p
  OBVIOUS
<1>2. QED
  BY <1>1, GoodEntered DEF short

LEMMA GoodLong ==
  ASSUME Running, NEW x, NEW below \in Int, Good(x, below), NEW b \in Long,
         NEW p \in Nat, p < n, below <= p
  PROVE  Good(long(x, b, p), p)
<1>1. b \in Short \cup Long /\ p \in Int /\ p <= p /\ keepsPrev \in BOOLEAN
  BY DEF keepsPrev
<1>2. QED
  BY <1>1, GoodEntered DEF long

\* A good table for a position is good for a later one.
LEMMA GoodLater ==
  ASSUME NEW x, NEW below \in Int, Good(x, below), NEW limit \in Int, below <= limit
  PROVE  Good(x, limit)
<1>1. ASSUME NEW h \in Hash, Known(x.table, x.truth, h, below)
      PROVE  Known(x.table, x.truth, h, limit)
  <2>1. x.truth[h] \in Int
    BY DEF Good
  <2>2. QED
    BY <1>1, <2>1 DEF Known
<1>2. QED
  BY <1>1 DEF Good

LEMMA Looked3Holds ==
  ASSUME Running, Onward, Good(now, s - 1), NEW b \in Long
  PROVE  Looks(looked3(b))
<1> DEFINE x == long(now, b, s)
           c == cand(now, Cur(b), s)
           p == cand(now, Prev(b), s)
           found == looked3(b)
<1>1. s \in Nat /\ s - 1 \in Int /\ s < n /\ blk <= s /\ s - 1 <= s /\ s > s - 1
  BY DEF Running, Onward
<1>2. Good(x, s)
  BY <1>1, GoodLong
<1>3. Good(x, following)
  BY <1>1, <1>2, GoodLater DEF Onward
<1>4. Cur(b) \in Hash /\ Prev(b) \in Hash
  BY Slots
<1>5. /\ c.at = s /\ c.t \in Int /\ (c.at - c.t < MaxOff => Proper(c))
      /\ p.at = s /\ p.t \in Int /\ (p.at - p.t < MaxOff => Proper(p))
  BY <1>1, <1>4, GoodCandidate
<1>6. MaxOff - MinMatch < MaxOff
  BY Sizes
<1>7. (near3(c) => Proper(c)) /\ (near3(p) => Proper(p))
  <2> HIDE DEF c, p
  <2>1. QED
    BY <1>1, <1>5, <1>6, Sizes DEF near3
<1>8. found.on = x /\ found.stop = x
      /\ found.cands = only(c, near3(c)) \cup only(p, near3(c) /\ near3(p))
  BY DEF looked3
<1> HIDE DEF x, c, p, found
<1>9. \A k \in found.cands : Proper(k) /\ k.at = s
  BY <1>5, <1>7, <1>8 DEF only
<1>10. QED
  BY <1>1, <1>2, <1>3, <1>8, <1>9 DEF Looks, Onward, found

LEMMA Looked4Holds ==
  ASSUME Running, Onward, Good(now, s - 1), NEW a \in Short, NEW b \in Long, NEW b2 \in Long
  PROVE  Looks(looked4(a, b, b2))
<1> DEFINE y == short(now, a, s)
           x == long(y, b, s)
           l == cand(now, Cur(b), s)
           c == cand(now, Cur(a), s)
           l2 == cand(x, Cur(b2), following)
           found == looked4(a, b, b2)
<1>1. /\ s \in Nat /\ s - 1 \in Int /\ s < n /\ s - 1 <= s /\ s > s - 1 /\ s >= s
      /\ following \in Nat /\ following > s /\ following >= s
  BY DEF Running, Onward
<1>2. Good(y, s)
  BY <1>1, GoodShort
<1>3. Good(x, s)
  BY <1>1, <1>2, GoodLong
<1>4. Good(x, following)
  BY <1>1, <1>3, GoodLater
<1>5. Cur(a) \in Hash /\ Cur(b) \in Hash /\ Cur(b2) \in Hash
  BY Slots
<1>6. /\ near(l) => Proper(l) /\ l.at = s
      /\ near(c) => Proper(c) /\ c.at = s
  BY <1>1, <1>5, Near
<1>7. near(l2) => Proper(l2) /\ l2.at = following
  BY <1>1, <1>3, <1>5, Near
<1>8. found.on = x /\ found.stop = x
      /\ found.cands = ((only(l, near(l)) \cup only(c, near(c)))
                          \cup only(l2, near(c) /\ near(l2)))
  BY DEF looked4
<1> HIDE DEF y, x, c, l, l2, found
<1>9. \A k \in found.cands : Proper(k) /\ (k.at = s \/ k.at = following)
  BY <1>6, <1>7, <1>8 DEF only
<1>10. \A k \in found.cands : Proper(k) /\ k.at >= s /\ k.at <= following
  BY <1>1, <1>9
<1>11. QED
  BY <1>3, <1>4, <1>8, <1>10 DEF Looks, found

LEMMA Looked5Holds ==
  ASSUME Running, Onward, Good(now, s - 1),
         NEW a \in Short, NEW b \in Long, NEW a2 \in Short, NEW b2 \in Long
  PROVE  Looks(looked5(a, b, a2, b2))
<1> DEFINE y == short(now, a, s)
           x == long(y, b, s)
           l == cand(now, Cur(b), s)
           p == cand(now, Prev(b), s)
           c == cand(now, Cur(a), s)
           l2 == cand(x, Cur(b2), following)
           p2 == cand(x, Prev(b2), following)
           z == short(x, a2, following)
           stop == long(z, b2, following)
           found == looked5(a, b, a2, b2)
<1>1. /\ s \in Nat /\ s - 1 \in Int /\ s < n /\ s - 1 <= s /\ s > s - 1 /\ s >= s
      /\ following \in Nat /\ following > s /\ following >= s /\ following < n
      /\ s <= following /\ following <= following
  BY DEF Running, Onward
<1>2. Good(y, s)
  BY <1>1, GoodShort
<1>3. Good(x, s)
  BY <1>1, <1>2, GoodLong
<1>4. Good(z, following)
  BY <1>1, <1>3, GoodShort
<1>5. Good(stop, following)
  BY <1>1, <1>4, GoodLong
<1>6. /\ Cur(a) \in Hash /\ Cur(b) \in Hash /\ Cur(b2) \in Hash
      /\ Prev(b) \in Hash /\ Prev(b2) \in Hash
  BY Slots
<1>7. /\ near(l) => Proper(l) /\ l.at = s
      /\ near(p) => Proper(p) /\ p.at = s
      /\ near(c) => Proper(c) /\ c.at = s
  BY <1>1, <1>6, Near
<1>8. /\ near(l2) => Proper(l2) /\ l2.at = following
      /\ near(p2) => Proper(p2) /\ p2.at = following
  BY <1>1, <1>3, <1>6, Near
<1>9. found.on = x /\ found.stop = stop
      /\ found.cands = UNION {only(l, near(l)), only(p, near(l) /\ near(p)), only(c, near(c)),
                              only(l2, near(c) /\ near(l2)),
                              only(p2, near(c) /\ near(l2) /\ near(p2))}
  BY DEF looked5
<1> HIDE DEF y, x, c, l, p, l2, p2, z, stop, found
<1>10. \A k \in found.cands : Proper(k) /\ (k.at = s \/ k.at = following)
  <2> SUFFICES ASSUME NEW k \in found.cands
               PROVE  Proper(k) /\ (k.at = s \/ k.at = following)
    OBVIOUS
  <2>1. \/ k \in only(l, near(l)) \/ k \in only(p, near(l) /\ near(p))
        \/ k \in only(c, near(c)) \/ k \in only(l2, near(c) /\ near(l2))
        \/ k \in only(p2, near(c) /\ near(l2) /\ near(p2))
    BY <1>9
  <2>2. QED
    BY <2>1, <1>7, <1>8 DEF only
<1>11. \A k \in found.cands : Proper(k) /\ k.at >= s /\ k.at <= following
  BY <1>1, <1>10
<1>12. QED
  BY <1>3, <1>5, <1>9, <1>11 DEF Looks, found

\* Level 6: the repeated offset stays in the history and the window.
LEMMA Looked6Holds ==
  ASSUME Running, Onward, Good(now, s - 1),
         NEW a \in Short, NEW b \in Long, NEW a2 \in Short, NEW b2 \in Long,
         repeat \in Nat \ {0}, repeat <= MaxOff, repeat <= s + 1
  PROVE  Looks(looked6(a, b, a2, b2))
<1> DEFINE r == [at |-> s + 1, t |-> s - repeat + 1, claim |-> s - repeat + 1]
           five == looked5(a, b, a2, b2)
           found == looked6(a, b, a2, b2)
<1>1. Looks(five)
  BY Looked5Holds
<1>2. /\ s \in Nat /\ following \in Nat /\ following > s
  BY DEF Running, Onward
<1>3. r.at = s + 1 /\ r.t = s - repeat + 1 /\ r.claim = s - repeat + 1
  OBVIOUS
<1>4. Proper(r) /\ r.at >= s /\ r.at <= following
  <2> HIDE DEF r
  <2>1. QED
    BY <1>2, <1>3, Sizes DEF Proper
<1>5. found.on = five.on /\ found.stop = five.stop
      /\ found.cands = (five.cands \cup only(r, near(cand(now, Cur(a), s))))
  BY DEF looked6, looked5
<1> HIDE DEF r, five, found
<1>6. \A k \in found.cands : Proper(k) /\ k.at >= s /\ k.at <= following
  BY <1>1, <1>4, <1>5 DEF only, Looks
<1>7. QED
  BY <1>1, <1>5, <1>6 DEF Looks, found

\* What a step must leave besides the tables.
LEMMA InvAfter ==
  ASSUME IndInv, pc # "idle", NEW x, NEW limit \in Int, Good(x, limit), become(x),
         UNCHANGED <<cur, n, blk>>, s' \in Nat, nextS' \in Nat, nextEmit' \in Nat,
         t' \in Int, claim' \in Int, emitted' \in Nat,
         \/ pc' = "idle" /\ emitted' \in {0, n - blk}
         \/ /\ pc' = "search"
            /\ limit < s' /\ blk <= nextEmit' /\ nextEmit' <= s'
            /\ emitted' = nextEmit' - blk
         \/ /\ pc' \in {"best", "match"}
            /\ limit <= s' \/ limit <= nextS'
            /\ blk <= nextEmit' /\ nextEmit' <= s' /\ emitted' = nextEmit' - blk
            /\ nextS' < n
            /\ t' >= 0 /\ t' < s' /\ s' - t' <= MaxOff /\ t' = claim' /\ s' + MinMatch <= n
  PROVE  IndInv'
<1>1. Running
  BY IsRunning
<1>2. cur' = cur /\ n' = n /\ blk' = blk
  OBVIOUS
<1>3. table' \in [Hash -> Int] /\ truth' \in [Hash -> Int] /\ NoOverflow' /\ Entries'
  BY GoodAfter DEF AtMatch
<1>4. pc' \in {"idle", "search", "second", "best", "match"}
  OBVIOUS
<1>5. Types'
  BY <1>1, <1>2, <1>3, <1>4 DEF Types, Running
<1>6. Order'
  BY <1>1, <1>2 DEF Order, AtMatch, Running
<1>7. Found'
  BY <1>2 DEF Found, AtMatch
<1>8. BlockTiled'
  BY <1>1, <1>2 DEF BlockTiled, Running
<1>9. QED
  BY <1>3, <1>5, <1>6, <1>7, <1>8 DEF IndInv

\* seek: the inner loop of levels 3 to 6.
LEMMA SeekHolds ==
  ASSUME IndInvLevels, level > 2, NEW a \in Short, NEW b \in Long, NEW a2 \in Short,
         NEW b2 \in Long, seek(a, b, a2, b2)
  PROVE  IndInvLevels'
<1>1. /\ pc = "search" /\ nextS' = following
      /\ cur' = cur /\ n' = n /\ blk' = blk /\ nextEmit' = nextEmit
      /\ level' = level /\ IndInv /\ Own
  BY DEF seek, IndInvLevels
<1>2. Running
  BY <1>1, IsRunning
<1>3. following \in Nat /\ following > s
  BY <1>2, FollowingIsLater
<1>4. Good(now, s - 1)
  BY <1>1, GoodInSearch
<1>5. /\ s \in Nat /\ s - 1 \in Int /\ n \in Nat /\ blk \in Nat /\ nextEmit \in Nat
      /\ emitted \in Nat /\ blk <= n /\ blk <= nextEmit /\ nextEmit <= s
      /\ emitted = nextEmit - blk /\ t \in Int /\ claim \in Int
  BY <1>2 DEF Running
<1>6. sLimit = n - InputMargin /\ sLimit' = sLimit
  BY <1>1 DEF sLimit
<1>7. CASE /\ nextS' > sLimit
           /\ emitRemainder(emitted)
           /\ repeat' = 1
           /\ UNCHANGED <<table, truth, s, t, claim>>
  <2>1. /\ pc' = "idle" /\ emitted' = IF emitted = 0 THEN 0 ELSE emitted + (n - nextEmit)
        /\ become(now) /\ s' = s /\ t' = t /\ claim' = claim /\ repeat' = 1
    BY <1>1, <1>7 DEF emitRemainder, become, now
  <2>2. emitted' \in {0, n - blk} /\ emitted' \in Nat
    BY <1>5, <2>1
  <2>3. UNCHANGED <<cur, n, blk>> /\ pc # "idle"
    BY <1>1
  <2>4. s' \in Nat /\ nextS' \in Nat /\ nextEmit' \in Nat /\ t' \in Int /\ claim' \in Int
    BY <1>1, <1>3, <1>5, <2>1
  <2>5. IndInv'
    BY <1>1, <1>4, <1>5, <2>1, <2>2, <2>3, <2>4, InvAfter
  <2>6. Own'
    BY <1>1, <2>1 DEF Own
  <2>7. QED
    BY <2>5, <2>6 DEF IndInvLevels
<1>8. CASE nextS' <= sLimit
  <2> DEFINE found == CASE level = 3 -> looked3(b)
                        [] level = 4 -> looked4(a, b, b2)
                        [] level = 5 -> looked5(a, b, a2, b2)
                        [] level = 6 -> looked6(a, b, a2, b2)
  <2>1. Onward
    BY <1>1, <1>3, <1>5, <1>6, <1>8, Sizes DEF Onward
  <2>2. Looks(found)
    <3>1. level \in {3, 4, 5, 6}
      BY <1>1 DEF Own
    <3>2. CASE level = 3
      <4>1. found = looked3(b)
        BY <3>2
      <4>2. QED
        BY <4>1, <1>2, <1>4, <2>1, Looked3Holds
    <3>3. CASE level = 4
      <4>1. found = looked4(a, b, b2)
        BY <3>3
      <4>2. QED
        BY <4>1, <1>2, <1>4, <2>1, Looked4Holds
    <3>4. CASE level = 5
      <4>1. found = looked5(a, b, a2, b2)
        BY <3>4
      <4>2. QED
        BY <4>1, <1>2, <1>4, <2>1, Looked5Holds
    <3>5. CASE level = 6
      <4>1. found = looked6(a, b, a2, b2)
        BY <3>5
      <4>2. repeat \in Nat \ {0} /\ repeat <= MaxOff /\ repeat <= s + 1
        BY <1>1, <3>5 DEF Own
      <4>3. QED
        BY <4>1, <4>2, <1>2, <1>4, <2>1, Looked6Holds
    <3>6. QED
      BY <3>1, <3>2, <3>3, <3>4, <3>5
  <2>3. /\ emitted' = emitted /\ repeat' = repeat
        /\ \/ become(found.on) /\ s' = nextS' /\ t' = 0 /\ claim' = Gone /\ pc' = pc
           \/ /\ become(found.stop)
              /\ \E c \in found.cands : s' = c.at /\ t' = c.t /\ claim' = c.claim
              /\ pc' = IF level > 4 THEN "best" ELSE "match"
    <3>1. ~(nextS' > sLimit)
      BY <1>1, <1>3, <1>5, <1>6, <1>8, Sizes
    <3>2. QED
      BY <3>1 DEF seek, noMatch
  <2> HIDE DEF found
  <2>4. UNCHANGED <<cur, n, blk>> /\ pc # "idle"
    BY <1>1
  <2>5. \A at \in Nat : at <= following => at + MinMatch <= n
    BY <1>5, <2>1, Sizes DEF Onward
  <2>6. \A at \in Nat, k \in Nat : at >= s /\ k <= s + 1 => k <= at + 1
    BY <1>5
  <2>7. CASE become(found.on) /\ s' = nextS' /\ t' = 0 /\ claim' = Gone /\ pc' = pc
    <3>1. Good(found.on, s) /\ s \in Int
      BY <1>5, <2>2 DEF Looks
    <3>2. /\ pc' = "search" /\ s < s' /\ blk <= nextEmit' /\ nextEmit' <= s'
          /\ emitted' = nextEmit' - blk /\ s' = following
      BY <1>1, <1>3, <1>5, <2>3, <2>7
    <3>3. /\ s' \in Nat /\ nextS' \in Nat /\ nextEmit' \in Nat /\ t' \in Int /\ claim' \in Int
          /\ emitted' \in Nat
      BY <1>1, <1>3, <1>5, <2>3, <2>7 DEF Gone
    <3>4. IndInv'
      BY <1>1, <2>4, <2>7, <3>1, <3>2, <3>3, InvAfter
    <3>5. Own'
      BY <1>1, <1>3, <1>5, <2>3, <3>2 DEF Own
    <3>6. QED
      BY <3>4, <3>5 DEF IndInvLevels
  <2>8. CASE /\ become(found.stop)
             /\ \E c \in found.cands : s' = c.at /\ t' = c.t /\ claim' = c.claim
             /\ pc' = IF level > 4 THEN "best" ELSE "match"
    <3>1. Good(found.stop, following) /\ following \in Int
      BY <1>3, <2>2 DEF Looks
    <3>2. PICK c \in found.cands : s' = c.at /\ t' = c.t /\ claim' = c.claim
      BY <2>8
    <3>3. Proper(c) /\ c.at >= s /\ c.at <= following
      BY <2>2 DEF Looks
    <3>4. /\ s' \in Nat /\ t' \in Int /\ claim' \in Int
          /\ s' >= s /\ s' <= following
          /\ t' >= 0 /\ t' < s' /\ s' - t' <= MaxOff /\ t' = claim'
      BY <3>2, <3>3 DEF Proper
    <3>5. following <= nextS' /\ nextS' < n /\ s' + MinMatch <= n
      <4>1. /\ following \in Nat /\ following < n /\ following + MinMatch <= n
            /\ nextS' = following /\ s' \in Nat /\ s' <= following
        BY <1>1, <2>1, <3>4 DEF Onward
      <4>2. MinMatch \in Nat /\ n \in Nat
        BY <1>5, Sizes
      <4>3. s' + MinMatch <= n
        BY <2>5, <4>1
      <4>4. QED
        BY <4>1, <4>3
    <3>6. /\ blk <= nextEmit' /\ nextEmit' <= s' /\ emitted' = nextEmit' - blk
          /\ nextS' \in Nat /\ nextEmit' \in Nat /\ emitted' \in Nat
      BY <1>1, <1>3, <1>5, <2>3, <3>4
    <3>7. pc' \in {"best", "match"}
      BY <2>8
    <3>8. IndInv'
      BY <1>1, <2>4, <2>8, <3>1, <3>4, <3>5, <3>6, <3>7, InvAfter
    <3>9. pc' = "best" => level' > 4
      BY <1>1, <2>8
    <3>10. Own'
      <4>1. level' \in 1..6 /\ repeat' \in Nat \ {0}
        BY <1>1, <2>3 DEF Own
      <4>2. level' = 6 => repeat' <= MaxOff /\ repeat' <= s + 1
        BY <1>1, <2>3 DEF Own
      <4>3. level' = 6 => repeat' <= MaxOff /\ repeat' <= s' + 1
        BY <2>6, <3>4, <4>1, <4>2
      <4>4. QED
        BY <3>7, <3>9, <4>1, <4>3 DEF Own
    <3>11. QED
      BY <3>8, <3>10 DEF IndInvLevels
  <2>9. QED
    BY <2>3, <2>7, <2>8
<1>9. QED
  BY <1>7, <1>8 DEF seek

-----------------------------------------------------------------------------
(* A better match, and what follows a match.                               *)

\* A match at s or two bytes on that may be emitted.
Fits(k) ==
  /\ k.s \in Nat /\ k.t \in Int /\ k.claim \in Int /\ k.l \in Nat
  /\ k.s >= s /\ k.t >= 0 /\ k.t < k.s /\ k.s - k.t <= MaxOff /\ k.t = k.claim
  /\ k.l >= MinMatch /\ k.s + MinMatch <= n

\* The end of a match gives another that fits, or the same.
LEMMA LongerFits ==
  ASSUME Running, NEW m, Fits(m), NEW h \in Hash, table[h] \in Int,
         NEW k \in longer(m, h, s)
  PROVE  Fits(k)
<1>1. CASE k = m
  BY <1>1
<1>2. CASE k # m
  <2> DEFINE t2 == table[h] - cur - m.l + 2
             off == s + 2 - t2
  <2>1. /\ off > 0 /\ off < MaxOff /\ t2 >= 0
        /\ \E j \in (m.l + 1)..(n - s - 2) : k = [s |-> s + 2, t |-> t2, claim |-> t2, l |-> j]
    BY <1>2 DEF longer
  <2>2. s \in Nat /\ n \in Nat /\ cur \in Nat /\ m.l \in Nat /\ m.l >= MinMatch
    BY DEF Running, Fits
  <2>3. t2 \in Int
    BY <2>2
  <2>4. PICK j \in (m.l + 1)..(n - s - 2) : k = [s |-> s + 2, t |-> t2, claim |-> t2, l |-> j]
    BY <2>1
  <2>5. k.s = s + 2 /\ k.t = t2 /\ k.claim = t2 /\ k.l = j
    BY <2>4
  <2>6. j \in Nat /\ j >= m.l + 1 /\ j <= n - s - 2
    BY <2>2
  <2>7. off > 0 /\ off < MaxOff /\ t2 >= 0 /\ off = s + 2 - t2
    BY <2>1
  <2> HIDE DEF t2, off
  <2>8. s + 2 + MinMatch <= n /\ j >= MinMatch
    BY <2>2, <2>6, Sizes
  <2>9. t2 < s + 2 /\ s + 2 - t2 <= MaxOff
    BY <2>2, <2>3, <2>7, Sizes
  <2>10. QED
    BY <2>2, <2>3, <2>5, <2>6, <2>7, <2>8, <2>9 DEF Fits
<1>3. QED
  BY <1>1, <1>2

\* best: levels 5 and 6 look for a longer match.
LEMMA BestHolds ==
  ASSUME IndInvLevels, NEW l \in MinMatch..(n - s), NEW b \in Long, best(l, b)
  PROVE  IndInvLevels'
<1> DEFINE m == [s |-> s, t |-> t, claim |-> claim, l |-> l]
           better == IF level = 5 THEN better5(m, b) ELSE better6(m, b)
<1>1. /\ pc = "best" /\ pc' = "match"
      /\ cur' = cur /\ n' = n /\ blk' = blk /\ table' = table /\ truth' = truth
      /\ nextS' = nextS /\ nextEmit' = nextEmit /\ emitted' = emitted
      /\ level' = level /\ repeat' = repeat
      /\ IndInv /\ Own /\ AtMatch
  BY DEF best, IndInvLevels, AtMatch
<1>2. Running
  BY <1>1, IsRunning
<1>3. /\ s \in Nat /\ nextS \in Nat /\ n \in Nat /\ blk \in Nat /\ nextEmit \in Nat
      /\ emitted \in Nat /\ t \in Int /\ claim \in Int /\ blk <= nextEmit /\ nextEmit <= s
      /\ emitted = nextEmit - blk
  BY <1>2 DEF Running
<1>4. t >= 0 /\ t < s /\ s - t <= MaxOff /\ t = claim /\ s + MinMatch <= n
  BY <1>1 DEF IndInv, Found
<1>5. Cur(b) \in Hash /\ Prev(b) \in Hash
  BY Slots
<1>6. table[Cur(b)] \in Int /\ table[Prev(b)] \in Int
  BY <1>5 DEF IndInvLevels, IndInv, Types
<1>7. Fits(m)
  <2>1. m.s = s /\ m.t = t /\ m.claim = claim /\ m.l = l
    OBVIOUS
  <2>2. l \in Nat /\ l >= MinMatch
    BY <1>3, Sizes
  <2> HIDE DEF m
  <2>3. QED
    BY <1>3, <1>4, <2>1, <2>2, Sizes DEF Fits
<1> HIDE DEF m
<1>8. ASSUME NEW k \in better PROVE Fits(k)
  <2>1. \A j \in longer(m, Cur(b), s) : Fits(j)
    BY <1>2, <1>5, <1>6, <1>7, LongerFits
  <2>2. \A j \in longer(m, Cur(b), s) : \A i \in longer(j, Prev(b), s) : Fits(i)
    BY <1>2, <1>5, <1>6, <2>1, LongerFits
  <2>3. \/ k = m \/ k \in longer(m, Cur(b), s)
        \/ \E j \in longer(m, Cur(b), s) : k \in longer(j, Prev(b), s)
    BY DEF better5, better6
  <2>4. QED
    BY <1>7, <2>1, <2>2, <2>3
<1>9. \E k \in better : s' = k.s /\ t' = k.t /\ claim' = k.claim
  BY DEF best, m
<1> HIDE DEF better
<1>10. /\ s' \in Nat /\ t' \in Int /\ claim' \in Int /\ s' >= s
       /\ t' >= 0 /\ t' < s' /\ s' - t' <= MaxOff /\ t' = claim' /\ s' + MinMatch <= n
  <2>1. PICK k \in better : s' = k.s /\ t' = k.t /\ claim' = k.claim
    BY <1>9
  <2>2. Fits(k)
    BY <1>8
  <2>3. QED
    BY <2>1, <2>2 DEF Fits
<1>11. nextS < n
  BY <1>1 DEF IndInv, Order
<1>12. PICK limit \in Nat : s <= limit /\ nextS <= limit /\ (limit <= s' \/ limit <= nextS')
  <2>1. CASE s <= nextS
    BY <1>1, <1>3, <2>1
  <2>2. CASE nextS <= s
    BY <1>1, <1>3, <1>10, <2>2
  <2>3. QED
    BY <1>3, <2>1, <2>2
<1>13. Good(now, limit)
  BY <1>1, <1>12, GoodAtMatch
<1>14. become(now) /\ UNCHANGED <<cur, n, blk>> /\ pc # "idle" /\ limit \in Int
  BY <1>1 DEF become, now
<1>15. /\ nextS' \in Nat /\ nextEmit' \in Nat /\ emitted' \in Nat
       /\ blk <= nextEmit' /\ nextEmit' <= s' /\ emitted' = nextEmit' - blk /\ nextS' < n
       /\ pc' \in {"best", "match"}
  BY <1>1, <1>3, <1>10, <1>11
<1>16. IndInv'
  BY <1>1, <1>10, <1>12, <1>13, <1>14, <1>15, InvAfter
<1>17. Own'
  <2>1. \A at \in Nat, k \in Nat : at >= s /\ k <= s + 1 => k <= at + 1
    BY <1>3
  <2>2. repeat \in Nat /\ (level = 6 => repeat <= MaxOff /\ repeat <= s + 1)
    BY <1>1 DEF Own
  <2>3. level' = 6 => repeat' <= MaxOff /\ repeat' <= s' + 1
    BY <1>1, <1>10, <2>1, <2>2
  <2>4. QED
    BY <1>1, <2>3 DEF Own
<1>18. QED
  BY <1>16, <1>17 DEF IndInvLevels

\* The positions P are in the history up to m.
Within(P, m) == P.short \subseteq 0..m /\ P.long \subseteq 0..m

LEMMA EveryIn ==
  ASSUME NEW k, NEW from \in Int, NEW below \in Int, NEW i \in every(k, from, below)
  PROVE  i \in Int /\ from <= i /\ i <= below - 1
BY DEF every

\* What is indexed before the search goes on at at.
LEMMA BetweenWithin ==
  ASSUME NEW at \in Nat, NEW L \in Nat, L >= 4, L <= at, nextS \in Nat, nextS < at
  PROVE  /\ Within(between2(at, L), at - 1) /\ Within(between3(at, L), at - 1)
         /\ Within(between4(at), at - 1)
         /\ Within(between5(at, L), at - 1) /\ Within(between6(at), at - 1)
<1>1. /\ at - L + 2 \in Int /\ at - 5 \in Int /\ at - 1 \in Int /\ nextS + 1 \in Int
      /\ at - L + 1 + 4 \in Int /\ at - L + 1 \in Int
  OBVIOUS
<1>2. at - 1 \in 0..(at - 1) /\ at - 2 \in 0..(at - 1)
  OBVIOUS
<1>3. Within(between2(at, L), at - 1)
  <2>1. ASSUME NEW i \in every(7, at - L + 2, at - 5)
        PROVE  i \in 0..(at - 1) /\ i + 2 \in 0..(at - 1) /\ i + 4 \in 0..(at - 1)
    <3>1. i \in Int /\ at - L + 2 <= i /\ i <= (at - 5) - 1
      BY <1>1, EveryIn
    <3>2. QED
      BY <3>1
  <2>2. between2(at, L).short = ({at - 2, at - 1}
               \cup UNION {{i, i + 2, i + 4} : i \in every(7, at - L + 2, at - 5)})
        /\ between2(at, L).long = {}
    BY DEF between2
  <2>3. QED
    BY <1>2, <2>1, <2>2 DEF Within
<1>4. Within(between3(at, L), at - 1)
  <2>1. ASSUME NEW i \in every(6, at - L + 2, at - 5)
        PROVE  i \in 0..(at - 1)
    <3>1. i \in Int /\ at - L + 2 <= i /\ i <= (at - 5) - 1
      BY <1>1, EveryIn
    <3>2. QED
      BY <3>1
  <2>2. between3(at, L).long = (every(6, at - L + 2, at - 5) \cup {at - 2, at - 1})
        /\ between3(at, L).short = {}
    BY DEF between3
  <2>3. QED
    BY <1>2, <2>1, <2>2 DEF Within
<1>5. Within(between4(at), at - 1)
  <2>1. ASSUME NEW i \in every(3, nextS, at - 1)
        PROVE  i \in 0..(at - 1) /\ i + 1 \in 0..(at - 1)
    <3>1. i \in Int /\ nextS <= i /\ i <= (at - 1) - 1
      BY <1>1, EveryIn
    <3>2. QED
      BY <3>1
  <2>2. /\ between4(at).short = ({i + 1 : i \in every(3, nextS, at - 1)} \cup {at - 1})
        /\ between4(at).long = ({at - 1} \cup UNION {{i, i + 1} : i \in every(3, nextS, at - 1)})
    BY DEF between4
  <2>3. QED
    BY <1>2, <2>1, <2>2 DEF Within
<1>6. Within(between5(at, L), at - 1)
  <2> DEFINE first == at - L + 1
  <2>1. ASSUME NEW i \in every(3, first + 4, at - 1)
        PROVE  i \in 0..(at - 1) /\ i + 1 \in 0..(at - 1)
    <3>1. i \in Int /\ first + 4 <= i /\ i <= (at - 1) - 1
      BY <1>1, EveryIn
    <3>2. QED
      BY <3>1
  <2>2. first \in 0..(at - 1) /\ first + 1 \in 0..(at - 1) /\ first + 2 \in 0..(at - 1)
    OBVIOUS
  <2>3. /\ between5(at, L).short = ({first, first + 2, at - 1}
                                      \cup {i + 1 : i \in every(3, first + 4, at - 1)})
        /\ between5(at, L).long = ({first, first + 1, at - 1}
                                     \cup every(3, first + 4, at - 1))
    BY DEF between5
  <2> HIDE DEF first
  <2>4. QED
    BY <1>2, <2>1, <2>2, <2>3 DEF Within
<1>7. Within(between6(at), at - 1)
  <2>1. ASSUME NEW i \in every(2, nextS + 1, at - 1)
        PROVE  i \in 0..(at - 1) /\ i + 1 \in 0..(at - 1)
    <3>1. i \in Int /\ nextS + 1 <= i /\ i <= (at - 1) - 1
      BY <1>1, EveryIn
    <3>2. QED
      BY <3>1
  <2>2. /\ between6(at).short = every(2, nextS + 1, at - 1)
        /\ between6(at).long = UNION {{i, i + 1} : i \in every(2, nextS + 1, at - 1)}
    BY DEF between6
  <2>3. QED
    BY <2>1, <2>2 DEF Within
<1>8. QED
  BY <1>3, <1>4, <1>5, <1>6, <1>7

\* What is indexed after the last match of a block.
LEMMA TailWithin ==
  ASSUME Running, NEW at \in Nat, NEW L \in Nat, NEW end \in Nat, s <= end, t >= 0
  PROVE  /\ Within(tail2(at, L), n - 1) /\ Within(tail3(end), n - 1)
         /\ Within(tail4(at), n - 1) /\ Within(tail5, n - 1) /\ Within(tail6, n - 1)
<1>1. Load \in Nat /\ Load > 0
  BY LevelsAssumption, FastEncAssumption DEF Load
<1>2. n \in Nat /\ s \in Nat /\ t \in Nat /\ nextS \in Nat
  BY DEF Running
<1>3. Within(tail2(at, L), n - 1)
  <2>1. at + L + Load < n => at \in 0..(n - 1)
    BY <1>1, <1>2
  <2>2. QED
    BY <2>1 DEF Within, tail2, only
<1>4. Within(tail3(end), n - 1)
  <2> DEFINE p == t + (end - s)
  <2>1. p + Load < n /\ p > 0 => p \in 0..(n - 1)
    BY <1>1, <1>2
  <2>2. tail3(end).short = {} /\ tail3(end).long = only(p, p + Load < n /\ p > 0)
    BY DEF tail3
  <2> HIDE DEF p
  <2>3. QED
    BY <2>1, <2>2 DEF Within, only
<1>5. Within(tail4(at), n - 1)
  <2>1. at + Load < n => at \in 0..(n - 1)
    BY <1>1, <1>2
  <2>2. QED
    BY <2>1 DEF Within, tail4, only
<1>6. Within(tail5, n - 1)
  BY DEF Within, tail5
<1>7. Within(tail6, n - 1)
  <2>1. ASSUME NEW i \in every(2, nextS + 1, n - Load)
        PROVE  i \in 0..(n - 1)
    <3>1. nextS + 1 \in Int /\ n - Load \in Int
      BY <1>1, <1>2
    <3>2. i \in Int /\ nextS + 1 <= i /\ i <= (n - Load) - 1
      BY <3>1, EveryIn
    <3>3. QED
      BY <1>1, <1>2, <3>2
  <2>2. tail6.short = every(2, nextS + 1, n - Load) /\ tail6.long = every(2, nextS + 1, n - Load)
    BY DEF tail6
  <2>3. QED
    BY <2>1, <2>2 DEF Within
<1>8. QED
  BY <1>3, <1>4, <1>5, <1>6, <1>7

\* The tables after a match.
LEMMA GoodPlaces ==
  ASSUME Running, NEW m \in Nat, m < n, Good(now, m), NEW P, Within(P, m),
         NEW x \in reindexed(P)
  PROVE  Good(x, m)
<1>1. P.short \in SUBSET (0..m) /\ P.long \in SUBSET (0..m)
  BY DEF Within
<1>2. Short \in {Short, Long} /\ Long \in {Short, Long} /\ FALSE \in BOOLEAN
  OBVIOUS
<1>3. keepsPrev \in BOOLEAN /\ (FALSE => Short = Long) /\ (keepsPrev => Long = Long)
  BY DEF keepsPrev
<1>4. PICK f \in [P.short -> Short], g \in [P.long -> Long] :
        x = indexed(indexed(now, P.short, f, FALSE), P.long, g, keepsPrev)
  <2>1. PICK z \in {indexed(now, P.short, f, FALSE) : f \in [P.short -> Short]} :
          x \in {indexed(z, P.long, g, keepsPrev) : g \in [P.long -> Long]}
    BY DEF reindexed
  <2>2. PICK f \in [P.short -> Short] : z = indexed(now, P.short, f, FALSE)
    BY <2>1
  <2>3. PICK g \in [P.long -> Long] : x = indexed(z, P.long, g, keepsPrev)
    BY <2>1
  <2>4. QED
    BY <2>2, <2>3
<1> DEFINE y == indexed(now, P.short, f, FALSE)
<1>5. Good(y, m)
  BY <1>1, <1>2, <1>3, GoodIndexed
<1> HIDE DEF y
<1>6. Good(indexed(y, P.long, g, keepsPrev), m)
  BY <1>1, <1>2, <1>3, <1>5, GoodIndexed
<1>7. QED
  BY <1>4, <1>6 DEF y

\* Another match may begin where the last one ends, at levels 2 and 3.
LEMMA AgainFits ==
  ASSUME Running, NEW x, NEW at \in Nat, Good(x, at - 1), at > blk,
         NEW h \in Short \cup Long,
         NEW k, \/ k \in again2(x, h, at)
                \/ h \in Long /\ k \in again3(x, h, at)
  PROVE  Proper(k) /\ k.at = at
<1>1. at - 1 \in Int /\ at > at - 1 /\ at >= blk
  BY DEF Running
<1>2. Cur(h) \in Hash /\ (h \in Long => Prev(h) \in Hash)
  BY Slots
<1> DEFINE c == cand(x, Cur(h), at)
           p == cand(x, Prev(h), at)
<1>3. /\ c.at = at /\ c.t \in Int
      /\ c.at - c.t < MaxOff \/ (c.at - c.t <= MaxOff /\ at > blk) => Proper(c)
  BY <1>1, <1>2, GoodCandidate
<1>4. h \in Long =>
        /\ p.at = at /\ p.t \in Int
        /\ p.at - p.t < MaxOff \/ (p.at - p.t <= MaxOff /\ at > blk) => Proper(p)
  BY <1>1, <1>2, GoodCandidate
<1>5. again2(x, h, at) = only(c, ~(at - c.t > MaxOff))
  BY DEF again2
<1>6. again3(x, h, at) = (only(c, c.at - c.t < MaxOff - MinMatch)
        \cup only(p, c.at - c.t < MaxOff - MinMatch /\ p.at - p.t < MaxOff - MinMatch))
  BY DEF again3
<1> HIDE DEF c, p
<1>7. CASE k \in again2(x, h, at)
  <2>1. k = c /\ ~(at - c.t > MaxOff)
    BY <1>5, <1>7 DEF only
  <2>2. c.at - c.t <= MaxOff
    BY <1>3, <2>1, Sizes
  <2>3. QED
    BY <1>3, <2>1, <2>2
<1>8. CASE h \in Long /\ k \in again3(x, h, at)
  <2>1. \/ k = c /\ c.at - c.t < MaxOff - MinMatch
        \/ k = p /\ p.at - p.t < MaxOff - MinMatch
    BY <1>6, <1>8 DEF only
  <2>2. MaxOff \in Nat /\ MinMatch \in Nat
    BY Sizes
  <2>3. CASE k = c /\ c.at - c.t < MaxOff - MinMatch
    <3>1. c.at - c.t < MaxOff
      BY <1>3, <2>2, <2>3
    <3>2. QED
      BY <1>3, <2>3, <3>1
  <2>4. CASE k = p /\ p.at - p.t < MaxOff - MinMatch
    <3>1. p.at - p.t < MaxOff
      BY <1>4, <1>8, <2>2, <2>4
    <3>2. QED
      BY <1>4, <1>8, <2>4, <3>1
  <2>5. QED
    BY <2>1, <2>3, <2>4
<1>9. QED
  BY <1>7, <1>8

\* matchLevel: a match is emitted and the tables are updated.
LEMMA MatchLevelHolds ==
  ASSUME IndInvLevels, level > 1, NEW back \in Nat, NEW l \in MinMatch..(n - s),
         matchLevel(back, l)
  PROVE  IndInvLevels'
<1> DEFINE end == s + l
           at == resumeAt(end)
           L == back + l
           lits == IF nextEmit < s - back THEN s - back - nextEmit ELSE 0
           done == emitted + lits + AddMatchLong(L)
           over == at >= sLimit
           P == CASE level = 2 -> IF over THEN tail2(at, L) ELSE between2(at, L)
                  [] level = 3 -> IF over THEN tail3(end) ELSE between3(at, L)
                  [] level = 4 -> IF over THEN tail4(at) ELSE between4(at)
                  [] level = 5 -> IF over THEN tail5 ELSE between5(at, L)
                  [] level = 6 -> IF over THEN tail6 ELSE between6(at)
           m == IF over THEN n - 1 ELSE at - 1
<1>1. /\ pc = "match" /\ AtMatch /\ IndInv /\ Own
      /\ cur' = cur /\ n' = n /\ blk' = blk /\ nextS' = nextS /\ level' = level
      /\ nextEmit' = end
      /\ repeat' = IF level = 6 /\ pc' # "idle" THEN s - t ELSE 1
  BY DEF matchLevel, IndInvLevels, AtMatch
<1>2. Running
  BY <1>1, IsRunning
<1>3. /\ s \in Nat /\ nextS \in Nat /\ n \in Nat /\ blk \in Nat /\ nextEmit \in Nat
      /\ emitted \in Nat /\ t \in Int /\ claim \in Int /\ blk <= nextEmit /\ nextEmit <= s
      /\ emitted = nextEmit - blk /\ blk <= n
  BY <1>2 DEF Running
<1>4. t >= 0 /\ t < s /\ s - t <= MaxOff /\ t = claim /\ s + MinMatch <= n /\ nextS < n
  BY <1>1 DEF IndInv, Found, Order
<1>5. l \in Nat /\ l >= 4 /\ s + l <= n
  BY <1>3, Sizes, LevelsAssumption
<1>6. back <= s - nextEmit
  BY DEF matchLevel, backwards
<1>7. /\ end \in Nat /\ end <= n /\ end >= s + 4
      /\ at \in Nat /\ at <= n /\ at >= end /\ at > nextS
  BY <1>3, <1>4, <1>5 DEF resumeAt
<1>8. L \in Nat /\ L >= 4 /\ L <= end /\ L <= at
  BY <1>3, <1>5, <1>6, <1>7
<1>9. done = end - blk /\ done \in Nat /\ done > 0
  <2>1. AddMatchLong(L) = L
    BY <1>8, AllSaid
  <2>2. lits = s - back - nextEmit
    BY <1>3, <1>6
  <2>3. QED
    BY <1>3, <1>5, <1>6, <2>1, <2>2
<1>10. sLimit = n - InputMargin /\ InputMargin \in Nat /\ MinMatch \in Nat /\ MinMatch <= InputMargin
       /\ InputMargin > 3
  BY Sizes, LevelsAssumption DEF sLimit
<1> HIDE DEF end, at, L, lits, done
<1>11. ~over => at < n /\ at + MinMatch <= n /\ at + 1 \in Nat
  BY <1>3, <1>7, <1>10
<1>12. m \in Nat /\ m < n /\ s <= m /\ nextS <= m
  BY <1>3, <1>4, <1>5, <1>7, <1>11
<1>13. Good(now, m)
  BY <1>1, <1>12, GoodAtMatch
<1>14. Within(P, m)
  <2>1. over => /\ Within(tail2(at, L), m) /\ Within(tail3(end), m) /\ Within(tail4(at), m)
                /\ Within(tail5, m) /\ Within(tail6, m)
    <3>1. s <= end
      BY <1>3, <1>7
    <3>2. QED
      BY <1>2, <1>4, <1>7, <1>8, <3>1, TailWithin
  <2>2. ~over => /\ Within(between2(at, L), m) /\ Within(between3(at, L), m)
                 /\ Within(between4(at), m)
                 /\ Within(between5(at, L), m) /\ Within(between6(at), m)
    <3>1. nextS < at
      BY <1>3, <1>7
    <3>2. QED
      BY <1>3, <1>7, <1>8, <3>1, BetweenWithin
  <2>3. level \in {2, 3, 4, 5, 6}
    BY <1>1 DEF Own
  <2> HIDE DEF m, over
  <2>4. CASE over
    BY <2>1, <2>3, <2>4
  <2>5. CASE ~over
    BY <2>2, <2>3, <2>5
  <2>6. QED
    BY <2>4, <2>5
<1>15. \E x \in reindexed(P) :
         \/ /\ over
            /\ become(x)
            /\ s' = at
            /\ emitRemainder(done)
            /\ noMatch
         \/ /\ ~over
            /\ level > 3
            /\ become(x)
            /\ s' = at
            /\ pc' = "search"
            /\ emitted' = done
            /\ noMatch
         \/ /\ ~over
            /\ level \in {2, 3}
            /\ \E h \in IF level = 2 THEN Short ELSE Long : again(x, h, at)
            /\ emitted' = done
  BY ZenonT(60) DEF matchLevel, end, at, L, lits, done
<1> HIDE DEF P
<1>16. PICK x \in reindexed(P) :
         \/ /\ over
            /\ become(x)
            /\ s' = at
            /\ emitRemainder(done)
            /\ noMatch
         \/ /\ ~over
            /\ level > 3
            /\ become(x)
            /\ s' = at
            /\ pc' = "search"
            /\ emitted' = done
            /\ noMatch
         \/ /\ ~over
            /\ level \in {2, 3}
            /\ \E h \in IF level = 2 THEN Short ELSE Long : again(x, h, at)
            /\ emitted' = done
  BY <1>15, Zenon
<1> HIDE DEF m
<1>17. Good(x, m)
  BY <1>2, <1>12, <1>13, <1>14, GoodPlaces
<1>18. UNCHANGED <<cur, n, blk>> /\ pc # "idle" /\ nextS' \in Nat /\ nextEmit' \in Nat
       /\ blk <= nextEmit' /\ m \in Int
  BY <1>1, <1>3, <1>7, <1>12
<1>19. Own' <=> /\ pc' = "second" => level < 3
                /\ pc' = "best" => level > 4
                /\ repeat' \in Nat \ {0}
                /\ level = 6 /\ pc' # "idle" => repeat' <= MaxOff /\ repeat' <= s' + 1
  BY <1>1 DEF Own
<1>20. /\ repeat' \in Nat \ {0}
       /\ level = 6 /\ pc' # "idle" => repeat' <= MaxOff
       /\ level = 6 /\ pc' # "idle" => repeat' <= s
  <2>1. CASE level = 6 /\ pc' # "idle"
    <3>1. repeat' = s - t
      BY <1>1, <2>1
    <3>2. s - t \in Nat \ {0} /\ s - t <= s /\ s - t <= MaxOff
      BY <1>3, <1>4
    <3>3. QED
      BY <3>1, <3>2
  <2>2. CASE ~(level = 6 /\ pc' # "idle")
    BY <1>1, <2>2
  <2>3. QED
    BY <2>1, <2>2
<1>21. \A p \in Nat, k \in Nat : p >= at /\ k <= s => k <= p + 1
  BY <1>3, <1>7
<1>22. CASE /\ over
            /\ become(x)
            /\ s' = at
            /\ emitRemainder(done)
            /\ noMatch
  <2>1. pc' = "idle" /\ emitted' = done + (n - end)
    BY <1>1, <1>9, <1>22 DEF emitRemainder
  <2>2. emitted' \in {0, n - blk} /\ emitted' \in Nat
    BY <1>3, <1>7, <1>9, <2>1
  <2>3. s' \in Nat /\ t' \in Int /\ claim' \in Int
    BY <1>7, <1>22 DEF noMatch, Gone
  <2>4. IndInv'
    BY <1>1, <1>17, <1>18, <1>22, <2>1, <2>2, <2>3, InvAfter
  <2>5. Own'
    BY <1>19, <1>20, <2>1
  <2>6. QED
    BY <2>4, <2>5 DEF IndInvLevels
<1>23. CASE /\ ~over
            /\ level > 3
            /\ become(x)
            /\ s' = at
            /\ pc' = "search"
            /\ emitted' = done
            /\ noMatch
  <2>1. s' \in Nat /\ t' \in Int /\ claim' \in Int /\ emitted' \in Nat
    BY <1>7, <1>9, <1>23 DEF noMatch, Gone
  <2>2. m < s' /\ nextEmit' <= s' /\ emitted' = nextEmit' - blk
    BY <1>1, <1>3, <1>7, <1>9, <1>23 DEF m
  <2>3. pc' = "search"
    BY <1>23
  <2>4. IndInv'
    BY <1>1, <1>17, <1>18, <1>23, <2>1, <2>2, <2>3, InvAfter
  <2>5. Own'
    <3>1. s' >= at
      BY <1>7, <1>23
    <3>2. level = 6 /\ pc' # "idle" => repeat' <= s' + 1
      <4>1. repeat' \in Nat /\ s' \in Nat
        BY <1>20, <2>1
      <4>2. s' >= at /\ repeat' <= s => repeat' <= s' + 1
        BY <1>21, <4>1
      <4>3. QED
        BY <1>20, <3>1, <4>2
    <3>3. QED
      BY <1>19, <1>20, <2>3, <3>2
  <2>6. QED
    BY <2>4, <2>5 DEF IndInvLevels
<1>24. CASE /\ ~over
            /\ level \in {2, 3}
            /\ \E h \in IF level = 2 THEN Short ELSE Long : again(x, h, at)
            /\ emitted' = done
  <2>1. PICK h \in IF level = 2 THEN Short ELSE Long : again(x, h, at)
    BY <1>24
  <2>2. h \in Short \cup Long /\ (level # 2 => h \in Long) /\ keepsPrev \in BOOLEAN
        /\ (keepsPrev => h \in Long)
    BY <1>24, <2>1 DEF keepsPrev
  <2>3. m = at - 1 /\ at - 1 \in Int /\ at - 1 <= at /\ at <= at /\ at < n /\ at \in Int
    BY <1>7, <1>11, <1>24 DEF m
  <2> DEFINE y == entered(x, h, at, keepsPrev)
  <2>4. Good(x, at - 1)
    BY <1>17, <2>3
  <2>5. Good(y, at)
    BY <1>2, <1>7, <2>2, <2>3, <2>4, GoodEntered
  <2>6. become(y)
    BY <2>1 DEF again
  <2> HIDE DEF y
  <2>7. at > blk /\ nextEmit' <= at /\ emitted' = nextEmit' - blk /\ emitted' \in Nat
    BY <1>1, <1>3, <1>7, <1>9, <1>24
  <2>8. CASE pc' = "search" /\ s' = at + 1 /\ noMatch
    <3>1. s' \in Nat /\ t' \in Int /\ claim' \in Int
      BY <1>7, <2>8 DEF noMatch, Gone
    <3>2. at < s' /\ nextEmit' <= s'
      BY <1>1, <1>7, <2>7, <2>8
    <3>3. pc' = "search"
      BY <2>8
    <3>4. IndInv'
      BY <1>1, <1>18, <2>3, <2>5, <2>6, <2>7, <3>1, <3>2, <3>3, InvAfter
    <3>5. Own'
      BY <1>19, <1>20, <1>24, <2>8
    <3>6. QED
      BY <3>4, <3>5 DEF IndInvLevels
  <2>9. CASE /\ pc' = "match"
             /\ s' = at
             /\ \E k \in IF level = 2 THEN again2(x, h, at) ELSE again3(x, h, at) :
                  t' = k.t /\ claim' = k.claim
    <3>1. PICK k \in IF level = 2 THEN again2(x, h, at) ELSE again3(x, h, at) :
            t' = k.t /\ claim' = k.claim
      BY <2>9
    <3>2. k \in again2(x, h, at) \/ (h \in Long /\ k \in again3(x, h, at))
      BY <2>2, <3>1
    <3>3. Proper(k) /\ k.at = at
      BY <1>2, <1>7, <2>2, <2>4, <2>7, <3>2, AgainFits
    <3>4. /\ s' \in Nat /\ t' \in Int /\ claim' \in Int
          /\ t' >= 0 /\ t' < s' /\ s' - t' <= MaxOff /\ t' = claim'
      BY <1>7, <2>9, <3>1, <3>3 DEF Proper
    <3>5. at <= s' /\ nextEmit' <= s' /\ nextS' < n /\ s' + MinMatch <= n
      BY <1>1, <1>4, <1>7, <1>11, <1>24, <2>7, <2>9
    <3>6. pc' \in {"best", "match"}
      BY <2>9
    <3>7. IndInv'
      BY <1>1, <1>18, <2>3, <2>5, <2>6, <2>7, <3>4, <3>5, <3>6, InvAfter
    <3>8. Own'
      BY <1>19, <1>20, <1>24, <2>9
    <3>9. QED
      BY <3>7, <3>8 DEF IndInvLevels
  <2>10. QED
    BY <2>1, <2>8, <2>9 DEF again
<1>25. QED
  BY <1>16, <1>22, <1>23, <1>24

-----------------------------------------------------------------------------
\* What is left of the tables when cur is taken down.
LEMMA KeptTable ==
  ASSUME IndInv
  PROVE  /\ keptTable \in [Hash -> Int]
         /\ \A h \in Hash : keptTable[h] = 0 \/ keptTable[h] = shifted(table[h])
<1>1. /\ shiftedTable \in [Hash -> Int]
      /\ \A h \in Hash : shiftedTable[h] = shifted(table[h])
  BY ShiftedTable
<1>2. QED
  BY <1>1 DEF keptTable

\* Encode, at all levels.
LEMMA EncodesHold ==
  ASSUME IndInvLevels, NEW size \in Blocks,
         \/ level = 1 /\ Encode(size) /\ UNCHANGED own
         \/ Encode2(size) \/ Encode3(size) \/ Encode4(size) \/ Encode5(size) \/ Encode6(size)
  PROVE  IndInvLevels'
<1>1. IndInv /\ Own
  BY DEF IndInvLevels
<1>2. encode(size, shiftedTable) \/ encode(size, keptTable)
  BY DEF Encode, Encode2, Encode3, Encode4, Encode5, Encode6
<1>3. IndInv'
  <2>1. CASE encode(size, shiftedTable)
    BY <1>1, <2>1, ShiftedTable, EncodeHolds
  <2>2. CASE encode(size, keptTable)
    BY <1>1, <2>2, KeptTable, EncodeHolds
  <2>3. QED
    BY <1>2, <2>1, <2>2
<1>4. pc' \in {"idle", "search"}
  BY <1>2 DEF encode
<1>5. level' = level /\ ((repeat' = repeat /\ level # 6) \/ repeat' = 1)
  BY DEF Encode2, Encode3, Encode4, Encode5, Encode6, own
<1>6. s' \in Nat
  BY <1>3 DEF IndInv, Types
<1>7. 1 <= MaxOff /\ \A p \in Nat : 1 <= p + 1
  BY Sizes
<1>8. Own'
  BY <1>1, <1>4, <1>5, <1>6, <1>7 DEF Own
<1>9. QED
  BY <1>3, <1>8 DEF IndInvLevels

\* second2: the second half of the inner loop of level 2, which makes an entry for
\* s and for nothing else, whether a match is found or not.
LEMMA SecondTwoHolds ==
  ASSUME IndInv, NEW a \in Short, NEW same \in BOOLEAN, second2(a, same)
  PROVE  IndInv'
<1> USE Sizes
<1>1. /\ cur \in Nat /\ n \in Nat /\ n <= HistSize /\ blk \in Nat /\ s \in Nat
      /\ nextS = s /\ s <= n - InputMargin
      /\ nextEmit \in Nat /\ emitted \in Nat
      /\ cur >= MaxOff /\ cur + n <= MaxInt32
      /\ blk <= n /\ blk <= nextEmit /\ nextEmit <= s
      /\ emitted = nextEmit - blk
      /\ pc = "second"
      /\ table \in [Hash -> Int] /\ truth \in [Hash -> Int]
  BY DEF IndInv, Types, NoOverflow, Order, BlockTiled, second2, sLimit, AtMatch
<1>2. /\ cur' = cur /\ n' = n /\ blk' = blk /\ nextEmit' = nextEmit
      /\ emitted' = emitted /\ nextS' = s + 1
  BY <1>1 DEF second2
<1>3. s + 1 < n /\ s + MinMatch <= n
  BY <1>1
<1>4. PICK h \in Hash : h = Cur(a)
  BY Slots
<1>5. int32(s + cur) = s + cur
  BY <1>1, Int32Fits
<1>6. /\ table' = [table EXCEPT ![h] = s + cur] /\ truth' = [truth EXCEPT ![h] = s]
      /\ t' = table[h] - cur /\ claim' = truth[h]
      /\ \/ inReach(s, t') /\ same /\ pc' = "match" /\ s' = s
         \/ ~(inReach(s, t') /\ same) /\ pc' = "search" /\ s' = s + 1
  BY <1>2, <1>4, <1>5 DEF second2, become, short, entered, now, cand, near
<1>7. ASSUME NEW g \in Hash
      PROVE  /\ table[g] \in Int /\ truth[g] \in Int
             /\ Live(g) \/ Stale(g)
             /\ Live(g) => truth[g] >= 0 /\ truth[g] < n /\ truth[g] < s
                           /\ table[g] = cur + truth[g]
             /\ Stale(g) => table[g] >= 0 /\ table[g] < cur
                            /\ table[g] + MaxOff <= cur + blk
  <2>1. table[g] \in Int /\ truth[g] \in Int
    BY <1>1
  <2>2. Live(g) \/ Stale(g)
    BY <1>1 DEF IndInv, Entries, Cleared
  <2> QED
    BY <1>1, <2>1, <2>2 DEF Live, Stale, Lo, AtMatch
<1>8. inReach(s, t') => t' >= 0 /\ t' < s /\ s - t' <= MaxOff /\ t' = claim'
  BY <1>1, <1>6, <1>7 DEF inReach
<1>9. /\ table' \in [Hash -> Int] /\ truth' \in [Hash -> Int]
      /\ t' \in Int /\ claim' \in Int
  BY <1>1, <1>6, <1>7
<1>10. ASSUME NEW g \in Hash
       PROVE  /\ table'[g] >= 0 /\ table'[g] <= MaxInt32
              /\ Known(table', truth', g, s) \/ OutOfReach(table', g)
              /\ truth'[g] \in Int
  <2>1. /\ table'[g] = IF g = h THEN s + cur ELSE table[g]
        /\ truth'[g] = IF g = h THEN s ELSE truth[g]
    BY <1>1, <1>6
  <2> QED
    BY <1>1, <1>7, <2>1 DEF Known, OutOfReach
<1>11. NoOverflow'
  BY <1>1, <1>2, <1>10 DEF NoOverflow
<1>12. Types'
  BY <1>1, <1>2, <1>6, <1>9 DEF Types
<1>13. CASE inReach(s, t') /\ same
  <2>1. pc' = "match" /\ s' = s
    BY <1>6, <1>13
  <2>2. ASSUME NEW g \in Hash PROVE (Live(g) \/ Stale(g))'
    BY <1>1, <1>2, <1>3, <1>10, <2>1 DEF Live, Stale, Lo, Known, OutOfReach, AtMatch
  <2>3. Order' /\ BlockTiled'
    BY <1>1, <1>2, <1>3, <2>1 DEF Order, BlockTiled, AtMatch
  <2>4. Found'
    BY <1>2, <1>3, <1>8, <1>13, <2>1 DEF Found, AtMatch
  <2> QED
    BY <1>11, <1>12, <2>2, <2>3, <2>4 DEF IndInv, Entries
<1>14. CASE ~(inReach(s, t') /\ same)
  <2>1. pc' = "search" /\ s' = s + 1
    BY <1>6, <1>14
  <2>2. ASSUME NEW g \in Hash PROVE (Live(g) \/ Stale(g))'
    BY <1>1, <1>2, <1>10, <2>1 DEF Live, Stale, Lo, Known, OutOfReach, AtMatch
  <2>3. Order' /\ BlockTiled' /\ Found'
    BY <1>1, <1>2, <2>1 DEF Order, BlockTiled, Found, AtMatch
  <2> QED
    BY <1>11, <1>12, <2>2, <2>3 DEF IndInv, Entries
<1> QED
  BY <1>13, <1>14

\* Levels 1 and 2: their inner loops, which differ in the second half.
LEMMA FirstLevelsHold ==
  ASSUME IndInvLevels, level < 3, NEW h \in Hash, NEW h2 \in Hash, NEW a \in Short,
         NEW same \in BOOLEAN,
         search(h, h2, same) \/ second(h, same) \/ second2(a, same), UNCHANGED own
  PROVE  IndInvLevels'
<1>1. IndInv /\ Own
  BY DEF IndInvLevels
<1>2. IndInv'
  BY <1>1, SearchHolds, SecondHolds, SecondTwoHolds
<1>3. pc' # "best"
  BY DEF search, second, second2, emitRemainder
<1>4. level' = level /\ repeat' = repeat
  BY DEF own
<1>5. Own'
  BY <1>1, <1>3, <1>4 DEF Own
<1>6. QED
  BY <1>2, <1>5 DEF IndInvLevels

\* Level 1: its matches.
LEMMA MatchOneHolds ==
  ASSUME IndInvLevels, level = 1, NEW h \in Hash, NEW h2 \in Hash, NEW same \in BOOLEAN,
         NEW back \in backs, NEW l \in MinMatch..(n - s),
         match(back, l, h, h2, same), UNCHANGED own
  PROVE  IndInvLevels'
<1>1. IndInv /\ Own /\ pc = "match"
  BY DEF IndInvLevels, match
<1>2. Running
  BY <1>1, IsRunning
<1>3. back \in 0..HistSize /\ l \in MinMatch..HistSize
  <2>1. s \in Nat /\ n \in Nat /\ n <= HistSize /\ nextEmit \in Nat /\ t \in Int
    BY <1>2 DEF Running
  <2>2. s + MinMatch <= n
    BY <1>1 DEF IndInv, Found, AtMatch
  <2>3. back \in 0..t /\ back <= s - nextEmit
    BY DEF backs, backwards
  <2>4. QED
    BY <2>1, <2>2, <2>3, Sizes
<1>4. IndInv'
  BY <1>1, <1>3, MatchHolds
<1>5. pc' \in {"idle", "match", "search"}
  <2>1. CASE pc' = "idle"
    BY <2>1
  <2>2. CASE pc' # "idle"
    BY <2>2 DEF match, emitRemainder
  <2>3. QED
    BY <2>1, <2>2
<1>6. level' = level /\ repeat' = repeat
  BY DEF own
<1>7. Own'
  BY <1>1, <1>5, <1>6 DEF Own
<1>8. QED
  BY <1>4, <1>7 DEF IndInvLevels

\* Every step of every level keeps the invariant.
LEMMA LevelsStepHolds == IndInvLevels /\ [NextLevels]_allVars => IndInvLevels'
<1> SUFFICES ASSUME IndInvLevels, [NextLevels]_allVars PROVE IndInvLevels'
  OBVIOUS
<1>1. \A a \in Short \cup Long : Cur(a) \in Hash
  BY Slots
<1>2. IndInv /\ Own
  BY DEF IndInvLevels
<1>3. CASE UNCHANGED allVars
  <2>1. UNCHANGED vars /\ UNCHANGED own
    BY <1>3 DEF allVars
  <2>2. IndInv'
    BY <1>2, <2>1, StepHolds
  <2>3. Own'
    BY <1>2, <2>1 DEF Own, own, vars, enc
  <2>4. QED
    BY <2>2, <2>3 DEF IndInvLevels
<1>4. CASE Reset /\ UNCHANGED own
  <2>1. IndInv'
    BY <1>2, <1>4, ResetHolds
  <2>2. pc' = "idle" /\ level' = level /\ repeat' = repeat
    BY <1>4 DEF Reset, own
  <2>3. Own'
    BY <1>2, <2>2 DEF Own
  <2>4. QED
    BY <2>1, <2>3 DEF IndInvLevels
<1>5. CASE level = 1 /\ \E k \in Blocks : Encode(k) /\ UNCHANGED own
  BY <1>5, EncodesHold
<1>6. CASE \E k \in Blocks : Encode2(k) \/ Encode3(k) \/ Encode4(k) \/ Encode5(k) \/ Encode6(k)
  BY <1>6, EncodesHold
<1>7. CASE /\ level = 1
           /\ \E a, a2 \in Short, same \in BOOLEAN :
                \/ search(Cur(a), Cur(a2), same)
                \/ second(Cur(a), same)
                \/ pc = "match" /\ \E back \in backs, l \in MinMatch..(n - s) :
                                    match(back, l, Cur(a), Cur(a2), same)
           /\ UNCHANGED own
  <2>1. PICK a \in Short, a2 \in Short, same \in BOOLEAN :
          \/ search(Cur(a), Cur(a2), same)
          \/ second(Cur(a), same)
          \/ pc = "match" /\ \E back \in backs, l \in MinMatch..(n - s) :
                              match(back, l, Cur(a), Cur(a2), same)
    BY <1>7
  <2>2. Cur(a) \in Hash /\ Cur(a2) \in Hash /\ level < 3 /\ level = 1
    BY <1>1, <1>7
  <2>3. CASE search(Cur(a), Cur(a2), same) \/ second(Cur(a), same)
    BY <1>7, <2>2, <2>3, FirstLevelsHold
  <2>4. CASE \E back \in backs, l \in MinMatch..(n - s) : match(back, l, Cur(a), Cur(a2), same)
    BY <1>7, <2>2, <2>4, MatchOneHolds
  <2>5. QED
    BY <2>1, <2>3, <2>4
<1>8. CASE \E a, a2 \in Short, same \in BOOLEAN : seek2(a, a2, same)
  <2>1. PICK a \in Short, a2 \in Short, same \in BOOLEAN : seek2(a, a2, same)
    BY <1>8
  <2>2. /\ search(Cur(a), Cur(a2), same) \/ second2(a, same)
        /\ UNCHANGED own /\ level < 3
    BY <2>1 DEF seek2
  <2>3. Cur(a) \in Hash /\ Cur(a2) \in Hash
    BY <1>1
  <2>4. QED
    BY <2>2, <2>3, FirstLevelsHold
<1>9. CASE level > 2 /\ \E a, a2 \in Short, b, b2 \in Long : seek(a, b, a2, b2)
  BY <1>9, SeekHolds
<1>10. CASE pc = "best" /\ \E l \in MinMatch..(n - s), b \in Long : best(l, b)
  BY <1>10, BestHolds
<1>11. CASE /\ level > 1
            /\ pc = "match"
            /\ \E back \in backs, l \in MinMatch..(n - s) : matchLevel(back, l)
  <2>1. PICK back \in backs, l \in MinMatch..(n - s) : matchLevel(back, l)
    BY <1>11
  <2>2. back \in Nat
    <3>1. t \in Int
      BY <1>2 DEF IndInv, Types
    <3>2. QED
      BY <3>1 DEF backs, backwards
  <2>3. QED
    BY <1>11, <2>1, <2>2, MatchLevelHolds
<1>12. QED
  BY <1>3, <1>4, <1>5, <1>6, <1>7, <1>8, <1>9, <1>10, <1>11 DEF NextLevels

\* Every reachable state of every level satisfies the invariant.
THEOREM LevelsInvariance == SpecLevels => []IndInvLevels
<1>1. InitLevels => IndInvLevels
  <2> SUFFICES ASSUME InitLevels PROVE IndInvLevels
    OBVIOUS
  <2>1. IndInv
    BY InitHolds DEF InitLevels
  <2>2. level \in 1..6 /\ repeat = 1 /\ pc = "idle"
    BY LevelsAssumption DEF InitLevels, Init
  <2>3. QED
    BY <2>1, <2>2 DEF IndInvLevels, Own
<1>2. QED
  BY <1>1, LevelsStepHolds, PTL DEF SpecLevels

\* At every level, a match that Encode uses lies in the history of this stream,
\* before the bytes it is for and within maxMatchOffset, and is what its entry
\* was made for, also when it was found at the end of another match or by the
\* offset before it (flate/level2.go to level6.go).
THEOREM LevelsMatchInHistory == SpecLevels => []MatchInHistory
<1>1. IndInvLevels => MatchInHistory
  BY DEF IndInvLevels, IndInv, Found, AtMatch, MatchInHistory
<1>2. QED
  BY <1>1, LevelsInvariance, PTL

\* At every level, no position or entry overflows an int32, in either table and
\* in both entries of a hash, however long the encoder is used.
THEOREM LevelsPositionsFit == SpecLevels => []NoOverflow
<1>1. IndInvLevels => NoOverflow
  BY DEF IndInvLevels, IndInv
<1>2. QED
  BY <1>1, LevelsInvariance, PTL

\* At every level, Encode's tokens stand for the whole block, each byte once, or
\* there is none: also the pieces of a long match (AddMatchLong, token.go).
THEOREM LevelsTileBlocks == SpecLevels => []BlockTiled
<1>1. IndInvLevels => BlockTiled
  BY DEF IndInvLevels, IndInv
<1>2. QED
  BY <1>1, LevelsInvariance, PTL
==============================================================================
