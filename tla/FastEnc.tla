------------------------------- MODULE FastEnc -------------------------------
(***************************************************************************)
(* The match finder of levels 1 to 6: fastGen (flate/fast_encoder.go) and  *)
(* the Encode of level 1 (flate/level1.go).                                *)
(*                                                                         *)
(* The table gives, for a hash, the position it was last seen at, plus     *)
(* cur.  Nothing is ever removed from it: cur is moved on so that what is  *)
(* left over from another stream, or from a part of the history that was   *)
(* dropped, is too far away to be used.  cur is an int32, and is taken     *)
(* down again before it overflows.                                         *)
(*                                                                         *)
(* The data is left out: the hash of the bytes at a position, and whether  *)
(* two positions hold the same bytes and how many, are choices.            *)
(***************************************************************************)
EXTENDS Integers, FiniteSets

CONSTANTS
  Hash,         \* the indices of the table
  MaxOff,       \* maxMatchOffset
  MaxStore,     \* maxStoreBlockSize
  AllocHistory, \* allocHistory
  HistSize,     \* cap(e.hist): allocHistory, or histSize for small blocks
  InputMargin,  \* inputMargin
  MinMatch,     \* 4: the bytes that are compared before a match is extended
  Skip,         \* 1 << skipLog
  MaxInt32,     \* the largest int32
  Blocks        \* the lengths of the blocks Encode is called with

ASSUME FastEncAssumption ==
  /\ MaxOff \in Nat /\ MaxOff > 0
  /\ MaxStore \in Nat /\ MaxStore >= MaxOff
  /\ AllocHistory \in Nat
  /\ HistSize \in Nat /\ HistSize >= 2 * MaxOff /\ HistSize <= AllocHistory
  /\ InputMargin \in Nat
  /\ MinMatch \in Nat /\ MinMatch > 1 /\ MinMatch <= InputMargin
  /\ Skip \in Nat /\ Skip > 0
  /\ MaxInt32 \in Nat
  /\ MaxInt32 > AllocHistory + 2 * MaxStore
  /\ Blocks \subseteq {k \in Nat : k > 0 /\ k <= MaxStore /\ k <= HistSize - MaxOff}

VARIABLES
  cur,      \* e.cur
  n,        \* len(e.hist)
  table,    \* e.table
  pc,       \* where Encode is: "idle" (not running), "search", "second", "match"
  blk,      \* where the block begins in the history
  s, nextS, nextEmit, t, \* the variables of Encode
  truth,    \* history: where in e.hist the position an entry was made for is, or Gone
  claim,    \* history: truth of the candidate that was accepted
  emitted   \* history: how many bytes of the block have tokens

enc == <<s, nextS, nextEmit, t, claim, emitted>>
vars == <<cur, n, table, pc, blk, enc, truth>>

Gone == -1

\* The sum of two int32 as an int32.
int32(x) == IF x > MaxInt32 THEN x - 2 * (MaxInt32 + 1) ELSE x

bufferReset == MaxInt32 - AllocHistory - MaxStore
minNonLiteralBlockSize == 1 + 1 + InputMargin
sLimit == n - InputMargin

-----------------------------------------------------------------------------
\* Reset: the position is moved on so that everything is out of reach, unless
\* the table will be cleared for being too far on.
Reset ==
  /\ pc = "idle"
  /\ cur' = IF cur <= bufferReset THEN int32(cur + (MaxOff + n)) ELSE cur
  /\ n' = 0
  /\ truth' = [h \in Hash |-> Gone]
  /\ emitted' = 0
  /\ UNCHANGED <<table, pc, blk, s, nextS, nextEmit, t, claim>>

\* Mutated form of shifted: what lies behind the history is shifted as well.
shiftedAll(v) == int32(v - cur + MaxOff)

\* The table of Encode's protection against wraparound: shift down everything
\* that is not already too far away.
shifted(v) ==
  IF n = 0 \/ v <= int32(cur + n) - MaxOff THEN 0 ELSE v - cur + MaxOff

\* addBlock: how far the history is moved down to have room for len bytes.
movedDown(len) == IF n + len > HistSize THEN n - MaxOff ELSE 0

\* addBlock: cur, and where the block begins.
addedBlock(c, len) == [cur |-> int32(c + movedDown(len)), s |-> n - movedDown(len)]

\* Encode up to its main loop: protect against wraparound of cur (kept is then
\* left of the table), add the block to the history, leave a short one alone.
encode(len, kept) ==
  /\ pc = "idle"
  /\ LET wraps == cur >= bufferReset
         down == movedDown(len)
         added == addedBlock(IF wraps THEN MaxOff ELSE cur, len)
     IN /\ table' = IF wraps THEN kept ELSE table
        /\ truth' = [h \in Hash |-> IF truth[h] < down THEN Gone ELSE truth[h] - down]
        /\ cur' = added.cur
        /\ n' = added.s + len
        /\ blk' = added.s
        /\ s' = added.s /\ nextS' = added.s /\ nextEmit' = added.s
  /\ pc' = IF len < minNonLiteralBlockSize THEN "idle" ELSE "search"
  /\ t' = 0
  /\ claim' = Gone
  /\ emitted' = 0

shiftedTable == [h \in Hash |-> shifted(table[h])]

Encode(len) == encode(len, shiftedTable)

\* The entry of h is set to position p.
index(h, p) ==
  /\ table' = [table EXCEPT ![h] = int32(p + cur)]
  /\ truth' = [truth EXCEPT ![h] = p]

\* emitRemainder: literals up to the end, unless there is no token at all.
emitRemainder(done) ==
  /\ pc' = "idle"
  /\ emitted' = IF done = 0 THEN 0 ELSE done + (n - nextEmit')

\* Is a candidate near enough, in the search.
inReach(at, tt) == at - tt < MaxOff

\* The candidate at table entry h is looked at from position at; same says
\* whether its bytes are the wanted ones.  h2 is the hash at next.
candidate(h, at, next, h2, same) ==
  /\ t' = table[h] - cur
  /\ claim' = truth[h]
  /\ LET found == inReach(at, t') /\ same
         one == [table EXCEPT ![h] = int32(at + cur)]
         two == [truth EXCEPT ![h] = at]
     IN /\ table' = IF found THEN [one EXCEPT ![h2] = int32(next + cur)] ELSE one
        /\ truth' = IF found THEN [two EXCEPT ![h2] = next] ELSE two

\* The inner loop, first half.
search(h, h2, same) ==
  /\ pc = "search"
  /\ nextS' = s + 2 + (s - nextEmit) \div Skip
  /\ UNCHANGED <<cur, n, blk, nextEmit>>
  /\ IF nextS' > sLimit
     THEN /\ emitRemainder(emitted)
          /\ UNCHANGED <<table, truth, s, t, claim>>
     ELSE /\ candidate(h, s, nextS', h2, same)
          /\ IF inReach(s, t') /\ same
             THEN pc' = "match" /\ s' = s
             ELSE pc' = "second" /\ s' = nextS'
          /\ UNCHANGED emitted

\* "Do one right away": the second half, one byte on.
second(h, same) ==
  /\ pc = "second"
  /\ nextS' = nextS + 1
  /\ candidate(h, s, nextS', h, same)
  /\ IF inReach(s, t') /\ same
     THEN pc' = "match" /\ s' = s
     ELSE pc' = "search" /\ s' = nextS'
  /\ UNCHANGED <<cur, n, blk, nextEmit, emitted>>

\* How far a match can be extended backwards.
backwards == {k \in 0..t : k <= s - nextEmit}

\* Where the search goes on after a match that ends at end.
resumeAt(end) == IF nextS >= end THEN nextS + 1 ELSE end

\* A match at s: extended by back and to l bytes, emitted with the literals
\* before it, and the table updated at s-2 (hash h) and s (hash h2), where
\* another match may begin at once.
match(back, l, h, h2, same) ==
  /\ pc = "match"
  /\ back \in backwards
  /\ l >= MinMatch /\ s + l <= n
  /\ LET end == s + l
         at == resumeAt(end)
         lits == IF nextEmit < s - back THEN s - back - nextEmit ELSE 0
         done == emitted + lits + (back + l)
         table1 == [table EXCEPT ![h] = int32(cur + (at - 2))]
         truth1 == [truth EXCEPT ![h] = at - 2]
         tt == table1[h2] - cur
         again == ~(at - tt > MaxOff) /\ same
     IN /\ nextEmit' = end
        /\ IF at >= sLimit
           THEN /\ IF at + (back + l) + 8 < n THEN index(h, at) ELSE UNCHANGED <<table, truth>>
                /\ s' = at
                /\ emitRemainder(done)
                /\ UNCHANGED <<t, claim>>
           ELSE /\ table' = [table1 EXCEPT ![h2] = int32(cur + at)]
                /\ truth' = [truth1 EXCEPT ![h2] = at]
                /\ t' = tt
                /\ claim' = truth1[h2]
                /\ s' = IF again THEN at ELSE at + 1
                /\ pc' = IF again THEN "match" ELSE "search"
                /\ emitted' = done
  /\ UNCHANGED <<cur, n, blk, nextS>>

Init ==
  /\ cur = MaxStore
  /\ n = 0
  /\ table = [h \in Hash |-> 0]
  /\ truth = [h \in Hash |-> Gone]
  /\ pc = "idle"
  /\ blk = 0 /\ s = 0 /\ nextS = 0 /\ nextEmit = 0 /\ t = 0
  /\ claim = Gone
  /\ emitted = 0

Next ==
  \/ Reset
  \/ \E len \in Blocks : Encode(len)
  \/ \E h, h2 \in Hash, same \in BOOLEAN : search(h, h2, same)
  \/ \E h \in Hash, same \in BOOLEAN : second(h, same)
  \/ \E back \in 0..HistSize, l \in MinMatch..HistSize, h, h2 \in Hash, same \in BOOLEAN :
       match(back, l, h, h2, same)

Spec == Init /\ [][Next]_vars

-----------------------------------------------------------------------------
(* Properties.                                                             *)

\* The variables have their types; the history does not outgrow its buffer.
TypeOK ==
  /\ cur \in Int
  /\ n \in Nat /\ n <= HistSize
  /\ table \in [Hash -> Int]
  /\ truth \in [Hash -> Int]
  /\ pc \in {"idle", "search", "second", "match"}
  /\ blk \in Nat /\ s \in Nat /\ nextS \in Nat /\ nextEmit \in Nat
  /\ t \in Int /\ claim \in Int /\ emitted \in Nat

\* A match that is used refers to bytes in the history, before the ones it is
\* for and no more than maxMatchOffset back, and they are the bytes the entry
\* was made for: not of an earlier stream, not of history that was dropped,
\* however often cur was moved on, taken down or its table shifted.
MatchInHistory ==
  pc = "match" =>
    /\ t >= 0 /\ t < s /\ s - t <= MaxOff
    /\ t = claim
    /\ s + MinMatch <= n

\* No position overflows: cur plus any position in the history is an int32,
\* so are the entries, and none is negative (the condition "e.cur < 0" of
\* level1.go line 24 is never met).
NoOverflow ==
  /\ cur >= MaxOff /\ cur + n <= MaxInt32
  /\ \A h \in Hash : table[h] >= 0 /\ table[h] <= MaxInt32

\* Encode either emits no token or tokens for all bytes of the block, each
\* once, with matches extended backwards and the search skipping ahead.
BlockTiled ==
  /\ pc # "idle" => emitted = nextEmit - blk /\ nextEmit <= s
  /\ pc = "idle" => emitted \in {0, n - blk}
==============================================================================
